-------------------------- MODULE EpollServerProofs --------------------------
(* For any number of connections, descriptors, workers and kinds of         *)
(* response: no response is forgotten between the workers and the event     *)
(* loop; every connection has its socket and every socket its connection;   *)
(* while peers leave only once answered and no connection lives to its      *)
(* timeout, each client receives the answers to its requests in order and   *)
(* every file opened is closed; and without these conditions an answer goes *)
(* astray only after a connection that ended with a request begun, and a    *)
(* file is lost only so or with a connection whose peer has closed.         *)
EXTENDS EpollServer, TLAPS, SequenceTheorems, FiniteSetTheorems, WellFoundedInduction

(* What the handshake needs of the types.                                   *)
WakeTypeOK == wakeup \in Nat /\ DOMAIN worker = Workers

IInv == WakeTypeOK /\ NoLostWakeup

LEMMA InitIInv == Init => IInv
  BY DEF Init, IInv, WakeTypeOK, NoLostWakeup

(* A step that leaves the queue, the eventfd and the workers alone keeps    *)
(* the invariant when the loop was not between the drain and the swap.      *)
LEMMA Aside == ASSUME IInv, UNCHANGED <<wakeup, worker, pending>>, loop.pc # "drained"
               PROVE  IInv'
  BY DEF IInv, WakeTypeOK, NoLostWakeup

(* So does one that leaves the loop alone as well.                          *)
LEMMA Apart == ASSUME IInv, UNCHANGED <<wakeup, worker, pending, loop>>
               PROVE  IInv'
  BY DEF IInv, WakeTypeOK, NoLostWakeup

LEMMA LoopStep == ASSUME IInv, Loop PROVE IInv'
<1> USE DEF poolVars, LoopAt
<1>1. CASE EpollWait
  BY <1>1, Aside DEF EpollWait
<1>2. CASE BeginAccept
  BY <1>2, Aside DEF BeginAccept, Handle
<1>3. ASSUME NEW c \in Clients, Accept(c) PROVE IInv'
  BY <1>3, Aside DEF Accept, loopVars
<1>4. CASE EndAccept
  BY <1>4, Aside DEF EndAccept
<1>5. CASE CleanupTimeouts
  BY <1>5, Aside DEF CleanupTimeouts, Handle
<1>6. CASE DrainWakeup
  BY <1>6 DEF DrainWakeup, IInv, WakeTypeOK, NoLostWakeup
<1>7. CASE TakePending
  BY <1>7 DEF TakePending, IInv, WakeTypeOK, NoLostWakeup
<1>8. CASE DeliverNext
  BY <1>8, Aside DEF DeliverNext
<1>9. CASE EndDeliver
  BY <1>9, Aside DEF EndDeliver
<1>10. CASE CheckRequest
  BY <1>10, Aside DEF CheckRequest
<1>11. ASSUME NEW f \in Fds, NEW ev \in SocketEvents,
              HandleError(f, ev) \/ HandleRead(f, ev) \/ HandleWrite(f, ev)
       PROVE  IInv'
  BY <1>11, Aside DEF HandleError, HandleRead, HandleWrite, Handle
<1>12. QED
  BY <1>1, <1>2, <1>3, <1>4, <1>5, <1>6, <1>7, <1>8, <1>9, <1>10, <1>11 DEF Loop

LEMMA WorkStep == ASSUME IInv, NEW w \in Workers, Work(w) PROVE IInv'
<1> USE DEF IInv, WakeTypeOK, NoLostWakeup, loopVars
<1>1. ASSUME NEW f \in Fds, TakeJob(w, f) PROVE IInv'
  <2>1. \A x \in Workers : worker[x].pc = "signal" => worker'[x].pc = "signal"
    BY <1>1 DEF TakeJob
  <2>2. QED
    BY <1>1, <2>1 DEF TakeJob
<1>2. CASE Respond(w)
  <2>1. worker'[w].pc = "signal" /\ DOMAIN worker' = Workers
    BY <1>2 DEF Respond, Idle
  <2>2. QED
    BY <1>2, <2>1 DEF Respond
<1>3. CASE Signal(w)
  <2>1. wakeup' \in Nat /\ wakeup' > 0
    BY <1>3 DEF Signal
  <2>2. QED
    BY <1>3, <2>1 DEF Signal
<1>4. CASE Throw(w)
  <2>1. \A x \in Workers : worker[x].pc = "signal" => worker'[x].pc = "signal"
    BY <1>4 DEF Throw
  <2>2. QED
    BY <1>4, <2>1 DEF Throw
<1>5. QED
  BY <1>1, <1>2, <1>3, <1>4 DEF Work

LEMMA PeerStep == ASSUME IInv, NEW c \in Clients, Peer(c) PROVE IInv'
  BY Apart DEF Peer, Connect, SendSegment, Receive, Leave, Reset, poolVars, loopVars

(* Whatever the loop does with its events while the workers queue their     *)
(* responses, a queued response always has somebody due to take it.         *)
THEOREM ResponsesNotForgotten == Spec => []NoLostWakeup
<1>1. IInv /\ [Next]_vars => IInv'
  <2> SUFFICES ASSUME IInv, [Next]_vars PROVE IInv'
    OBVIOUS
  <2>1. CASE \E c \in Clients : Peer(c)
    BY <2>1, PeerStep
  <2>2. CASE TimerExpires
    BY <2>2, Apart DEF TimerExpires, poolVars, loopVars
  <2>3. CASE Loop
    BY <2>3, LoopStep
  <2>4. CASE \E w \in Workers : Work(w)
    BY <2>4, WorkStep
  <2>5. CASE UNCHANGED vars
    BY <2>5, Apart DEF vars, poolVars, loopVars
  <2>6. QED
    BY <2>1, <2>2, <2>3, <2>4, <2>5 DEF Next
<1>2. IInv => NoLostWakeup
  BY DEF IInv
<1>3. QED
  BY <1>1, <1>2, InitIInv, PTL DEF Spec

-----------------------------------------------------------------------------
(* The parts of the types, and what they need: a buffer never holds more   *)
(* than it can, an offset never passes the end, and there are at least as  *)
(* many files open as connections that stream one.                         *)
PeersOK ==
    /\ client \in [Clients -> [st : {"idle", "open", "closed"}, sent : Nat, got : Seq(UnitType)]]
    /\ rcv \in [Clients -> Seq(Segment)] /\ snd \in [Clients -> Seq(UnitType)]
    /\ rst \subseteq Clients /\ backlog \subseteq Clients /\ newconn \in BOOLEAN
    /\ \A c \in Clients : Len(snd[c]) <= SndCap
SocketsOK ==
    /\ sock \in [Fds -> Clients \cup {NoClient}]
    /\ mode \in [Fds -> {"in", "out"}] /\ rdl \subseteq Fds
    /\ conn \in [Fds -> ConnType \cup {NoConn}]
    /\ \A f \in Fds : conn[f] # NoConn => conn[f].written <= Len(conn[f].wbuf)
    /\ ConnOwnsSocket
Holding(cn, fs) == {f \in fs : cn[f] # NoConn /\ cn[f].fileFd}
FilesOK == files \in Nat /\ files >= Cardinality(Holding(conn, Fds))
PoolOK ==
    /\ jobs \in [Fds -> Nat] /\ worker \in [Workers -> WorkerType]
    /\ pending \in Seq(ResponseType) /\ writes \in Seq(ResponseType)
    /\ \A w \in Workers : worker[w].pc = "run" => worker[w].fd \in Fds
LoopOK ==
    /\ ticks \in 0 .. MaxTicks /\ timer \in BOOLEAN /\ wakeup \in Nat
    /\ loop \in [pc : {"events", "accept", "check", "drained", "deliver"}, fd : Fds \cup {0}]
    /\ batch \subseteq {"listen", "timer", "wakeup", "socket"} \X (Fds \cup {0})
                                                         \X SocketEvents
TInv == PeersOK /\ SocketsOK /\ FilesOK /\ PoolOK /\ LoopOK

LEMMA TypesFollow == TInv => TypeOK /\ ConnOwnsSocket
  BY DEF TInv, TypeOK, PeersOK, SocketsOK, FilesOK, PoolOK, LoopOK

-----------------------------------------------------------------------------
(* What is left of a sequence and what leaves it.                           *)
LEMMA DropTyped == ASSUME NEW S, NEW s \in Seq(S), NEW n \in 0 .. Len(s)
                   PROVE  Drop(s, n) \in Seq(S) /\ Len(Drop(s, n)) = Len(s) - n
<1>1. \A i \in n + 1 .. Len(s) : s[i] \in S
  OBVIOUS
<1>2. QED
  BY <1>1, SubSeqProperties DEF Drop

LEMMA SliceTyped == ASSUME NEW S, NEW s \in Seq(S), NEW i \in Nat, NEW n \in Nat,
                           i + n <= Len(s)
                    PROVE  /\ SubSeq(s, i + 1, i + n) \in Seq(S)
                           /\ Len(SubSeq(s, i + 1, i + n)) = n
<1>1. \A j \in i + 1 .. i + n : s[j] \in S
  OBVIOUS
<1>2. QED
  BY <1>1, SubSeqProperties

LEMMA PrefixTyped == ASSUME NEW S, NEW s \in Seq(S), NEW n \in 0 .. Len(s)
                     PROVE  SubSeq(s, 1, n) \in Seq(S) /\ Len(SubSeq(s, 1, n)) = n
<1>1. \A j \in 1 .. n : s[j] \in S
  OBVIOUS
<1>2. QED
  BY <1>1, SubSeqProperties

(* A response is made of units.                                             *)
LEMMA UnitsTyped == ASSUME NEW r \in ResponseType
                    PROVE  /\ Units(r) \in Seq(UnitType)
                           /\ Header(r) \in Seq(UnitType) /\ Len(Header(r)) = 1
                           /\ Body(r) \in Seq(UnitType)
<1>1. Unit(r, 1, FALSE) \in UnitType /\ Unit(r, 2, FALSE) \in UnitType
      /\ Unit(r, 3, TRUE) \in UnitType
  BY DEF Unit, UnitType, ResponseType
<1>2. ASSUME NEW i \in 1 .. Length(r.kind)
      PROVE  Unit(r, i, i = Length(r.kind)) \in UnitType
  <2>1. i \in 1 .. 3
    BY DEF Length
  <2>2. (i = Length(r.kind)) \in BOOLEAN
    OBVIOUS
  <2>3. QED
    BY <2>1, <2>2 DEF Unit, UnitType, ResponseType
<1>3. Length(r.kind) \in Nat
  BY DEF Length
<1>4. Units(r) \in Seq(UnitType)
  BY <1>2, <1>3 DEF Units
<1>5. \A u, v \in UnitType : /\ <<u>> \in Seq(UnitType) /\ Len(<<u>>) = 1
                             /\ <<u, v>> \in Seq(UnitType)
  OBVIOUS
<1>6. Header(r) \in Seq(UnitType) /\ Len(Header(r)) = 1
  BY <1>1, <1>5 DEF Header
<1>7. Body(r) \in Seq(UnitType)
  BY <1>1, <1>5 DEF Body
<1>8. QED
  BY <1>4, <1>6, <1>7

(* A connection with a field changed is a connection, and not the absence   *)
(* of one.                                                                  *)
LEMMA ConnTyped ==
    ASSUME NEW k \in ConnType, NEW s \in Seq(UnitType), NEW b \in Seq(Segment), NEW n \in Nat
    PROVE  /\ [k EXCEPT !.rbuf = b] \in ConnType
           /\ [k EXCEPT !.rbuf = b, !.age = n] \in ConnType
           /\ [k EXCEPT !.age = n] \in ConnType
           /\ [k EXCEPT !.written = n] \in ConnType
           /\ [k EXCEPT !.wbuf = s, !.written = n] \in ConnType
           /\ [k EXCEPT !.stream = s] \in ConnType
           /\ k # NoConn
<1>1. [k EXCEPT !.rbuf = b] \in ConnType /\ [k EXCEPT !.rbuf = b, !.age = n] \in ConnType
  BY DEF ConnType
<1>2. [k EXCEPT !.age = n] \in ConnType /\ [k EXCEPT !.written = n] \in ConnType
  BY DEF ConnType
<1>3. [k EXCEPT !.wbuf = s, !.written = n] \in ConnType
  BY DEF ConnType
<1>4. [k EXCEPT !.stream = s] \in ConnType
  BY DEF ConnType
<1>5. k # NoConn
  BY NoConnAssumption
<1>6. QED
  BY <1>1, <1>2, <1>3, <1>4, <1>5

LEMMA CloseFileTyped ==
    ASSUME NEW k \in ConnType
    PROVE  /\ CloseFile(k) \in ConnType /\ ~CloseFile(k).fileFd
           /\ CloseFile(k).written = k.written /\ CloseFile(k).wbuf = k.wbuf
<1>1. CloseFile(k) \in ConnType
  <2>1. <<>> \in Seq(UnitType) /\ FALSE \in BOOLEAN
    OBVIOUS
  <2>2. QED
    BY <2>1, Zenon DEF ConnType, CloseFile
<1>2. k = [x \in {"rbuf", "wbuf", "written", "age", "isFileStream", "fileFd", "stream"} |-> k[x]]
  BY DEF ConnType
<1>3. ~CloseFile(k).fileFd
  BY <1>2, Zenon DEF CloseFile
<1>4. CloseFile(k).written = k.written /\ CloseFile(k).wbuf = k.wbuf
  BY <1>2, Zenon DEF CloseFile
<1>5. QED
  BY <1>1, <1>3, <1>4

LEMMA FreshTyped == Fresh \in ConnType /\ Fresh # NoConn
<1>1. Fresh \in ConnType
  BY DEF ConnType, Fresh
<1>2. QED
  BY <1>1, NoConnAssumption

-----------------------------------------------------------------------------
(* The connections that stream, counted without f and with it.              *)
LEMMA HoldingFinite == ASSUME NEW cn, NEW fs \in SUBSET Fds
                       PROVE  /\ IsFiniteSet(Holding(cn, fs))
                              /\ Cardinality(Holding(cn, fs)) \in Nat
<1>1. IsFiniteSet(Fds)
  BY SizesAssumption, FS_Interval DEF Fds
<1>2. IsFiniteSet(Holding(cn, fs))
  BY <1>1, FS_Subset DEF Holding
<1>3. QED
  BY <1>2, FS_CardinalityType

LEMMA HoldingSplit ==
    ASSUME NEW cn, NEW f \in Fds
    PROVE  Cardinality(Holding(cn, Fds)) = Cardinality(Holding(cn, Fds \ {f}))
                                           + (IF cn[f] # NoConn /\ cn[f].fileFd THEN 1 ELSE 0)
<1>1. IsFiniteSet(Holding(cn, Fds \ {f})) /\ Cardinality(Holding(cn, Fds \ {f})) \in Nat
  BY HoldingFinite
<1>2. f \notin Holding(cn, Fds \ {f})
  BY DEF Holding
<1>3. CASE cn[f] # NoConn /\ cn[f].fileFd
  <2>1. Holding(cn, Fds) = Holding(cn, Fds \ {f}) \cup {f}
    BY <1>3 DEF Holding
  <2>2. QED
    BY <1>1, <1>2, <1>3, <2>1, FS_AddElement
<1>4. CASE ~(cn[f] # NoConn /\ cn[f].fileFd)
  <2>1. Holding(cn, Fds) = Holding(cn, Fds \ {f})
    BY <1>4 DEF Holding
  <2>2. QED
    BY <1>1, <1>4, <2>1
<1>5. QED
  BY <1>3, <1>4

(* Closing the connections in fs closes the files they stream.              *)
LEMMA HoldingWithout ==
    ASSUME NEW cn, NEW fs \in SUBSET Fds
    PROVE  Cardinality(Holding(cn, Fds \ fs)) = Cardinality(Holding(cn, Fds))
                                                - Cardinality(Holding(cn, fs))
<1>1. IsFiniteSet(Holding(cn, Fds))
  BY HoldingFinite
<1>2. Holding(cn, Fds \ fs) = Holding(cn, Fds) \ Holding(cn, fs)
      /\ Holding(cn, Fds) \cap Holding(cn, fs) = Holding(cn, fs)
  BY DEF Holding
<1>3. QED
  BY <1>1, <1>2, FS_Difference

LEMMA StreamingIsHolding == \A fs : Streaming(fs) = Holding(conn, fs)
  BY DEF Streaming, Holding

(* Enough files are open for the connections other than f.                  *)
LEMMA FilesWithout == ASSUME FilesOK, NEW f \in Fds
                      PROVE  files \in Nat /\ files >= Cardinality(Holding(conn, Fds \ {f}))
<1>1. Cardinality(Holding(conn, Fds \ {f})) \in Nat /\ Cardinality(Holding(conn, Fds)) \in Nat
  BY HoldingFinite
<1>2. Cardinality(Holding(conn, Fds)) >= Cardinality(Holding(conn, Fds \ {f}))
  BY <1>1, HoldingSplit
<1>3. QED
  BY <1>1, <1>2 DEF FilesOK

-----------------------------------------------------------------------------
(* Closing sockets and erasing their connections together.                  *)
LEMMA EraseKeeps == ASSUME SocketsOK, NEW fs \in SUBSET Fds, Erase(fs)
                    PROVE  /\ SocketsOK'
                           /\ Holding(conn', Fds) = Holding(conn, Fds \ fs)
<1>1. Holding(conn', Fds) = Holding(conn, Fds \ fs)
  BY DEF Holding, Erase, SocketsOK
<1>2. conn' \in [Fds -> ConnType \cup {NoConn}]
  BY DEF Erase, SocketsOK
<1>3. sock' \in [Fds -> Clients \cup {NoClient}] /\ mode' = mode /\ rdl' \subseteq Fds
  BY DEF Erase, CloseSock, SocketsOK
<1>4. \A f \in Fds : /\ conn'[f] = IF f \in fs THEN NoConn ELSE conn[f]
                     /\ sock'[f] = IF f \in fs THEN NoClient ELSE sock[f]
  BY DEF Erase, CloseSock, SocketsOK
<1>5. ConnOwnsSocket'
  BY <1>4 DEF SocketsOK, ConnOwnsSocket
<1>6. \A f \in Fds : conn'[f] # NoConn => conn'[f].written <= Len(conn'[f].wbuf)
  BY <1>4 DEF SocketsOK
<1>7. QED
  BY <1>1, <1>2, <1>3, <1>5, <1>6 DEF SocketsOK

(* The file of each connection erased closed with it.                       *)
LEMMA EraseCloses == ASSUME SocketsOK, FilesOK, NEW fs \in SUBSET Fds, Erase(fs),
                            files' = files - Cardinality(Streaming(fs))
                     PROVE  SocketsOK' /\ FilesOK'
<1>1. Cardinality(Holding(conn', Fds)) = Cardinality(Holding(conn, Fds))
                                         - Cardinality(Streaming(fs))
  BY EraseKeeps, HoldingWithout, StreamingIsHolding
<1>2. /\ Cardinality(Holding(conn, Fds)) \in Nat
      /\ Cardinality(Streaming(fs)) \in Nat
      /\ Cardinality(Holding(conn', Fds)) \in Nat
  BY HoldingFinite, StreamingIsHolding
<1>3. FilesOK'
  BY <1>1, <1>2 DEF FilesOK
<1>4. QED
  BY <1>3, EraseKeeps

(* A connection erased, whatever becomes of its file.                       *)
LEMMA EraseLeaves == ASSUME SocketsOK, NEW f \in Fds, Erase({f}), files' \in Nat,
                            files' >= Cardinality(Holding(conn, Fds \ {f}))
                     PROVE  SocketsOK' /\ FilesOK'
  BY EraseKeeps DEF FilesOK

LEMMA EndLeaves == ASSUME SocketsOK, FilesOK, NEW f \in Fds, Erase({f}), files' = files
                   PROVE  SocketsOK' /\ FilesOK'
  BY FilesWithout, EraseLeaves

(* A connection that gets a new state.                                      *)
LEMMA UpdateKeeps ==
    ASSUME SocketsOK, NEW f \in Fds, conn[f] # NoConn, NEW k \in ConnType,
           k.written <= Len(k.wbuf), conn' = [conn EXCEPT ![f] = k], sock' = sock,
           mode' \in [Fds -> {"in", "out"}], rdl' \subseteq Fds, files' \in Nat,
           files' >= Cardinality(Holding(conn, Fds \ {f})) + (IF k.fileFd THEN 1 ELSE 0)
    PROVE  SocketsOK' /\ FilesOK'
<1>1. \A g \in Fds : conn'[g] = IF g = f THEN k ELSE conn[g]
  BY DEF SocketsOK
<1>2. k # NoConn
  BY NoConnAssumption
<1>3. SocketsOK'
  <2>1. conn' \in [Fds -> ConnType \cup {NoConn}]
    BY DEF SocketsOK
  <2>2. \A g \in Fds : conn'[g] # NoConn => conn'[g].written <= Len(conn'[g].wbuf)
    BY <1>1 DEF SocketsOK
  <2>3. ConnOwnsSocket'
    BY <1>1, <1>2 DEF SocketsOK, ConnOwnsSocket
  <2>4. QED
    BY <2>1, <2>2, <2>3 DEF SocketsOK
<1>4. Holding(conn', Fds \ {f}) = Holding(conn, Fds \ {f})
  BY <1>1 DEF Holding
<1>5. Cardinality(Holding(conn', Fds)) = Cardinality(Holding(conn, Fds \ {f}))
                                         + (IF k.fileFd THEN 1 ELSE 0)
  <2>1. PICK cn : cn = conn'
    OBVIOUS
  <2>2. Cardinality(Holding(cn, Fds)) = Cardinality(Holding(cn, Fds \ {f}))
                                        + (IF cn[f] # NoConn /\ cn[f].fileFd THEN 1 ELSE 0)
    BY HoldingSplit
  <2>3. cn[f] = k
    BY <1>1, <2>1
  <2>4. QED
    BY <1>2, <1>4, <2>1, <2>2, <2>3
<1>6. QED
  BY <1>3, <1>5 DEF FilesOK

-----------------------------------------------------------------------------
(* What a socket has room for.                                              *)
LEMMA RoomTyped == ASSUME PeersOK, NEW c \in Clients
                   PROVE  Room(c) \in Nat /\ Len(snd[c]) + Room(c) = SndCap
<1>1. SndCap \in Nat /\ snd[c] \in Seq(UnitType) /\ Len(snd[c]) <= SndCap
  BY SizesAssumption DEF PeersOK
<1>2. Len(snd[c]) \in Nat
  BY <1>1
<1>3. QED
  BY <1>1, <1>2 DEF Room

LEMMA LeastTyped == ASSUME NEW a \in Nat, NEW b \in Nat
                    PROVE  Least(a, b) \in Nat /\ Least(a, b) <= a /\ Least(a, b) <= b
  BY DEF Least

LEMMA DeliverKeeps == ASSUME PeersOK, NEW c \in Clients, NEW us \in Seq(UnitType),
                             Len(us) <= Room(c), Deliver(c, us), UNCHANGED client
                      PROVE  PeersOK'
<1>1. snd[c] \o us \in Seq(UnitType) /\ Len(snd[c] \o us) <= SndCap
  <2>1. snd[c] \in Seq(UnitType) /\ Len(snd[c]) \in Nat /\ Len(us) \in Nat
    BY DEF PeersOK
  <2>2. Len(snd[c] \o us) = Len(snd[c]) + Len(us)
    BY <2>1
  <2>3. snd[c] \o us \in Seq(UnitType)
    BY <2>1
  <2>4. QED
    BY <2>1, <2>2, <2>3, RoomTyped
<1>2. snd' = [snd EXCEPT ![c] = snd[c] \o us]
      /\ UNCHANGED <<client, rcv, rst, backlog, newconn>>
  BY DEF Deliver
<1>3. QED
  BY <1>1, <1>2 DEF PeersOK

LEMMA PeersAside == ASSUME PeersOK, UNCHANGED <<client, kernelVars>> PROVE PeersOK'
  BY DEF PeersOK, kernelVars
LEMMA SocketsAside == ASSUME SocketsOK, FilesOK, UNCHANGED <<sock, mode, conn, files>>,
                             rdl' \subseteq Fds
                      PROVE  SocketsOK' /\ FilesOK'
  BY DEF SocketsOK, FilesOK, ConnOwnsSocket
LEMMA PoolAside == ASSUME PoolOK, UNCHANGED <<jobs, worker, pending, writes>> PROVE PoolOK'
  BY DEF PoolOK
LEMMA LoopAside == ASSUME LoopOK, UNCHANGED <<ticks, timer, wakeup, loop, batch>> PROVE LoopOK'
  BY DEF LoopOK

(* An open connection has a socket and a state.                             *)
LEMMA ConnectionTyped == ASSUME SocketsOK, NEW f \in Fds, conn[f] # NoConn
                         PROVE  sock[f] \in Clients /\ conn[f] \in ConnType
                                /\ conn[f].written <= Len(conn[f].wbuf)
  BY DEF SocketsOK, ConnOwnsSocket

LEMMA RearmTyped == ASSUME SocketsOK, NEW f \in Fds, NEW m \in {"in", "out"}, Rearm(f, m)
                    PROVE  mode' \in [Fds -> {"in", "out"}] /\ rdl' \subseteq Fds
  BY DEF SocketsOK, Rearm

-----------------------------------------------------------------------------
(* Streaming: the file is k's, and counted in open.                         *)
LEMMA ChunkKeeps ==
    ASSUME PeersOK, SocketsOK, NEW f \in Fds, conn[f] # NoConn,
           NEW k \in ConnType, k.fileFd, k.written <= Len(k.wbuf),
           NEW head \in Seq(UnitType), Len(head) <= Room(sock[f]),
           NEW open \in Nat, open >= Cardinality(Holding(conn, Fds \ {f})) + 1,
           SendFileChunked(f, k, head, open), UNCHANGED client
    PROVE  PeersOK' /\ SocketsOK' /\ FilesOK'
<1> DEFINE c == sock[f]
           n == Least(Room(c) - Len(head), Len(k.stream))
           rest == Drop(k.stream, n)
<1>1. c \in Clients
  BY ConnectionTyped
<1>2. k.stream \in Seq(UnitType) /\ Len(k.stream) \in Nat /\ Len(head) \in Nat
      /\ k.written \in Nat
  BY DEF ConnType
<1>3. Cardinality(Holding(conn, Fds \ {f})) \in Nat
  BY HoldingFinite
<1>4. open - 1 \in Nat /\ open - 1 >= Cardinality(Holding(conn, Fds \ {f}))
  BY <1>3
<1>5. n \in Nat /\ n <= Len(k.stream) /\ Len(head) + n <= Room(c)
  <2>1. Room(c) - Len(head) \in Nat
    BY <1>1, <1>2, RoomTyped
  <2>2. n \in Nat /\ n <= Room(c) - Len(head) /\ n <= Len(k.stream)
    BY <1>2, <2>1, LeastTyped
  <2>3. QED
    BY <1>1, <1>2, <2>2, RoomTyped
<1>6. CASE c \in rst
  <2>1. Erase({f}) /\ files' = open - 1 /\ UNCHANGED kernelVars
    BY <1>6 DEF SendFileChunked
  <2>2. QED
    BY <1>4, <2>1, EraseLeaves, PeersAside
<1>7. CASE c \notin rst
  <2>1. /\ Deliver(c, head \o SubSeq(k.stream, 1, n)) /\ sock' = sock
        /\ \/ /\ conn' = [conn EXCEPT ![f] = CloseFile(k)]
              /\ files' = open - 1 /\ Rearm(f, "in")
           \/ /\ conn' = [conn EXCEPT ![f] = [k EXCEPT !.stream = rest]]
              /\ files' = open /\ Rearm(f, "out")
    BY <1>7 DEF SendFileChunked
  <2>2. SubSeq(k.stream, 1, n) \in Seq(UnitType) /\ Len(SubSeq(k.stream, 1, n)) = n
    BY <1>2, <1>5, PrefixTyped
  <2>3. head \o SubSeq(k.stream, 1, n) \in Seq(UnitType)
        /\ Len(head \o SubSeq(k.stream, 1, n)) <= Room(c)
    BY <1>2, <1>5, <2>2
  <2>4. PeersOK'
    BY <1>1, <2>1, <2>3, DeliverKeeps
  <2>5. CASE conn' = [conn EXCEPT ![f] = CloseFile(k)] /\ files' = open - 1 /\ Rearm(f, "in")
    <3>1. mode' \in [Fds -> {"in", "out"}] /\ rdl' \subseteq Fds
      BY <2>5, RearmTyped
    <3>2. PICK j : j = CloseFile(k)
      OBVIOUS
    <3>3. j \in ConnType /\ j.written <= Len(j.wbuf) /\ ~j.fileFd
      BY <3>2, CloseFileTyped
    <3>4. files' >= Cardinality(Holding(conn, Fds \ {f})) + (IF j.fileFd THEN 1 ELSE 0)
      BY <1>3, <1>4, <2>5, <3>3
    <3>5. QED
      BY <1>4, <2>1, <2>4, <2>5, <3>1, <3>2, <3>3, <3>4, UpdateKeeps
  <2>6. CASE /\ conn' = [conn EXCEPT ![f] = [k EXCEPT !.stream = rest]]
             /\ files' = open /\ Rearm(f, "out")
    <3>1. rest \in Seq(UnitType)
      BY <1>2, <1>5, DropTyped
    <3>2. PICK j : j = [k EXCEPT !.stream = rest]
      OBVIOUS
    <3>3. j \in ConnType /\ j.fileFd = k.fileFd /\ j.written = k.written /\ j.wbuf = k.wbuf
      BY <3>1, <3>2 DEF ConnType
    <3>4. mode' \in [Fds -> {"in", "out"}] /\ rdl' \subseteq Fds
      BY <2>6, RearmTyped
    <3>5. QED
      BY <1>3, <2>1, <2>4, <2>6, <3>2, <3>3, <3>4, UpdateKeeps
  <2>7. QED
    BY <2>1, <2>5, <2>6
<1>8. QED
  BY <1>6, <1>7

(* A connection whose state changes and whose file does not.                *)
LEMMA SameFile ==
    ASSUME SocketsOK, FilesOK, NEW f \in Fds, conn[f] # NoConn, NEW k \in ConnType,
           k.written <= Len(k.wbuf), k.fileFd = conn[f].fileFd,
           conn' = [conn EXCEPT ![f] = k], sock' = sock,
           mode' \in [Fds -> {"in", "out"}], rdl' \subseteq Fds, files' = files
    PROVE  SocketsOK' /\ FilesOK'
<1>1. files >= Cardinality(Holding(conn, Fds \ {f})) + (IF k.fileFd THEN 1 ELSE 0)
  BY HoldingSplit DEF FilesOK
<1>2. files \in Nat
  BY DEF FilesOK
<1>3. QED
  BY <1>1, <1>2, UpdateKeeps

-----------------------------------------------------------------------------
ClientType == [st : {"idle", "open", "closed"}, sent : Nat, got : Seq(UnitType)]

LEMMA ClientTyped ==
    ASSUME NEW k \in ClientType
    PROVE  /\ \A st \in {"idle", "open", "closed"} : [k EXCEPT !.st = st] \in ClientType
           /\ \A n \in Nat : [k EXCEPT !.sent = n] \in ClientType
           /\ \A g \in Seq(UnitType) : [k EXCEPT !.got = g] \in ClientType
  BY DEF ClientType

LEMMA PeerTypes == ASSUME TInv, NEW c \in Clients, Peer(c) PROVE TInv'
<1> USE DEF TInv
<1>1. /\ UNCHANGED <<sock, mode, conn, files>> /\ rdl' \in {rdl, rdl \cup FdsOf(c)}
      /\ UNCHANGED <<jobs, worker, pending, writes, ticks, timer, wakeup, loop, batch>>
  BY DEF Peer, Connect, SendSegment, Receive, Leave, Reset, timeVars, sockVars, poolVars,
         loopVars
<1>2. rdl' \subseteq Fds
  BY <1>1 DEF FdsOf, SocketsOK
<1>3. SocketsOK' /\ FilesOK' /\ PoolOK' /\ LoopOK'
  BY <1>1, <1>2, SocketsAside, PoolAside, LoopAside
<1>0. client \in [Clients -> ClientType]
  BY DEF PeersOK, ClientType
<1>4. client[c] \in ClientType
      /\ snd[c] \in Seq(UnitType) /\ rcv[c] \in Seq(Segment)
  BY <1>0 DEF PeersOK
<1>9. client[c].sent \in Nat /\ client[c].got \in Seq(UnitType)
  BY <1>4 DEF ClientType
<1>5. CASE Connect(c) \/ Leave(c)
  <2>1. client' \in [Clients -> ClientType]
    <3>1. PICK st \in {"idle", "open", "closed"} : client' = [client EXCEPT ![c].st = st]
      BY <1>5 DEF Connect, Leave
    <3>2. [client[c] EXCEPT !.st = st] \in ClientType
      BY <1>4, ClientTyped
    <3>3. QED
      BY <1>0, <3>1, <3>2
  <2>2. UNCHANGED <<rcv, snd, rst>> /\ backlog' \subseteq Clients /\ newconn' \in BOOLEAN
    BY <1>5 DEF Connect, Leave, PeersOK
  <2>3. QED
    BY <1>3, <2>1, <2>2 DEF PeersOK, ClientType
<1>6. CASE SendSegment(c)
  <2>1. client' \in [Clients -> ClientType]
    <3>1. client' = [client EXCEPT ![c].sent = client[c].sent + 1]
      BY <1>6 DEF SendSegment
    <3>2. client[c].sent + 1 \in Nat
      BY <1>9
    <3>3. [client[c] EXCEPT !.sent = client[c].sent + 1] \in ClientType
      BY <1>4, <3>2, ClientTyped
    <3>4. QED
      BY <1>0, <3>1, <3>3
  <2>2. [c |-> c, s |-> client[c].sent] \in Segment
    BY <1>9 DEF Segment
  <2>3. rcv' \in [Clients -> Seq(Segment)] /\ UNCHANGED <<snd, rst, backlog, newconn>>
    BY <1>4, <1>6, <2>2 DEF SendSegment, PeersOK
  <2>4. QED
    BY <1>3, <2>1, <2>3 DEF PeersOK, ClientType
<1>7. CASE Receive(c)
  <2>1. /\ Head(snd[c]) \in UnitType /\ Tail(snd[c]) \in Seq(UnitType)
        /\ Len(Tail(snd[c])) <= SndCap
    <3>1. snd[c] # <<>> /\ Len(snd[c]) <= SndCap /\ SndCap \in Nat
      BY <1>7, SizesAssumption DEF Receive, PeersOK
    <3>2. QED
      BY <1>4, <3>1, HeadTailProperties
  <2>2. client' \in [Clients -> ClientType]
    <3>1. Append(client[c].got, Head(snd[c])) \in Seq(UnitType)
      BY <1>9, <2>1
    <3>2. client' = [client EXCEPT ![c].got = Append(client[c].got, Head(snd[c]))]
      BY <1>7 DEF Receive
    <3>3. [client[c] EXCEPT !.got = Append(client[c].got, Head(snd[c]))] \in ClientType
      BY <1>4, <3>1, ClientTyped
    <3>4. QED
      BY <1>0, <3>2, <3>3
  <2>3. snd' \in [Clients -> Seq(UnitType)] /\ UNCHANGED <<rcv, rst, backlog, newconn>>
        /\ \A d \in Clients : Len(snd'[d]) <= SndCap
    BY <1>7, <2>1 DEF Receive, PeersOK
  <2>4. QED
    BY <1>3, <2>2, <2>3 DEF PeersOK, ClientType
<1>8. CASE Reset(c)
  <2>1. Len(<<>>) <= SndCap /\ <<>> \in Seq(UnitType)
    BY SizesAssumption
  <2>2. snd' \in [Clients -> Seq(UnitType)] /\ UNCHANGED <<client, rcv, backlog, newconn>>
        /\ rst' \subseteq Clients /\ \A d \in Clients : Len(snd'[d]) <= SndCap
    BY <1>8, <2>1 DEF Reset, PeersOK
  <2>3. QED
    BY <1>3, <2>2 DEF PeersOK
<1>10. QED
  BY <1>5, <1>6, <1>7, <1>8 DEF Peer

LEMMA TimerTypes == ASSUME TInv, TimerExpires PROVE TInv'
<1> USE DEF TInv
<1>1. PeersOK' /\ PoolOK'
  BY PeersAside, PoolAside DEF TimerExpires, poolVars, loopVars
<1>2. ticks' \in 0 .. MaxTicks /\ timer' \in BOOLEAN /\ UNCHANGED <<wakeup, loop, batch>>
  BY SizesAssumption DEF TimerExpires, LoopOK, loopVars
<1>3. LoopOK'
  BY <1>2 DEF LoopOK
<1>4. ASSUME NEW f \in Fds
      PROVE  /\ conn'[f] \in ConnType \cup {NoConn}
             /\ conn'[f] # NoConn <=> conn[f] # NoConn
             /\ conn[f] # NoConn => /\ conn'[f].written = conn[f].written
                                    /\ conn'[f].wbuf = conn[f].wbuf
                                    /\ conn'[f].fileFd = conn[f].fileFd
  <2>1. CASE conn[f] = NoConn
    BY <2>1 DEF TimerExpires
  <2>2. CASE conn[f] # NoConn
    <3>1. conn[f] \in ConnType /\ conn'[f] = [conn[f] EXCEPT !.age = @ + 1]
      BY <2>2 DEF TimerExpires, SocketsOK
    <3>2. PICK k : k = conn[f]
      OBVIOUS
    <3>3. PICK j : j = [k EXCEPT !.age = @ + 1]
      OBVIOUS
    <3>4. /\ j \in ConnType /\ j.written = k.written /\ j.wbuf = k.wbuf
          /\ j.fileFd = k.fileFd
      <4>1. PICK n : n = k.age + 1
        OBVIOUS
      <4>2. n \in Nat
        BY <3>1, <3>2, <4>1 DEF ConnType
      <4>3. j = [k EXCEPT !.age = n]
        BY <3>3, <4>1
      <4>4. QED
        BY <3>1, <3>2, <4>2, <4>3 DEF ConnType
    <3>5. QED
      BY <2>2, <3>1, <3>2, <3>3, <3>4, NoConnAssumption
  <2>3. QED
    BY <2>1, <2>2
<1>5. SocketsOK'
  <2>1. conn' \in [Fds -> ConnType \cup {NoConn}]
    BY <1>4 DEF TimerExpires
  <2>2. QED
    BY <1>4, <2>1 DEF TimerExpires, SocketsOK, sockVars, ConnOwnsSocket
<1>6. FilesOK'
  <2>1. Holding(conn', Fds) = Holding(conn, Fds)
    BY <1>4 DEF Holding
  <2>2. QED
    BY <2>1 DEF FilesOK, TimerExpires
<1>7. QED
  BY <1>1, <1>3, <1>5, <1>6

LEMMA WorkTypes == ASSUME TInv, NEW w \in Workers, Work(w) PROVE TInv'
<1> USE DEF TInv
<1>1. PeersOK' /\ UNCHANGED <<sock, mode, rdl, files, loop, batch, writes, ticks, timer>>
  BY PeersAside DEF Work, TakeJob, Respond, Throw, Signal, sockVars, loopVars, timeVars
<1>2. worker[w] \in WorkerType /\ Idle \in WorkerType
  BY DEF PoolOK, WorkerType, Idle
<1>3. rdl' \subseteq Fds
  BY <1>1 DEF SocketsOK
<1>4. ASSUME NEW f \in Fds, TakeJob(w, f) PROVE TInv'
  <2>1. jobs' \in [Fds -> Nat] /\ UNCHANGED <<pending, writes, wakeup>>
    BY <1>4 DEF TakeJob, PoolOK, loopVars
  <2>2. LoopOK'
    BY <1>1, <2>1, LoopAside
  <2>3. CASE conn[f] = NoConn
    <3>1. UNCHANGED <<worker, conn>>
      BY <1>4, <2>3 DEF TakeJob
    <3>2. PoolOK'
      BY <2>1, <3>1 DEF PoolOK
    <3>3. QED
      BY <1>1, <1>3, <2>2, <3>1, <3>2, SocketsAside
  <2>4. CASE conn[f] # NoConn
    <3>1. PICK k : k = conn[f]
      OBVIOUS
    <3>2. k \in ConnType /\ k.written <= Len(k.wbuf)
      BY <2>4, <3>1, ConnectionTyped
    <3>3. PICK j : j = [k EXCEPT !.rbuf = <<>>]
      OBVIOUS
    <3>4. /\ j \in ConnType /\ j.written = k.written /\ j.wbuf = k.wbuf
          /\ j.fileFd = k.fileFd /\ k.rbuf \in Seq(Segment)
      <4>0. <<>> \in Seq(Segment)
        OBVIOUS
      <4>1. PICK b \in Seq(Segment) : b = <<>>
        BY <4>0
      <4>2. j = [k EXCEPT !.rbuf = b]
        BY <3>3, <4>1
      <4>3. QED
        BY <3>2, <4>2 DEF ConnType
    <3>5. /\ conn' = [conn EXCEPT ![f] = j]
          /\ worker' = [worker EXCEPT ![w] = [pc |-> "run", fd |-> f, data |-> k.rbuf]]
      BY <1>4, <2>4, <3>1, <3>3 DEF TakeJob
    <3>6. SocketsOK' /\ FilesOK'
      <4>1. mode' \in [Fds -> {"in", "out"}]
        BY <1>1 DEF SocketsOK
      <4>2. QED
        BY <1>1, <1>3, <2>4, <3>1, <3>2, <3>4, <3>5, <4>1, SameFile
    <3>7. PoolOK'
      <4>1. PICK v : v = [pc |-> "run", fd |-> f, data |-> k.rbuf]
        OBVIOUS
      <4>2. v \in WorkerType /\ v.fd \in Fds
        BY <3>4, <4>1 DEF WorkerType
      <4>3. QED
        BY <2>1, <3>5, <4>1, <4>2 DEF PoolOK
    <3>8. QED
      BY <1>1, <2>2, <3>6, <3>7
  <2>5. QED
    BY <2>3, <2>4
<1>5. CASE Respond(w)
  <2>1. UNCHANGED <<conn, jobs, writes, wakeup>> /\ worker[w].fd \in Fds
    BY <1>5 DEF Respond, loopVars, PoolOK
  <2>2. PICK kind \in IF Parses(worker[w].data) THEN Kinds ELSE {"bad"} :
               pending' = Append(pending, Response(worker[w].fd, worker[w].data, kind))
    BY <1>5 DEF Respond
  <2>3. Response(worker[w].fd, worker[w].data, kind) \in ResponseType
    <3>1. CASE kind = "bad"
      BY <2>1, <3>1 DEF Response, ResponseType, AllKinds
    <3>2. CASE kind # "bad"
      <4>1. kind \in AllKinds /\ Parses(worker[w].data)
        BY <2>2, <3>2, KindsAssumption
      <4>2. worker[w].data \in Seq(Segment) /\ Len(worker[w].data) >= 1
        BY <1>2, <4>1, SizesAssumption DEF Parses, WorkerType
      <4>3. worker[w].data[1] \in Segment
        BY <4>2
      <4>4. PICK x : x = worker[w].data[1]
        OBVIOUS
      <4>5. x.c \in Clients /\ x.s \div Segments + 1 \in Nat
        BY <4>3, <4>4, SizesAssumption DEF Segment
      <4>6. QED
        BY <2>1, <3>2, <4>1, <4>4, <4>5 DEF Response, ResponseType
    <3>3. QED
      BY <3>1, <3>2
  <2>4. PoolOK'
    <3>1. pending' \in Seq(ResponseType)
      BY <2>2, <2>3 DEF PoolOK
    <3>2. PICK v : v = [Idle EXCEPT !.pc = "signal"]
      OBVIOUS
    <3>3. v \in WorkerType /\ v.pc = "signal"
      <4>1. v = [pc |-> "signal", fd |-> 0, data |-> <<>>]
        BY <3>2 DEF Idle
      <4>2. <<>> \in Seq(Segment)
        OBVIOUS
      <4>3. QED
        BY <4>1, <4>2 DEF WorkerType
    <3>4. worker' = [worker EXCEPT ![w] = v]
      BY <1>5, <3>2 DEF Respond
    <3>5. QED
      BY <2>1, <3>1, <3>3, <3>4 DEF PoolOK
  <2>5. QED
    BY <1>1, <1>3, <2>1, <2>4, SocketsAside, LoopAside
<1>6. CASE Signal(w) \/ Throw(w)
  <2>1. UNCHANGED <<conn, jobs, writes, pending>> /\ worker' = [worker EXCEPT ![w] = Idle]
    BY <1>6 DEF Signal, Throw, loopVars
  <2>2. Idle.pc # "run"
    BY DEF Idle
  <2>3. PoolOK'
    BY <1>2, <2>1, <2>2 DEF PoolOK
  <2>4. LoopOK'
    BY <1>1, <1>6 DEF LoopOK, Signal, Throw
  <2>5. QED
    BY <1>1, <1>3, <2>1, <2>3, <2>4, SocketsAside
<1>7. QED
  BY <1>4, <1>5, <1>6 DEF Work

-----------------------------------------------------------------------------
(* Where the loop goes next.                                                *)
LEMMA LoopTyped ==
    ASSUME NEW pc \in {"events", "accept", "check", "drained", "deliver"},
           NEW f \in Fds \cup {0}
    PROVE  LoopAt(pc, f) \in [pc : {"events", "accept", "check", "drained", "deliver"},
                              fd : Fds \cup {0}]
  BY DEF LoopAt

LEMMA WaitTypes == ASSUME TInv, EpollWait PROVE TInv'
<1> USE DEF TInv
<1>1. UNCHANGED <<client, rcv, snd, rst, backlog, sock, mode, conn, files, jobs, worker,
                  pending, writes, ticks, timer, wakeup, loop>>
      /\ rdl' = {} /\ newconn' = FALSE
  BY DEF EpollWait, poolVars, timeVars
<1>2. PeersOK'
  BY <1>1 DEF PeersOK
<1>3. SocketsOK' /\ FilesOK' /\ PoolOK'
  BY <1>1, SocketsAside, PoolAside
<1>4. batch' \subseteq {"listen", "timer", "wakeup", "socket"} \X (Fds \cup {0})
                                                             \X SocketEvents
  <2>1. {} \in SocketEvents /\ \A f \in Fds : Events(f) \in SocketEvents
    BY DEF SocketEvents, Events
  <2>2. Signals \subseteq {"listen", "timer", "wakeup"} /\ rdl \subseteq Fds
    BY DEF Signals, SocketsOK
  <2>3. batch' = {<<e, 0, {}>> : e \in Signals}
                 \cup {<<"socket", f, Events(f)>> : f \in {g \in rdl : Events(g) # {}}}
    BY DEF EpollWait
  <2>4. QED
    BY <2>1, <2>2, <2>3
<1>5. LoopOK'
  BY <1>1, <1>4 DEF LoopOK
<1>6. QED
  BY <1>2, <1>3, <1>5

(* The steps that only move the loop, or a response from hand to hand.      *)
LEMMA MoveTypes ==
    ASSUME TInv, BeginAccept \/ EndAccept \/ DrainWakeup \/ TakePending \/ EndDeliver
                 \/ CheckRequest
    PROVE  TInv'
<1> USE DEF TInv
<1>1. PeersOK' /\ SocketsOK' /\ FilesOK'
  <2>1. UNCHANGED <<client, kernelVars, sockVars, conn, files>>
    BY DEF BeginAccept, EndAccept, DrainWakeup, TakePending, EndDeliver, CheckRequest
  <2>2. rdl' \subseteq Fds /\ UNCHANGED <<sock, mode, conn, files>>
    BY <2>1 DEF SocketsOK, sockVars
  <2>3. QED
    BY <2>1, <2>2, PeersAside, SocketsAside
<1>2. PoolOK'
  <2>1. CASE CheckRequest
    <3>1. UNCHANGED <<worker, pending, writes>>
          /\ jobs' \in {jobs, [jobs EXCEPT ![loop.fd] = @ + 1]}
      BY <2>1 DEF CheckRequest
    <3>2. jobs' \in [Fds -> Nat]
      BY <3>1 DEF PoolOK
    <3>3. QED
      BY <3>1, <3>2 DEF PoolOK
  <2>2. CASE TakePending
    <3>1. <<>> \in Seq(ResponseType)
      OBVIOUS
    <3>2. QED
      BY <2>2, <3>1 DEF TakePending, PoolOK, poolVars
  <2>3. CASE BeginAccept \/ EndAccept \/ DrainWakeup \/ EndDeliver
    BY <2>3, PoolAside DEF BeginAccept, EndAccept, DrainWakeup, EndDeliver, poolVars
  <2>4. QED
    BY <2>1, <2>2, <2>3
<1>3. LoopOK'
  <2>1. UNCHANGED <<ticks, timer>> /\ wakeup' \in Nat /\ batch' \subseteq batch
    BY DEF BeginAccept, EndAccept, DrainWakeup, TakePending, EndDeliver, CheckRequest,
           Handle, timeVars, LoopOK
  <2>2. loop' \in {LoopAt(pc, 0) : pc \in {"events", "accept", "drained", "deliver"}}
    BY DEF BeginAccept, EndAccept, DrainWakeup, TakePending, EndDeliver, CheckRequest, Done
  <2>3. QED
    BY <2>1, <2>2, LoopTyped DEF LoopOK
<1>4. QED
  BY <1>1, <1>2, <1>3

(* accept4 finds the lowest of the free descriptors.                        *)
LEMMA LeastExists == ASSUME NEW S \in SUBSET Nat, S # {}
                     PROVE  \E g \in S : \A h \in S : g <= h
<1>1. IsWellFoundedOn(OpToRel(<, Nat), Nat)
  BY NatLessThanWellFounded
<1>2. PICK R : /\ IsWellFoundedOn(R, Nat)
               /\ \A g, h \in Nat : <<h, g>> \in R <=> h < g
  <2>1. \A g, h \in Nat : <<h, g>> \in OpToRel(<, Nat) <=> h < g
    BY DEF OpToRel
  <2>2. QED
    BY <1>1, <2>1, Zenon
<1>3. PICK g \in S : \A h \in S : ~(<<h, g>> \in R)
  BY <1>2, WFMin
<1>4. \A h \in S : ~(h < g)
  BY <1>2, <1>3, Zenon
<1>5. QED
  BY <1>4

LEMMA AcceptTakes ==
    ASSUME NEW c \in Clients, Accept(c)
    PROVE  \E f \in Free : /\ sock' = [sock EXCEPT ![f] = c]
                           /\ conn' = [conn EXCEPT ![f] = Fresh]
                           /\ Rearm(f, "in")
<1>1. Free \in SUBSET Nat /\ Free # {}
  BY DEF Free, Fds, Accept
<1>2. DEFINE least(g) == \A h \in Free : g <= h
<1>3. \E g \in Free : least(g)
  BY <1>1, LeastExists
<1>4. (CHOOSE g \in Free : least(g)) \in Free
  BY <1>3
<1>5. QED
  BY <1>4 DEF Accept

LEMMA AcceptTypes == ASSUME TInv, NEW c \in Clients, Accept(c) PROVE TInv'
<1> USE DEF TInv
<1>1. UNCHANGED <<client, rcv, snd, rst, newconn, jobs, worker, pending, writes, ticks,
                  timer, wakeup, loop, batch, files>> /\ backlog' = backlog \ {c}
  BY DEF Accept, poolVars, timeVars, loopVars
<1>2. PeersOK' /\ PoolOK' /\ LoopOK'
  BY <1>1, PoolAside, LoopAside DEF PeersOK
<1>3. PICK f \in Free : /\ sock' = [sock EXCEPT ![f] = c]
                        /\ conn' = [conn EXCEPT ![f] = Fresh]
                        /\ Rearm(f, "in")
  BY AcceptTakes
<1>4. f \in Fds /\ sock[f] = NoClient /\ conn[f] = NoConn
  BY <1>3 DEF Free, SocketsOK, ConnOwnsSocket
<1>5. mode' \in [Fds -> {"in", "out"}] /\ rdl' \subseteq Fds
  BY <1>3, <1>4, RearmTyped
<1>6. /\ Fresh \in ConnType /\ Fresh # NoConn
      /\ Fresh.written <= Len(Fresh.wbuf) /\ ~Fresh.fileFd
  <2>1. Fresh.written = 0 /\ Fresh.wbuf = <<>> /\ ~Fresh.fileFd
    BY DEF Fresh
  <2>2. QED
    BY <2>1, FreshTyped
<1>7. \A g \in Fds : /\ conn'[g] = IF g = f THEN Fresh ELSE conn[g]
                     /\ sock'[g] = IF g = f THEN c ELSE sock[g]
  BY <1>3, <1>4 DEF SocketsOK
<1>8. SocketsOK'
  <2>1. conn' \in [Fds -> ConnType \cup {NoConn}]
        /\ sock' \in [Fds -> Clients \cup {NoClient}]
    BY <1>3, <1>6 DEF SocketsOK
  <2>2. \A g \in Fds : conn'[g] # NoConn => conn'[g].written <= Len(conn'[g].wbuf)
    BY <1>6, <1>7 DEF SocketsOK
  <2>3. c # NoClient
    BY ClientsAssumption
  <2>4. ConnOwnsSocket'
    BY <1>6, <1>7, <2>3 DEF SocketsOK, ConnOwnsSocket
  <2>5. QED
    BY <1>5, <2>1, <2>2, <2>4 DEF SocketsOK
<1>9. FilesOK'
  <2>1. Holding(conn', Fds) = Holding(conn, Fds)
    BY <1>4, <1>6, <1>7 DEF Holding
  <2>2. QED
    BY <1>1, <2>1 DEF FilesOK
<1>10. QED
  BY <1>2, <1>8, <1>9

(* A connection timed out or in error is closed with its file.              *)
LEMMA EndTypes == ASSUME TInv, CleanupTimeouts \/ (\E f \in Fds, ev \in SocketEvents :
                                                      HandleError(f, ev))
                  PROVE  TInv'
<1> USE DEF TInv
<1>1. /\ UNCHANGED <<client, kernelVars, jobs, worker, pending, writes, ticks, wakeup, loop>>
      /\ timer' \in BOOLEAN /\ batch' \subseteq batch
  BY DEF CleanupTimeouts, HandleError, Handle, poolVars, timeVars, LoopOK
<1>2. PICK fs \in SUBSET Fds : Erase(fs) /\ files' = files - Cardinality(Streaming(fs))
  <2>1. CASE CleanupTimeouts
    BY <2>1 DEF CleanupTimeouts
  <2>2. ASSUME NEW f \in Fds, NEW ev \in SocketEvents, HandleError(f, ev)
        PROVE  Erase({f}) /\ files' = files - Cardinality(Streaming({f}))
    BY <2>2 DEF HandleError
  <2>3. QED
    BY <2>1, <2>2
<1>3. PeersOK' /\ PoolOK' /\ LoopOK'
  BY <1>1, PeersAside, PoolAside DEF LoopOK
<1>4. QED
  BY <1>2, <1>3, EraseCloses

LEMMA ReadTypes == ASSUME TInv, NEW f \in Fds, NEW ev \in SocketEvents, HandleRead(f, ev)
                   PROVE  TInv'
<1> USE DEF TInv
<1>1. /\ UNCHANGED <<client, snd, rst, backlog, newconn, jobs, worker, pending, writes,
                     ticks, timer, wakeup, files>>
      /\ batch' \subseteq batch
  BY DEF HandleRead, Handle, poolVars, timeVars
<1>2. PoolOK'
  BY <1>1, PoolAside
<1>3. CASE EndOfStream(sock[f])
  <2>1. Erase({f}) /\ UNCHANGED <<rcv, loop>>
    BY <1>3 DEF HandleRead
  <2>3. SocketsOK' /\ FilesOK'
    BY <1>1, <2>1, EndLeaves
  <2>4. PeersOK' /\ LoopOK'
    BY <1>1, <2>1 DEF PeersOK, LoopOK
  <2>5. QED
    BY <1>2, <2>3, <2>4
<1>4. CASE ~EndOfStream(sock[f]) /\ rcv[sock[f]] = <<>>
  <2>1. UNCHANGED <<rcv, conn, loop, sockVars>>
    BY <1>4 DEF HandleRead
  <2>2. PeersOK' /\ LoopOK'
    BY <1>1, <2>1 DEF PeersOK, LoopOK
  <2>3. rdl' \subseteq Fds
    BY <2>1 DEF SocketsOK, sockVars
  <2>4. QED
    BY <1>1, <1>2, <2>1, <2>2, <2>3, SocketsAside DEF sockVars
<1>5. CASE ~EndOfStream(sock[f]) /\ rcv[sock[f]] # <<>>
  <2> DEFINE c == sock[f]
  <2>1. c \in Clients /\ conn[f] # NoConn
    BY <1>5 DEF EndOfStream, SocketsOK, ConnOwnsSocket
  <2>2. rcv[c] \in Seq(Segment)
    BY <2>1 DEF PeersOK
  <2>3. /\ rcv' = [rcv EXCEPT ![c] = Drop(rcv[c], Len(rcv[c]))]
        /\ conn' = [conn EXCEPT ![f].rbuf = conn[f].rbuf \o rcv[c], ![f].age = 0]
        /\ loop' = LoopAt("check", f) /\ UNCHANGED sockVars
    BY <1>5 DEF HandleRead, RequestData
  <2>4. PeersOK'
    <3>1. Drop(rcv[c], Len(rcv[c])) \in Seq(Segment)
      BY <2>2, DropTyped
    <3>2. QED
      BY <1>1, <2>1, <2>3, <3>1 DEF PeersOK
  <2>5. LoopOK'
    BY <1>1, <2>3, LoopTyped DEF LoopOK
  <2>6. SocketsOK' /\ FilesOK'
    <3>1. PICK k : k = conn[f]
      OBVIOUS
    <3>2. k \in ConnType /\ k.written <= Len(k.wbuf)
      BY <2>1, <3>1, ConnectionTyped
    <3>3. PICK b : b = k.rbuf \o rcv[c]
      OBVIOUS
    <3>4. b \in Seq(Segment)
      <4>1. k.rbuf \in Seq(Segment)
        BY <3>2 DEF ConnType
      <4>2. QED
        BY <2>2, <3>3, <4>1
    <3>5. PICK j : j = [k EXCEPT !.rbuf = b, !.age = 0]
      OBVIOUS
    <3>6. /\ j \in ConnType /\ j.written = k.written /\ j.wbuf = k.wbuf
          /\ j.fileFd = k.fileFd
      BY <3>2, <3>4, <3>5 DEF ConnType
    <3>7. conn' = [conn EXCEPT ![f] = j]
      BY <2>3, <3>1, <3>3, <3>5
    <3>8. sock' = sock /\ mode' \in [Fds -> {"in", "out"}] /\ rdl' \subseteq Fds
      BY <2>3 DEF SocketsOK, sockVars
    <3>9. QED
      BY <1>1, <2>1, <3>1, <3>2, <3>6, <3>7, <3>8, SameFile
  <2>7. QED
    BY <1>2, <2>4, <2>5, <2>6
<1>6. QED
  BY <1>3, <1>4, <1>5

-----------------------------------------------------------------------------
(* The three ways a buffered response leaves.                               *)
LEMMA FlushKeeps ==
    ASSUME PeersOK, SocketsOK, FilesOK, NEW f \in Fds, conn[f] # NoConn,
           FlushBuffer(f), UNCHANGED client
    PROVE  PeersOK' /\ SocketsOK' /\ FilesOK'
<1> DEFINE c == sock[f]
<1>1. PICK k : k = conn[f]
  OBVIOUS
<1>2. c \in Clients /\ k \in ConnType /\ k.written <= Len(k.wbuf)
  BY <1>1, ConnectionTyped
<1>3. k.wbuf \in Seq(UnitType) /\ Len(k.wbuf) \in Nat /\ k.written \in Nat
  BY <1>2 DEF ConnType
<1>4. PICK n : n = Least(Room(c), Len(k.wbuf) - k.written)
  OBVIOUS
<1>5. n \in Nat /\ n <= Room(c) /\ k.written + n <= Len(k.wbuf)
  <2>1. Len(k.wbuf) - k.written \in Nat /\ Room(c) \in Nat
    BY <1>2, <1>3, RoomTyped
  <2>2. n \in Nat /\ n <= Room(c) /\ n <= Len(k.wbuf) - k.written
    BY <1>4, <2>1, LeastTyped
  <2>3. QED
    BY <1>3, <2>1, <2>2
<1>6. CASE c \in rst
  <2>1. Erase({f}) /\ UNCHANGED <<kernelVars, files>>
    BY <1>6 DEF FlushBuffer
  <2>2. QED
    BY <2>1, EndLeaves, PeersAside
<1>7. CASE c \notin rst
  <2>1. /\ Deliver(c, SubSeq(k.wbuf, k.written + 1, k.written + n))
        /\ \/ /\ conn' = [conn EXCEPT ![f].wbuf = <<>>, ![f].written = 0]
              /\ Rearm(f, "in")
           \/ /\ conn' = [conn EXCEPT ![f].written = k.written + n]
              /\ UNCHANGED <<mode, rdl>>
        /\ UNCHANGED <<sock, files>>
    BY <1>1, <1>4, <1>7 DEF FlushBuffer
  <2>2. PeersOK'
    BY <1>2, <1>3, <1>5, <2>1, SliceTyped, DeliverKeeps
  <2>3. mode' \in [Fds -> {"in", "out"}] /\ rdl' \subseteq Fds
    BY <2>1, RearmTyped DEF SocketsOK
  <2>4. PICK j \in ConnType : /\ conn' = [conn EXCEPT ![f] = j]
                              /\ j.written <= Len(j.wbuf) /\ j.fileFd = k.fileFd
    <3>1. CASE conn' = [conn EXCEPT ![f].wbuf = <<>>, ![f].written = 0]
      <4>1. PICK e : e = <<>>
        OBVIOUS
      <4>2. e \in Seq(UnitType) /\ Len(e) = 0
        BY <4>1
      <4>3. PICK j : j = [k EXCEPT !.wbuf = e, !.written = 0]
        OBVIOUS
      <4>4. j \in ConnType /\ j.written = 0 /\ j.wbuf = e /\ j.fileFd = k.fileFd
        BY <1>2, <4>2, <4>3 DEF ConnType
      <4>5. conn' = [conn EXCEPT ![f] = j]
        BY <1>1, <3>1, <4>1, <4>3
      <4>6. j.written <= Len(j.wbuf)
        BY <4>2, <4>4
      <4>7. QED
        BY <4>4, <4>5, <4>6
    <3>2. CASE conn' = [conn EXCEPT ![f].written = k.written + n]
      <4>1. PICK m : m = k.written + n
        OBVIOUS
      <4>2. m \in Nat /\ m <= Len(k.wbuf)
        BY <1>3, <1>5, <4>1
      <4>3. PICK j : j = [k EXCEPT !.written = m]
        OBVIOUS
      <4>4. j \in ConnType /\ j.written = m /\ j.wbuf = k.wbuf /\ j.fileFd = k.fileFd
        BY <1>2, <4>2, <4>3 DEF ConnType
      <4>5. conn' = [conn EXCEPT ![f] = j]
        BY <1>1, <3>2, <4>1, <4>3
      <4>6. QED
        BY <4>2, <4>4, <4>5
    <3>3. QED
      BY <2>1, <3>1, <3>2
  <2>5. SocketsOK' /\ FilesOK'
    BY <1>1, <2>1, <2>3, <2>4, SameFile
  <2>6. QED
    BY <2>2, <2>5
<1>8. QED
  BY <1>6, <1>7

(* A response of which some is buffered for later.                          *)
LEMMA BufferKeeps ==
    ASSUME SocketsOK, FilesOK, NEW f \in Fds, conn[f] # NoConn, NEW us \in Seq(UnitType),
           conn' = [conn EXCEPT ![f].wbuf = us, ![f].written = 0], Rearm(f, "out"),
           UNCHANGED <<sock, files>>
    PROVE  SocketsOK' /\ FilesOK'
<1>1. PICK k : k = conn[f]
  OBVIOUS
<1>2. k \in ConnType
  BY <1>1, ConnectionTyped
<1>3. PICK j : j = [k EXCEPT !.wbuf = us, !.written = 0]
  OBVIOUS
<1>4. j \in ConnType /\ j.written = 0 /\ j.wbuf = us /\ j.fileFd = k.fileFd
  BY <1>2, <1>3 DEF ConnType
<1>5. conn' = [conn EXCEPT ![f] = j]
  BY <1>1, <1>3
<1>6. mode' \in [Fds -> {"in", "out"}] /\ rdl' \subseteq Fds
  BY RearmTyped
<1>7. j.written <= Len(j.wbuf)
  BY <1>4
<1>8. QED
  BY <1>1, <1>4, <1>5, <1>6, <1>7, SameFile

LEMMA WriteTypes == ASSUME TInv, NEW f \in Fds, NEW ev \in SocketEvents, HandleWrite(f, ev)
                    PROVE  TInv'
<1> USE DEF TInv
<1>1. /\ UNCHANGED <<client, jobs, worker, pending, writes, ticks, timer, wakeup, loop>>
      /\ batch' \subseteq batch
  BY DEF HandleWrite, Handle, poolVars, timeVars
<1>2. PoolOK' /\ LoopOK'
  BY <1>1, PoolAside DEF LoopOK
<1>3. CASE conn[f] = NoConn
  <2>1. UNCHANGED <<sockVars, kernelVars, conn, files>>
    BY <1>3 DEF HandleWrite
  <2>2. rdl' \subseteq Fds /\ UNCHANGED <<sock, mode, conn, files>>
    BY <2>1 DEF SocketsOK, sockVars
  <2>3. QED
    BY <1>1, <1>2, <2>1, <2>2, PeersAside, SocketsAside
<1>4. CASE conn[f] # NoConn /\ conn[f].isFileStream /\ conn[f].fileFd
  <2>1. SendFileChunked(f, conn[f], <<>>, files)
    BY <1>4 DEF HandleWrite
  <2>2. PICK k : k = conn[f]
    OBVIOUS
  <2>3. k \in ConnType /\ k.fileFd /\ k.written <= Len(k.wbuf) /\ sock[f] \in Clients
    BY <1>4, <2>2, ConnectionTyped
  <2>4. PICK head \in Seq(UnitType) : head = <<>> /\ Len(head) = 0
    <3>1. <<>> \in Seq(UnitType) /\ Len(<<>>) = 0
      OBVIOUS
    <3>2. QED
      BY <3>1
  <2>5. Len(head) <= Room(sock[f])
    BY <2>3, <2>4, RoomTyped
  <2>6. files \in Nat /\ files >= Cardinality(Holding(conn, Fds \ {f})) + 1
    <3>1. Cardinality(Holding(conn, Fds \ {f})) \in Nat
          /\ Cardinality(Holding(conn, Fds)) \in Nat
      BY HoldingFinite
    <3>2. Cardinality(Holding(conn, Fds)) = Cardinality(Holding(conn, Fds \ {f})) + 1
      BY <1>4, HoldingSplit
    <3>3. QED
      BY <3>1, <3>2 DEF FilesOK
  <2>7. SendFileChunked(f, k, head, files)
    BY <2>1, <2>2, <2>4
  <2>8. QED
    BY <1>1, <1>2, <1>4, <2>3, <2>5, <2>6, <2>7, ChunkKeeps
<1>5. CASE conn[f] # NoConn /\ ~(conn[f].isFileStream /\ conn[f].fileFd)
  <2>1. FlushBuffer(f)
    BY <1>5 DEF HandleWrite
  <2>2. QED
    BY <1>1, <1>2, <1>5, <2>1, FlushKeeps
<1>6. QED
  BY <1>3, <1>4, <1>5

-----------------------------------------------------------------------------
(* The ways a response is first sent.                                       *)
LEMMA NowKeeps ==
    ASSUME PeersOK, SocketsOK, FilesOK, NEW f \in Fds, conn[f] # NoConn,
           NEW us \in Seq(UnitType), SendNow(f, us), UNCHANGED client
    PROVE  PeersOK' /\ SocketsOK' /\ FilesOK'
<1> DEFINE c == sock[f]
<1>1. c \in Clients /\ files' = files
  BY ConnectionTyped DEF SendNow
<1>2. PICK n : n = Least(Room(c), Len(us))
  OBVIOUS
<1>3. n \in Nat /\ n <= Room(c) /\ n <= Len(us) /\ Len(us) \in Nat
  <2>1. Room(c) \in Nat /\ Len(us) \in Nat
    BY <1>1, RoomTyped
  <2>2. QED
    BY <1>2, <2>1, LeastTyped
<1>4. CASE c \in rst
  <2>1. UNCHANGED <<kernelVars, conn, sockVars>>
    BY <1>4 DEF SendNow
  <2>2. rdl' \subseteq Fds /\ UNCHANGED <<sock, mode>>
    BY <2>1 DEF SocketsOK, sockVars
  <2>3. QED
    BY <1>1, <2>1, <2>2, PeersAside, SocketsAside
<1>5. CASE c \notin rst
  <2>1. /\ Deliver(c, SubSeq(us, 1, n))
        /\ \/ UNCHANGED <<conn, sockVars>>
           \/ /\ conn' = [conn EXCEPT ![f].wbuf = Drop(us, n), ![f].written = 0]
              /\ Rearm(f, "out") /\ UNCHANGED sock
    BY <1>2, <1>5 DEF SendNow
  <2>2. SubSeq(us, 1, n) \in Seq(UnitType) /\ Len(SubSeq(us, 1, n)) <= Room(c)
    BY <1>3, PrefixTyped
  <2>3. PeersOK'
    BY <1>1, <2>1, <2>2, DeliverKeeps
  <2>4. CASE UNCHANGED <<conn, sockVars>>
    <3>1. rdl' \subseteq Fds /\ UNCHANGED <<sock, mode>>
      BY <2>4 DEF SocketsOK, sockVars
    <3>2. QED
      BY <1>1, <2>3, <2>4, <3>1, SocketsAside
  <2>5. CASE /\ conn' = [conn EXCEPT ![f].wbuf = Drop(us, n), ![f].written = 0]
             /\ Rearm(f, "out") /\ UNCHANGED sock
    <3>1. PICK rest : rest = Drop(us, n)
      OBVIOUS
    <3>2. rest \in Seq(UnitType)
      BY <1>3, <3>1, DropTyped
    <3>3. QED
      BY <1>1, <2>3, <2>5, <3>1, <3>2, BufferKeeps
  <2>6. QED
    BY <2>1, <2>4, <2>5
<1>6. QED
  BY <1>4, <1>5

LEMMA StreamKeeps ==
    ASSUME PeersOK, SocketsOK, FilesOK, NEW f \in Fds, conn[f] # NoConn,
           NEW r \in ResponseType, StreamFile(f, r), UNCHANGED client
    PROVE  PeersOK' /\ SocketsOK' /\ FilesOK'
<1>1. sock[f] \in Clients /\ conn[f] \in ConnType
  BY ConnectionTyped
<1>2. PICK k : k = [conn[f] EXCEPT !.isFileStream = TRUE, !.fileFd = TRUE, !.stream = Body(r),
                                   !.wbuf = <<>>, !.written = 0]
  OBVIOUS
<1>3. k \in ConnType /\ k.fileFd /\ k.written <= Len(k.wbuf)
  <2>1. PICK b \in Seq(UnitType) : b = Body(r)
    BY UnitsTyped
  <2>2. PICK e \in Seq(UnitType) : e = <<>>
    <3>1. <<>> \in Seq(UnitType)
      OBVIOUS
    <3>2. QED
      BY <3>1
  <2>3. PICK t \in BOOLEAN : t = TRUE
    OBVIOUS
  <2>4. k = [conn[f] EXCEPT !.isFileStream = t, !.fileFd = t, !.stream = b,
                            !.wbuf = e, !.written = 0]
    BY <1>2, <2>1, <2>2, <2>3
  <2>5. k \in ConnType /\ k.fileFd = t /\ k.written = 0 /\ k.wbuf = e
    BY <1>1, <2>4 DEF ConnType
  <2>6. QED
    BY <2>2, <2>3, <2>5
<1>4. PICK n : n = Least(Room(sock[f]), 1)
  OBVIOUS
<1>5. n \in Nat /\ n <= Room(sock[f]) /\ n <= 1
  BY <1>1, <1>4, RoomTyped, LeastTyped
<1>6. PICK head : head = SubSeq(Header(r), 1, n)
  OBVIOUS
<1>7. head \in Seq(UnitType) /\ Len(head) <= Room(sock[f])
  BY <1>5, <1>6, UnitsTyped, PrefixTyped
<1>8. SendFileChunked(f, k, head, files + 1)
  BY <1>2, <1>4, <1>6 DEF StreamFile
<1>9. files + 1 \in Nat /\ files + 1 >= Cardinality(Holding(conn, Fds \ {f})) + 1
  <2>1. Cardinality(Holding(conn, Fds \ {f})) \in Nat
    BY HoldingFinite
  <2>2. files \in Nat /\ files >= Cardinality(Holding(conn, Fds \ {f}))
    BY FilesWithout
  <2>3. QED
    BY <2>1, <2>2
<1>10. PICK open : open = files + 1
  OBVIOUS
<1>11. QED
  BY <1>3, <1>7, <1>8, <1>9, <1>10, ChunkKeeps

LEMMA GoneKeeps ==
    ASSUME PeersOK, SocketsOK, FilesOK, NEW f \in Fds, conn[f] # NoConn,
           NEW r \in ResponseType, Erase({f}), UNCHANGED <<client, files>>,
           IF sock[f] \in rst THEN UNCHANGED kernelVars
           ELSE Deliver(sock[f], SubSeq(Header(r), 1, Least(Room(sock[f]), 1)))
    PROVE  PeersOK' /\ SocketsOK' /\ FilesOK'
<1>1. SocketsOK' /\ FilesOK'
  BY EndLeaves
<1>2. sock[f] \in Clients
  BY ConnectionTyped
<1>3. PICK n : n = Least(Room(sock[f]), 1)
  OBVIOUS
<1>4. n \in Nat /\ n <= Room(sock[f]) /\ n <= 1
  BY <1>2, <1>3, RoomTyped, LeastTyped
<1>5. SubSeq(Header(r), 1, n) \in Seq(UnitType) /\ Len(SubSeq(Header(r), 1, n)) <= Room(sock[f])
  BY <1>4, UnitsTyped, PrefixTyped
<1>6. PeersOK'
  BY <1>2, <1>3, <1>5, DeliverKeeps, PeersAside
<1>7. QED
  BY <1>1, <1>6

LEMMA DeliverTypes == ASSUME TInv, DeliverNext PROVE TInv'
<1> USE DEF TInv
<1>1. UNCHANGED <<client, jobs, worker, pending, ticks, timer, wakeup, loop, batch>>
  BY DEF DeliverNext, poolVars, timeVars
<1>2. writes \in Seq(ResponseType) /\ writes # <<>> /\ writes' = Tail(writes)
  BY DEF DeliverNext, PoolOK
<1>3. Head(writes) \in ResponseType /\ Tail(writes) \in Seq(ResponseType)
  BY <1>2, HeadTailProperties
<1>4. PoolOK' /\ LoopOK'
  BY <1>1, <1>2, <1>3, LoopAside DEF PoolOK
<1>5. PICK r \in ResponseType : r = Head(writes)
  BY <1>3
<1>6. r.fd \in Fds
  BY DEF ResponseType
<1>7. \/ UNCHANGED <<kernelVars, sockVars, conn, files>>
      \/ conn[r.fd] # NoConn /\ SendNow(r.fd, Units(r))
      \/ conn[r.fd] # NoConn /\ SendLater(r.fd, Units(r))
      \/ conn[r.fd] # NoConn /\ StreamFile(r.fd, r)
      \/ /\ conn[r.fd] # NoConn /\ Erase({r.fd}) /\ UNCHANGED files
         /\ IF sock[r.fd] \in rst THEN UNCHANGED kernelVars
            ELSE Deliver(sock[r.fd], SubSeq(Header(r), 1, Least(Room(sock[r.fd]), 1)))
  BY <1>5 DEF DeliverNext
<1>8. CASE UNCHANGED <<kernelVars, sockVars, conn, files>>
  <2>1. rdl' \subseteq Fds /\ UNCHANGED <<sock, mode, conn, files>>
    BY <1>8 DEF SocketsOK, sockVars
  <2>2. QED
    BY <1>1, <1>4, <1>8, <2>1, PeersAside, SocketsAside
<1>9. CASE conn[r.fd] # NoConn /\ SendNow(r.fd, Units(r))
  BY <1>1, <1>4, <1>6, <1>9, UnitsTyped, NowKeeps
<1>10. CASE conn[r.fd] # NoConn /\ SendLater(r.fd, Units(r))
  <2>1. PICK us \in Seq(UnitType) : us = Units(r)
    BY UnitsTyped
  <2>2. /\ conn' = [conn EXCEPT ![r.fd].wbuf = us, ![r.fd].written = 0]
        /\ Rearm(r.fd, "out") /\ UNCHANGED <<sock, kernelVars, files>>
    BY <1>10, <2>1 DEF SendLater
  <2>3. QED
    BY <1>1, <1>4, <1>6, <1>10, <2>2, PeersAside, BufferKeeps
<1>11. CASE conn[r.fd] # NoConn /\ StreamFile(r.fd, r)
  BY <1>1, <1>4, <1>6, <1>11, StreamKeeps
<1>12. CASE /\ conn[r.fd] # NoConn /\ Erase({r.fd}) /\ UNCHANGED files
            /\ IF sock[r.fd] \in rst THEN UNCHANGED kernelVars
               ELSE Deliver(sock[r.fd], SubSeq(Header(r), 1, Least(Room(sock[r.fd]), 1)))
  BY <1>1, <1>4, <1>6, <1>12, GoneKeeps
<1>13. QED
  BY <1>7, <1>8, <1>9, <1>10, <1>11, <1>12

-----------------------------------------------------------------------------
LEMMA InitTypes == Init => TInv
<1> SUFFICES ASSUME Init PROVE TInv
  OBVIOUS
<1>1. PeersOK
  <2>1. PICK e : e = <<>>
    OBVIOUS
  <2>2. /\ e \in Seq(UnitType) /\ e \in Seq(Segment) /\ Len(e) <= SndCap
    BY <2>1, SizesAssumption
  <2>3. client = [c \in Clients |-> [st |-> "idle", sent |-> 0, got |-> e]]
        /\ rcv = [c \in Clients |-> e] /\ snd = [c \in Clients |-> e]
        /\ rst = {} /\ backlog = {} /\ newconn = FALSE
    BY <2>1 DEF Init
  <2>4. client \in [Clients -> [st : {"idle", "open", "closed"}, sent : Nat,
                                got : Seq(UnitType)]]
    BY <2>2, <2>3
  <2>5. QED
    BY <2>2, <2>3, <2>4 DEF PeersOK
<1>2. SocketsOK
  BY DEF Init, SocketsOK, ConnOwnsSocket
<1>3. FilesOK
  <2>1. files = 0 /\ \A f \in Fds : conn[f] = NoConn
    BY DEF Init
  <2>2. Holding(conn, Fds) = {}
    BY <2>1 DEF Holding
  <2>3. Cardinality(Holding(conn, Fds)) = 0
    BY <2>2, FS_EmptySet
  <2>4. QED
    BY <2>1, <2>3 DEF FilesOK
<1>4. PoolOK
  <2>1. Idle \in WorkerType /\ Idle.pc # "run" /\ <<>> \in Seq(ResponseType)
    BY DEF Idle, WorkerType
  <2>2. QED
    BY <2>1 DEF Init, PoolOK
<1>5. LoopOK
  <2>1. ticks = 0 /\ timer = FALSE /\ wakeup = 0 /\ batch = {} /\ loop = LoopAt("events", 0)
    BY DEF Init
  <2>2. loop \in [pc : {"events", "accept", "check", "drained", "deliver"}, fd : Fds \cup {0}]
    BY <2>1, LoopTyped
  <2>3. 0 \in 0 .. MaxTicks
    BY SizesAssumption
  <2>4. QED
    BY <2>1, <2>2, <2>3 DEF LoopOK
<1>6. QED
  BY <1>1, <1>2, <1>3, <1>4, <1>5 DEF TInv

(* The parts are an invariant: one lemma per action, above.                 *)
LEMMA TypesHold == Spec => []TInv
<1>1. TInv /\ [Next]_vars => TInv'
  <2> SUFFICES ASSUME TInv, [Next]_vars PROVE TInv'
    OBVIOUS
  <2>1. CASE \E c \in Clients : Peer(c)
    BY <2>1, PeerTypes
  <2>2. CASE TimerExpires
    BY <2>2, TimerTypes
  <2>3. CASE Loop
    BY <2>3, WaitTypes, MoveTypes, AcceptTypes, EndTypes, ReadTypes, WriteTypes, DeliverTypes
       DEF Loop
  <2>4. CASE \E w \in Workers : Work(w)
    BY <2>4, WorkTypes
  <2>5. CASE UNCHANGED vars
    <3>1. UNCHANGED <<client, kernelVars, jobs, worker, pending, writes, ticks, timer, wakeup,
                      loop, batch, sock, mode, conn, files, rdl>>
      BY <2>5 DEF vars, timeVars, sockVars, poolVars, loopVars
    <3>2. rdl' \subseteq Fds
      BY <3>1 DEF TInv, SocketsOK
    <3>3. QED
      BY <3>1, <3>2, PeersAside, SocketsAside, PoolAside, LoopAside DEF TInv
  <2>6. QED
    BY <2>1, <2>2, <2>3, <2>4, <2>5 DEF Next
<1>2. QED
  BY <1>1, InitTypes, PTL DEF Spec

(* Every variable has its type: no partial send, no file and no counter is  *)
(* taken below zero or past the end of what it counts.                      *)
THEOREM TypesCorrect == Spec => []TypeOK
<1>1. TInv => TypeOK
  BY TypesFollow
<1>2. QED
  BY <1>1, TypesHold, PTL

(* A connection is in connections_ exactly while its socket is open, on     *)
(* each closing path of the loop and whatever the workers and peers do.     *)
THEOREM SocketsMatchConnections == Spec => []ConnOwnsSocket
<1>1. TInv => ConnOwnsSocket
  BY TypesFollow
<1>2. QED
  BY <1>1, TypesHold, PTL

-----------------------------------------------------------------------------
(* The order of the answers, for peers that leave when they were answered   *)
(* and connections that do not time out.                                    *)
(*                                                                         *)
(* What a connection has still to send, and all the answers to its client:  *)
(* received, in the socket, and to be sent.                                 *)
Rest(k) == IF k.fileFd THEN k.stream ELSE SubSeq(k.wbuf, k.written + 1, Len(k.wbuf))
Whole(p, s, k) == (p.got \o s) \o Rest(k)

(* Answers to c in the order of its requests ...                            *)
Ordered(c, us) ==
    /\ \A i \in 1 .. Len(us) : us[i].c = c
    /\ us # <<>> => us[1].n = 1 /\ us[1].i = 1
    /\ \A i \in 1 .. Len(us) - 1 : Follows(us[i], us[i + 1])
(* ... that are whole answers to n requests.                                *)
Answers(c, us, n) ==
    /\ Ordered(c, us)
    /\ us = <<>> => n = 0
    /\ us # <<>> => us[Len(us)].last /\ us[Len(us)].n = n
    /\ \A i \in 1 .. Len(us) : us[i].n <= n /\ (us[i].last /\ us[i].n = n => i = Len(us))
Count(us) == IF us = <<>> THEN 0 ELSE us[Len(us)].n

(* The segments of a request of c, from the one numbered from on.           *)
Part(c, from, b) == /\ Len(b) <= Segments
                    /\ \A j \in 1 .. Len(b) : b[j] = [c |-> c, s |-> from + j - 1]

(* Where the request read from a descriptor is: nowhere, detached to the    *)
(* pool, or with a worker or the queue, or swapped out of it.               *)
Runs(w, f) == worker[w].pc = "run" /\ worker[w].fd = f
Out(f) == \/ \E w \in Workers : Runs(w, f)
          \/ \E i \in 1 .. Len(pending) : pending[i].fd = f
          \/ \E i \in 1 .. Len(writes) : writes[i].fd = f
Stage(f) == IF jobs[f] > 0 THEN "job" ELSE IF Out(f) THEN "out" ELSE "none"

(* The client p of a connection k, with q on its way to it and s from it,   *)
(* n of its requests answered: what it has asked since.                     *)
FileShape(k) == k.fileFd => k.isFileStream /\ k.stream # <<>> /\ k.wbuf = <<>>
Quiet(s, k) == s = <<>> /\ Rest(k) = <<>>
Asks(c, p, q, s, k, n, stage) ==
    LET b == k.rbuf \o q
    IN  /\ stage = "none" =>
             /\ Part(c, n * Segments, b) /\ p.sent = n * Segments + Len(b)
             /\ b # <<>> \/ p.st = "closed" => Quiet(s, k)
             /\ p.st = "closed" => b = <<>>
        /\ stage # "none" => /\ p.st = "open" /\ p.sent = (n + 1) * Segments
                             /\ Quiet(s, k) /\ q = <<>>
        /\ stage = "job" => Part(c, n * Segments, k.rbuf) /\ Len(k.rbuf) = Segments
        /\ stage = "out" => k.rbuf = <<>>
Good(c, p, q, s, k, stage) ==
    LET us == Whole(p, s, k)
    IN  /\ p.st # "idle" /\ Answers(c, us, Count(us))
        /\ FileShape(k)
        /\ Asks(c, p, q, s, k, Count(us), stage)

GoodAt(f) == LET c == sock[f] IN Good(c, client[c], rcv[c], snd[c], conn[f], Stage(f))
Lines == \A f \in Fds : sock[f] # NoClient => GoodAt(f)
Socks == \A f \in Fds : sock[f] # NoClient =>
    /\ sock[f] \notin backlog /\ sock[f] \notin rst /\ conn[f].age <= ticks
    /\ \A g \in Fds : sock[g] = sock[f] => g = f
Waits(c) ==
    /\ client[c].got = <<>> /\ snd[c] = <<>> /\ c \notin rst
    /\ client[c].sent = Len(rcv[c]) /\ Part(c, 0, rcv[c]) /\ client[c].st # "closed"
    /\ \A f \in Fds : sock[f] # c
WaitsIfNew(c) == /\ client[c].st = "idle" => c \notin backlog /\ client[c].sent = 0
                 /\ client[c].st = "idle" \/ c \in backlog => Waits(c)
Waiting == \A c \in Clients : WaitsIfNew(c)
LeftInOrder(c) == (\A f \in Fds : sock[f] # c) => Ordered(c, client[c].got \o snd[c])
Left == \A c \in Clients : LeftInOrder(c)

(* A request is in one place, whose connection is there.                    *)
Single ==
    /\ \A f \in Fds : jobs[f] <= 1 /\ (jobs[f] > 0 => ~Out(f))
    /\ \A w, x \in Workers : worker[w].pc = "run" /\ Runs(x, worker[w].fd) => w = x
    /\ \A i, j \in 1 .. Len(pending) : pending[i].fd = pending[j].fd => i = j
    /\ \A i, j \in 1 .. Len(writes) : writes[i].fd = writes[j].fd => i = j
    /\ \A i \in 1 .. Len(pending), j \in 1 .. Len(writes) : pending[i].fd # writes[j].fd
    /\ \A w \in Workers : worker[w].pc = "run" =>
          /\ \A i \in 1 .. Len(pending) : pending[i].fd # worker[w].fd
          /\ \A i \in 1 .. Len(writes) : writes[i].fd # worker[w].fd
    /\ \A f \in Fds : Stage(f) # "none" =>
          sock[f] # NoClient /\ ~(loop.pc = "check" /\ loop.fd = f)

(* What it is there.                                                        *)
Due(r) == LET c == sock[r.fd] IN r.c = c /\ r.kind \in Kinds /\ r.n * Segments = client[c].sent
Contents ==
    /\ \A w \in Workers : worker[w].pc = "run" =>
          LET c == sock[worker[w].fd]
          IN  /\ Part(c, client[c].sent - Segments, worker[w].data)
              /\ Len(worker[w].data) = Segments
    /\ \A i \in 1 .. Len(pending) : Due(pending[i])
    /\ \A i \in 1 .. Len(writes) : Due(writes[i])
Moments == /\ loop.pc # "deliver" => writes = <<>>
           /\ \A e \in batch : "err" \notin e[3]
OInv == Lines /\ Socks /\ Waiting /\ Left /\ Single /\ Contents /\ Moments /\ NoFileLeak

LEMMA Spread ==
    ASSUME NEW S \in Nat \ {0}, NEW a \in Int, NEW b \in Int, a < b
    PROVE  a * S + S <= b * S
<1>1. PICK d \in Nat : d = b - a - 1
  OBVIOUS
<1>2. d * S >= 0
  OBVIOUS
<1>3. b = a + d + 1
  BY <1>1
<1>4. b * S = a * S + d * S + S
  BY <1>3
<1>5. QED
  BY <1>2, <1>4

LEMMA Division ==
    ASSUME NEW S \in Nat \ {0}, NEW k \in Nat, NEW j \in 0 .. S - 1
    PROVE  (k * S + j) % S = j /\ (k * S + j) \div S = k
<1>1. PICK x \in Nat : x = k * S + j
  OBVIOUS
<1>2. PICK d, m : d = x \div S /\ m = x % S
  OBVIOUS
<1>3. d \in Int /\ m \in 0 .. S - 1 /\ x = S * d + m
  BY <1>2
<1>4. x = d * S + m
  BY <1>3
<1>5. ~(d < k)
  BY <1>1, <1>3, <1>4, Spread
<1>6. ~(k < d)
  BY <1>1, <1>3, <1>4, Spread
<1>7. d = k /\ m = j
  BY <1>1, <1>3, <1>4, <1>5, <1>6
<1>8. QED
  BY <1>1, <1>2, <1>7
LEMMA Cancel ==
    ASSUME NEW S \in Nat \ {0}, NEW a \in Int, NEW b \in Int, a * S = b * S
    PROVE a = b
<1>1. ~(a < b) /\ ~(b < a)
  BY Spread
<1>2. QED
  BY <1>1

-----------------------------------------------------------------------------
(* Sequences cut and put together.                                          *)
LEMMA Cut ==
    ASSUME NEW S, NEW s \in Seq(S), NEW m \in 0 .. Len(s), NEW n \in m .. Len(s)
    PROVE  /\ SubSeq(s, m + 1, n) \in Seq(S) /\ SubSeq(s, n + 1, Len(s)) \in Seq(S)
           /\ Len(SubSeq(s, n + 1, Len(s))) = Len(s) - n
           /\ SubSeq(s, m + 1, n) \o SubSeq(s, n + 1, Len(s)) = SubSeq(s, m + 1, Len(s))
<1>1. \A i \in 1 .. Len(s) : s[i] \in S
  OBVIOUS
<1>2. Len(s) \in Nat
  OBVIOUS
<1>3. SubSeq(s, m + 1, n) \in Seq(S)
  <2>1. \A i \in m + 1 .. n : s[i] \in S
    BY <1>1, <1>2
  <2>2. QED
    BY <1>2, <2>1, SubSeqProperties
<1>4. SubSeq(s, n + 1, Len(s)) \in Seq(S) /\ Len(SubSeq(s, n + 1, Len(s))) = Len(s) - n
  <2>1. \A i \in n + 1 .. Len(s) : s[i] \in S
    BY <1>1, <1>2
  <2>2. QED
    BY <1>2, <2>1, SubSeqProperties
<1>5. PICK j : j = m + 1
  OBVIOUS
<1>6. j \in 1 .. Len(s) + 1 /\ n \in j - 1 .. Len(s) /\ Len(s) \in n .. Len(s)
  BY <1>2, <1>5
<1>7. SubSeq(s, j, n) \o SubSeq(s, n + 1, Len(s)) = SubSeq(s, j, Len(s))
  BY <1>6, ConcatAdjacentSubSeq
<1>8. QED
  BY <1>3, <1>4, <1>5, <1>7, Zenon

LEMMA Associative ==
    ASSUME NEW S, NEW x \in Seq(S), NEW y \in Seq(S)
    PROVE  \A u \in Seq(S) : (u \o x) \o y = u \o (x \o y)
<1>1. ASSUME NEW u \in Seq(S) PROVE (u \o x) \o y = u \o (x \o y)
  BY ConcatAssociative
<1>2. QED
  BY <1>1

Chained(g, s, x, y, a, b, d, e) == a = s \o x /\ b = g \o a /\ d = g \o s /\ e = x \o y
Meets(b, y, d, e) == b \o y = d \o e
LEMMA Regrouped ==
    ASSUME NEW S, NEW g \in Seq(S), NEW s \in Seq(S), NEW x \in Seq(S), NEW y \in Seq(S),
           NEW a, NEW b, NEW d, NEW e, Chained(g, s, x, y, a, b, d, e)
    PROVE  Meets(b, y, d, e)
<1>1. d \in Seq(S)
  <2>1. g \o s \in Seq(S)
    BY ConcatProperties
  <2>2. QED
    BY <2>1, Zenon DEF Chained
<1>2. b = d \o x
  <2>1. \A u \in Seq(S) : (u \o s) \o x = u \o (s \o x)
    BY Associative
  <2>2. (g \o s) \o x = g \o (s \o x)
    BY <2>1, Zenon
  <2>3. QED
    BY <2>2, Zenon DEF Chained
<1>3. (d \o x) \o y = d \o (x \o y)
  <2>1. \A u \in Seq(S) : (u \o x) \o y = u \o (x \o y)
    BY Associative
  <2>2. QED
    BY <1>1, <2>1, Zenon
<1>4. QED
  BY <1>2, <1>3, Zenon DEF Chained, Meets

LEMMA HandedOver ==
    ASSUME NEW S, NEW a \in Seq(S), NEW q \in Seq(S), q # <<>>
    PROVE  /\ Append(a, Head(q)) \in Seq(S) /\ Tail(q) \in Seq(S)
           /\ Append(a, Head(q)) \o Tail(q) = a \o q
<1>1. Head(q) \in S /\ Tail(q) \in Seq(S)
  BY HeadTailProperties
<1>2. <<Head(q)>> \in Seq(S) /\ q = <<Head(q)>> \o Tail(q)
  <2>1. 1 \in 1 .. Len(q) /\ Len(q) \in 1 .. Len(q)
    OBVIOUS
  <2>2. SubSeq(q, 1, Len(q)) = <<q[1]>> \o SubSeq(q, 1 + 1, Len(q))
    BY <2>1, SubSeqRecursiveFirst
  <2>3. SubSeq(q, 1, Len(q)) = q /\ Tail(q) = SubSeq(q, 2, Len(q)) /\ Head(q) = q[1]
    BY SubSeqFull, TailIsSubSeq
  <2>4. <<Head(q)>> \in Seq(S)
    BY <1>1
  <2>5. 1 + 1 = 2
    OBVIOUS
  <2>6. QED
    BY <2>2, <2>3, <2>4, <2>5, Zenon
<1>3. Append(a, Head(q)) = a \o <<Head(q)>> /\ Append(a, Head(q)) \in Seq(S)
  BY <1>1, AppendIsConcat, AppendProperties
<1>4. (a \o <<Head(q)>>) \o Tail(q) = a \o (<<Head(q)>> \o Tail(q))
  BY <1>1, <1>2, ConcatAssociative
<1>5. QED
  BY <1>1, <1>2, <1>3, <1>4, Zenon

-----------------------------------------------------------------------------
(* An answer, or its beginning, after others.                               *)
Begun(c, us, n) ==
    \A i \in 1 .. Len(us) : /\ us[i].c = c /\ us[i].n = n /\ us[i].i = i
                            /\ us[i].last => i = Len(us)
Ended(us) == us # <<>> /\ us[Len(us)].last

LEMMA OneMore ==
    ASSUME NEW c, NEW n \in Nat, NEW a \in Seq(UnitType), NEW b \in Seq(UnitType),
           Answers(c, a, n), Begun(c, b, n + 1)
    PROVE  /\ Ordered(c, a \o b)
           /\ Ended(b) => Answers(c, a \o b, n + 1)
<1>1. PICK d : d = a \o b
  OBVIOUS
<1>2. /\ d \in Seq(UnitType) /\ Len(d) = Len(a) + Len(b)
      /\ \A i \in 1 .. Len(a) + Len(b) : d[i] = IF i <= Len(a) THEN a[i] ELSE b[i - Len(a)]
  <2>1. /\ a \o b \in Seq(UnitType) /\ Len(a \o b) = Len(a) + Len(b)
        /\ \A i \in 1 .. Len(a) + Len(b) : (a \o b)[i] = IF i <= Len(a) THEN a[i]
                                                                        ELSE b[i - Len(a)]
    BY ConcatProperties
  <2>2. QED
    BY <1>1, <2>1, Zenon
<1>3. Len(a) \in Nat /\ Len(b) \in Nat
  OBVIOUS
<1>4. \A i \in 1 .. Len(a) : d[i] = a[i] /\ i \in 1 .. Len(d)
  BY <1>2, <1>3
<1>5. \A j \in 1 .. Len(b) : d[Len(a) + j] = b[j] /\ Len(a) + j \in 1 .. Len(d)
  <2>1. SUFFICES ASSUME NEW j \in 1 .. Len(b)
                 PROVE  d[Len(a) + j] = b[j] /\ Len(a) + j \in 1 .. Len(d)
    OBVIOUS
  <2>2. PICK i : i = Len(a) + j
    OBVIOUS
  <2>3. i \in 1 .. Len(a) + Len(b) /\ ~(i <= Len(a)) /\ i - Len(a) = j
    BY <1>3, <2>2
  <2>4. QED
    BY <1>2, <2>2, <2>3
<1>6. ASSUME NEW i \in 1 .. Len(d), i > Len(a)
      PROVE  \E j \in 1 .. Len(b) : i = Len(a) + j /\ d[i] = b[j]
  <2>1. PICK j : j = i - Len(a)
    OBVIOUS
  <2>2. j \in 1 .. Len(b) /\ i = Len(a) + j
    BY <1>2, <1>3, <1>6, <2>1
  <2>3. QED
    BY <1>5, <2>2
<1>7. Ordered(c, a) /\ (a = <<>> => n = 0) /\ (a # <<>> => a[Len(a)].last /\ a[Len(a)].n = n)
      /\ \A i \in 1 .. Len(a) : a[i].n <= n /\ (a[i].last /\ a[i].n = n => i = Len(a))
  BY DEF Answers
<1>8. \A i \in 1 .. Len(b) : /\ b[i].c = c /\ b[i].n = n + 1 /\ b[i].i = i
                             /\ b[i].last => i = Len(b)
  BY DEF Begun
<1>9. \A i \in 1 .. Len(d) : d[i].c = c
  <2>1. SUFFICES ASSUME NEW i \in 1 .. Len(d) PROVE d[i].c = c
    OBVIOUS
  <2>2. CASE i \in 1 .. Len(a)
    BY <1>4, <1>7, <2>2 DEF Ordered
  <2>3. CASE i > Len(a)
    <3>1. PICK j \in 1 .. Len(b) : i = Len(a) + j /\ d[i] = b[j]
      BY <1>6, <2>3
    <3>2. b[j].c = c
      BY <1>8
    <3>3. QED
      BY <3>1, <3>2
  <2>4. QED
    BY <1>2, <1>3, <2>2, <2>3
<1>10. d # <<>> => d[1].n = 1 /\ d[1].i = 1
  <2>1. CASE a # <<>>
    <3>1. 1 \in 1 .. Len(a)
      BY <2>1
    <3>2. QED
      BY <1>4, <1>7, <2>1, <3>1 DEF Ordered
  <2>2. CASE a = <<>> /\ d # <<>>
    <3>1. Len(a) = 0 /\ n = 0 /\ 1 \in 1 .. Len(d)
      BY <1>2, <1>7, <2>2
    <3>2. PICK j \in 1 .. Len(b) : 1 = Len(a) + j /\ d[1] = b[j]
      BY <1>6, <3>1
    <3>3. j = 1
      BY <3>1, <3>2
    <3>4. QED
      BY <1>8, <3>1, <3>2, <3>3
  <2>3. QED
    BY <2>1, <2>2
<1>11. \A i \in 1 .. Len(d) - 1 : Follows(d[i], d[i + 1])
  <2>1. SUFFICES ASSUME NEW i \in 1 .. Len(d) - 1 PROVE Follows(d[i], d[i + 1])
    OBVIOUS
  <2>0. i \in Int /\ i >= 1 /\ i + 1 <= Len(d) /\ i + 1 \in 1 .. Len(d) /\ i \in 1 .. Len(d)
    BY <1>2, <1>3
  <2>2. CASE i + 1 <= Len(a)
    <3>1. i \in 1 .. Len(a) /\ i + 1 \in 1 .. Len(a) /\ i \in 1 .. Len(a) - 1
      BY <1>3, <2>0, <2>2
    <3>2. Follows(a[i], a[i + 1])
      BY <1>7, <3>1 DEF Ordered
    <3>3. QED
      BY <1>4, <3>1, <3>2
  <2>3. CASE i = Len(a)
    <3>0. PICK h \in 1 .. Len(d) : h = i + 1
      BY <2>0
    <3>a. h > Len(a)
      BY <1>3, <2>0, <2>3, <3>0
    <3>b. PICK j \in 1 .. Len(b) : h = Len(a) + j /\ d[h] = b[j]
      BY <1>6, <3>a
    <3>1. i + 1 = Len(a) + j /\ d[i + 1] = b[j]
      BY <3>0, <3>b
    <3>2. j = 1
      BY <1>3, <2>0, <2>3, <3>1
    <3>3. d[i] = a[Len(a)] /\ a # <<>>
      BY <1>4, <2>0, <2>3
    <3>4. d[i].last /\ d[i].n = n /\ d[i + 1].n = n + 1 /\ d[i + 1].i = 1
      BY <1>7, <1>8, <3>1, <3>2, <3>3
    <3>5. QED
      BY <3>4 DEF Follows
  <2>4. CASE i > Len(a)
    <3>1. PICK j \in 1 .. Len(b) : i = Len(a) + j /\ d[i] = b[j]
      BY <1>6, <2>0, <2>4
    <3>0. PICK h \in 1 .. Len(d) : h = i + 1
      BY <2>0
    <3>a. h > Len(a)
      BY <1>3, <2>0, <2>4, <3>0
    <3>b. PICK k \in 1 .. Len(b) : h = Len(a) + k /\ d[h] = b[k]
      BY <1>6, <3>a
    <3>2. i + 1 = Len(a) + k /\ d[i + 1] = b[k]
      BY <3>0, <3>b
    <3>3. k = j + 1 /\ j # Len(b) /\ j \in Int
      BY <1>3, <2>0, <3>1, <3>2
    <3>4. ~b[j].last /\ b[j].n = n + 1 /\ b[j].i = j /\ b[k].n = n + 1 /\ b[k].i = j + 1
      BY <1>8, <3>3
    <3>5. QED
      BY <3>1, <3>2, <3>4 DEF Follows
  <2>5. QED
    BY <1>3, <2>0, <2>2, <2>3, <2>4
<1>12. Ordered(c, d)
  BY <1>9, <1>10, <1>11 DEF Ordered
<1>13. ASSUME Ended(b) PROVE Answers(c, d, n + 1)
  <2>1. Len(b) >= 1 /\ Len(b) \in 1 .. Len(b) /\ b[Len(b)].last
    BY <1>13 DEF Ended
  <2>2. d[Len(d)] = b[Len(b)] /\ d # <<>>
    BY <1>2, <1>5, <2>1
  <2>3. d[Len(d)].last /\ d[Len(d)].n = n + 1
    BY <1>8, <2>1, <2>2
  <2>4. ASSUME NEW i \in 1 .. Len(d)
        PROVE  d[i].n <= n + 1 /\ (d[i].last /\ d[i].n = n + 1 => i = Len(d))
    <3>1. CASE i \in 1 .. Len(a)
      <4>1. d[i] = a[i] /\ a[i].n <= n /\ a[i] \in UnitType
        BY <1>4, <1>7, <3>1
      <4>2. a[i].n \in Nat
        BY <4>1 DEF UnitType
      <4>3. QED
        BY <4>1, <4>2
    <3>2. CASE i > Len(a)
      <4>1. PICK j \in 1 .. Len(b) : i = Len(a) + j /\ d[i] = b[j]
        BY <1>6, <3>2
      <4>2. d[i].n = n + 1 /\ (d[i].last => j = Len(b))
        BY <1>8, <4>1
      <4>3. Len(d) = Len(a) + Len(b) /\ i = Len(a) + j
        BY <1>2, <4>1, Zenon
      <4>3a. i = Len(d) <=> j = Len(b)
        BY <1>3, <4>3
      <4>4. QED
        BY <4>2, <4>3a
    <3>3. QED
      BY <1>2, <1>3, <3>1, <3>2
  <2>5. QED
    BY <1>12, <2>2, <2>3, <2>4 DEF Answers
<1>14. QED
  BY <1>1, <1>12, <1>13, Zenon

LEMMA PrefixOrdered ==
    ASSUME NEW c, NEW a \in Seq(UnitType), NEW b \in Seq(UnitType), Ordered(c, a \o b)
    PROVE  Ordered(c, a)
<1>1. PICK d : d = a \o b
  OBVIOUS
<1>2. /\ d \in Seq(UnitType) /\ Len(d) = Len(a) + Len(b)
      /\ \A i \in 1 .. Len(a) + Len(b) : d[i] = IF i <= Len(a) THEN a[i] ELSE b[i - Len(a)]
  <2>1. /\ a \o b \in Seq(UnitType) /\ Len(a \o b) = Len(a) + Len(b)
        /\ \A i \in 1 .. Len(a) + Len(b) : (a \o b)[i] = IF i <= Len(a) THEN a[i]
                                                                        ELSE b[i - Len(a)]
    BY ConcatProperties
  <2>2. QED
    BY <1>1, <2>1, Zenon
<1>3. Len(a) \in Nat /\ Len(b) \in Nat
  OBVIOUS
<1>4. \A i \in 1 .. Len(a) : d[i] = a[i] /\ i \in 1 .. Len(d)
  BY <1>2, <1>3
<1>5. Ordered(c, d)
  BY <1>1, Zenon
<1>6. \A i \in 1 .. Len(a) : a[i].c = c
  BY <1>4, <1>5 DEF Ordered
<1>7. a # <<>> => a[1].n = 1 /\ a[1].i = 1
  <2>1. ASSUME a # <<>> PROVE a[1].n = 1 /\ a[1].i = 1
    <3>1. 1 \in 1 .. Len(a)
      BY <2>1
    <3>2. d[1] = a[1] /\ 1 \in 1 .. Len(d)
      BY <1>4, <3>1
    <3>3. d # <<>>
      BY <1>2, <3>2
    <3>4. QED
      BY <1>5, <3>2, <3>3 DEF Ordered
  <2>2. QED
    BY <2>1
<1>8. ASSUME NEW i \in 1 .. Len(a) - 1 PROVE Follows(a[i], a[i + 1])
  <2>1. i \in 1 .. Len(a) /\ i + 1 \in 1 .. Len(a) /\ i \in 1 .. Len(d) - 1
    BY <1>2, <1>3
  <2>2. QED
    BY <1>4, <1>5, <2>1 DEF Ordered
<1>9. QED
  BY <1>6, <1>7, <1>8 DEF Ordered

(* The answers as they are made.                                            *)
LEMMA UnitsAnswer ==
    ASSUME NEW r \in ResponseType, r.kind \in {"small", "large"}
    PROVE  Units(r) \in Seq(UnitType) /\ Begun(r.c, Units(r), r.n) /\ Ended(Units(r))
<1>1. Length(r.kind) = 2
  BY DEF Length
<1>2. PICK u : u = [i \in 1 .. 2 |-> Unit(r, i, i = 2)]
  OBVIOUS
<1>3. u = Units(r)
  BY <1>1, <1>2 DEF Units
<1>4. \A i \in 1 .. 2 : u[i].c = r.c /\ u[i].n = r.n /\ u[i].i = i /\ (u[i].last <=> i = 2)
  BY <1>2 DEF Unit
<1>5. u \in Seq(UnitType)
  BY <1>3, UnitsTyped
<1>6. Len(u) = 2
  <2>1. DOMAIN u = 1 .. 2
    BY <1>2
  <2>2. QED
    BY <1>5, <2>1, LenProperties
<1>7. Begun(r.c, u, r.n)
  BY <1>4, <1>6 DEF Begun
<1>8. Ended(u)
  <2>1. 2 \in 1 .. 2 /\ Len(<<>>) = 0 /\ 2 # 0
    OBVIOUS
  <2>2. u # <<>>
    BY <1>6, <2>1, Zenon
  <2>3. u[2].last
    BY <1>4, <2>1
  <2>4. u[Len(u)].last
    BY <1>6, <2>3, Zenon
  <2>5. QED
    BY <2>2, <2>4, Zenon DEF Ended
<1>9. QED
  BY <1>3, <1>5, <1>7, <1>8, Zenon

LEMMA HeaderAnswers ==
    ASSUME NEW r \in ResponseType
    PROVE  Header(r) \in Seq(UnitType) /\ Begun(r.c, Header(r), r.n)
<1>1. PICK u : u = Unit(r, 1, FALSE)
  OBVIOUS
<1>2. u.c = r.c /\ u.n = r.n /\ u.i = 1 /\ u.last = FALSE
  BY <1>1 DEF Unit
<1>3. PICK h : h = <<u>>
  OBVIOUS
<1>4. h = Header(r)
  BY <1>1, <1>3 DEF Header
<1>5. Len(h) = 1 /\ h[1] = u
  BY <1>3
<1>6. Begun(r.c, h, r.n)
  BY <1>2, <1>5 DEF Begun
<1>7. QED
  BY <1>4, <1>6, UnitsTyped

LEMMA FileAnswers ==
    ASSUME NEW r \in ResponseType
    PROVE  LET us == Header(r) \o Body(r)
           IN  us \in Seq(UnitType) /\ Begun(r.c, us, r.n) /\ Ended(us)
<1>1. PICK u, v, w : u = Unit(r, 1, FALSE) /\ v = Unit(r, 2, FALSE) /\ w = Unit(r, 3, TRUE)
  OBVIOUS
<1>2. /\ u.c = r.c /\ u.n = r.n /\ u.i = 1 /\ u.last = FALSE
      /\ v.c = r.c /\ v.n = r.n /\ v.i = 2 /\ v.last = FALSE
      /\ w.c = r.c /\ w.n = r.n /\ w.i = 3 /\ w.last = TRUE
  BY <1>1 DEF Unit
<1>3. PICK h, b : h = <<u>> /\ b = <<v, w>>
  OBVIOUS
<1>4. h = Header(r) /\ b = Body(r)
  BY <1>1, <1>3 DEF Header, Body
<1>5. h \in Seq(UnitType) /\ b \in Seq(UnitType)
  BY <1>4, UnitsTyped
<1>6. Len(h) = 1 /\ Len(b) = 2 /\ h[1] = u /\ b[1] = v /\ b[2] = w
  BY <1>3
<1>7. PICK us : us = h \o b
  OBVIOUS
<1>8. /\ us \in Seq(UnitType) /\ Len(us) = Len(h) + Len(b)
      /\ \A i \in 1 .. Len(h) + Len(b) : us[i] = IF i <= Len(h) THEN h[i] ELSE b[i - Len(h)]
  <2>1. /\ h \o b \in Seq(UnitType) /\ Len(h \o b) = Len(h) + Len(b)
        /\ \A i \in 1 .. Len(h) + Len(b) : (h \o b)[i] = IF i <= Len(h) THEN h[i]
                                                                        ELSE b[i - Len(h)]
    BY <1>5, ConcatProperties
  <2>2. QED
    BY <1>7, <2>1, Zenon
<1>9. Len(us) = 3 /\ us[1] = u /\ us[2] = v /\ us[3] = w
  BY <1>6, <1>8
<1>10. \A i \in 1 .. Len(us) : i = 1 \/ i = 2 \/ i = 3
  BY <1>9
<1>11. Begun(r.c, us, r.n) /\ Ended(us)
  <2>1. us # <<>>
    BY <1>9
  <2>2. QED
    BY <1>2, <1>9, <1>10, <2>1 DEF Begun, Ended
<1>12. QED
  BY <1>4, <1>7, <1>8, <1>11, Zenon

-----------------------------------------------------------------------------
(* What happens between a client and its connection.                        *)
Link(p, q, s, k) == /\ p \in ClientType /\ q \in Seq(Segment) /\ s \in Seq(UnitType)
                    /\ k \in ConnType /\ k.written <= Len(k.wbuf)

LEMMA WholeTyped ==
    ASSUME NEW p, NEW q, NEW s, NEW k, Link(p, q, s, k)
    PROVE  /\ Rest(k) \in Seq(UnitType) /\ Whole(p, s, k) \in Seq(UnitType)
           /\ p.got \in Seq(UnitType) /\ s \in Seq(UnitType) /\ p.sent \in Nat
           /\ p.got \o s \in Seq(UnitType)
           /\ k.rbuf \in Seq(Segment) /\ q \in Seq(Segment)
           /\ Len(Whole(p, s, k)) = Len(p.got) + Len(s) + Len(Rest(k))
<1>1. p \in ClientType /\ k \in ConnType /\ s \in Seq(UnitType) /\ q \in Seq(Segment)
  BY DEF Link
<1>2. p.got \in Seq(UnitType) /\ p.sent \in Nat
  BY <1>1 DEF ClientType
<1>3. /\ k.rbuf \in Seq(Segment) /\ k.wbuf \in Seq(UnitType) /\ k.written \in Nat
      /\ k.stream \in Seq(UnitType)
  BY <1>1 DEF ConnType
<1>4. PICK x, m : x = k.wbuf /\ m = k.written
  OBVIOUS
<1>5. x \in Seq(UnitType) /\ m \in 0 .. Len(x)
  BY <1>3, <1>4 DEF Link
<1>6. SubSeq(x, m + 1, Len(x)) \in Seq(UnitType)
  BY <1>5, DropTyped DEF Drop
<1>7. Rest(k) \in Seq(UnitType)
  BY <1>3, <1>4, <1>6 DEF Rest
<1>8. PICK g, t : g = p.got /\ t = Rest(k)
  OBVIOUS
<1>9. g \in Seq(UnitType) /\ t \in Seq(UnitType)
  BY <1>2, <1>7, <1>8
<1>10. g \o s \in Seq(UnitType) /\ Len(g \o s) = Len(g) + Len(s)
  BY <1>1, <1>9, ConcatProperties
<1>11. (g \o s) \o t \in Seq(UnitType) /\ Len((g \o s) \o t) = Len(g \o s) + Len(t)
  BY <1>9, <1>10, ConcatProperties
<1>12. (g \o s) \o t = Whole(p, s, k)
  BY <1>8 DEF Whole
<1>13. QED
  BY <1>1, <1>2, <1>3, <1>7, <1>8, <1>10, <1>11, <1>12, Zenon

LEMMA CountTyped ==
    ASSUME NEW us \in Seq(UnitType)
    PROVE  Count(us) \in Nat
<1>1. CASE us = <<>>
  BY <1>1 DEF Count
<1>2. CASE us # <<>>
  <2>1. us[Len(us)] \in UnitType
    BY <1>2
  <2>2. QED
    BY <1>2, <2>1 DEF Count, UnitType
<1>3. QED
  BY <1>1, <1>2

LEMMA QuietLength ==
    ASSUME NEW p, NEW q, NEW s, NEW k, Link(p, q, s, k)
    PROVE  Quiet(s, k) <=> Len(Whole(p, s, k)) = Len(p.got)
<1>1. PICK g, t : g = p.got /\ t = Rest(k)
  OBVIOUS
<1>2. /\ g \in Seq(UnitType) /\ t \in Seq(UnitType) /\ s \in Seq(UnitType)
      /\ Len(Whole(p, s, k)) = Len(g) + Len(s) + Len(t)
  <2>1. /\ p.got \in Seq(UnitType) /\ Rest(k) \in Seq(UnitType) /\ s \in Seq(UnitType)
        /\ Len(Whole(p, s, k)) = Len(p.got) + Len(s) + Len(Rest(k))
    BY WholeTyped
  <2>2. QED
    BY <1>1, <2>1, Zenon
<1>3. Len(g) \in Nat /\ Len(s) \in Nat /\ Len(t) \in Nat /\ (s = <<>> <=> Len(s) = 0)
      /\ (t = <<>> <=> Len(t) = 0)
  BY <1>2
<1>4. Len(Whole(p, s, k)) = Len(g) <=> s = <<>> /\ t = <<>>
  BY <1>2, <1>3
<1>5. QED
  BY <1>1, <1>4, Zenon DEF Quiet

(* Bytes move on without being lost.                                        *)
Same(p, q, s, k, pp, qq, ss, kk, stage) ==
    /\ pp.st = p.st /\ pp.sent = p.sent /\ Whole(pp, ss, kk) = Whole(p, s, k)
    /\ kk.rbuf \o qq = k.rbuf \o q
    /\ stage # "none" => kk.rbuf = k.rbuf /\ qq = q
    /\ pp.got = p.got \/ s # <<>>
    /\ FileShape(kk)

LEMMA Moved ==
    ASSUME NEW c, NEW p, NEW q, NEW s, NEW k, NEW stage,
           NEW pp, NEW qq, NEW ss, NEW kk,
           Link(p, q, s, k), Link(pp, qq, ss, kk), Good(c, p, q, s, k, stage),
           Same(p, q, s, k, pp, qq, ss, kk, stage)
    PROVE  Good(c, pp, qq, ss, kk, stage)
<1>1. PICK us, n : us = Whole(p, s, k) /\ n = Count(us)
  OBVIOUS
<1>2. us = Whole(pp, ss, kk)
  BY <1>1, Zenon DEF Same
<1>3. p.st # "idle" /\ Answers(c, us, n) /\ Asks(c, p, q, s, k, n, stage)
  BY <1>1, Zenon DEF Good
<1>4. Quiet(s, k) => Quiet(ss, kk)
  <2>1. CASE pp.got = p.got
    <3>1. Quiet(s, k) <=> Len(Whole(p, s, k)) = Len(p.got)
      BY QuietLength
    <3>2. Quiet(ss, kk) <=> Len(Whole(pp, ss, kk)) = Len(pp.got)
      BY QuietLength
    <3>3. QED
      BY <1>1, <1>2, <2>1, <3>1, <3>2, Zenon
  <2>2. CASE s # <<>>
    BY <2>2, Zenon DEF Quiet
  <2>3. QED
    BY <2>1, <2>2, Zenon DEF Same
<1>5. PICK b : b = k.rbuf \o q
  OBVIOUS
<1>6. b = kk.rbuf \o qq
  BY <1>5, Zenon DEF Same
<1>7. /\ stage = "none" => /\ Part(c, n * Segments, b) /\ p.sent = n * Segments + Len(b)
                           /\ b # <<>> \/ p.st = "closed" => Quiet(s, k)
                           /\ p.st = "closed" => b = <<>>
      /\ stage # "none" => /\ p.st = "open" /\ p.sent = (n + 1) * Segments
                           /\ Quiet(s, k) /\ q = <<>>
      /\ stage = "job" => Part(c, n * Segments, k.rbuf) /\ Len(k.rbuf) = Segments
      /\ stage = "out" => k.rbuf = <<>>
  BY <1>3, <1>5, Zenon DEF Asks
<1>8. /\ pp.st = p.st /\ pp.sent = p.sent /\ FileShape(kk)
      /\ stage # "none" => kk.rbuf = k.rbuf /\ qq = q
  BY Zenon DEF Same
<1>9. stage = "job" => stage # "none"
  OBVIOUS
<1>10. stage = "out" => stage # "none"
  OBVIOUS
<1>11. /\ stage = "none" => /\ Part(c, n * Segments, b) /\ pp.sent = n * Segments + Len(b)
                            /\ b # <<>> \/ pp.st = "closed" => Quiet(ss, kk)
                            /\ pp.st = "closed" => b = <<>>
       /\ stage # "none" => /\ pp.st = "open" /\ pp.sent = (n + 1) * Segments
                            /\ Quiet(ss, kk) /\ qq = <<>>
       /\ stage = "job" => Part(c, n * Segments, kk.rbuf) /\ Len(kk.rbuf) = Segments
       /\ stage = "out" => kk.rbuf = <<>>
  BY <1>4, <1>7, <1>8, <1>9, <1>10, Zenon
<1>12. Asks(c, pp, qq, ss, kk, n, stage)
  BY <1>6, <1>11, Zenon DEF Asks
<1>13. QED
  BY <1>1, <1>2, <1>3, <1>8, <1>12, Zenon DEF Good

LEMMA WholeBegins ==
    ASSUME NEW p, NEW q, NEW s, NEW k, Link(p, q, s, k)
    PROVE  /\ DOMAIN p.got = 1 .. Len(p.got) /\ Len(p.got) <= Len(Whole(p, s, k))
           /\ \A i \in 1 .. Len(p.got) : Whole(p, s, k)[i] = p.got[i]
<1>1. PICK g, t : g = p.got /\ t = Rest(k)
  OBVIOUS
<1>2. /\ g \in Seq(UnitType) /\ t \in Seq(UnitType) /\ s \in Seq(UnitType)
      /\ g \o s \in Seq(UnitType)
  <2>1. /\ p.got \in Seq(UnitType) /\ Rest(k) \in Seq(UnitType) /\ s \in Seq(UnitType)
        /\ p.got \o s \in Seq(UnitType)
    BY WholeTyped
  <2>2. QED
    BY <1>1, <2>1, Zenon
<1>3. /\ Len(g \o s) = Len(g) + Len(s)
      /\ \A i \in 1 .. Len(g) + Len(s) : (g \o s)[i] = IF i <= Len(g) THEN g[i] ELSE s[i - Len(g)]
  BY <1>2, ConcatProperties
<1>4. PICK h : h = g \o s
  OBVIOUS
<1>5. h \in Seq(UnitType) /\ Len(h) = Len(g) + Len(s)
  BY <1>2, <1>3, <1>4, Zenon
<1>6. /\ Len(h \o t) = Len(h) + Len(t)
      /\ \A i \in 1 .. Len(h) + Len(t) : (h \o t)[i] = IF i <= Len(h) THEN h[i] ELSE t[i - Len(h)]
  <2>1. h \in Seq(UnitType) /\ t \in Seq(UnitType)
    BY <1>2, <1>5
  <2>2. QED
    BY <2>1, ConcatProperties
<1>7. Len(g) \in Nat /\ Len(s) \in Nat /\ Len(t) \in Nat /\ DOMAIN g = 1 .. Len(g)
  BY <1>2, LenProperties
<1>8. ASSUME NEW i \in 1 .. Len(g) PROVE (h \o t)[i] = g[i]
  <2>1. i \in 1 .. Len(h) + Len(t) /\ i <= Len(h) /\ i \in 1 .. Len(g) + Len(s) /\ i <= Len(g)
    BY <1>5, <1>7
  <2>2. (g \o s)[i] = g[i]
    BY <1>3, <2>1
  <2>3. (h \o t)[i] = h[i]
    BY <1>6, <2>1
  <2>4. QED
    BY <1>4, <2>2, <2>3, Zenon
<1>9. Len(g) <= Len(h \o t)
  BY <1>5, <1>6, <1>7
<1>10. h \o t = Whole(p, s, k)
  BY <1>1, <1>4, Zenon DEF Whole
<1>11. QED
  BY <1>1, <1>7, <1>8, <1>9, <1>10, Zenon

(* A peer that has nothing left to wait for.                                *)
GotAnswer(p) == /\ p.sent % Segments = 0
                /\ \/ p.sent = 0
                   \/ \E i \in DOMAIN p.got : /\ p.got[i].last
                                             /\ p.got[i].n = p.sent \div Segments
Stages == {"none", "job", "out"}

LEMMA AllAnswered ==
    ASSUME NEW c, NEW p, NEW q, NEW s, NEW k, NEW stage \in Stages,
           Link(p, q, s, k), Good(c, p, q, s, k, stage), GotAnswer(p)
    PROVE  /\ stage = "none" /\ k.rbuf \o q = <<>> /\ Quiet(s, k)
           /\ p.sent = Count(Whole(p, s, k)) * Segments
<1>1. PICK us, n, b, m : us = Whole(p, s, k) /\ n = Count(us) /\ b = k.rbuf \o q /\ m = p.sent
  OBVIOUS
<1>2. us \in Seq(UnitType) /\ n \in Nat /\ b \in Seq(Segment) /\ m \in Nat
  <2>1. /\ Whole(p, s, k) \in Seq(UnitType) /\ k.rbuf \in Seq(Segment) /\ q \in Seq(Segment)
        /\ p.sent \in Nat
    BY WholeTyped
  <2>2. k.rbuf \o q \in Seq(Segment)
    BY <2>1, ConcatProperties
  <2>3. QED
    BY <1>1, <2>1, <2>2, CountTyped, Zenon
<1>3. Answers(c, us, n) /\ Asks(c, p, q, s, k, n, stage)
  BY <1>1, Zenon DEF Good
<1>4. /\ Ordered(c, us) /\ (us = <<>> => n = 0)
      /\ \A i \in 1 .. Len(us) : us[i].n <= n /\ (us[i].last /\ us[i].n = n => i = Len(us))
  BY <1>3, Zenon DEF Answers
<1>5. /\ stage = "none" => Len(b) <= Segments /\ m = n * Segments + Len(b)
      /\ stage # "none" => m = (n + 1) * Segments
  BY <1>1, <1>3, Zenon DEF Asks, Part
<1>6. Segments \in Nat \ {0} /\ Len(b) \in Nat /\ Len(us) \in Nat
  BY <1>2, SizesAssumption
<1>7. Quiet(s, k) <=> Len(us) = Len(p.got)
  BY <1>1, QuietLength
<1>8. m % Segments = 0
  BY <1>1, Zenon DEF GotAnswer
<1>9. n * Segments \in Nat /\ (n + 1) * Segments = n * Segments + Segments
  BY <1>2, <1>6
<1>10. CASE m = 0
  <2>1. n * Segments = 0 /\ Len(b) = 0 /\ stage = "none"
    BY <1>5, <1>6, <1>9, <1>10
  <2>2. n * Segments = 0 * Segments
    BY <1>6, <2>1
  <2>3. n = 0
    BY <1>2, <1>6, <2>2, Cancel
  <2>4. us = <<>>
    <3>1. ASSUME us # <<>> PROVE FALSE
      <4>1. 1 \in 1 .. Len(us)
        BY <1>2, <3>1
      <4>2. us[1].n = 1 /\ us[1].n <= 0
        BY <1>4, <2>3, <3>1, <4>1 DEF Ordered
      <4>3. QED
        BY <4>2
    <3>2. QED
      BY <3>1
  <2>5. Len(us) = 0 /\ Len(p.got) <= 0
    <3>1. Len(p.got) <= Len(Whole(p, s, k))
      BY WholeBegins
    <3>2. Len(us) = 0
      BY <2>4
    <3>3. QED
      BY <1>1, <3>1, <3>2, Zenon
  <2>6. Len(p.got) \in Nat
    <3>1. p.got \in Seq(UnitType)
      BY WholeTyped
    <3>2. QED
      BY <3>1
  <2>7. Quiet(s, k)
    BY <1>7, <2>5, <2>6
  <2>8. b = <<>>
    BY <1>2, <2>1
  <2>9. p.sent = n * Segments
    BY <1>1, <1>10, <2>1, Zenon
  <2>10. QED
    BY <1>1, <2>1, <2>7, <2>8, <2>9, Zenon
<1>11. CASE m # 0
  <2>1. PICK i \in DOMAIN p.got : p.got[i].last /\ p.got[i].n = m \div Segments
    BY <1>1, <1>11, Zenon DEF GotAnswer
  <2>2. /\ DOMAIN p.got = 1 .. Len(p.got) /\ Len(p.got) <= Len(Whole(p, s, k))
        /\ \A j \in 1 .. Len(p.got) : Whole(p, s, k)[j] = p.got[j]
    BY WholeBegins
  <2>3. i \in 1 .. Len(p.got) /\ us[i] = p.got[i] /\ Len(p.got) <= Len(us)
    BY <1>1, <2>2, Zenon
  <2>4. Len(p.got) \in Nat
    <3>1. p.got \in Seq(UnitType)
      BY WholeTyped
    <3>2. QED
      BY <3>1
  <2>5. i \in 1 .. Len(us)
    BY <1>6, <2>3, <2>4
  <2>6. us[i].n <= n /\ (us[i].last /\ us[i].n = n => i = Len(us)) /\ us[i].last
        /\ us[i].n = m \div Segments
    BY <1>4, <2>1, <2>3, <2>5
  <2>7. ASSUME m = (n + 1) * Segments PROVE FALSE
    <3>1. n + 1 \in Nat /\ 0 \in 0 .. Segments - 1 /\ m = (n + 1) * Segments + 0
      BY <1>2, <1>6, <1>9, <2>7
    <3>2. m \div Segments = n + 1
      BY <1>6, <3>1, Division
    <3>3. QED
      BY <1>2, <2>6, <3>2
  <2>8. stage = "none" /\ m = n * Segments + Len(b) /\ Len(b) \in 0 .. Segments - 1
    BY <1>5, <1>6, <1>9, <2>7
  <2>9. Len(b) = 0 /\ m \div Segments = n
    BY <1>2, <1>6, <1>8, <2>8, Division
  <2>10. i = Len(us)
    BY <2>6, <2>9
  <2>11. Len(us) = Len(p.got)
    BY <1>6, <2>3, <2>4, <2>10
  <2>12. b = <<>>
    BY <1>2, <2>9
  <2>13. m = n * Segments
    BY <1>9, <2>8, <2>9
  <2>14. QED
    BY <1>1, <1>7, <2>8, <2>11, <2>12, <2>13, Zenon
<1>12. QED
  BY <1>10, <1>11

(* The client sends a segment.                                              *)
LEMMA PartGrows ==
    ASSUME NEW c \in Clients, NEW m \in Nat, NEW b \in Seq(Segment), Part(c, m, b),
           Len(b) < Segments
    PROVE  Part(c, m, Append(b, [c |-> c, s |-> m + Len(b)]))
<1>1. PICK x, d : x = [c |-> c, s |-> m + Len(b)] /\ d = Append(b, x)
  OBVIOUS
<1>2. Len(b) \in Nat /\ Segments \in Nat
  BY SizesAssumption
<1>3. x \in Segment
  BY <1>1, <1>2 DEF Segment
<1>4. Len(d) = Len(b) + 1 /\ d[Len(b) + 1] = x /\ \A j \in 1 .. Len(b) : d[j] = b[j]
  BY <1>1, <1>3, AppendProperties
<1>5. Len(d) <= Segments
  BY <1>2, <1>4
<1>6. ASSUME NEW j \in 1 .. Len(d) PROVE d[j] = [c |-> c, s |-> m + j - 1]
  <2>1. CASE j \in 1 .. Len(b)
    BY <1>4, <2>1 DEF Part
  <2>2. CASE j = Len(b) + 1
    <3>1. m + Len(b) = m + j - 1
      BY <1>2, <2>2
    <3>2. d[j] = x
      BY <1>4, <2>2
    <3>3. QED
      BY <1>1, <3>1, <3>2, Zenon
  <2>3. QED
    BY <1>2, <1>4, <2>1, <2>2
<1>7. Part(c, m, d)
  BY <1>5, <1>6 DEF Part
<1>8. QED
  BY <1>1, <1>7, Zenon

LEMMA Asked ==
    ASSUME NEW c \in Clients, NEW p, NEW q, NEW s, NEW k, NEW stage \in Stages,
           Link(p, q, s, k), Good(c, p, q, s, k, stage),
           p.st = "open", p.sent % Segments # 0 \/ GotAnswer(p)
    PROVE  /\ stage = "none"
           /\ Good(c, [p EXCEPT !.sent = @ + 1], Append(q, [c |-> c, s |-> p.sent]), s, k, stage)
<1>1. PICK us, n, b, m : us = Whole(p, s, k) /\ n = Count(us) /\ b = k.rbuf \o q /\ m = p.sent
  OBVIOUS
<1>2. us \in Seq(UnitType) /\ n \in Nat /\ b \in Seq(Segment) /\ m \in Nat
  <2>1. /\ Whole(p, s, k) \in Seq(UnitType) /\ k.rbuf \in Seq(Segment) /\ q \in Seq(Segment)
        /\ p.sent \in Nat
    BY WholeTyped
  <2>2. k.rbuf \o q \in Seq(Segment)
    BY <2>1, ConcatProperties
  <2>3. QED
    BY <1>1, <2>1, <2>2, CountTyped, Zenon
<1>3. Answers(c, us, n) /\ Asks(c, p, q, s, k, n, stage) /\ FileShape(k)
  BY <1>1, Zenon DEF Good
<1>4. /\ stage = "none" => /\ Part(c, n * Segments, b) /\ m = n * Segments + Len(b)
                           /\ b # <<>> => Quiet(s, k)
      /\ stage # "none" => m = (n + 1) * Segments
  BY <1>1, <1>3, Zenon DEF Asks
<1>5. Segments \in Nat \ {0} /\ Len(b) \in Nat
  BY <1>2, SizesAssumption
<1>6. n * Segments \in Nat /\ (n + 1) * Segments = n * Segments + Segments
  BY <1>2, <1>5
<1>7. stage = "none" /\ Part(c, n * Segments, b) /\ m = n * Segments + Len(b)
      /\ Len(b) < Segments /\ Quiet(s, k)
  <2>1. CASE GotAnswer(p)
    <3>1. stage = "none" /\ b = <<>> /\ Quiet(s, k)
      BY <1>1, <2>1, AllAnswered
    <3>2. Len(b) = 0
      BY <3>1
    <3>3. Len(b) < Segments
      BY <1>5, <3>2
    <3>4. QED
      BY <1>4, <3>1, <3>3, Zenon
  <2>2. CASE m % Segments # 0
    <3>1. m # (n + 1) * Segments
      <4>1. n + 1 \in Nat /\ 0 \in 0 .. Segments - 1
        BY <1>2, <1>5
      <4>2. ((n + 1) * Segments + 0) % Segments = 0
        BY <1>5, <4>1, Division
      <4>3. (n + 1) * Segments + 0 = (n + 1) * Segments
        BY <1>2, <1>5, <1>6
      <4>4. QED
        BY <2>2, <4>2, <4>3
    <3>2. stage = "none" /\ Part(c, n * Segments, b) /\ m = n * Segments + Len(b)
      BY <1>4, <3>1
    <3>3. Len(b) # Segments
      BY <1>6, <3>1, <3>2
    <3>4. Len(b) # 0
      <4>1. ASSUME Len(b) = 0 PROVE FALSE
        <5>1. m = n * Segments + 0 /\ 0 \in 0 .. Segments - 1
          BY <1>5, <3>2, <4>1
        <5>2. QED
          BY <1>2, <1>5, <2>2, <5>1, Division
      <4>2. QED
        BY <4>1
    <3>5. Len(b) <= Segments
      BY <3>2 DEF Part
    <3>6. Len(b) < Segments /\ b # <<>>
      BY <1>5, <3>3, <3>4, <3>5
    <3>7. QED
      BY <1>4, <3>2, <3>6, Zenon
  <2>3. QED
    BY <1>1, <2>1, <2>2, Zenon
<1>8. PICK pp, x, qq : /\ pp = [p EXCEPT !.sent = @ + 1] /\ x = [c |-> c, s |-> m]
                       /\ qq = Append(q, x)
  OBVIOUS
<1>9. p \in ClientType
  BY Zenon DEF Link
<1>10. pp.st = p.st /\ pp.got = p.got /\ pp.sent = m + 1
  BY <1>1, <1>8, <1>9 DEF ClientType
<1>11. k.rbuf \o qq = Append(b, x)
  <2>1. x \in Segment
    BY <1>2, <1>8 DEF Segment
  <2>2. k.rbuf \in Seq(Segment) /\ q \in Seq(Segment)
    BY WholeTyped
  <2>3. PICK r : r = k.rbuf
    OBVIOUS
  <2>4. r \in Seq(Segment) /\ q \in Seq(Segment) /\ <<x>> \in Seq(Segment)
    BY <2>1, <2>2, <2>3
  <2>5. (r \o q) \o <<x>> = r \o (q \o <<x>>) /\ r \o q \in Seq(Segment)
    BY <2>4, ConcatAssociative, ConcatProperties
  <2>6. Append(q, x) = q \o <<x>>
    BY <2>1, <2>4, AppendIsConcat
  <2>7. Append(b, x) = b \o <<x>>
    BY <1>2, <2>1, AppendIsConcat
  <2>8. QED
    BY <1>1, <1>8, <2>3, <2>5, <2>6, <2>7, Zenon
<1>12. PICK d : d = Append(b, x)
  OBVIOUS
<1>13. Part(c, n * Segments, d)
  <2>1. Part(c, n * Segments, Append(b, [c |-> c, s |-> n * Segments + Len(b)]))
    BY <1>2, <1>6, <1>7, PartGrows
  <2>2. QED
    BY <1>7, <1>8, <1>12, <2>1, Zenon
<1>14. m + 1 = n * Segments + Len(d)
  <2>1. x \in Segment
    BY <1>2, <1>8 DEF Segment
  <2>2. Len(Append(b, x)) = Len(b) + 1
    BY <1>2, <2>1, AppendProperties
  <2>3. Len(d) = Len(b) + 1
    BY <1>12, <2>2, Zenon
  <2>4. QED
    BY <1>5, <1>6, <1>7, <2>3
<1>15. Whole(pp, s, k) = us
  BY <1>1, <1>10, Zenon DEF Whole
<1>16. p.st = "open" /\ "open" # "closed" /\ "open" # "idle" /\ stage = "none"
       /\ stage # "job" /\ stage # "out"
  BY <1>7
<1>17. Asks(c, pp, qq, s, k, n, stage)
  BY <1>7, <1>10, <1>11, <1>12, <1>13, <1>14, <1>16, Zenon DEF Asks
<1>18. Good(c, pp, qq, s, k, stage)
  BY <1>1, <1>3, <1>10, <1>15, <1>16, <1>17, Zenon DEF Good
<1>19. QED
  BY <1>1, <1>7, <1>8, <1>18, Zenon

(* The client leaves.                                                       *)
LEMMA Gone ==
    ASSUME NEW c, NEW p, NEW q, NEW s, NEW k, NEW stage \in Stages,
           Link(p, q, s, k), Good(c, p, q, s, k, stage), GotAnswer(p)
    PROVE  Good(c, [p EXCEPT !.st = "closed"], q, s, k, stage)
<1>1. PICK us, n, pp : us = Whole(p, s, k) /\ n = Count(us) /\ pp = [p EXCEPT !.st = "closed"]
  OBVIOUS
<1>2. Answers(c, us, n) /\ Asks(c, p, q, s, k, n, stage) /\ FileShape(k)
  BY <1>1, Zenon DEF Good
<1>3. stage = "none" /\ k.rbuf \o q = <<>> /\ Quiet(s, k)
  BY AllAnswered
<1>4. Part(c, n * Segments, k.rbuf \o q) /\ p.sent = n * Segments + Len(k.rbuf \o q)
  BY <1>2, <1>3, Zenon DEF Asks
<1>5. p \in ClientType
  BY Zenon DEF Link
<1>6. pp.st = "closed" /\ pp.got = p.got /\ pp.sent = p.sent
  BY <1>1, <1>5 DEF ClientType
<1>7. "closed" # "idle" /\ stage # "job" /\ stage # "out"
  BY <1>3
<1>8. Asks(c, pp, q, s, k, n, stage)
  BY <1>3, <1>4, <1>6, <1>7, Zenon DEF Asks
<1>9. Whole(pp, s, k) = us
  BY <1>1, <1>6, Zenon DEF Whole
<1>10. QED
  BY <1>1, <1>2, <1>6, <1>7, <1>8, <1>9, Zenon DEF Good

(* A whole request is detached, and taken.                                  *)
LEMMA Checked ==
    ASSUME NEW c, NEW p, NEW q, NEW s, NEW k,
           Link(p, q, s, k), Good(c, p, q, s, k, "none"), Complete(k.rbuf)
    PROVE  Good(c, p, q, s, k, "job")
<1>1. PICK us, n, r : us = Whole(p, s, k) /\ n = Count(us) /\ r = k.rbuf
  OBVIOUS
<1>2. Answers(c, us, n) /\ Asks(c, p, q, s, k, n, "none") /\ FileShape(k) /\ p.st # "idle"
  BY <1>1, Zenon DEF Good
<1>3. us \in Seq(UnitType) /\ n \in Nat /\ r \in Seq(Segment) /\ q \in Seq(Segment)
  <2>1. /\ Whole(p, s, k) \in Seq(UnitType) /\ k.rbuf \in Seq(Segment) /\ q \in Seq(Segment)
    BY WholeTyped
  <2>2. QED
    BY <1>1, <2>1, CountTyped, Zenon
<1>4. PICK b : b = r \o q
  OBVIOUS
<1>5. /\ b \in Seq(Segment) /\ Len(b) = Len(r) + Len(q)
      /\ \A i \in 1 .. Len(r) + Len(q) : b[i] = IF i <= Len(r) THEN r[i] ELSE q[i - Len(r)]
  <2>1. /\ r \o q \in Seq(Segment) /\ Len(r \o q) = Len(r) + Len(q)
        /\ \A i \in 1 .. Len(r) + Len(q) : (r \o q)[i] = IF i <= Len(r) THEN r[i] ELSE q[i - Len(r)]
    BY <1>3, ConcatProperties
  <2>2. QED
    BY <1>4, <2>1, Zenon
<1>6. /\ Part(c, n * Segments, b) /\ p.sent = n * Segments + Len(b)
      /\ b # <<>> \/ p.st = "closed" => Quiet(s, k)
      /\ p.st = "closed" => b = <<>>
  BY <1>1, <1>2, <1>4, Zenon DEF Asks
<1>7. Len(r) \in Nat /\ Len(q) \in Nat /\ Segments \in Nat \ {0} /\ DOMAIN r = 1 .. Len(r)
  BY <1>3, LenProperties, SizesAssumption
<1>8. PICK i \in 1 .. Len(r) : r[i].s % Segments = Segments - 1
  BY <1>1, <1>7 DEF Complete
<1>9. i \in 1 .. Len(b) /\ b[i] = r[i] /\ i \in Nat /\ i >= 1
  BY <1>5, <1>7
<1>10. Len(b) <= Segments /\ b[i] = [c |-> c, s |-> n * Segments + i - 1]
  BY <1>6, <1>9 DEF Part
<1>11. b[i].s = n * Segments + i - 1
  BY <1>10
<1>12. PICK j \in 0 .. Segments - 1 : j = i - 1
  BY <1>5, <1>7, <1>9, <1>10
<1>13. n * Segments \in Nat
  BY <1>3, <1>7
<1>14. n * Segments + i - 1 = n * Segments + j
  BY <1>9, <1>12, <1>13
<1>15. (n * Segments + j) % Segments = j
  BY <1>3, <1>7, Division
<1>16. j = Segments - 1
  BY <1>8, <1>9, <1>11, <1>14, <1>15
<1>17. Len(r) = Segments /\ Len(q) = 0 /\ Len(b) = Segments
  <2>1. Len(b) = Len(r) + Len(q) /\ Len(b) <= Segments
    BY <1>5, <1>10, Zenon
  <2>2. i = Segments
    BY <1>7, <1>9, <1>12, <1>16
  <2>3. Segments <= Len(r)
    BY <1>7, <2>2
  <2>4. Len(r) \in Nat /\ Len(q) \in Nat /\ Segments \in Nat
    BY <1>7
  <2>5. Len(r) = Segments /\ Len(q) = 0
    BY <2>1, <2>3, <2>4
  <2>6. QED
    BY <2>1, <2>4, <2>5
<1>18. q = <<>> /\ b # <<>> /\ b = r
  <2>1. q = <<>>
    BY <1>3, <1>17
  <2>2. r \o <<>> = r
    BY <1>3, ConcatEmptySeq
  <2>3. b = r
    BY <1>4, <2>1, <2>2, Zenon
  <2>4. b # <<>>
    <3>1. Len(<<>>) = 0
      OBVIOUS
    <3>2. QED
      BY <1>7, <1>17, <3>1
  <2>5. QED
    BY <2>1, <2>3, <2>4
<1>19. p.st = "open"
  <2>1. p \in ClientType
    BY Zenon DEF Link
  <2>2. p.st \in {"idle", "open", "closed"}
    BY <2>1 DEF ClientType
  <2>3. QED
    BY <1>2, <1>6, <1>18, <2>2
<1>20. p.sent = (n + 1) * Segments
  <2>1. (n + 1) * Segments = n * Segments + Segments
    BY <1>3, <1>7
  <2>2. QED
    BY <1>6, <1>17, <2>1
<1>21. Part(c, n * Segments, r) /\ Quiet(s, k)
  BY <1>6, <1>18, Zenon
<1>22. "job" # "none" /\ "job" # "out"
  OBVIOUS
<1>23. Asks(c, p, q, s, k, n, "job")
  BY <1>1, <1>17, <1>18, <1>19, <1>20, <1>21, <1>22, Zenon DEF Asks
<1>24. QED
  BY <1>1, <1>2, <1>23, Zenon DEF Good

LEMMA Taken ==
    ASSUME NEW c, NEW p, NEW q, NEW s, NEW k,
           Link(p, q, s, k), Good(c, p, q, s, k, "job")
    PROVE  /\ Good(c, p, q, s, [k EXCEPT !.rbuf = <<>>], "out")
           /\ Part(c, p.sent - Segments, k.rbuf) /\ Len(k.rbuf) = Segments
<1>1. PICK us, n, r, kk : /\ us = Whole(p, s, k) /\ n = Count(us) /\ r = k.rbuf
                          /\ kk = [k EXCEPT !.rbuf = <<>>]
  OBVIOUS
<1>2. Answers(c, us, n) /\ Asks(c, p, q, s, k, n, "job") /\ FileShape(k) /\ p.st # "idle"
  BY <1>1, Zenon DEF Good
<1>3. us \in Seq(UnitType) /\ n \in Nat
  <2>1. Whole(p, s, k) \in Seq(UnitType)
    BY WholeTyped
  <2>2. QED
    BY <1>1, <2>1, CountTyped, Zenon
<1>4. "job" # "none" /\ "out" # "none" /\ "out" # "job"
  OBVIOUS
<1>5. /\ p.st = "open" /\ p.sent = (n + 1) * Segments /\ Quiet(s, k) /\ q = <<>>
      /\ Part(c, n * Segments, r) /\ Len(r) = Segments
  BY <1>1, <1>2, <1>4, Zenon DEF Asks
<1>6. k \in ConnType
  BY Zenon DEF Link
<1>7. /\ kk.rbuf = <<>> /\ kk.wbuf = k.wbuf /\ kk.written = k.written /\ kk.fileFd = k.fileFd
      /\ kk.stream = k.stream /\ kk.isFileStream = k.isFileStream
  BY <1>1, <1>6 DEF ConnType
<1>8. Rest(kk) = Rest(k)
  BY <1>7, Zenon DEF Rest
<1>9. Whole(p, s, kk) = us /\ FileShape(kk) /\ Quiet(s, kk)
  BY <1>1, <1>2, <1>5, <1>7, <1>8, Zenon DEF Whole, FileShape, Quiet
<1>10. Asks(c, p, q, s, kk, n, "out")
  BY <1>4, <1>5, <1>7, <1>9, Zenon DEF Asks
<1>11. Good(c, p, q, s, kk, "out")
  BY <1>1, <1>2, <1>9, <1>10, Zenon DEF Good
<1>12. p.sent - Segments = n * Segments
  <2>1. Segments \in Nat \ {0}
    BY SizesAssumption
  <2>2. (n + 1) * Segments = n * Segments + Segments /\ n * Segments \in Nat
    BY <1>3, <2>1
  <2>3. QED
    BY <1>5, <2>1, <2>2
<1>13. QED
  BY <1>1, <1>5, <1>11, <1>12, Zenon

(* The answer is there, and begins to leave.                                *)
Answering(c, p, s, k, ss, kk, us, m) ==
    /\ us \in Seq(UnitType) /\ Begun(c, us, m) /\ Ended(us) /\ m * Segments = p.sent
    /\ m \in Nat /\ Whole(p, ss, kk) = Whole(p, s, k) \o us
    /\ kk.rbuf = <<>> /\ FileShape(kk)

LEMMA CountAnswers ==
    ASSUME NEW c, NEW us, NEW n \in Nat, Answers(c, us, n)
    PROVE  Count(us) = n
<1>1. /\ us = <<>> => n = 0
      /\ us # <<>> => us[Len(us)].n = n
  BY Zenon DEF Answers
<1>2. QED
  BY <1>1 DEF Count

LEMMA NextAnswer ==
    ASSUME NEW c, NEW p, NEW q, NEW s, NEW k, Link(p, q, s, k),
           Good(c, p, q, s, k, "out"), NEW m \in Nat, m * Segments = p.sent
    PROVE  m = Count(Whole(p, s, k)) + 1
<1>1. PICK us, n : us = Whole(p, s, k) /\ n = Count(us)
  OBVIOUS
<1>2. Asks(c, p, q, s, k, n, "out")
  BY <1>1, Zenon DEF Good
<1>3. us \in Seq(UnitType) /\ n \in Nat
  <2>1. Whole(p, s, k) \in Seq(UnitType)
    BY WholeTyped
  <2>2. QED
    BY <1>1, <2>1, CountTyped, Zenon
<1>4. "out" # "none"
  OBVIOUS
<1>5. p.sent = (n + 1) * Segments
  BY <1>2, <1>4, Zenon DEF Asks
<1>6. m * Segments = (n + 1) * Segments
  BY <1>5, Zenon
<1>7. Segments \in Nat \ {0} /\ n + 1 \in Int /\ m \in Int
  BY <1>3, SizesAssumption
<1>8. m = n + 1
  BY <1>6, <1>7, Cancel
<1>9. QED
  BY <1>1, <1>8, Zenon

LEMMA Replied ==
    ASSUME NEW c, NEW p, NEW q, NEW s, NEW k, NEW ss, NEW kk, NEW us, NEW m,
           Link(p, q, s, k), Link(p, q, ss, kk), Good(c, p, q, s, k, "out"),
           Answering(c, p, s, k, ss, kk, us, m)
    PROVE  Good(c, p, q, ss, kk, "none")
<1>1. PICK old, n : old = Whole(p, s, k) /\ n = Count(old)
  OBVIOUS
<1>2. Answers(c, old, n) /\ Asks(c, p, q, s, k, n, "out") /\ p.st # "idle"
  BY <1>1, Zenon DEF Good
<1>3. old \in Seq(UnitType) /\ n \in Nat
  <2>1. Whole(p, s, k) \in Seq(UnitType)
    BY WholeTyped
  <2>2. QED
    BY <1>1, <2>1, CountTyped, Zenon
<1>4. "out" # "none"
  OBVIOUS
<1>5. p.st = "open" /\ q = <<>>
  BY <1>2, <1>4, Zenon DEF Asks
<1>6. m \in Nat /\ m * Segments = p.sent /\ us \in Seq(UnitType) /\ Begun(c, us, m) /\ Ended(us)
  BY Zenon DEF Answering
<1>7. m = n + 1
  <2>1. m = Count(Whole(p, s, k)) + 1
    BY <1>6, NextAnswer
  <2>2. QED
    BY <1>1, <2>1, Zenon
<1>8. Answers(c, old \o us, n + 1)
  <2>1. Begun(c, us, n + 1)
    BY <1>6, <1>7, Zenon
  <2>2. QED
    BY <1>2, <1>3, <1>6, <2>1, OneMore
<1>9. PICK new : new = Whole(p, ss, kk)
  OBVIOUS
<1>10. Answers(c, new, n + 1)
  BY <1>1, <1>8, <1>9, Zenon DEF Answering
<1>11. Count(new) = m
  BY <1>6, <1>7, <1>10, CountAnswers
<1>12. kk.rbuf \o q = <<>>
  <2>1. kk.rbuf = <<>>
    BY Zenon DEF Answering
  <2>2. <<>> \o <<>> = <<>>
    OBVIOUS
  <2>3. QED
    BY <1>5, <2>1, <2>2, Zenon
<1>13. Part(c, m * Segments, <<>>) /\ p.sent = m * Segments + Len(<<>>)
  <2>1. Len(<<>>) = 0 /\ 1 .. 0 = {} /\ Segments \in Nat
    BY SizesAssumption
  <2>2. m * Segments \in Nat
    BY <1>6, <2>1
  <2>3. QED
    BY <1>6, <2>1, <2>2 DEF Part
<1>14. "open" # "closed" /\ "none" # "job" /\ "none" # "out"
  OBVIOUS
<1>15. Asks(c, p, q, ss, kk, m, "none")
  BY <1>5, <1>12, <1>13, <1>14, Zenon DEF Asks
<1>16. FileShape(kk)
  BY Zenon DEF Answering
<1>17. QED
  BY <1>2, <1>7, <1>9, <1>10, <1>11, <1>15, <1>16, Zenon DEF Good

-----------------------------------------------------------------------------
(* What leaves a connection is in the socket, and the rest is left.         *)
LEMMA OutAndLeft ==
    ASSUME NEW p, NEW q, NEW s, NEW k, Link(p, q, s, k), NEW kk, NEW x \in Seq(UnitType),
           Rest(kk) \in Seq(UnitType), x \o Rest(kk) = Rest(k)
    PROVE  Whole(p, s \o x, kk) = Whole(p, s, k)
<1>1. PICK g, y : g = p.got /\ y = Rest(kk)
  OBVIOUS
<1>2. g \in Seq(UnitType) /\ y \in Seq(UnitType) /\ s \in Seq(UnitType)
  <2>1. p.got \in Seq(UnitType) /\ s \in Seq(UnitType)
    BY WholeTyped
  <2>2. QED
    BY <1>1, <2>1, Zenon
<1>3. (g \o (s \o x)) \o y = (g \o s) \o (x \o y)
  <2>1. PICK a, b, d, e : Chained(g, s, x, y, a, b, d, e)
    BY DEF Chained
  <2>2. Meets(b, y, d, e)
    BY <1>2, <2>1, Regrouped
  <2>3. QED
    BY <2>1, <2>2, Zenon DEF Chained, Meets
<1>4. QED
  BY <1>1, <1>3, Zenon DEF Whole

LEMMA NewAndLeft ==
    ASSUME NEW p, NEW q, NEW s, NEW k, Link(p, q, s, k), NEW kk, NEW x \in Seq(UnitType),
           Rest(kk) \in Seq(UnitType), Quiet(s, k)
    PROVE  Whole(p, s \o x, kk) = Whole(p, s, k) \o (x \o Rest(kk))
<1>1. PICK g, y : g = p.got /\ y = Rest(kk)
  OBVIOUS
<1>2. g \in Seq(UnitType) /\ y \in Seq(UnitType) /\ s \in Seq(UnitType)
  <2>1. p.got \in Seq(UnitType) /\ s \in Seq(UnitType)
    BY WholeTyped
  <2>2. QED
    BY <1>1, <2>1, Zenon
<1>3. (g \o (s \o x)) \o y = (g \o s) \o (x \o y)
  <2>1. PICK a, b, d, e : Chained(g, s, x, y, a, b, d, e)
    BY DEF Chained
  <2>2. Meets(b, y, d, e)
    BY <1>2, <2>1, Regrouped
  <2>3. QED
    BY <2>1, <2>2, Zenon DEF Chained, Meets
<1>4. Whole(p, s, k) = (g \o s) \o <<>>
  BY <1>1, Zenon DEF Whole, Quiet
<1>5. g \o s \in Seq(UnitType)
  BY <1>2, ConcatProperties
<1>6. (g \o s) \o <<>> = g \o s
  BY <1>5, ConcatEmptySeq
<1>7. QED
  BY <1>1, <1>3, <1>4, <1>6, Zenon DEF Whole

LEMMA Received ==
    ASSUME NEW p, NEW q, NEW s, NEW k, Link(p, q, s, k), s # <<>>
    PROVE  Whole([p EXCEPT !.got = Append(@, Head(s))], Tail(s), k) = Whole(p, s, k)
<1>1. PICK g, y, pp : /\ g = p.got /\ y = Rest(k)
                      /\ pp = [p EXCEPT !.got = Append(@, Head(s))]
  OBVIOUS
<1>2. g \in Seq(UnitType) /\ s \in Seq(UnitType)
  <2>1. p.got \in Seq(UnitType) /\ s \in Seq(UnitType)
    BY WholeTyped
  <2>2. QED
    BY <1>1, <2>1, Zenon
<1>3. Append(g, Head(s)) \o Tail(s) = g \o s
  BY <1>2, HandedOver
<1>4. p \in ClientType
  BY Zenon DEF Link
<1>5. pp.got = Append(g, Head(s))
  BY <1>1, <1>4 DEF ClientType
<1>6. QED
  BY <1>1, <1>3, <1>5, Zenon DEF Whole

LEMMA EmptyRest ==
    ASSUME NEW k \in ConnType, ~k.fileFd, k.wbuf = <<>>
    PROVE  Rest(k) = <<>>
<1>1. PICK m \in Nat : m = k.written
  BY DEF ConnType
<1>2. SubSeq(<<>>, m + 1, 0) = <<>>
  BY SubSeqEmpty
<1>3. Rest(k) = SubSeq(k.wbuf, k.written + 1, Len(k.wbuf))
  BY DEF Rest
<1>4. Len(<<>>) = 0
  OBVIOUS
<1>5. QED
  BY <1>1, <1>2, <1>3, <1>4, Zenon

(* The buffer flushed.                                                      *)
FlushedTo(k, n) == IF k.written + n = Len(k.wbuf)
                   THEN [k EXCEPT !.wbuf = <<>>, !.written = 0]
                   ELSE [k EXCEPT !.written = @ + n]
LEMMA Flushed ==
    ASSUME NEW p, NEW q, NEW s, NEW k, Link(p, q, s, k), ~k.fileFd,
           NEW n \in 0 .. Len(k.wbuf) - k.written
    PROVE  /\ SubSeq(k.wbuf, k.written + 1, k.written + n) \in Seq(UnitType)
           /\ Rest(FlushedTo(k, n)) \in Seq(UnitType)
           /\ SubSeq(k.wbuf, k.written + 1, k.written + n) \o Rest(FlushedTo(k, n)) = Rest(k)
           /\ FlushedTo(k, n).rbuf = k.rbuf /\ ~FlushedTo(k, n).fileFd
<1>1. PICK b, m, kk, e : b = k.wbuf /\ m = k.written /\ kk = FlushedTo(k, n) /\ e = m + n
  OBVIOUS
<1>2. k \in ConnType
  BY Zenon DEF Link
<1>3. b \in Seq(UnitType) /\ m \in Nat /\ m <= Len(b)
  <2>1. k.wbuf \in Seq(UnitType) /\ k.written \in Nat /\ k.written <= Len(k.wbuf)
    BY <1>2 DEF ConnType, Link
  <2>2. QED
    BY <1>1, <2>1, Zenon
<1>4. n \in 0 .. Len(b) - m
  BY <1>1, Zenon
<1>5. Len(b) \in Nat /\ m \in 0 .. Len(b) /\ e \in m .. Len(b) /\ n \in Nat
  BY <1>1, <1>3, <1>4
<1>6. /\ SubSeq(b, m + 1, e) \in Seq(UnitType) /\ SubSeq(b, e + 1, Len(b)) \in Seq(UnitType)
      /\ Len(SubSeq(b, e + 1, Len(b))) = Len(b) - e
      /\ SubSeq(b, m + 1, e) \o SubSeq(b, e + 1, Len(b)) = SubSeq(b, m + 1, Len(b))
  BY <1>3, <1>5, Cut
<1>7. Rest(k) = SubSeq(b, m + 1, Len(b))
  BY <1>1, Zenon DEF Rest
<1>8. kk.rbuf = k.rbuf /\ ~kk.fileFd /\ Rest(kk) = SubSeq(b, e + 1, Len(b))
  <2>1. CASE e = Len(b)
    <3>1. kk = [k EXCEPT !.wbuf = <<>>, !.written = 0]
      BY <1>1, <2>1, Zenon DEF FlushedTo
    <3>2. kk.rbuf = k.rbuf /\ kk.fileFd = k.fileFd /\ kk.wbuf = <<>> /\ kk.written = 0
      BY <1>2, <3>1 DEF ConnType
    <3>3. SubSeq(<<>>, 0 + 1, Len(<<>>)) = <<>>
      OBVIOUS
    <3>4. Rest(kk) = <<>>
      BY <3>2, <3>3, Zenon DEF Rest
    <3>5. SubSeq(b, e + 1, Len(b)) = <<>>
      BY <1>5, <1>6, <2>1
    <3>6. QED
      BY <3>2, <3>4, <3>5, Zenon
  <2>2. CASE e # Len(b)
    <3>1. kk = [k EXCEPT !.written = @ + n]
      BY <1>1, <2>2, Zenon DEF FlushedTo
    <3>2. kk.rbuf = k.rbuf /\ kk.fileFd = k.fileFd /\ kk.wbuf = b /\ kk.written = e
      BY <1>1, <1>2, <3>1 DEF ConnType
    <3>3. QED
      BY <3>2, Zenon DEF Rest
  <2>3. QED
    BY <2>1, <2>2
<1>9. SubSeq(k.wbuf, k.written + 1, k.written + n) = SubSeq(b, m + 1, e)
  BY <1>1, Zenon
<1>10. QED
  BY <1>1, <1>6, <1>7, <1>8, <1>9, Zenon

(* A piece of the file sent.                                                *)
StreamedTo(k, n) == IF Drop(k.stream, n) = <<>> THEN CloseFile(k)
                    ELSE [k EXCEPT !.stream = Drop(@, n)]
LEMMA Streamed ==
    ASSUME NEW k \in ConnType, k.fileFd, k.wbuf = <<>>, k.isFileStream,
           NEW n \in 0 .. Len(k.stream)
    PROVE  /\ SubSeq(k.stream, 1, n) \in Seq(UnitType)
           /\ Rest(StreamedTo(k, n)) \in Seq(UnitType)
           /\ SubSeq(k.stream, 1, n) \o Rest(StreamedTo(k, n)) = k.stream
           /\ StreamedTo(k, n).rbuf = k.rbuf /\ FileShape(StreamedTo(k, n))
<1>1. PICK b, kk : b = k.stream /\ kk = StreamedTo(k, n)
  OBVIOUS
<1>2. b \in Seq(UnitType) /\ n \in 0 .. Len(b) /\ 0 \in 0 .. Len(b) /\ Len(b) \in Nat
      /\ n \in Nat
  <2>1. k.stream \in Seq(UnitType)
    BY DEF ConnType
  <2>2. b \in Seq(UnitType) /\ n \in 0 .. Len(b)
    BY <1>1, <2>1, Zenon
  <2>3. QED
    BY <2>2
<1>3. /\ SubSeq(b, 0 + 1, n) \in Seq(UnitType) /\ SubSeq(b, n + 1, Len(b)) \in Seq(UnitType)
      /\ SubSeq(b, 0 + 1, n) \o SubSeq(b, n + 1, Len(b)) = SubSeq(b, 0 + 1, Len(b))
  BY <1>2, Cut
<1>4. 0 + 1 = 1 /\ SubSeq(b, 1, Len(b)) = b
  BY <1>2, SubSeqFull
<1>5. Drop(b, n) = SubSeq(b, n + 1, Len(b))
  BY Zenon DEF Drop
<1>6. kk.rbuf = k.rbuf /\ FileShape(kk) /\ Rest(kk) = Drop(b, n)
  <2>1. CASE Drop(b, n) = <<>>
    <3>1. kk = CloseFile(k)
      BY <1>1, <2>1, Zenon DEF StreamedTo
    <3>2. kk \in ConnType /\ kk.rbuf = k.rbuf /\ ~kk.fileFd /\ kk.wbuf = <<>>
      <4>1. kk \in ConnType
        BY <3>1, CloseFileTyped
      <4>2. kk.rbuf = k.rbuf /\ kk.fileFd = FALSE /\ kk.wbuf = k.wbuf
        BY <3>1 DEF CloseFile, ConnType
      <4>3. QED
        BY <4>1, <4>2
    <3>3. Rest(kk) = <<>>
      BY <3>2, EmptyRest
    <3>4. QED
      BY <2>1, <3>2, <3>3, Zenon DEF FileShape
  <2>2. CASE Drop(b, n) # <<>>
    <3>0. PICK d : d = Drop(b, n)
      OBVIOUS
    <3>1. kk = [k EXCEPT !.stream = d]
      BY <1>1, <2>2, <3>0 DEF StreamedTo
    <3>2. /\ kk.rbuf = k.rbuf /\ kk.fileFd = k.fileFd /\ kk.wbuf = k.wbuf /\ kk.stream = d
          /\ kk.isFileStream = k.isFileStream
      BY <3>1 DEF ConnType
    <3>3. QED
      BY <2>2, <3>0, <3>2, Zenon DEF Rest, FileShape
  <2>3. QED
    BY <2>1, <2>2
<1>7. QED
  BY <1>1, <1>3, <1>4, <1>5, <1>6, Zenon

-----------------------------------------------------------------------------
(* What a step that leaves something alone keeps.                           *)
LEMMA Linked ==
    ASSUME TInv, NEW f \in Fds, sock[f] # NoClient
    PROVE  /\ sock[f] \in Clients /\ conn[f] # NoConn
           /\ Link(client[sock[f]], rcv[sock[f]], snd[sock[f]], conn[f])
<1>1. sock[f] \in Clients /\ conn[f] # NoConn
  BY DEF TInv, SocketsOK, ConnOwnsSocket
<1>2. conn[f] \in ConnType /\ conn[f].written <= Len(conn[f].wbuf)
  BY <1>1, ConnectionTyped DEF TInv
<1>3. client \in [Clients -> ClientType] /\ rcv \in [Clients -> Seq(Segment)]
      /\ snd \in [Clients -> Seq(UnitType)]
  BY DEF TInv, PeersOK, ClientType
<1>4. QED
  BY <1>1, <1>2, <1>3 DEF Link

LEMMA LinkedNext ==
    ASSUME TInv', NEW f \in Fds, sock'[f] # NoClient
    PROVE  /\ sock'[f] \in Clients /\ conn'[f] # NoConn
           /\ Link(client'[sock'[f]], rcv'[sock'[f]], snd'[sock'[f]], conn'[f])
<1>1. sock' \in [Fds -> Clients \cup {NoClient}] /\ conn' \in [Fds -> ConnType \cup {NoConn}]
      /\ (conn'[f] # NoConn <=> sock'[f] # NoClient)
      /\ (conn'[f] # NoConn => conn'[f].written <= Len(conn'[f].wbuf))
  BY DEF TInv, SocketsOK, ConnOwnsSocket
<1>2. client' \in [Clients -> ClientType] /\ rcv' \in [Clients -> Seq(Segment)]
      /\ snd' \in [Clients -> Seq(UnitType)]
  BY DEF TInv, PeersOK, ClientType
<1>3. QED
  BY <1>1, <1>2 DEF Link

LEMMA StageTyped == \A f : Stage(f) \in Stages /\ Stage(f)' \in Stages
  BY DEF Stage, Stages

LEMMA StageSame ==
    ASSUME UNCHANGED <<jobs, worker, pending, writes>>
    PROVE  \A f : Stage(f)' = Stage(f) /\ (Out(f)' <=> Out(f))
  BY DEF Stage, Out, Runs

LEMMA OutStage ==
    ASSUME TInv, Single, NEW f \in Fds, Out(f)
    PROVE  Stage(f) = "out" /\ sock[f] # NoClient
<1>1. jobs[f] \in Nat /\ ~(jobs[f] > 0)
  BY DEF TInv, PoolOK, Single
<1>2. Stage(f) = "out" /\ "out" # "none"
  BY <1>1 DEF Stage
<1>3. QED
  BY <1>2 DEF Single

LEMMA SingleSame ==
    ASSUME Single, UNCHANGED <<jobs, worker, pending, writes>>,
           \A f \in Fds : Stage(f) # "none" =>
               sock'[f] = sock[f] /\ ~(loop'.pc = "check" /\ loop'.fd = f)
    PROVE  Single'
<1>1. \A f : Stage(f)' = Stage(f) /\ (Out(f)' <=> Out(f))
  BY StageSame
<1>2. QED
  BY <1>1 DEF Single, Runs

LEMMA ContentsSame ==
    ASSUME TInv, Contents, UNCHANGED <<worker, pending, writes>>,
           \A f \in Fds : Out(f) => /\ sock'[f] = sock[f]
                                    /\ client'[sock[f]].sent = client[sock[f]].sent
    PROVE  Contents'
<1>1. \A w \in Workers : worker[w].pc = "run" => worker[w].fd \in Fds /\ Out(worker[w].fd)
  BY DEF TInv, PoolOK, Out, Runs
<1>2. \A i \in 1 .. Len(pending) : pending[i].fd \in Fds /\ Out(pending[i].fd)
  <2>1. \A i \in 1 .. Len(pending) : pending[i] \in ResponseType
    BY DEF TInv, PoolOK
  <2>2. QED
    BY <2>1 DEF Out, ResponseType
<1>3. \A i \in 1 .. Len(writes) : writes[i].fd \in Fds /\ Out(writes[i].fd)
  <2>1. \A i \in 1 .. Len(writes) : writes[i] \in ResponseType
    BY DEF TInv, PoolOK
  <2>2. QED
    BY <2>1 DEF Out, ResponseType
<1>4. ASSUME NEW w \in Workers, worker'[w].pc = "run"
      PROVE  /\ Part(sock'[worker'[w].fd], client'[sock'[worker'[w].fd]].sent - Segments,
                     worker'[w].data)
             /\ Len(worker'[w].data) = Segments
  BY <1>1, <1>4 DEF Contents
<1>5. ASSUME NEW i \in 1 .. Len(pending') PROVE Due(pending[i])'
  BY <1>2 DEF Contents, Due
<1>6. ASSUME NEW i \in 1 .. Len(writes') PROVE Due(writes[i])'
  BY <1>3 DEF Contents, Due
<1>7. QED
  BY <1>4, <1>5, <1>6 DEF Contents

LEMMA MomentsSame ==
    ASSUME Moments, UNCHANGED writes, loop.pc = "deliver" => loop'.pc = "deliver" \/ writes = <<>>,
           batch' \subseteq batch
    PROVE  Moments'
  BY DEF Moments

(* A step of one peer.                                                      *)
OneClient(c) ==
    /\ \A d \in Clients \ {c} :
          /\ client'[d] = client[d] /\ rcv'[d] = rcv[d] /\ snd'[d] = snd[d]
          /\ d \in rst' <=> d \in rst
          /\ d \in backlog' <=> d \in backlog
    /\ UNCHANGED <<sock, conn, jobs, worker, pending, writes, ticks, loop, batch, files>>

LEMMA PeerFrame ==
    ASSUME TInv, OInv, NEW c \in Clients, OneClient(c),
           \A f \in Fds : sock[f] = c => GoodAt(f)' /\ c \notin backlog' /\ c \notin rst',
           WaitsIfNew(c)', LeftInOrder(c)',
           \A f \in Fds : sock[f] = c /\ Out(f) => client'[c].sent = client[c].sent
    PROVE  OInv'
<1>1. UNCHANGED <<sock, conn, jobs, worker, pending, writes, ticks, loop, batch, files>>
  BY DEF OneClient
<1>2. \A f : Stage(f)' = Stage(f)
  BY <1>1, StageSame
<1>3. \A f \in Fds : sock[f] # NoClient => sock[f] \in Clients
  BY Linked
<1>4. Lines'
  <2>1. SUFFICES ASSUME NEW f \in Fds, sock[f] # NoClient, sock[f] # c PROVE GoodAt(f)'
    BY <1>1 DEF Lines
  <2>2. PICK d \in Clients \ {c} : d = sock[f]
    BY <1>3, <2>1
  <2>3. client'[d] = client[d] /\ rcv'[d] = rcv[d] /\ snd'[d] = snd[d]
    BY <2>2 DEF OneClient
  <2>4. GoodAt(f)
    BY <2>1 DEF OInv, Lines
  <2>5. Good(d, client[d], rcv[d], snd[d], conn[f], Stage(f))
    BY <2>2, <2>4, Zenon DEF GoodAt
  <2>6. sock' = sock /\ conn' = conn /\ Stage(f)' = Stage(f)
    BY <1>1, <1>2
  <2>7. QED
    BY <2>2, <2>3, <2>5, <2>6, Zenon DEF GoodAt
<1>5. Socks'
  BY <1>1, <1>3 DEF OInv, Socks, OneClient
<1>6. Waiting'
  <2>1. SUFFICES ASSUME NEW d \in Clients \ {c} PROVE WaitsIfNew(d)'
    BY DEF Waiting
  <2>2. WaitsIfNew(d)
    BY DEF OInv, Waiting
  <2>3. QED
    BY <1>1, <2>2 DEF WaitsIfNew, Waits, OneClient
<1>7. Left'
  <2>1. SUFFICES ASSUME NEW d \in Clients \ {c} PROVE LeftInOrder(d)'
    BY DEF Left
  <2>2. LeftInOrder(d)
    BY DEF OInv, Left
  <2>3. QED
    BY <1>1, <2>2 DEF LeftInOrder, OneClient
<1>8. Single'
  BY <1>1, SingleSame DEF OInv, Single
<1>9. Contents'
  <2>1. ASSUME NEW f \in Fds, Out(f) PROVE client'[sock[f]].sent = client[sock[f]].sent
    <3>1. sock[f] \in Clients
      BY <1>3, <2>1, OutStage DEF OInv
    <3>2. QED
      BY <2>1, <3>1 DEF OneClient
  <2>2. QED
    BY <1>1, <2>1, ContentsSame DEF OInv
<1>10. Moments'
  BY <1>1, MomentsSame DEF OInv
<1>11. NoFileLeak'
  BY <1>1 DEF OInv, NoFileLeak, Streaming
<1>12. QED
  BY <1>4, <1>5, <1>6, <1>7, <1>8, <1>9, <1>10, <1>11 DEF OInv

LEMMA ConnectOrder == ASSUME TInv, OInv, NEW c \in Clients, Connect(c) PROVE OInv'
<1>1. client[c] \in ClientType /\ client \in [Clients -> ClientType]
  BY DEF TInv, PeersOK, ClientType
<1>2. /\ client[c].st = "idle" /\ client' = [client EXCEPT ![c].st = "open"]
      /\ backlog' = backlog \cup {c} /\ UNCHANGED <<rcv, snd, rst>>
  BY DEF Connect
<1>3. /\ client'[c].st = "open" /\ client'[c].sent = client[c].sent
      /\ client'[c].got = client[c].got
  BY <1>1, <1>2 DEF ClientType
<1>4. OneClient(c)
  BY <1>1, <1>2 DEF Connect, OneClient, poolVars, loopVars, timeVars, sockVars
<1>5. Waits(c)
  BY <1>2 DEF OInv, Waiting, WaitsIfNew
<1>6. sock' = sock
  BY DEF OneClient, Connect, sockVars
<1>7. Waits(c)'
  BY <1>2, <1>3, <1>5, <1>6 DEF Waits
<1>8. WaitsIfNew(c)'
  BY <1>3, <1>7 DEF WaitsIfNew
<1>9. LeftInOrder(c)'
  BY <1>2, <1>3, <1>6 DEF OInv, Left, LeftInOrder
<1>10. \A f \in Fds : sock[f] # c
  BY <1>5 DEF Waits
<1>11. QED
  BY <1>4, <1>8, <1>9, <1>10, PeerFrame

LEMMA SendOrder == ASSUME TInv, OInv, NEW c \in Clients, SendSegment(c) PROVE OInv'
<1>1. client[c] \in ClientType /\ client \in [Clients -> ClientType]
      /\ rcv \in [Clients -> Seq(Segment)] /\ snd[c] \in Seq(UnitType)
  BY DEF TInv, PeersOK, ClientType
<1>2. PICK p, q : p = client[c] /\ q = rcv[c]
  OBVIOUS
<1>3. p \in ClientType /\ q \in Seq(Segment) /\ p.sent \in Nat
  BY <1>1, <1>2 DEF ClientType
<1>4. p.st = "open" /\ (p.sent % Segments # 0 \/ GotAnswer(p))
  BY <1>2 DEF SendSegment, Answered, GotAnswer
<1>5. PICK pp, qq : /\ pp = [p EXCEPT !.sent = @ + 1]
                    /\ qq = Append(q, [c |-> c, s |-> p.sent])
  OBVIOUS
<1>6. pp.st = "open" /\ pp.sent = p.sent + 1 /\ pp.got = p.got
  BY <1>3, <1>4, <1>5 DEF ClientType
<1>7. /\ client' = [client EXCEPT ![c] = pp] /\ rcv' = [rcv EXCEPT ![c] = qq]
      /\ UNCHANGED <<snd, rst, backlog>>
  BY <1>2, <1>5 DEF SendSegment
<1>8. client'[c] = pp /\ rcv'[c] = qq /\ snd'[c] = snd[c]
  BY <1>1, <1>7
<1>9. OneClient(c)
  BY <1>1, <1>7 DEF SendSegment, OneClient, poolVars, loopVars, timeVars
<1>10. UNCHANGED <<sock, conn, jobs, worker, pending, writes>>
  BY <1>9 DEF OneClient
<1>11. ASSUME NEW f \in Fds, sock[f] = c
       PROVE  GoodAt(f)' /\ c \notin backlog' /\ c \notin rst' /\ ~Out(f)
  <2>1. c # NoClient
    BY ClientsAssumption
  <2>2. PICK s, k, g : s = snd[c] /\ k = conn[f] /\ g = Stage(f)
    OBVIOUS
  <2>3. Link(p, q, s, k) /\ g \in Stages
    BY <1>2, <1>11, <2>1, <2>2, Linked, StageTyped
  <2>4. Good(c, p, q, s, k, g)
    BY <1>2, <1>11, <2>1, <2>2 DEF OInv, Lines, GoodAt
  <2>5. g = "none" /\ Good(c, pp, qq, s, k, g)
    BY <1>4, <1>5, <2>3, <2>4, Asked
  <2>6. Stage(f)' = g /\ conn' = conn /\ sock' = sock
    BY <1>10, <2>2, StageSame
  <2>7. GoodAt(f)'
    BY <1>8, <1>11, <2>2, <2>5, <2>6, Zenon DEF GoodAt
  <2>8. ~Out(f)
    BY <2>2, <2>5, OutStage DEF OInv
  <2>9. QED
    BY <1>7, <1>11, <2>1, <2>7, <2>8 DEF OInv, Socks
<1>12. WaitsIfNew(c)'
  <2>1. CASE c \in backlog
    <3>1. /\ p.got = <<>> /\ snd[c] = <<>> /\ c \notin rst /\ p.sent = Len(q) /\ Part(c, 0, q)
          /\ \A f \in Fds : sock[f] # c
      BY <1>2, <2>1 DEF OInv, Waiting, WaitsIfNew, Waits
    <3>2. Len(q) <= Segments /\ Len(q) \in Nat /\ Segments \in Nat \ {0}
      BY <1>3, <3>1, SizesAssumption DEF Part
    <3>3. Len(q) # Segments
      <4>1. ASSUME Len(q) = Segments PROVE FALSE
        <5>1. (1 * Segments + 0) % Segments = 0
          BY <3>2, Division
        <5>2. p.sent % Segments = 0 /\ p.sent # 0
          BY <3>1, <3>2, <4>1, <5>1
        <5>3. PICK i \in DOMAIN p.got : TRUE
          BY <1>4, <5>2 DEF GotAnswer
        <5>4. QED
          BY <3>1, <5>3
      <4>2. QED
        BY <4>1
    <3>4. 0 \in Nat /\ Len(q) < Segments /\ 0 + Len(q) = p.sent
      BY <3>1, <3>2, <3>3
    <3>5. Part(c, 0, Append(q, [c |-> c, s |-> 0 + Len(q)]))
      BY <1>3, <3>1, <3>4, PartGrows
    <3>6. Part(c, 0, qq)
      BY <1>5, <3>4, <3>5, Zenon
    <3>7. Len(qq) = pp.sent
      <4>1. [c |-> c, s |-> p.sent] \in Segment
        BY <1>3 DEF Segment
      <4>2. Len(qq) = Len(q) + 1
        BY <1>3, <1>5, <4>1, AppendProperties
      <4>3. QED
        BY <1>6, <3>1, <4>2
    <3>8. QED
      BY <1>6, <1>7, <1>8, <1>10, <3>1, <3>6, <3>7 DEF WaitsIfNew, Waits
  <2>2. CASE c \notin backlog
    BY <1>6, <1>7, <1>8, <2>2 DEF WaitsIfNew
  <2>3. QED
    BY <2>1, <2>2
<1>13. LeftInOrder(c)'
  <2>1. client'[c].got = client[c].got /\ snd' = snd /\ sock' = sock
    BY <1>2, <1>6, <1>7, <1>8, <1>10
  <2>2. LeftInOrder(c)
    BY DEF OInv, Left
  <2>3. QED
    BY <2>1, <2>2 DEF LeftInOrder
<1>14. QED
  BY <1>9, <1>11, <1>12, <1>13, PeerFrame

LEMMA ReceiveOrder == ASSUME TInv, TInv', OInv, NEW c \in Clients, Receive(c) PROVE OInv'
<1>1. client[c] \in ClientType /\ client \in [Clients -> ClientType]
      /\ rcv \in [Clients -> Seq(Segment)] /\ snd \in [Clients -> Seq(UnitType)]
  BY DEF TInv, PeersOK, ClientType
<1>2. PICK p, s : p = client[c] /\ s = snd[c]
  OBVIOUS
<1>3. p \in ClientType /\ s \in Seq(UnitType) /\ s # <<>> /\ p.st = "open"
      /\ p.got \in Seq(UnitType)
  BY <1>1, <1>2 DEF ClientType, Receive
<1>4. PICK pp, ss : pp = [p EXCEPT !.got = Append(@, Head(s))] /\ ss = Tail(s)
  OBVIOUS
<1>5. pp.st = "open" /\ pp.sent = p.sent /\ pp.got = Append(p.got, Head(s))
  BY <1>3, <1>4 DEF ClientType
<1>6. /\ client' = [client EXCEPT ![c] = pp] /\ snd' = [snd EXCEPT ![c] = ss]
      /\ UNCHANGED <<rcv, rst, backlog>>
  BY <1>2, <1>4 DEF Receive
<1>7. client'[c] = pp /\ snd'[c] = ss /\ rcv'[c] = rcv[c]
  BY <1>1, <1>6
<1>8. OneClient(c)
  BY <1>1, <1>6 DEF Receive, OneClient, poolVars, loopVars, timeVars
<1>9. UNCHANGED <<sock, conn, jobs, worker, pending, writes>>
  BY <1>8 DEF OneClient
<1>10. ASSUME NEW f \in Fds, sock[f] = c
       PROVE  GoodAt(f)' /\ c \notin backlog' /\ c \notin rst'
  <2>1. c # NoClient
    BY ClientsAssumption
  <2>2. PICK q, k, g : q = rcv[c] /\ k = conn[f] /\ g = Stage(f)
    OBVIOUS
  <2>3. Link(p, q, s, k)
    BY <1>2, <1>10, <2>1, <2>2, Linked
  <2>4. Good(c, p, q, s, k, g)
    BY <1>2, <1>10, <2>1, <2>2 DEF OInv, Lines, GoodAt
  <2>5. Link(pp, q, ss, k)
    BY <1>7, <1>9, <1>10, <2>1, <2>2, LinkedNext
  <2>6. Whole(pp, ss, k) = Whole(p, s, k)
    BY <1>3, <1>4, <2>3, Received
  <2>7. FileShape(k)
    BY <2>4 DEF Good
  <2>8. Same(p, q, s, k, pp, q, ss, k, g)
    BY <1>3, <1>5, <2>6, <2>7 DEF Same
  <2>9. Good(c, pp, q, ss, k, g)
    BY <2>3, <2>4, <2>5, <2>8, Moved
  <2>10. Stage(f)' = g /\ conn' = conn /\ sock' = sock
    BY <1>9, <2>2, StageSame
  <2>11. GoodAt(f)'
    BY <1>7, <1>10, <2>2, <2>9, <2>10, Zenon DEF GoodAt
  <2>12. QED
    BY <1>6, <1>10, <2>1, <2>11 DEF OInv, Socks
<1>11. WaitsIfNew(c)'
  <2>1. c \notin backlog
    BY <1>2, <1>3 DEF OInv, Waiting, WaitsIfNew, Waits
  <2>2. QED
    BY <1>5, <1>6, <1>7, <2>1 DEF WaitsIfNew
<1>12. LeftInOrder(c)'
  <2>1. pp.got \o ss = p.got \o s
    <3>1. PICK g : g = p.got
      OBVIOUS
    <3>2. g \in Seq(UnitType)
      BY <1>3, <3>1
    <3>3. Append(g, Head(s)) \o Tail(s) = g \o s
      BY <1>3, <3>2, HandedOver
    <3>4. QED
      BY <1>4, <1>5, <3>1, <3>3, Zenon
  <2>2. LeftInOrder(c)
    BY DEF OInv, Left
  <2>3. sock' = sock
    BY <1>9
  <2>4. (\A f \in Fds : sock[f] # c) => Ordered(c, p.got \o s)
    BY <1>2, <2>2, Zenon DEF LeftInOrder
  <2>5. QED
    BY <1>7, <2>1, <2>3, <2>4, Zenon DEF LeftInOrder
<1>13. client'[c].sent = client[c].sent
  BY <1>2, <1>5, <1>7
<1>14. QED
  BY <1>8, <1>10, <1>11, <1>12, <1>13, PeerFrame

LEMMA LeaveOrder == ASSUME TInv, OInv, NEW c \in Clients, Impatient = {}, Leave(c) PROVE OInv'
<1>1. client[c] \in ClientType /\ client \in [Clients -> ClientType]
  BY DEF TInv, PeersOK, ClientType
<1>2. PICK p : p = client[c]
  OBVIOUS
<1>3. p \in ClientType /\ p.st = "open" /\ GotAnswer(p) /\ p.sent > 0
  BY <1>1, <1>2 DEF Leave, Answered, GotAnswer
<1>4. PICK pp : pp = [p EXCEPT !.st = "closed"]
  OBVIOUS
<1>5. pp.st = "closed" /\ pp.sent = p.sent /\ pp.got = p.got
  BY <1>3, <1>4 DEF ClientType
<1>6. client' = [client EXCEPT ![c] = pp] /\ UNCHANGED <<rcv, snd, rst, backlog>>
  BY <1>2, <1>4 DEF Leave
<1>7. client'[c] = pp
  BY <1>1, <1>6
<1>8. OneClient(c)
  BY <1>1, <1>6 DEF Leave, OneClient, poolVars, loopVars, timeVars
<1>9. UNCHANGED <<sock, conn, jobs, worker, pending, writes>>
  BY <1>8 DEF OneClient
<1>10. ASSUME NEW f \in Fds, sock[f] = c
       PROVE  GoodAt(f)' /\ c \notin backlog' /\ c \notin rst'
  <2>1. c # NoClient
    BY ClientsAssumption
  <2>2. PICK q, s, k, g : q = rcv[c] /\ s = snd[c] /\ k = conn[f] /\ g = Stage(f)
    OBVIOUS
  <2>3. Link(p, q, s, k) /\ g \in Stages
    BY <1>2, <1>10, <2>1, <2>2, Linked, StageTyped
  <2>4. Good(c, p, q, s, k, g)
    BY <1>2, <1>10, <2>1, <2>2 DEF OInv, Lines, GoodAt
  <2>5. Good(c, pp, q, s, k, g)
    BY <1>3, <1>4, <2>3, <2>4, Gone
  <2>6. Stage(f)' = g /\ conn' = conn /\ sock' = sock /\ rcv' = rcv /\ snd' = snd
    BY <1>6, <1>9, <2>2, StageSame
  <2>7. GoodAt(f)'
    BY <1>7, <1>10, <2>2, <2>5, <2>6, Zenon DEF GoodAt
  <2>8. QED
    BY <1>6, <1>10, <2>1, <2>7 DEF OInv, Socks
<1>11. WaitsIfNew(c)'
  <2>1. ASSUME c \in backlog PROVE FALSE
    <3>1. p.got = <<>>
      BY <1>2, <2>1 DEF OInv, Waiting, WaitsIfNew, Waits
    <3>2. PICK i \in DOMAIN p.got : TRUE
      BY <1>3 DEF GotAnswer
    <3>3. QED
      BY <3>1, <3>2
  <2>2. QED
    BY <1>5, <1>6, <1>7, <2>1 DEF WaitsIfNew
<1>12. LeftInOrder(c)'
  <2>1. client'[c].got = client[c].got /\ snd' = snd /\ sock' = sock
    BY <1>2, <1>5, <1>6, <1>7, <1>9
  <2>2. LeftInOrder(c)
    BY DEF OInv, Left
  <2>3. QED
    BY <2>1, <2>2 DEF LeftInOrder
<1>13. client'[c].sent = client[c].sent
  BY <1>2, <1>5, <1>7
<1>14. QED
  BY <1>8, <1>10, <1>11, <1>12, <1>13, PeerFrame

LEMMA ResetOrder == ASSUME TInv, OInv, NEW c \in Clients, Reset(c) PROVE OInv'
<1>1. /\ client[c].st = "closed" /\ snd[c] # <<>> /\ snd' = [snd EXCEPT ![c] = <<>>]
      /\ rst' = rst \cup {c} /\ UNCHANGED <<client, rcv, backlog>>
      /\ snd \in [Clients -> Seq(UnitType)] /\ client[c].got \in Seq(UnitType)
  BY DEF Reset, TInv, PeersOK
<1>2. OneClient(c)
  BY <1>1 DEF Reset, OneClient, poolVars, loopVars, timeVars
<1>3. sock' = sock
  BY <1>2 DEF OneClient
<1>4. ASSUME NEW f \in Fds, sock[f] = c PROVE FALSE
  <2>1. c # NoClient
    BY ClientsAssumption
  <2>2. PICK p, q, s, k, g : /\ p = client[c] /\ q = rcv[c] /\ s = snd[c] /\ k = conn[f]
                             /\ g = Stage(f)
    OBVIOUS
  <2>3. Good(c, p, q, s, k, g) /\ p.st = "closed" /\ s # <<>>
    BY <1>1, <1>4, <2>1, <2>2 DEF OInv, Lines, GoodAt
  <2>4. "closed" # "open"
    OBVIOUS
  <2>5. Quiet(s, k)
    BY <2>3, <2>4, Zenon DEF Good, Asks
  <2>6. QED
    BY <2>3, <2>5 DEF Quiet
<1>5. WaitsIfNew(c)'
  <2>1. c \notin backlog /\ client[c].st # "idle"
    BY <1>1 DEF OInv, Waiting, WaitsIfNew, Waits
  <2>2. QED
    BY <1>1, <2>1 DEF WaitsIfNew
<1>6. LeftInOrder(c)'
  <2>1. Ordered(c, client[c].got \o snd[c])
    BY <1>4 DEF OInv, Left, LeftInOrder
  <2>2. PICK g, s : g = client[c].got /\ s = snd[c]
    OBVIOUS
  <2>3. g \in Seq(UnitType) /\ s \in Seq(UnitType) /\ Ordered(c, g \o s)
    BY <1>1, <2>1, <2>2
  <2>4. Ordered(c, g)
    BY <2>3, PrefixOrdered
  <2>5. g \o <<>> = g
    BY <2>3, ConcatEmptySeq
  <2>6. snd'[c] = <<>> /\ client' = client
    BY <1>1
  <2>7. QED
    BY <2>2, <2>4, <2>5, <2>6, Zenon DEF LeftInOrder
<1>7. QED
  BY <1>2, <1>4, <1>5, <1>6, PeerFrame

(* A step that leaves the peers and the connections alone.                  *)
Still == /\ UNCHANGED <<client, rcv, snd, rst, backlog, sock, conn, ticks, files>>
         /\ \A f \in Fds : Stage(f)' = Stage(f)

LEMMA StillFrame ==
    ASSUME OInv, Still, Single', Contents', Moments'
    PROVE  OInv'
<1>1. UNCHANGED <<client, rcv, snd, rst, backlog, sock, conn, ticks, files>>
  BY DEF Still
<1>2. Lines'
  BY <1>1 DEF OInv, Lines, GoodAt, Still
<1>3. Socks' /\ Waiting' /\ Left'
  BY <1>1 DEF OInv, Socks, Waiting, WaitsIfNew, Waits, Left, LeftInOrder
<1>4. NoFileLeak'
  BY <1>1 DEF OInv, NoFileLeak, Streaming
<1>5. QED
  BY <1>2, <1>3, <1>4 DEF OInv

LEMMA IdleFrame ==
    ASSUME TInv, OInv, UNCHANGED <<client, rcv, snd, rst, backlog, sock, conn, ticks, files>>,
           UNCHANGED <<jobs, worker, pending, writes>>, Moments',
           UNCHANGED loop \/ loop'.pc # "check"
    PROVE  OInv'
<1>1. Still
  BY StageSame DEF Still
<1>2. Single'
  BY SingleSame DEF OInv, Single
<1>3. Contents'
  BY ContentsSame DEF OInv
<1>4. QED
  BY <1>1, <1>2, <1>3, StillFrame

LEMMA WaitOrder == ASSUME TInv, OInv, EpollWait PROVE OInv'
<1>1. /\ UNCHANGED <<client, rcv, snd, rst, backlog, sock, conn, ticks, files>>
      /\ UNCHANGED <<jobs, worker, pending, writes, loop>>
  BY DEF EpollWait, poolVars, timeVars
<1>2. ASSUME NEW f \in Fds PROVE "err" \notin Events(f)
  <2>1. sock[f] \notin rst
    BY ClientsAssumption DEF OInv, Socks, TInv, PeersOK
  <2>2. QED
    BY <2>1 DEF Events
<1>3. \A e \in batch' : "err" \notin e[3]
  <2>1. SUFFICES ASSUME NEW e \in batch' PROVE "err" \notin e[3]
    OBVIOUS
  <2>2. CASE e \in {<<x, 0, {}>> : x \in Signals}
    BY <2>2
  <2>3. CASE e \in {<<"socket", f, Events(f)>> : f \in {g \in rdl : Events(g) # {}}}
    <3>1. PICK f \in rdl : e = <<"socket", f, Events(f)>>
      BY <2>3
    <3>2. f \in Fds
      BY DEF TInv, SocketsOK
    <3>3. QED
      BY <1>2, <3>1, <3>2
  <2>4. batch' = {<<x, 0, {}>> : x \in Signals}
                 \cup {<<"socket", f, Events(f)>> : f \in {g \in rdl : Events(g) # {}}}
    BY DEF EpollWait
  <2>5. QED
    BY <2>1, <2>2, <2>3, <2>4
<1>4. Moments'
  BY <1>1, <1>3 DEF OInv, Moments
<1>5. QED
  BY <1>1, <1>4, IdleFrame

LEMMA MoveOrder ==
    ASSUME TInv, OInv, BeginAccept \/ EndAccept \/ DrainWakeup \/ EndDeliver
    PROVE  OInv'
<1>1. /\ UNCHANGED <<client, rcv, snd, rst, backlog, sock, conn, ticks, files>>
      /\ UNCHANGED <<jobs, worker, pending, writes>>
      /\ loop'.pc # "check" /\ batch' \subseteq batch
      /\ loop.pc # "deliver" \/ writes = <<>>
  BY DEF BeginAccept, EndAccept, DrainWakeup, EndDeliver, Handle, Done, LoopAt, kernelVars,
         timeVars, sockVars, poolVars
<1>2. Moments'
  BY <1>1, MomentsSame DEF OInv
<1>3. QED
  BY <1>1, <1>2, IdleFrame

(* No connection is older than the time that has passed.                    *)
LEMMA CleanupOrder ==
    ASSUME TInv, OInv, MaxTicks <= ConnTimeout, CleanupTimeouts
    PROVE  OInv'
<1>1. {f \in Fds : conn[f] # NoConn /\ conn[f].age > ConnTimeout} = {}
  <2>1. ASSUME NEW f \in Fds, conn[f] # NoConn PROVE ~(conn[f].age > ConnTimeout)
    <3>1. sock[f] # NoClient /\ conn[f] \in ConnType
      BY <2>1 DEF TInv, SocketsOK, ConnOwnsSocket
    <3>2. conn[f].age <= ticks /\ conn[f].age \in Nat
      BY <3>1 DEF OInv, Socks, ConnType
    <3>3. ticks \in 0 .. MaxTicks /\ MaxTicks \in Nat /\ ConnTimeout \in Nat
      BY SizesAssumption DEF TInv, LoopOK
    <3>4. QED
      BY <3>2, <3>3
  <2>2. QED
    BY <2>1
<1>2. Erase({}) /\ files' = files - Cardinality(Streaming({}))
  BY <1>1 DEF CleanupTimeouts
<1>3. sock' = sock /\ conn' = conn
  BY <1>2 DEF Erase, CloseSock, TInv, SocketsOK
<1>4. files' = files
  <2>1. Streaming({}) = {}
    BY DEF Streaming
  <2>2. files \in Nat /\ Cardinality({}) = 0
    BY FS_EmptySet DEF TInv, FilesOK
  <2>3. QED
    BY <1>2, <2>1, <2>2
<1>5. /\ UNCHANGED <<client, rcv, snd, rst, backlog, ticks>>
      /\ UNCHANGED <<jobs, worker, pending, writes, loop>> /\ batch' \subseteq batch
  BY DEF CleanupTimeouts, Handle, kernelVars, poolVars
<1>6. Moments'
  BY <1>5, MomentsSame DEF OInv
<1>7. QED
  BY <1>3, <1>4, <1>5, <1>6, IdleFrame

LEMMA ErrorOrder ==
    ASSUME OInv, NEW f \in Fds, NEW ev \in SocketEvents, HandleError(f, ev)
    PROVE  FALSE
<1>1. <<"socket", f, ev>> \in batch /\ "err" \in ev
  BY DEF HandleError, Handle
<1>2. QED
  BY <1>1 DEF OInv, Moments

LEMMA TimerOrder == ASSUME TInv, TInv', OInv, TimerExpires PROVE OInv'
<1>1. /\ UNCHANGED <<client, rcv, snd, rst, backlog, sock, files>>
      /\ UNCHANGED <<jobs, worker, pending, writes, loop, batch>>
      /\ ticks' = ticks + 1
      /\ conn' = [f \in Fds |-> IF conn[f] = NoConn THEN NoConn
                                ELSE [conn[f] EXCEPT !.age = @ + 1]]
  BY DEF TimerExpires, kernelVars, sockVars, poolVars, loopVars
<1>2. \A f : Stage(f)' = Stage(f)
  BY <1>1, StageSame
<1>3. ASSUME NEW f \in Fds, sock[f] # NoClient
      PROVE  /\ GoodAt(f)' /\ conn'[f].age <= ticks'
             /\ conn'[f] # NoConn /\ conn'[f].fileFd = conn[f].fileFd
  <2>1. PICK c, p, q, s, k, g : /\ c = sock[f] /\ p = client[c] /\ q = rcv[c] /\ s = snd[c]
                                /\ k = conn[f] /\ g = Stage(f)
    OBVIOUS
  <2>2. c \in Clients /\ k # NoConn /\ Link(p, q, s, k)
    BY <1>3, <2>1, Linked
  <2>3. PICK j : j = [k EXCEPT !.age = @ + 1]
    OBVIOUS
  <2>4. k \in ConnType
    BY <2>2 DEF Link
  <2>5. conn'[f] = j
    BY <1>1, <2>1, <2>2, <2>3
  <2>6. /\ j.rbuf = k.rbuf /\ j.wbuf = k.wbuf /\ j.written = k.written /\ j.age = k.age + 1
        /\ j.isFileStream = k.isFileStream /\ j.fileFd = k.fileFd /\ j.stream = k.stream
    BY <2>3, <2>4 DEF ConnType
  <2>7. sock' = sock /\ client' = client /\ rcv' = rcv /\ snd' = snd
    BY <1>1
  <2>8. Link(p, q, s, j) /\ j # NoConn
    BY <1>3, <2>1, <2>5, <2>7, LinkedNext
  <2>9. Good(c, p, q, s, k, g)
    BY <1>3, <2>1 DEF OInv, Lines, GoodAt
  <2>10. Rest(j) = Rest(k) /\ FileShape(j)
    BY <2>6, <2>9, Zenon DEF Rest, FileShape, Good
  <2>11. Same(p, q, s, k, p, q, s, j, g)
    BY <2>6, <2>10, Zenon DEF Same, Whole
  <2>12. Good(c, p, q, s, j, g)
    BY <2>2, <2>8, <2>9, <2>11, Moved
  <2>13. GoodAt(f)'
    BY <1>2, <2>1, <2>5, <2>7, <2>12, Zenon DEF GoodAt
  <2>14. j.age <= ticks'
    <3>1. k.age <= ticks /\ k.age \in Nat /\ ticks \in Nat
      BY <1>3, <2>1, <2>4 DEF OInv, Socks, ConnType, TInv, LoopOK
    <3>2. QED
      BY <1>1, <2>6, <3>1
  <2>15. QED
    BY <2>1, <2>5, <2>6, <2>8, <2>13, <2>14, Zenon
<1>4. Lines'
  BY <1>1, <1>3 DEF Lines
<1>5. Socks'
  BY <1>1, <1>3 DEF OInv, Socks
<1>6. Waiting' /\ Left'
  BY <1>1 DEF OInv, Waiting, WaitsIfNew, Waits, Left, LeftInOrder
<1>7. Single'
  BY <1>1, SingleSame DEF OInv, Single
<1>8. Contents'
  BY <1>1, ContentsSame DEF OInv
<1>9. Moments'
  BY <1>1, MomentsSame DEF OInv
<1>10. NoFileLeak'
  <2>1. ASSUME NEW f \in Fds
        PROVE  conn'[f] # NoConn /\ conn'[f].fileFd <=> conn[f] # NoConn /\ conn[f].fileFd
    <3>1. CASE conn[f] = NoConn
      BY <1>1, <3>1
    <3>2. CASE conn[f] # NoConn
      <4>1. sock[f] # NoClient
        BY <3>2 DEF TInv, SocketsOK, ConnOwnsSocket
      <4>2. QED
        BY <1>3, <3>2, <4>1
    <3>3. QED
      BY <3>1, <3>2
  <2>2. Streaming(Fds)' = Streaming(Fds)
    BY <2>1 DEF Streaming
  <2>3. QED
    BY <1>1, <2>2 DEF OInv, NoFileLeak
<1>11. QED
  BY <1>4, <1>5, <1>6, <1>7, <1>8, <1>9, <1>10 DEF OInv

(* A step of the loop on one connection: it goes on ...                     *)
OneConn(f) ==
    /\ UNCHANGED <<client, rst, backlog, ticks>>
    /\ \A d \in Clients \ {sock[f]} : rcv'[d] = rcv[d] /\ snd'[d] = snd[d]
    /\ \A g \in Fds \ {f} : conn'[g] = conn[g] /\ sock'[g] = sock[g] /\ Stage(g)' = Stage(g)

LEMMA OtherLines ==
    ASSUME TInv, OInv, NEW f \in Fds, sock[f] # NoClient, OneConn(f), NEW g \in Fds \ {f},
           sock[g] # NoClient
    PROVE  GoodAt(g)'
<1>1. PICK d \in Clients : d = sock[g]
  BY Linked
<1>2. d # sock[f]
  BY <1>1 DEF OInv, Socks
<1>3. /\ client' = client /\ rcv'[d] = rcv[d] /\ snd'[d] = snd[d]
      /\ conn'[g] = conn[g] /\ sock'[g] = sock[g] /\ Stage(g)' = Stage(g)
  BY <1>1, <1>2 DEF OneConn
<1>4. GoodAt(g)
  BY DEF OInv, Lines
<1>5. Good(d, client[d], rcv[d], snd[d], conn[g], Stage(g))
  BY <1>1, <1>4, Zenon DEF GoodAt
<1>6. QED
  BY <1>1, <1>3, <1>5, Zenon DEF GoodAt

LEMMA LineFrame ==
    ASSUME TInv, OInv, NEW f \in Fds, sock[f] # NoClient, OneConn(f), sock'[f] = sock[f],
           GoodAt(f)', conn'[f].age <= ticks
    PROVE  Lines' /\ Socks' /\ Waiting' /\ Left'
<1>1. /\ UNCHANGED <<client, rst, backlog, ticks>>
      /\ \A d \in Clients \ {sock[f]} : rcv'[d] = rcv[d] /\ snd'[d] = snd[d]
      /\ \A g \in Fds : sock'[g] = sock[g]
      /\ \A g \in Fds : g # f => conn'[g] = conn[g]
  BY DEF OneConn
<1>2. Lines'
  <2>1. SUFFICES ASSUME NEW g \in Fds, sock'[g] # NoClient PROVE GoodAt(g)'
    BY DEF Lines
  <2>2. CASE g = f
    BY <2>1, <2>2
  <2>3. CASE g # f
    <3>1. sock'[g] = sock[g]
      BY <1>1, <2>3, Zenon
    <3>2. g \in Fds \ {f} /\ sock[g] # NoClient
      BY <2>1, <2>3, <3>1
    <3>3. QED
      BY <3>2, OtherLines
  <2>4. QED
    BY <2>2, <2>3
<1>3. Socks'
  <2>1. SUFFICES ASSUME NEW g \in Fds, sock'[g] # NoClient
                 PROVE  /\ sock'[g] \notin backlog' /\ sock'[g] \notin rst'
                        /\ conn'[g].age <= ticks'
                        /\ \A h \in Fds : sock'[h] = sock'[g] => h = g
    BY DEF Socks
  <2>2. sock'[g] = sock[g] /\ \A h \in Fds : sock'[h] = sock[h]
    BY <1>1, Zenon
  <2>3. /\ sock[g] \notin backlog /\ sock[g] \notin rst /\ conn[g].age <= ticks
        /\ \A h \in Fds : sock[h] = sock[g] => h = g
    BY <2>1, <2>2 DEF OInv, Socks
  <2>4. conn'[g].age <= ticks'
    <3>1. CASE g = f
      BY <1>1, <3>1
    <3>2. CASE g # f
      <4>1. conn'[g] = conn[g]
        BY <1>1, <3>2, Zenon
      <4>2. QED
        BY <1>1, <2>3, <4>1
    <3>3. QED
      BY <3>1, <3>2
  <2>5. QED
    BY <1>1, <2>1, <2>2, <2>3, <2>4
<1>4. Waiting'
  <2>1. SUFFICES ASSUME NEW d \in Clients PROVE WaitsIfNew(d)'
    BY DEF Waiting
  <2>2. WaitsIfNew(d)
    BY DEF OInv, Waiting
  <2>3. QED
    BY <1>1, <2>2 DEF WaitsIfNew, Waits
<1>5. Left'
  <2>1. SUFFICES ASSUME NEW d \in Clients PROVE LeftInOrder(d)'
    BY DEF Left
  <2>2. LeftInOrder(d)
    BY DEF OInv, Left
  <2>3. QED
    BY <1>1, <2>2 DEF LeftInOrder
<1>6. QED
  BY <1>2, <1>3, <1>4, <1>5

(* ... or ends, and its client is left with what was sent.                  *)
LEMMA LineEnds ==
    ASSUME TInv, OInv, NEW f \in Fds, sock[f] # NoClient, OneConn(f), sock'[f] = NoClient,
           Ordered(sock[f], client[sock[f]].got \o snd'[sock[f]])
    PROVE  Lines' /\ Socks' /\ Waiting' /\ Left'
<1>1. /\ UNCHANGED <<client, rst, backlog, ticks>>
      /\ \A d \in Clients \ {sock[f]} : rcv'[d] = rcv[d] /\ snd'[d] = snd[d]
      /\ \A g \in Fds : g # f => sock'[g] = sock[g] /\ conn'[g] = conn[g]
  BY DEF OneConn
<1>2. Lines'
  <2>1. SUFFICES ASSUME NEW g \in Fds, sock'[g] # NoClient PROVE GoodAt(g)'
    BY DEF Lines
  <2>2. CASE g = f
    BY <2>1, <2>2
  <2>3. CASE g # f
    <3>1. sock'[g] = sock[g]
      BY <1>1, <2>3, Zenon
    <3>2. g \in Fds \ {f} /\ sock[g] # NoClient
      BY <2>1, <2>3, <3>1
    <3>3. QED
      BY <3>2, OtherLines
  <2>4. QED
    BY <2>2, <2>3
<1>3. Socks'
  <2>1. SUFFICES ASSUME NEW g \in Fds, sock'[g] # NoClient
                 PROVE  /\ sock'[g] \notin backlog' /\ sock'[g] \notin rst'
                        /\ conn'[g].age <= ticks'
                        /\ \A h \in Fds : sock'[h] = sock'[g] => h = g
    BY DEF Socks
  <2>2. /\ g # f /\ sock'[g] = sock[g] /\ conn'[g] = conn[g]
        /\ \A h \in Fds : sock'[h] = sock[h] \/ sock'[h] = NoClient
    BY <1>1, <2>1, Zenon
  <2>3. /\ sock[g] \notin backlog /\ sock[g] \notin rst /\ conn[g].age <= ticks
        /\ \A h \in Fds : sock[h] = sock[g] => h = g
    BY <2>1, <2>2 DEF OInv, Socks
  <2>4. conn'[g].age <= ticks'
    BY <1>1, <2>2, <2>3
  <2>5. QED
    BY <1>1, <2>1, <2>2, <2>3, <2>4
<1>4. Waiting'
  <2>1. SUFFICES ASSUME NEW d \in Clients PROVE WaitsIfNew(d)'
    BY DEF Waiting
  <2>2. WaitsIfNew(d)
    BY DEF OInv, Waiting
  <2>3. CASE d = sock[f]
    <3>1. GoodAt(f) /\ d \notin backlog
      BY <2>3 DEF OInv, Lines, Socks
    <3>2. client[d].st # "idle"
      BY <2>3, <3>1, Zenon DEF GoodAt, Good
    <3>3. QED
      BY <1>1, <3>1, <3>2 DEF WaitsIfNew
  <2>4. CASE d # sock[f]
    <3>0. d # NoClient
      BY ClientsAssumption
    <3>1. \A g \in Fds : sock[g] # d => sock'[g] # d
      BY <1>1, <3>0, Zenon
    <3>2. QED
      BY <1>1, <2>2, <2>4, <3>1 DEF WaitsIfNew, Waits
  <2>5. QED
    BY <2>3, <2>4
<1>5. Left'
  <2>1. SUFFICES ASSUME NEW d \in Clients PROVE LeftInOrder(d)'
    BY DEF Left
  <2>2. LeftInOrder(d)
    BY DEF OInv, Left
  <2>3. CASE d = sock[f]
    BY <1>1, <2>3 DEF LeftInOrder
  <2>4. CASE d # sock[f]
    BY <1>1, <2>2, <2>4 DEF LeftInOrder
  <2>5. QED
    BY <2>3, <2>4
<1>6. QED
  BY <1>2, <1>3, <1>4, <1>5

(* A file is opened with its stream and closed with it.                     *)
Held(k) == IF k # NoConn /\ k.fileFd THEN 1 ELSE 0
LEMMA FilesFrame ==
    ASSUME NoFileLeak, NEW f \in Fds, \A g \in Fds \ {f} : conn'[g] = conn[g],
           files' = files + Held(conn'[f]) - Held(conn[f])
    PROVE  NoFileLeak'
<1>1. Streaming(Fds) = Holding(conn, Fds) /\ Streaming(Fds)' = Holding(conn', Fds)
  BY DEF Streaming, Holding
<1>2. Holding(conn', Fds \ {f}) = Holding(conn, Fds \ {f})
  BY DEF Holding
<1>3. /\ Cardinality(Holding(conn, Fds)) = Cardinality(Holding(conn, Fds \ {f})) + Held(conn[f])
      /\ Cardinality(Holding(conn', Fds)) = Cardinality(Holding(conn', Fds \ {f}))
                                            + Held(conn'[f])
  BY HoldingSplit DEF Held
<1>4. Cardinality(Holding(conn, Fds \ {f})) \in Nat
  BY HoldingFinite
<1>5. Held(conn[f]) \in {0, 1} /\ Held(conn'[f]) \in {0, 1}
  BY DEF Held
<1>6. files = Cardinality(Holding(conn, Fds))
  BY <1>1 DEF NoFileLeak
<1>7. files' = Cardinality(Holding(conn', Fds))
  BY <1>2, <1>3, <1>4, <1>5, <1>6
<1>8. QED
  BY <1>1, <1>7 DEF NoFileLeak

LEMMA QuietHoldsNone ==
    ASSUME NEW c, NEW p, NEW q, NEW s, NEW k, NEW g, Good(c, p, q, s, k, g), Quiet(s, k)
    PROVE  ~k.fileFd
<1>1. ASSUME k.fileFd PROVE FALSE
  <2>1. k.stream # <<>>
    BY <1>1, Zenon DEF Good, FileShape
  <2>2. Rest(k) = k.stream
    BY <1>1 DEF Rest
  <2>3. Rest(k) = <<>>
    BY Zenon DEF Quiet
  <2>4. QED
    BY <2>1, <2>2, <2>3, Zenon
<1>2. QED
  BY <1>1

-----------------------------------------------------------------------------
LEMMA AcceptOrder == ASSUME TInv, OInv, NEW c \in Clients, Accept(c) PROVE OInv'
<1>1. /\ UNCHANGED <<client, rcv, snd, rst, jobs, worker, pending, writes, ticks, loop, batch,
                     files>>
      /\ backlog' = backlog \ {c} /\ c \in backlog
  BY DEF Accept, poolVars, timeVars, loopVars
<1>2. PICK f \in Free : /\ sock' = [sock EXCEPT ![f] = c]
                        /\ conn' = [conn EXCEPT ![f] = Fresh]
  BY AcceptTakes
<1>3. f \in Fds /\ sock[f] = NoClient
  BY DEF Free
<1>4. /\ sock'[f] = c /\ conn'[f] = Fresh /\ c # NoClient
      /\ \A g \in Fds \ {f} : sock'[g] = sock[g] /\ conn'[g] = conn[g]
  BY <1>2, <1>3, ClientsAssumption DEF TInv, SocketsOK
<1>5. \A g : Stage(g)' = Stage(g)
  BY <1>1, StageSame
<1>6. Stage(f) = "none"
  BY <1>3 DEF OInv, Single
<1>7. Waits(c) /\ client[c].st # "idle"
  BY <1>1 DEF OInv, Waiting, WaitsIfNew
<1>8. PICK p, q : p = client[c] /\ q = rcv[c]
  OBVIOUS
<1>9. p \in ClientType /\ q \in Seq(Segment)
  BY <1>8 DEF TInv, PeersOK, ClientType
<1>10. /\ p.st # "idle" /\ p.st # "closed" /\ p.got = <<>> /\ snd[c] = <<>> /\ p.sent = Len(q)
       /\ Part(c, 0, q) /\ c \notin rst /\ \A g \in Fds : sock[g] # c
  BY <1>7, <1>8 DEF Waits
<1>11. /\ Fresh.rbuf = <<>> /\ Fresh.wbuf = <<>> /\ ~Fresh.fileFd /\ Fresh.age = 0
       /\ Fresh \in ConnType
  BY FreshTyped DEF Fresh
<1>12. Rest(Fresh) = <<>>
  BY <1>11, EmptyRest
<1>13. Whole(p, <<>>, Fresh) = <<>>
  <2>1. (<<>> \o <<>>) \o <<>> = <<>>
    OBVIOUS
  <2>2. QED
    BY <1>10, <1>12, <2>1, Zenon DEF Whole
<1>14. Count(<<>>) = 0 /\ Answers(c, <<>>, 0)
  <2>1. Len(<<>>) = 0 /\ 1 .. 0 = {} /\ 1 .. 0 - 1 = {}
    OBVIOUS
  <2>2. QED
    BY <2>1 DEF Count, Answers, Ordered
<1>15. Asks(c, p, q, <<>>, Fresh, 0, "none")
  <2>1. 0 * Segments = 0 /\ Len(q) \in Nat
    BY <1>9, SizesAssumption
  <2>2. <<>> \o q = q
    BY <1>9, ConcatEmptySeq
  <2>3. p.sent = 0 * Segments + Len(q)
    BY <1>10, <2>1
  <2>4. Part(c, 0 * Segments, q) /\ Fresh.rbuf \o q = q
    BY <1>10, <1>11, <2>1, <2>2, Zenon
  <2>5. Quiet(<<>>, Fresh)
    BY <1>12 DEF Quiet
  <2>6. "none" # "job" /\ "none" # "out"
    OBVIOUS
  <2>7. QED
    BY <1>10, <2>3, <2>4, <2>5, <2>6, Zenon DEF Asks
<1>16. Good(c, p, q, <<>>, Fresh, "none")
  BY <1>10, <1>11, <1>13, <1>14, <1>15, Zenon DEF Good, FileShape
<1>17. GoodAt(f)'
  <2>1. client' = client /\ rcv' = rcv /\ snd' = snd /\ Stage(f)' = "none"
    BY <1>1, <1>5, <1>6
  <2>2. QED
    BY <1>4, <1>8, <1>10, <1>16, <2>1, Zenon DEF GoodAt
<1>18. Lines'
  <2>0. SUFFICES ASSUME NEW g \in Fds, sock'[g] # NoClient, g # f PROVE GoodAt(g)'
    BY <1>17 DEF Lines
  <2>1. sock[g] # NoClient
    BY <1>4, <2>0
  <2>2. GoodAt(g)
    BY <2>1 DEF OInv, Lines
  <2>3. /\ sock'[g] = sock[g] /\ conn'[g] = conn[g] /\ Stage(g)' = Stage(g)
        /\ client' = client /\ rcv' = rcv /\ snd' = snd
    BY <1>1, <1>4, <1>5, <2>0
  <2>4. QED
    BY <2>2, <2>3, Zenon DEF GoodAt
<1>19. Socks'
  <2>1. ticks \in Nat
    BY DEF TInv, LoopOK
  <2>2. QED
    BY <1>1, <1>4, <1>10, <1>11, <2>1 DEF OInv, Socks
<1>20. Waiting'
  <2>1. SUFFICES ASSUME NEW d \in Clients PROVE WaitsIfNew(d)'
    BY DEF Waiting
  <2>2. WaitsIfNew(d)
    BY DEF OInv, Waiting
  <2>3. CASE d = c
    BY <1>1, <1>7, <2>3 DEF WaitsIfNew
  <2>4. CASE d # c
    <3>1. \A g \in Fds : sock[g] # d => sock'[g] # d
      BY <1>4, <2>4
    <3>2. QED
      BY <1>1, <2>2, <2>4, <3>1 DEF WaitsIfNew, Waits
  <2>5. QED
    BY <2>3, <2>4
<1>21. Left'
  <2>1. SUFFICES ASSUME NEW d \in Clients PROVE LeftInOrder(d)'
    BY DEF Left
  <2>2. LeftInOrder(d)
    BY DEF OInv, Left
  <2>3. (\A g \in Fds : sock'[g] # d) => \A g \in Fds : sock[g] # d
    BY <1>3, <1>4, ClientsAssumption
  <2>4. QED
    BY <1>1, <2>2, <2>3 DEF LeftInOrder
<1>22. Single'
  BY <1>1, <1>4, <1>6, SingleSame DEF OInv, Single
<1>23. Contents'
  <2>1. \A g \in Fds : Out(g) => g # f
    BY <1>3, OutStage DEF OInv
  <2>2. QED
    BY <1>1, <1>4, <2>1, ContentsSame DEF OInv
<1>24. Moments'
  BY <1>1, MomentsSame DEF OInv
<1>25. NoFileLeak'
  <2>1. conn[f] = NoConn
    BY <1>3 DEF TInv, SocketsOK, ConnOwnsSocket
  <2>2. Held(conn[f]) = 0 /\ Held(conn'[f]) = 0 /\ files \in Nat
    BY <1>4, <1>11, <2>1 DEF Held, TInv, FilesOK
  <2>3. files' = files + Held(conn'[f]) - Held(conn[f])
    BY <1>1, <2>2
  <2>4. QED
    BY <1>3, <1>4, <2>3, FilesFrame DEF OInv
<1>26. QED
  BY <1>18, <1>19, <1>20, <1>21, <1>22, <1>23, <1>24, <1>25 DEF OInv

-----------------------------------------------------------------------------
(* Reading: a peer that closed has nothing to come and nothing to get, and  *)
(* what is read was on its way.                                             *)
LEMMA ReadOrder ==
    ASSUME TInv, TInv', OInv, NEW f \in Fds, NEW ev \in SocketEvents, HandleRead(f, ev)
    PROVE  OInv'
<1>1. /\ UNCHANGED <<client, snd, rst, backlog, ticks, files>>
      /\ UNCHANGED <<jobs, worker, pending, writes>>
      /\ loop.pc = "events" /\ batch' \subseteq batch
  BY DEF HandleRead, Handle, poolVars, timeVars
<1>2. \A g : Stage(g)' = Stage(g)
  BY <1>1, StageSame
<1>3. Moments'
  BY <1>1, MomentsSame DEF OInv
<1>4. CASE sock[f] = NoClient
  <2>1. Erase({f}) /\ rcv' = rcv /\ loop' = loop
    BY <1>4 DEF HandleRead, EndOfStream
  <2>2. conn[f] = NoConn
    BY <1>4 DEF TInv, SocketsOK, ConnOwnsSocket
  <2>3. sock' = sock /\ conn' = conn
    BY <1>4, <2>1, <2>2 DEF Erase, CloseSock, TInv, SocketsOK
  <2>4. QED
    BY <1>1, <1>3, <2>1, <2>3, IdleFrame
<1>5. CASE sock[f] # NoClient
  <2>1. PICK c, p, q, s, k, h : /\ c = sock[f] /\ p = client[c] /\ q = rcv[c] /\ s = snd[c]
                                /\ k = conn[f] /\ h = Stage(f)
    OBVIOUS
  <2>2. c \in Clients /\ k # NoConn /\ Link(p, q, s, k) /\ h \in Stages
    BY <1>5, <2>1, Linked, StageTyped
  <2>3. Good(c, p, q, s, k, h)
    BY <1>5, <2>1, Zenon DEF OInv, Lines, GoodAt
  <2>4. c \notin rst
    BY <1>5, <2>1 DEF OInv, Socks
  <2>5. CASE p.st = "closed"
    <3>1. Erase({f}) /\ rcv' = rcv /\ loop' = loop
      BY <2>1, <2>5 DEF HandleRead, EndOfStream
    <3>2. /\ sock'[f] = NoClient /\ conn'[f] = NoConn
          /\ \A g \in Fds \ {f} : sock'[g] = sock[g] /\ conn'[g] = conn[g]
      BY <3>1 DEF Erase, CloseSock
    <3>3. h = "none" /\ Quiet(s, k)
      BY <2>3, <2>5 DEF Good, Asks
    <3>4. OneConn(f)
      BY <1>1, <1>2, <3>1, <3>2 DEF OneConn
    <3>5. Ordered(c, p.got \o s)
      <4>1. Ordered(c, Whole(p, s, k))
        BY <2>3, Zenon DEF Good, Answers
      <4>2. p.got \o s \in Seq(UnitType) /\ Rest(k) \in Seq(UnitType)
        BY <2>2, WholeTyped
      <4>3. Ordered(c, (p.got \o s) \o Rest(k))
        BY <4>1, Zenon DEF Whole
      <4>4. QED
        BY <4>2, <4>3, PrefixOrdered
    <3>6. Ordered(sock[f], client[sock[f]].got \o snd'[sock[f]])
      BY <1>1, <2>1, <3>5, Zenon
    <3>7. Lines' /\ Socks' /\ Waiting' /\ Left'
      BY <1>5, <3>2, <3>4, <3>6, LineEnds
    <3>8. \A g \in Fds : Stage(g) # "none" => sock'[g] = sock[g]
      BY <2>1, <3>2, <3>3
    <3>9. Single'
      BY <1>1, <3>1, <3>8, SingleSame DEF OInv, Single
    <3>10. \A g \in Fds : Out(g) => sock'[g] = sock[g]
      BY <3>8, OutStage DEF OInv
    <3>11. Contents'
      BY <1>1, <3>10, ContentsSame DEF OInv
    <3>12. NoFileLeak'
      <4>1. ~k.fileFd
        BY <2>3, <3>3, QuietHoldsNone
      <4>2. Held(conn[f]) = 0 /\ Held(conn'[f]) = 0 /\ files \in Nat
        BY <2>1, <3>2, <4>1 DEF Held, TInv, FilesOK
      <4>3. files' = files + Held(conn'[f]) - Held(conn[f])
        BY <1>1, <4>2
      <4>4. QED
        BY <3>2, <4>3, FilesFrame DEF OInv
    <3>13. QED
      BY <1>3, <3>7, <3>9, <3>11, <3>12 DEF OInv
  <2>6. CASE p.st # "closed" /\ q = <<>>
    <3>1. UNCHANGED <<rcv, conn, loop, sock>>
      BY <1>5, <2>1, <2>4, <2>6 DEF HandleRead, EndOfStream, sockVars
    <3>2. QED
      BY <1>1, <1>3, <3>1, IdleFrame
  <2>7. CASE p.st # "closed" /\ q # <<>>
    <3>1. /\ rcv' = [rcv EXCEPT ![c] = Drop(q, Len(q))]
          /\ conn' = [conn EXCEPT ![f] = [k EXCEPT !.rbuf = @ \o q, !.age = 0]]
          /\ loop' = LoopAt("check", f) /\ sock' = sock
      BY <1>5, <2>1, <2>4, <2>7 DEF HandleRead, EndOfStream, RequestData, sockVars
    <3>2. PICK kk : kk = [k EXCEPT !.rbuf = @ \o q, !.age = 0]
      OBVIOUS
    <3>3. k \in ConnType /\ q \in Seq(Segment) /\ k.rbuf \in Seq(Segment)
      BY <2>2 DEF Link, ConnType
    <3>4. Drop(q, Len(q)) = <<>>
      <4>1. Len(q) \in Nat
        BY <3>3
      <4>2. QED
        BY <3>3, <4>1 DEF Drop
    <3>5. /\ rcv'[c] = <<>> /\ conn'[f] = kk
          /\ \A d \in Clients \ {c} : rcv'[d] = rcv[d]
          /\ \A g \in Fds \ {f} : conn'[g] = conn[g]
      BY <2>2, <3>1, <3>2, <3>4 DEF TInv, PeersOK, SocketsOK
    <3>6. /\ kk.rbuf = k.rbuf \o q /\ kk.age = 0 /\ kk.wbuf = k.wbuf /\ kk.written = k.written
          /\ kk.fileFd = k.fileFd /\ kk.stream = k.stream /\ kk.isFileStream = k.isFileStream
      BY <3>2, <3>3 DEF ConnType
    <3>7. h = "none"
      BY <2>3, <2>7 DEF Good, Asks
    <3>8. Same(p, q, s, k, p, <<>>, s, kk, h)
      <4>1. Rest(kk) = Rest(k)
        BY <3>6 DEF Rest
      <4>2. FileShape(kk)
        BY <2>3, <3>6 DEF Good, FileShape
      <4>3. kk.rbuf \o <<>> = k.rbuf \o q
        <5>1. k.rbuf \o q \in Seq(Segment)
          BY <3>3
        <5>2. (k.rbuf \o q) \o <<>> = k.rbuf \o q
          BY <5>1, ConcatEmptySeq
        <5>3. QED
          BY <3>6, <5>2, Zenon
      <4>4. QED
        BY <3>7, <4>1, <4>2, <4>3 DEF Same, Whole
    <3>9. Link(p, <<>>, s, kk)
      <4>1. sock'[f] = c /\ sock'[f] # NoClient /\ client'[c] = p /\ snd'[c] = s
        BY <1>1, <1>5, <2>1, <3>1
      <4>2. Link(client'[sock'[f]], rcv'[sock'[f]], snd'[sock'[f]], conn'[f])
        BY <4>1, LinkedNext
      <4>3. QED
        BY <3>5, <4>1, <4>2, Zenon
    <3>10. Good(c, p, <<>>, s, kk, h)
      BY <2>2, <2>3, <3>8, <3>9, Moved
    <3>11. GoodAt(f)'
      BY <1>1, <1>2, <2>1, <3>1, <3>5, <3>10, Zenon DEF GoodAt
    <3>12. OneConn(f)
      BY <1>1, <1>2, <2>1, <3>1, <3>5 DEF OneConn
    <3>13. conn'[f].age <= ticks
      BY <3>5, <3>6 DEF TInv, LoopOK
    <3>14. Lines' /\ Socks' /\ Waiting' /\ Left'
      BY <1>5, <3>1, <3>11, <3>12, <3>13, LineFrame
    <3>15. \A g \in Fds : Stage(g) # "none" => ~(loop'.pc = "check" /\ loop'.fd = g)
      BY <2>1, <3>1, <3>7 DEF LoopAt
    <3>16. Single'
      BY <1>1, <3>1, <3>15, SingleSame DEF OInv
    <3>17. Contents'
      BY <1>1, <3>1, ContentsSame DEF OInv
    <3>18. NoFileLeak'
      <4>1. Held(conn'[f]) = Held(conn[f]) /\ Held(conn[f]) \in {0, 1} /\ files \in Nat
        <5>1. kk # NoConn
          BY <3>5, <3>1, <1>5, LinkedNext
        <5>2. QED
          BY <2>1, <2>2, <3>5, <3>6, <5>1 DEF Held, TInv, FilesOK
      <4>2. files' = files + Held(conn'[f]) - Held(conn[f])
        BY <1>1, <4>1
      <4>3. QED
        BY <3>5, <4>2, FilesFrame DEF OInv
    <3>19. QED
      BY <1>3, <3>14, <3>16, <3>17, <3>18 DEF OInv
  <2>8. QED
    BY <2>5, <2>6, <2>7
<1>6. QED
  BY <1>4, <1>5

(* The test that follows finds a whole request, or waits for the rest.      *)
LEMMA CheckOrder == ASSUME TInv, OInv, CheckRequest PROVE OInv'
<1>1. /\ UNCHANGED <<client, rcv, snd, rst, backlog, sock, conn, ticks, files>>
      /\ UNCHANGED <<worker, pending, writes>> /\ loop.pc = "check"
      /\ loop' = LoopAt("events", 0) /\ batch' = batch
  BY DEF CheckRequest, Done, kernelVars, sockVars, timeVars
<1>2. PICK f : f = loop.fd
  OBVIOUS
<1>3. Moments'
  BY <1>1, MomentsSame DEF OInv
<1>4. loop'.pc # "check"
  BY <1>1 DEF LoopAt
<1>5. CASE ~(conn[f] # NoConn /\ Complete(conn[f].rbuf))
  <2>1. jobs' = jobs
    BY <1>2, <1>5 DEF CheckRequest
  <2>2. QED
    BY <1>1, <1>3, <1>4, <2>1, IdleFrame
<1>6. CASE f \notin Fds
  <2>1. jobs' \in {jobs, [jobs EXCEPT ![f] = @ + 1]}
    BY <1>2 DEF CheckRequest
  <2>2. jobs' = jobs
    BY <1>6, <2>1 DEF TInv, PoolOK
  <2>3. QED
    BY <1>1, <1>3, <1>4, <2>2, IdleFrame
<1>7. CASE f \in Fds /\ conn[f] # NoConn /\ Complete(conn[f].rbuf)
  <2>1. jobs' = [jobs EXCEPT ![f] = @ + 1]
    BY <1>2, <1>7 DEF CheckRequest
  <2>2. sock[f] # NoClient
    BY <1>7 DEF TInv, SocketsOK, ConnOwnsSocket
  <2>3. Stage(f) = "none"
    BY <1>1, <1>2, <1>7 DEF OInv, Single
  <2>4. jobs[f] = 0 /\ ~Out(f)
    <3>1. ~(jobs[f] > 0) /\ ~Out(f)
      BY <2>3 DEF Stage
    <3>2. jobs[f] \in Nat
      BY <1>7 DEF TInv, PoolOK
    <3>3. QED
      BY <3>1, <3>2
  <2>5. jobs'[f] = 1 /\ \A g \in Fds : g # f => jobs'[g] = jobs[g]
    BY <1>7, <2>1, <2>4 DEF TInv, PoolOK
  <2>6. \A g : Out(g)' <=> Out(g)
    BY <1>1 DEF Out, Runs
  <2>7. Stage(f)' = "job"
    BY <2>5 DEF Stage
  <2>8. \A g \in Fds \ {f} : Stage(g)' = Stage(g)
    BY <2>5, <2>6 DEF Stage
  <2>9. PICK c, p, q, s, k : /\ c = sock[f] /\ p = client[c] /\ q = rcv[c] /\ s = snd[c]
                             /\ k = conn[f]
    OBVIOUS
  <2>10. Link(p, q, s, k)
    BY <1>7, <2>2, <2>9, Linked
  <2>11. Good(c, p, q, s, k, "none")
    <3>1. GoodAt(f)
      BY <1>7, <2>2 DEF OInv, Lines
    <3>2. QED
      BY <2>3, <2>9, <3>1, Zenon DEF GoodAt
  <2>12. Good(c, p, q, s, k, "job")
    BY <1>7, <2>9, <2>10, <2>11, Checked
  <2>13. GoodAt(f)'
    BY <1>1, <2>7, <2>9, <2>12, Zenon DEF GoodAt
  <2>14. OneConn(f)
    BY <1>1, <2>8 DEF OneConn
  <2>15. conn'[f].age <= ticks /\ sock'[f] = sock[f]
    BY <1>1, <1>7, <2>2 DEF OInv, Socks
  <2>16. Lines' /\ Socks' /\ Waiting' /\ Left'
    BY <1>7, <2>2, <2>13, <2>14, <2>15, LineFrame
  <2>17. Single'
    <3>1. \A g \in Fds : jobs'[g] <= 1 /\ (jobs'[g] > 0 => ~Out(g)')
      BY <2>4, <2>5, <2>6 DEF OInv, Single
    <3>2. \A g \in Fds : Stage(g)' # "none" =>
             sock'[g] # NoClient /\ ~(loop'.pc = "check" /\ loop'.fd = g)
      BY <1>1, <1>4, <2>2, <2>8 DEF OInv, Single
    <3>3. QED
      BY <1>1, <3>1, <3>2, Zenon DEF OInv, Single, Runs
  <2>18. Contents'
    BY <1>1, ContentsSame DEF OInv
  <2>19. NoFileLeak'
    BY <1>1 DEF OInv, NoFileLeak, Streaming
  <2>20. QED
    BY <1>3, <2>16, <2>17, <2>18, <2>19 DEF OInv
<1>8. QED
  BY <1>5, <1>6, <1>7

(* Writing: more of what a connection has still to send is in the socket.   *)
Sends(f, x) ==
    /\ UNCHANGED <<client, rcv, rst, backlog, ticks, sock, loop>>
    /\ UNCHANGED <<jobs, worker, pending, writes>> /\ batch' \subseteq batch
    /\ snd' = [snd EXCEPT ![sock[f]] = @ \o x]
    /\ \A g \in Fds \ {f} : conn'[g] = conn[g]
    /\ Rest(conn'[f]) \in Seq(UnitType) /\ x \o Rest(conn'[f]) = Rest(conn[f])
    /\ conn'[f].rbuf = conn[f].rbuf /\ FileShape(conn'[f]) /\ conn'[f].age = conn[f].age
    /\ files' = files + Held(conn'[f]) - Held(conn[f])

LEMMA SendsOrder ==
    ASSUME TInv, TInv', OInv, NEW f \in Fds, sock[f] # NoClient, NEW x \in Seq(UnitType),
           Sends(f, x)
    PROVE  OInv'
<1>1. /\ UNCHANGED <<client, rcv, rst, backlog, ticks, sock, loop>>
      /\ UNCHANGED <<jobs, worker, pending, writes>> /\ batch' \subseteq batch
      /\ \A g \in Fds \ {f} : conn'[g] = conn[g]
  BY DEF Sends
<1>2. PICK c, p, q, s, k, h : /\ c = sock[f] /\ p = client[c] /\ q = rcv[c] /\ s = snd[c]
                              /\ k = conn[f] /\ h = Stage(f)
  OBVIOUS
<1>3. PICK ss, kk : ss = s \o x /\ kk = conn'[f]
  OBVIOUS
<1>4. c \in Clients /\ Link(p, q, s, k)
  BY <1>2, Linked
<1>5. snd'[c] = ss /\ \A d \in Clients \ {c} : snd'[d] = snd[d]
  BY <1>2, <1>3, <1>4 DEF Sends, TInv, PeersOK
<1>6. Link(p, q, ss, kk)
  <2>1. sock'[f] = c /\ sock'[f] # NoClient /\ client'[c] = p /\ rcv'[c] = q
    BY <1>1, <1>2
  <2>2. Link(client'[sock'[f]], rcv'[sock'[f]], snd'[sock'[f]], conn'[f])
    BY <2>1, LinkedNext
  <2>3. QED
    BY <1>3, <1>5, <2>1, <2>2, Zenon
<1>7. Good(c, p, q, s, k, h)
  BY <1>2, Zenon DEF OInv, Lines, GoodAt
<1>8. Whole(p, ss, kk) = Whole(p, s, k)
  <2>1. Rest(kk) \in Seq(UnitType) /\ x \o Rest(kk) = Rest(k)
    BY <1>2, <1>3 DEF Sends
  <2>2. Whole(p, s \o x, kk) = Whole(p, s, k)
    BY <1>4, <2>1, OutAndLeft
  <2>3. QED
    BY <1>3, <2>2, Zenon
<1>9. Same(p, q, s, k, p, q, ss, kk, h)
  BY <1>2, <1>3, <1>8, Zenon DEF Same, Sends
<1>10. Good(c, p, q, ss, kk, h)
  BY <1>4, <1>6, <1>7, <1>9, Moved
<1>11. \A g : Stage(g)' = Stage(g)
  BY <1>1, StageSame
<1>12. GoodAt(f)'
  BY <1>1, <1>2, <1>3, <1>5, <1>10, <1>11, Zenon DEF GoodAt
<1>13. OneConn(f)
  BY <1>1, <1>2, <1>5, <1>11 DEF OneConn
<1>14. conn'[f].age <= ticks /\ sock'[f] = sock[f]
  BY <1>1 DEF OInv, Socks, Sends
<1>15. Lines' /\ Socks' /\ Waiting' /\ Left'
  BY <1>12, <1>13, <1>14, LineFrame
<1>16. Single'
  BY <1>1, SingleSame DEF OInv, Single
<1>17. Contents'
  BY <1>1, ContentsSame DEF OInv
<1>18. Moments'
  BY <1>1, MomentsSame DEF OInv
<1>19. NoFileLeak'
  BY <1>1, FilesFrame DEF OInv, Sends
<1>20. QED
  BY <1>15, <1>16, <1>17, <1>18, <1>19 DEF OInv

LEMMA LeastIn == ASSUME NEW a \in Nat, NEW b \in Nat PROVE Least(a, b) \in 0 .. b
  BY DEF Least

LEMMA StreamSends ==
    ASSUME TInv, OInv, NEW f \in Fds, sock[f] # NoClient, conn[f].isFileStream, conn[f].fileFd,
           SendFileChunked(f, conn[f], <<>>, files),
           UNCHANGED <<client, ticks, jobs, worker, pending, writes, loop>>,
           batch' \subseteq batch
    PROVE  \E x \in Seq(UnitType) : Sends(f, x)
<1>1. PICK c, s, k : c = sock[f] /\ s = snd[c] /\ k = conn[f]
  OBVIOUS
<1>2. c \in Clients /\ Link(client[c], rcv[c], s, k) /\ k \in ConnType /\ k # NoConn
  BY <1>1, Linked DEF Link
<1>3. c \notin rst
  BY <1>1 DEF OInv, Socks
<1>4. FileShape(k)
  BY <1>1, Zenon DEF OInv, Lines, GoodAt, Good
<1>5. PICK n : n = Least(Room(c) - Len(<<>>), Len(k.stream))
  OBVIOUS
<1>6. k.stream \in Seq(UnitType) /\ n \in 0 .. Len(k.stream)
  <2>1. k.stream \in Seq(UnitType)
    BY <1>2 DEF ConnType
  <2>2. Room(c) - Len(<<>>) \in Nat /\ Len(k.stream) \in Nat
    BY <1>2, <2>1, RoomTyped DEF TInv
  <2>3. QED
    BY <1>5, <2>1, <2>2, LeastIn
<1>7. PICK x : x = SubSeq(k.stream, 1, n)
  OBVIOUS
<1>8. /\ Deliver(c, <<>> \o x) /\ sock' = sock
      /\ IF Drop(k.stream, n) = <<>>
         THEN conn' = [conn EXCEPT ![f] = CloseFile(k)] /\ files' = files - 1
         ELSE conn' = [conn EXCEPT ![f] = [k EXCEPT !.stream = Drop(k.stream, n)]]
              /\ files' = files
  BY <1>1, <1>3, <1>5, <1>7 DEF SendFileChunked
<1>9. /\ x \in Seq(UnitType) /\ Rest(StreamedTo(k, n)) \in Seq(UnitType)
      /\ x \o Rest(StreamedTo(k, n)) = k.stream
      /\ StreamedTo(k, n).rbuf = k.rbuf /\ FileShape(StreamedTo(k, n))
  BY <1>1, <1>2, <1>4, <1>6, <1>7, Streamed DEF FileShape
<1>10. Rest(k) = k.stream
  BY <1>1 DEF Rest
<1>11. conn' = [conn EXCEPT ![f] = StreamedTo(k, n)]
  BY <1>8 DEF StreamedTo
<1>12. conn'[f] = StreamedTo(k, n) /\ \A g \in Fds \ {f} : conn'[g] = conn[g]
  BY <1>11 DEF TInv, SocketsOK
<1>13. snd' = [snd EXCEPT ![c] = @ \o x] /\ UNCHANGED <<rcv, rst, backlog>>
  <2>1. <<>> \o x = x
    BY <1>9
  <2>2. QED
    BY <1>8, <2>1 DEF Deliver
<1>14. conn'[f].age = k.age
  BY <1>2, <1>12 DEF StreamedTo, CloseFile, ConnType
<1>15. files' = files + Held(conn'[f]) - Held(conn[f])
  <2>1. Held(conn[f]) = 1 /\ files \in Nat
    BY <1>1, <1>2 DEF Held, TInv, FilesOK
  <2>2. CASE Drop(k.stream, n) = <<>>
    <3>1. ~conn'[f].fileFd
      BY <1>2, <1>12, <2>2, CloseFileTyped DEF StreamedTo
    <3>2. QED
      BY <1>8, <2>1, <2>2, <3>1 DEF Held
  <2>3. CASE Drop(k.stream, n) # <<>>
    <3>1. Drop(k.stream, n) \in Seq(UnitType)
      BY <1>6, DropTyped
    <3>2. conn'[f] = [k EXCEPT !.stream = Drop(k.stream, n)]
      BY <1>12, <2>3 DEF StreamedTo
    <3>3. conn'[f].fileFd /\ conn'[f] # NoConn
      <4>1. [k EXCEPT !.stream = Drop(k.stream, n)] \in ConnType
        BY <1>2, <3>1 DEF ConnType
      <4>2. [k EXCEPT !.stream = Drop(k.stream, n)].fileFd = k.fileFd
        BY <1>2 DEF ConnType
      <4>3. QED
        BY <1>1, <3>2, <4>1, <4>2, NoConnAssumption, Zenon
    <3>4. QED
      BY <1>8, <2>1, <2>3, <3>3 DEF Held
  <2>4. QED
    BY <2>2, <2>3
<1>16. Sends(f, x)
  BY <1>1, <1>8, <1>9, <1>10, <1>12, <1>13, <1>14, <1>15 DEF Sends
<1>17. QED
  BY <1>9, <1>16

LEMMA FlushSends ==
    ASSUME TInv, OInv, NEW f \in Fds, sock[f] # NoClient,
           ~(conn[f].isFileStream /\ conn[f].fileFd), FlushBuffer(f),
           UNCHANGED <<client, ticks, jobs, worker, pending, writes, loop>>,
           batch' \subseteq batch
    PROVE  \E x \in Seq(UnitType) : Sends(f, x)
<1>1. PICK c, s, k : c = sock[f] /\ s = snd[c] /\ k = conn[f]
  OBVIOUS
<1>2. /\ c \in Clients /\ k \in ConnType /\ k # NoConn /\ k.written <= Len(k.wbuf)
      /\ Link(client[c], rcv[c], s, k)
  BY <1>1, Linked DEF Link
<1>3. c \notin rst
  BY <1>1 DEF OInv, Socks
<1>4. ~k.fileFd
  <2>1. FileShape(k)
    BY <1>1, Zenon DEF OInv, Lines, GoodAt, Good
  <2>2. QED
    BY <1>1, <2>1 DEF FileShape
<1>5. PICK n : n = Least(Room(c), Len(k.wbuf) - k.written)
  OBVIOUS
<1>6. n \in 0 .. Len(k.wbuf) - k.written
  <2>1. k.wbuf \in Seq(UnitType) /\ k.written \in Nat
    BY <1>2 DEF ConnType
  <2>2. Room(c) \in Nat /\ Len(k.wbuf) - k.written \in Nat
    BY <1>2, <2>1, RoomTyped DEF TInv
  <2>3. QED
    BY <1>5, <2>2, LeastIn
<1>7. PICK x : x = SubSeq(k.wbuf, k.written + 1, k.written + n)
  OBVIOUS
<1>8. /\ Deliver(c, x) /\ sock' = sock /\ files' = files
      /\ IF k.written + n = Len(k.wbuf)
         THEN conn' = [conn EXCEPT ![f] = [k EXCEPT !.wbuf = <<>>, !.written = 0]]
         ELSE conn' = [conn EXCEPT ![f] = [k EXCEPT !.written = @ + n]]
  BY <1>1, <1>3, <1>5, <1>7 DEF FlushBuffer
<1>9. /\ x \in Seq(UnitType) /\ Rest(FlushedTo(k, n)) \in Seq(UnitType)
      /\ x \o Rest(FlushedTo(k, n)) = Rest(k)
      /\ FlushedTo(k, n).rbuf = k.rbuf /\ ~FlushedTo(k, n).fileFd
  BY <1>2, <1>4, <1>6, <1>7, Flushed
<1>10. conn' = [conn EXCEPT ![f] = FlushedTo(k, n)]
  BY <1>8 DEF FlushedTo
<1>11. conn'[f] = FlushedTo(k, n) /\ \A g \in Fds \ {f} : conn'[g] = conn[g]
  BY <1>10 DEF TInv, SocketsOK
<1>12. snd' = [snd EXCEPT ![c] = @ \o x] /\ UNCHANGED <<rcv, rst, backlog>>
  BY <1>8 DEF Deliver
<1>13. conn'[f].age = k.age
  BY <1>2, <1>11 DEF FlushedTo, ConnType
<1>14. files' = files + Held(conn'[f]) - Held(conn[f])
  <2>1. Held(conn[f]) = 0 /\ Held(conn'[f]) = 0 /\ files \in Nat
    BY <1>1, <1>4, <1>9, <1>11 DEF Held, TInv, FilesOK
  <2>2. QED
    BY <1>8, <2>1
<1>15. Sends(f, x)
  BY <1>1, <1>8, <1>9, <1>11, <1>12, <1>13, <1>14 DEF Sends, FileShape
<1>16. QED
  BY <1>9, <1>15

LEMMA WriteOrder ==
    ASSUME TInv, TInv', OInv, NEW f \in Fds, NEW ev \in SocketEvents, HandleWrite(f, ev)
    PROVE  OInv'
<1>1. /\ UNCHANGED <<client, ticks, jobs, worker, pending, writes, loop>>
      /\ loop.pc = "events" /\ batch' \subseteq batch
  BY DEF HandleWrite, Handle, poolVars, timeVars
<1>2. CASE conn[f] = NoConn
  <2>1. UNCHANGED <<rcv, snd, rst, backlog, sock, conn, files>>
    BY <1>2 DEF HandleWrite, kernelVars, sockVars
  <2>2. Moments'
    BY <1>1, MomentsSame DEF OInv
  <2>3. QED
    BY <1>1, <2>1, <2>2, IdleFrame
<1>3. CASE conn[f] # NoConn /\ conn[f].isFileStream /\ conn[f].fileFd
  <2>1. SendFileChunked(f, conn[f], <<>>, files)
    BY <1>3 DEF HandleWrite
  <2>2. sock[f] # NoClient
    BY <1>3 DEF TInv, SocketsOK, ConnOwnsSocket
  <2>3. QED
    BY <1>1, <1>3, <2>1, <2>2, StreamSends, SendsOrder
<1>4. CASE conn[f] # NoConn /\ ~(conn[f].isFileStream /\ conn[f].fileFd)
  <2>1. FlushBuffer(f)
    BY <1>4 DEF HandleWrite
  <2>2. sock[f] # NoClient
    BY <1>4 DEF TInv, SocketsOK, ConnOwnsSocket
  <2>3. QED
    BY <1>1, <1>4, <2>1, <2>2, FlushSends, SendsOrder
<1>5. QED
  BY <1>2, <1>3, <1>4

-----------------------------------------------------------------------------
(* The pool: what a worker takes is the request that was found, ...          *)
LEMMA TakeJobOrder ==
    ASSUME TInv, TInv', OInv, NEW w \in Workers, NEW f \in Fds, TakeJob(w, f)
    PROVE  OInv'
<1>1. /\ UNCHANGED <<client, rcv, snd, rst, backlog, sock, ticks, files>>
      /\ UNCHANGED <<pending, writes, loop, batch>>
      /\ worker[w].pc = "idle" /\ jobs[f] > 0 /\ jobs' = [jobs EXCEPT ![f] = @ - 1]
  BY DEF TakeJob, kernelVars, sockVars, timeVars, loopVars
<1>2. jobs[f] = 1 /\ ~Out(f) /\ Stage(f) = "job"
  BY <1>1 DEF OInv, Single, Stage, TInv, PoolOK
<1>3. sock[f] # NoClient
  BY <1>2 DEF OInv, Single
<1>4. PICK c, p, q, s, k : /\ c = sock[f] /\ p = client[c] /\ q = rcv[c] /\ s = snd[c]
                           /\ k = conn[f]
  OBVIOUS
<1>5. PICK kk : kk = [k EXCEPT !.rbuf = <<>>]
  OBVIOUS
<1>6. k # NoConn /\ Link(p, q, s, k) /\ k \in ConnType
  BY <1>3, <1>4, Linked DEF Link
<1>7. Good(c, p, q, s, k, "job")
  BY <1>2, <1>3, <1>4, Zenon DEF OInv, Lines, GoodAt
<1>8. /\ worker' = [worker EXCEPT ![w] = [pc |-> "run", fd |-> f, data |-> k.rbuf]]
      /\ conn' = [conn EXCEPT ![f] = kk]
  BY <1>4, <1>5, <1>6 DEF TakeJob
<1>9. /\ worker'[w].pc = "run" /\ worker'[w].fd = f /\ worker'[w].data = k.rbuf
      /\ \A x \in Workers : x # w => worker'[x] = worker[x]
  BY <1>8 DEF TInv, PoolOK
<1>10. conn'[f] = kk /\ \A g \in Fds \ {f} : conn'[g] = conn[g]
  BY <1>8 DEF TInv, SocketsOK
<1>11. jobs'[f] = 0 /\ \A g \in Fds : g # f => jobs'[g] = jobs[g]
  BY <1>1, <1>2 DEF TInv, PoolOK
<1>12. Out(f)'
  BY <1>9 DEF Out, Runs
<1>13. \A g : g # f => (Out(g)' <=> Out(g))
  <2>1. SUFFICES ASSUME NEW g, g # f PROVE Out(g)' <=> Out(g)
    OBVIOUS
  <2>2. \A x \in Workers : Runs(x, g)' <=> Runs(x, g)
    BY <1>1, <1>9, <2>1 DEF Runs
  <2>3. QED
    BY <1>1, <2>2 DEF Out
<1>14. Stage(f)' = "out" /\ \A g \in Fds \ {f} : Stage(g)' = Stage(g)
  BY <1>11, <1>12, <1>13 DEF Stage
<1>15. Good(c, p, q, s, kk, "out") /\ Part(c, p.sent - Segments, k.rbuf) /\ Len(k.rbuf) = Segments
  BY <1>5, <1>6, <1>7, Taken
<1>16. GoodAt(f)'
  BY <1>1, <1>4, <1>10, <1>14, <1>15, Zenon DEF GoodAt
<1>17. OneConn(f)
  BY <1>1, <1>10, <1>14 DEF OneConn
<1>18. conn'[f].age <= ticks /\ sock'[f] = sock[f]
  <2>1. kk.age = k.age
    BY <1>5, <1>6 DEF ConnType
  <2>2. QED
    BY <1>1, <1>3, <1>4, <1>10, <2>1 DEF OInv, Socks
<1>19. Lines' /\ Socks' /\ Waiting' /\ Left'
  BY <1>3, <1>16, <1>17, <1>18, LineFrame
<1>20. Single'
  <2>1. \A g \in Fds : jobs'[g] <= 1 /\ (jobs'[g] > 0 => ~Out(g)')
    BY <1>11, <1>13 DEF OInv, Single
  <2>2. \A x \in Workers : worker[x].pc = "run" => worker[x].fd # f
    BY <1>2 DEF Out, Runs
  <2>3. /\ \A i \in 1 .. Len(pending) : pending[i].fd # f
        /\ \A i \in 1 .. Len(writes) : writes[i].fd # f
    BY <1>2 DEF Out
  <2>4. ASSUME NEW x \in Workers, NEW y \in Workers, worker'[x].pc = "run", worker'[y].pc = "run",
               worker'[y].fd = worker'[x].fd
        PROVE  x = y
    BY <1>9, <2>2, <2>4 DEF OInv, Single, Runs
  <2>5. ASSUME NEW x \in Workers, worker'[x].pc = "run"
        PROVE  /\ \A i \in 1 .. Len(pending) : pending[i].fd # worker'[x].fd
               /\ \A i \in 1 .. Len(writes) : writes[i].fd # worker'[x].fd
    BY <1>9, <2>3, <2>5 DEF OInv, Single
  <2>6. \A g \in Fds : Stage(g)' # "none" =>
           sock'[g] # NoClient /\ ~(loop'.pc = "check" /\ loop'.fd = g)
    BY <1>1, <1>2, <1>14 DEF OInv, Single
  <2>7. /\ \A i, j \in 1 .. Len(pending) : pending[i].fd = pending[j].fd => i = j
        /\ \A i, j \in 1 .. Len(writes) : writes[i].fd = writes[j].fd => i = j
        /\ \A i \in 1 .. Len(pending), j \in 1 .. Len(writes) : pending[i].fd # writes[j].fd
    BY DEF OInv, Single
  <2>8. QED
    BY <1>1, <2>1, <2>4, <2>5, <2>6, <2>7 DEF Single, Runs
<1>21. Contents'
  <2>1. ASSUME NEW x \in Workers, worker'[x].pc = "run"
        PROVE  LET d == sock[worker'[x].fd]
               IN  /\ Part(d, client[d].sent - Segments, worker'[x].data)
                   /\ Len(worker'[x].data) = Segments
    <3>1. CASE x = w
      BY <1>4, <1>9, <1>15, <3>1
    <3>2. CASE x # w
      BY <1>9, <2>1, <3>2 DEF OInv, Contents
    <3>3. QED
      BY <3>1, <3>2
  <2>2. QED
    BY <1>1, <2>1 DEF OInv, Contents, Due
<1>22. Moments'
  BY <1>1, MomentsSame DEF OInv
<1>23. NoFileLeak'
  <2>1. Held(conn'[f]) = Held(conn[f]) /\ Held(conn[f]) \in {0, 1} /\ files \in Nat
    <3>1. kk.fileFd = k.fileFd
      BY <1>5, <1>6 DEF ConnType
    <3>2. conn'[f] # NoConn
      BY <1>1, <1>3, LinkedNext
    <3>3. QED
      BY <1>4, <1>6, <1>10, <3>1, <3>2 DEF Held, TInv, FilesOK
  <2>2. files' = files + Held(conn'[f]) - Held(conn[f])
    BY <1>1, <2>1
  <2>3. QED
    BY <1>10, <2>2, FilesFrame DEF OInv
<1>24. QED
  BY <1>19, <1>20, <1>21, <1>22, <1>23 DEF OInv

(* ... the response it queues is to the request that is due, ...             *)
LEMMA ResponseDue ==
    ASSUME TInv, OInv, NEW w \in Workers, worker[w].pc = "run"
    PROVE  /\ Parses(worker[w].data)
           /\ \A kind \in Kinds : Due(Response(worker[w].fd, worker[w].data, kind))
<1>1. PICK f, b : f = worker[w].fd /\ b = worker[w].data
  OBVIOUS
<1>2. f \in Fds /\ b \in Seq(Segment)
  BY <1>1 DEF TInv, PoolOK, WorkerType
<1>3. Out(f)
  BY <1>1 DEF Out, Runs
<1>4. Stage(f) = "out" /\ sock[f] # NoClient
  BY <1>2, <1>3, OutStage DEF OInv
<1>5. PICK c, p, q, s, k : /\ c = sock[f] /\ p = client[c] /\ q = rcv[c] /\ s = snd[c]
                           /\ k = conn[f]
  OBVIOUS
<1>6. Link(p, q, s, k)
  BY <1>2, <1>4, <1>5, Linked
<1>7. Good(c, p, q, s, k, "out")
  BY <1>2, <1>4, <1>5, Zenon DEF OInv, Lines, GoodAt
<1>8. PICK n : n = Count(Whole(p, s, k))
  OBVIOUS
<1>9. n \in Nat
  BY <1>6, <1>8, WholeTyped, CountTyped
<1>10. p.sent = (n + 1) * Segments
  BY <1>7, <1>8 DEF Good, Asks
<1>11. Segments \in Nat \ {0} /\ n * Segments \in Nat
  BY <1>9, SizesAssumption
<1>12. (n + 1) * Segments = n * Segments + Segments
  BY <1>9, <1>11
<1>13. Part(c, p.sent - Segments, b) /\ Len(b) = Segments
  BY <1>1, <1>5 DEF OInv, Contents
<1>14. b[1] = [c |-> c, s |-> n * Segments]
  <2>1. 1 \in 1 .. Len(b) /\ p.sent - Segments + 1 - 1 = n * Segments
    BY <1>10, <1>11, <1>12, <1>13
  <2>2. b[1] = [c |-> c, s |-> p.sent - Segments + 1 - 1]
    BY <1>13, <2>1 DEF Part
  <2>3. QED
    BY <2>1, <2>2
<1>15. (n * Segments) % Segments = 0 /\ (n * Segments) \div Segments = n
  <2>1. 0 \in 0 .. Segments - 1 /\ n * Segments + 0 = n * Segments
    BY <1>11
  <2>2. (n * Segments + 0) % Segments = 0 /\ (n * Segments + 0) \div Segments = n
    BY <1>9, <1>11, <2>1, Division
  <2>3. QED
    BY <2>1, <2>2
<1>16. Parses(b)
  BY <1>11, <1>13, <1>14, <1>15 DEF Parses
<1>17. ASSUME NEW kind \in Kinds PROVE Due(Response(f, b, kind))
  <2>1. kind # "bad"
    BY KindsAssumption
  <2>2. Response(f, b, kind) = [fd |-> f, kind |-> kind, c |-> c, n |-> n + 1]
    BY <1>14, <1>15, <2>1 DEF Response
  <2>3. PICK r : r = [fd |-> f, kind |-> kind, c |-> c, n |-> n + 1]
    OBVIOUS
  <2>4. r.fd = f /\ r.kind = kind /\ r.c = c /\ r.n = n + 1
    BY <2>3
  <2>5. r.n * Segments = client[c].sent
    BY <1>5, <1>10, <2>4
  <2>6. Due(r)
    BY <1>5, <2>4, <2>5 DEF Due
  <2>7. QED
    BY <2>2, <2>3, <2>6
<1>18. QED
  BY <1>1, <1>16, <1>17

LEMMA RespondOrder == ASSUME TInv, OInv, NEW w \in Workers, Respond(w) PROVE OInv'
<1>1. /\ UNCHANGED <<client, rcv, snd, rst, backlog, sock, conn, ticks, files>>
      /\ UNCHANGED <<jobs, writes, loop, batch>>
      /\ worker[w].pc = "run" /\ worker' = [worker EXCEPT ![w] = [Idle EXCEPT !.pc = "signal"]]
  BY DEF Respond, kernelVars, sockVars, timeVars, loopVars
<1>2. PICK kind \in Kinds :
         pending' = Append(pending, Response(worker[w].fd, worker[w].data, kind))
  BY <1>1, ResponseDue DEF Respond
<1>3. PICK f, r : f = worker[w].fd /\ r = Response(worker[w].fd, worker[w].data, kind)
  OBVIOUS
<1>4. Due(r) /\ r.fd = f
  BY <1>1, <1>3, ResponseDue DEF Response
<1>5. pending \in Seq(ResponseType) /\ f \in Fds
  BY <1>1, <1>3 DEF TInv, PoolOK
<1>6. PICK m : m = Len(pending)
  OBVIOUS
<1>7. /\ m \in Nat /\ Len(pending') = m + 1 /\ pending'[m + 1] = r
      /\ \A i \in 1 .. m : pending'[i] = pending[i]
  BY <1>2, <1>3, <1>5, <1>6
<1>8. /\ worker'[w].pc = "signal" /\ \A x \in Workers : x # w => worker'[x] = worker[x]
  BY <1>1 DEF TInv, PoolOK, Idle
<1>9. Out(f) /\ Out(f)'
  <2>1. m + 1 \in 1 .. Len(pending') /\ pending'[m + 1].fd = f
    BY <1>4, <1>7
  <2>2. QED
    BY <1>1, <1>3, <2>1 DEF Out, Runs
<1>10. \A g : g # f => (Out(g)' <=> Out(g))
  <2>1. SUFFICES ASSUME NEW g, g # f PROVE Out(g)' <=> Out(g)
    OBVIOUS
  <2>2. \A x \in Workers : Runs(x, g)' <=> Runs(x, g)
    BY <1>3, <1>8, <2>1 DEF Runs
  <2>3. (\E i \in 1 .. Len(pending') : pending'[i].fd = g) <=> \E i \in 1 .. m : pending[i].fd = g
    BY <1>4, <1>7, <2>1
  <2>4. QED
    BY <1>1, <1>6, <2>2, <2>3 DEF Out
<1>11. \A g : Stage(g)' = Stage(g)
  BY <1>1, <1>9, <1>10 DEF Stage
<1>12. Still
  BY <1>1, <1>11 DEF Still
<1>13. Single'
  <2>1. \A g \in Fds : jobs'[g] <= 1 /\ (jobs'[g] > 0 => ~Out(g)')
    BY <1>1, <1>9, <1>10 DEF OInv, Single
  <2>2. /\ \A i \in 1 .. m : pending[i].fd # f
        /\ \A i \in 1 .. Len(writes) : writes[i].fd # f
        /\ \A x \in Workers : worker[x].pc = "run" /\ x # w => worker[x].fd # f
    BY <1>1, <1>3, <1>6 DEF OInv, Single, Runs
  <2>3. ASSUME NEW x \in Workers, NEW y \in Workers, worker'[x].pc = "run", worker'[y].pc = "run",
               worker'[y].fd = worker'[x].fd
        PROVE  x = y
    BY <1>8, <2>3 DEF OInv, Single, Runs
  <2>4. \A i, j \in 1 .. Len(pending') : pending'[i].fd = pending'[j].fd => i = j
    BY <1>4, <1>6, <1>7, <2>2 DEF OInv, Single
  <2>5. \A i \in 1 .. Len(pending'), j \in 1 .. Len(writes) : pending'[i].fd # writes[j].fd
    BY <1>4, <1>6, <1>7, <2>2 DEF OInv, Single
  <2>6. ASSUME NEW x \in Workers, worker'[x].pc = "run"
        PROVE  /\ \A i \in 1 .. Len(pending') : pending'[i].fd # worker'[x].fd
               /\ \A i \in 1 .. Len(writes) : writes[i].fd # worker'[x].fd
    <3>1. x # w /\ worker'[x] = worker[x]
      BY <1>8, <2>6
    <3>2. /\ \A i \in 1 .. m : pending[i].fd # worker[x].fd
          /\ \A i \in 1 .. Len(writes) : writes[i].fd # worker[x].fd
      BY <1>6, <2>6, <3>1 DEF OInv, Single
    <3>3. QED
      BY <1>4, <1>7, <2>2, <2>6, <3>1, <3>2
  <2>7. \A i, j \in 1 .. Len(writes) : writes[i].fd = writes[j].fd => i = j
    BY DEF OInv, Single
  <2>8. \A g \in Fds : Stage(g)' # "none" =>
           sock'[g] # NoClient /\ ~(loop'.pc = "check" /\ loop'.fd = g)
    BY <1>1, <1>11 DEF OInv, Single
  <2>9. QED
    BY <1>1, <2>1, <2>3, <2>4, <2>5, <2>6, <2>7, <2>8 DEF Single, Runs
<1>14. Contents'
  <2>1. \A i \in 1 .. Len(pending') : Due(pending'[i])
    BY <1>4, <1>6, <1>7 DEF OInv, Contents
  <2>2. \A e : Due(e)' <=> Due(e)
    BY <1>1 DEF Due
  <2>3. ASSUME NEW x \in Workers, worker'[x].pc = "run"
        PROVE  LET d == sock[worker'[x].fd]
               IN  /\ Part(d, client[d].sent - Segments, worker'[x].data)
                   /\ Len(worker'[x].data) = Segments
    BY <1>8, <2>3 DEF OInv, Contents
  <2>4. \A i \in 1 .. Len(writes) : Due(writes[i])
    BY DEF OInv, Contents
  <2>5. QED
    BY <1>1, <2>1, <2>3, <2>4 DEF Contents, Due
<1>15. Moments'
  BY <1>1, MomentsSame DEF OInv
<1>16. QED
  BY <1>12, <1>13, <1>14, <1>15, StillFrame

LEMMA SignalOrder == ASSUME TInv, OInv, NEW w \in Workers, Signal(w) PROVE OInv'
<1>1. /\ UNCHANGED <<client, rcv, snd, rst, backlog, sock, conn, ticks, files>>
      /\ UNCHANGED <<jobs, pending, writes, loop, batch>>
      /\ worker[w].pc = "signal" /\ worker' = [worker EXCEPT ![w] = Idle]
  BY DEF Signal, kernelVars, sockVars, timeVars, loopVars
<1>2. /\ worker'[w].pc = "idle" /\ \A x \in Workers : x # w => worker'[x] = worker[x]
  BY <1>1 DEF TInv, PoolOK, Idle
<1>3. \A x \in Workers : \A g : Runs(x, g)' <=> Runs(x, g)
  BY <1>1, <1>2 DEF Runs
<1>4. \A g : Out(g)' <=> Out(g)
  BY <1>1, <1>3 DEF Out
<1>5. \A g : Stage(g)' = Stage(g)
  BY <1>1, <1>4 DEF Stage
<1>6. Still
  BY <1>1, <1>5 DEF Still
<1>7. \A x \in Workers : worker'[x].pc = "run" => worker[x].pc = "run" /\ worker'[x] = worker[x]
  BY <1>1, <1>2
<1>8. Single'
  <2>1. \A g \in Fds : jobs'[g] <= 1 /\ (jobs'[g] > 0 => ~Out(g)')
    BY <1>1, <1>4 DEF OInv, Single
  <2>2. ASSUME NEW x \in Workers, NEW y \in Workers, worker'[x].pc = "run", worker'[y].pc = "run",
               worker'[y].fd = worker'[x].fd
        PROVE  x = y
    BY <1>7, <2>2 DEF OInv, Single, Runs
  <2>3. ASSUME NEW x \in Workers, worker'[x].pc = "run"
        PROVE  /\ \A i \in 1 .. Len(pending) : pending[i].fd # worker'[x].fd
               /\ \A i \in 1 .. Len(writes) : writes[i].fd # worker'[x].fd
    BY <1>7, <2>3 DEF OInv, Single
  <2>4. /\ \A i, j \in 1 .. Len(pending) : pending[i].fd = pending[j].fd => i = j
        /\ \A i, j \in 1 .. Len(writes) : writes[i].fd = writes[j].fd => i = j
        /\ \A i \in 1 .. Len(pending), j \in 1 .. Len(writes) : pending[i].fd # writes[j].fd
    BY DEF OInv, Single
  <2>5. \A g \in Fds : Stage(g)' # "none" =>
           sock'[g] # NoClient /\ ~(loop'.pc = "check" /\ loop'.fd = g)
    BY <1>1, <1>5 DEF OInv, Single
  <2>6. QED
    BY <1>1, <2>1, <2>2, <2>3, <2>4, <2>5 DEF Single, Runs
<1>9. Contents'
  BY <1>1, <1>7 DEF OInv, Contents, Due
<1>10. Moments'
  BY <1>1, MomentsSame DEF OInv
<1>11. QED
  BY <1>6, <1>8, <1>9, <1>10, StillFrame

(* ... and the loop takes all of them at once.                               *)
LEMMA TakePendingOrder == ASSUME TInv, OInv, TakePending PROVE OInv'
<1>1. /\ UNCHANGED <<client, rcv, snd, rst, backlog, sock, conn, ticks, files>>
      /\ UNCHANGED <<jobs, worker, batch>> /\ loop.pc = "drained"
      /\ writes' = pending /\ pending' = <<>> /\ loop' = LoopAt("deliver", 0)
  BY DEF TakePending, kernelVars, sockVars, timeVars, poolVars
<1>2. writes = <<>>
  BY <1>1 DEF OInv, Moments
<1>3. Len(writes) = 0 /\ Len(pending') = 0
  BY <1>1, <1>2
<1>4. \A g : Out(g)' <=> Out(g)
  BY <1>1, <1>3 DEF Out, Runs
<1>5. \A g : Stage(g)' = Stage(g)
  BY <1>1, <1>4 DEF Stage
<1>6. Still
  BY <1>1, <1>5 DEF Still
<1>7. loop'.pc = "deliver"
  BY <1>1 DEF LoopAt
<1>8. Single'
  <2>1. \A g \in Fds : jobs'[g] <= 1 /\ (jobs'[g] > 0 => ~Out(g)')
    BY <1>1, <1>4 DEF OInv, Single
  <2>2. \A g \in Fds : Stage(g)' # "none" =>
           sock'[g] # NoClient /\ ~(loop'.pc = "check" /\ loop'.fd = g)
    BY <1>1, <1>5, <1>7 DEF OInv, Single
  <2>3. QED
    BY <1>1, <1>3, <2>1, <2>2 DEF OInv, Single, Runs
<1>9. Contents'
  BY <1>1, <1>3 DEF OInv, Contents, Due
<1>10. Moments'
  BY <1>1, <1>7 DEF OInv, Moments
<1>11. QED
  BY <1>6, <1>8, <1>9, <1>10, StillFrame

-----------------------------------------------------------------------------
(* The delivery: the next response of the batch is the answer to the        *)
(* request of its connection, which has nothing else to send.               *)
LEMMA NextResponse ==
    ASSUME TInv, OInv, writes # <<>>, NEW r, r = Head(writes)
    PROVE  /\ r \in ResponseType /\ r.fd \in Fds /\ Out(r.fd) /\ Due(r)
           /\ sock[r.fd] # NoClient /\ conn[r.fd] # NoConn /\ Stage(r.fd) = "out"
<1>1. writes \in Seq(ResponseType)
  BY DEF TInv, PoolOK
<1>2. r = writes[1] /\ 1 \in 1 .. Len(writes) /\ r \in ResponseType
  BY <1>1
<1>3. r.fd \in Fds
  BY <1>2 DEF ResponseType
<1>4. Out(r.fd)
  BY <1>2 DEF Out
<1>5. Due(r)
  BY <1>2 DEF OInv, Contents
<1>6. sock[r.fd] # NoClient /\ Stage(r.fd) = "out"
  BY <1>3, <1>4, OutStage DEF OInv
<1>7. QED
  BY <1>2, <1>3, <1>4, <1>5, <1>6, Linked

LEMMA DeliverPool ==
    ASSUME TInv, OInv, writes # <<>>, writes' = Tail(writes), loop.pc = "deliver",
           UNCHANGED <<client, jobs, worker, pending, loop, batch>>,
           NEW f \in Fds, f = Head(writes).fd, \A g \in Fds : g # f => sock'[g] = sock[g]
    PROVE  /\ Stage(f)' = "none" /\ \A g \in Fds \ {f} : Stage(g)' = Stage(g)
           /\ Single' /\ Contents' /\ Moments'
<1>1. writes \in Seq(ResponseType) /\ Len(writes) \in Nat \ {0} /\ writes[1].fd = f
  BY DEF TInv, PoolOK
<1>2. PICK m : m = Len(writes)
  OBVIOUS
<1>3. /\ m \in Nat \ {0} /\ Len(writes') = m - 1
      /\ \A i \in 1 .. m - 1 : writes'[i] = writes[i + 1]
  BY <1>1, <1>2
<1>4. Out(f) /\ Stage(f) = "out"
  <2>1. Out(f)
    BY <1>1, <1>3, <1>2 DEF Out
  <2>2. QED
    BY <2>1, OutStage DEF OInv
<1>5. \A i \in 1 .. m - 1 : writes'[i].fd # f
  <2>1. SUFFICES ASSUME NEW i \in 1 .. m - 1 PROVE writes'[i].fd # f
    OBVIOUS
  <2>2. i + 1 \in 1 .. m /\ 1 \in 1 .. m /\ i + 1 # 1 /\ writes'[i] = writes[i + 1]
    BY <1>3
  <2>3. QED
    BY <1>1, <1>2, <2>2 DEF OInv, Single
<1>6. ~Out(f)'
  <2>1. \A x \in Workers : ~Runs(x, f)
    BY <1>1, <1>2, <1>3 DEF OInv, Single, Runs
  <2>2. \A i \in 1 .. Len(pending) : pending[i].fd # f
    BY <1>1, <1>2, <1>3 DEF OInv, Single
  <2>3. \A x \in Workers : ~Runs(x, f)'
    BY <2>1 DEF Runs
  <2>4. QED
    BY <1>3, <1>5, <2>2, <2>3 DEF Out
<1>7. \A g : g # f => (Out(g)' <=> Out(g))
  <2>1. SUFFICES ASSUME NEW g, g # f PROVE Out(g)' <=> Out(g)
    OBVIOUS
  <2>2. (\E i \in 1 .. m - 1 : writes'[i].fd = g) <=> \E i \in 1 .. m : writes[i].fd = g
    <3>1. ASSUME NEW i \in 1 .. m, writes[i].fd = g PROVE \E j \in 1 .. m - 1 : writes'[j].fd = g
      <4>1. i # 1
        BY <1>1, <2>1, <3>1
      <4>2. i - 1 \in 1 .. m - 1 /\ (i - 1) + 1 = i
        BY <1>3, <4>1
      <4>3. writes'[i - 1] = writes[i]
        BY <1>3, <4>2
      <4>4. QED
        BY <3>1, <4>2, <4>3
    <3>2. ASSUME NEW i \in 1 .. m - 1, writes'[i].fd = g PROVE \E j \in 1 .. m : writes[j].fd = g
      <4>1. i + 1 \in 1 .. m /\ writes'[i] = writes[i + 1]
        BY <1>3
      <4>2. QED
        BY <3>2, <4>1
    <3>3. QED
      BY <3>1, <3>2
  <2>3. \A x \in Workers : Runs(x, g)' <=> Runs(x, g)
    BY DEF Runs
  <2>4. QED
    BY <1>2, <1>3, <2>2, <2>3 DEF Out
<1>8. jobs[f] = 0
  BY <1>4 DEF OInv, Single, TInv, PoolOK
<1>9. Stage(f)' = "none" /\ \A g \in Fds : g # f => Stage(g)' = Stage(g)
  BY <1>6, <1>7, <1>8 DEF Stage
<1>10. \A g \in Fds : Stage(g)' # "none" => g # f /\ Stage(g) # "none"
  BY <1>9
<1>11. Single'
  <2>1. \A g \in Fds : jobs'[g] <= 1 /\ (jobs'[g] > 0 => ~Out(g)')
    BY <1>6, <1>7 DEF OInv, Single
  <2>2. \A x, y \in Workers : worker'[x].pc = "run" /\ Runs(y, worker[x].fd)' => x = y
    BY DEF OInv, Single, Runs
  <2>3. \A i, j \in 1 .. m - 1 : writes'[i].fd = writes'[j].fd => i = j
    <3>1. SUFFICES ASSUME NEW i \in 1 .. m - 1, NEW j \in 1 .. m - 1, writes'[i].fd = writes'[j].fd
                   PROVE  i = j
      OBVIOUS
    <3>2. /\ i + 1 \in 1 .. m /\ j + 1 \in 1 .. m
          /\ writes'[i] = writes[i + 1] /\ writes'[j] = writes[j + 1]
      BY <1>3
    <3>3. i + 1 = j + 1
      BY <1>2, <3>1, <3>2 DEF OInv, Single
    <3>4. QED
      BY <3>3
  <2>4. \A i \in 1 .. m - 1 : i + 1 \in 1 .. Len(writes) /\ writes'[i] = writes[i + 1]
    BY <1>2, <1>3
  <2>5. /\ \A i \in 1 .. Len(pending), j \in 1 .. m - 1 : pending[i].fd # writes'[j].fd
        /\ \A x \in Workers : worker[x].pc = "run" =>
              \A i \in 1 .. m - 1 : writes'[i].fd # worker[x].fd
    BY <2>4 DEF OInv, Single
  <2>6. \A g \in Fds : Stage(g)' # "none" =>
           sock'[g] # NoClient /\ ~(loop'.pc = "check" /\ loop'.fd = g)
    BY <1>10 DEF OInv, Single
  <2>7. /\ \A i, j \in 1 .. Len(pending) : pending[i].fd = pending[j].fd => i = j
        /\ \A x \in Workers : worker[x].pc = "run" =>
              \A i \in 1 .. Len(pending) : pending[i].fd # worker[x].fd
    BY DEF OInv, Single
  <2>8. QED
    BY <1>3, <2>1, <2>2, <2>3, <2>5, <2>6, <2>7 DEF Single
<1>12. Contents'
  <2>1. \A r : Due(r) /\ r.fd \in Fds /\ r.fd # f => Due(r)'
    BY DEF Due
  <2>2. \A i \in 1 .. m - 1 : Due(writes[i])'
    <3>1. SUFFICES ASSUME NEW i \in 1 .. m - 1 PROVE Due(writes[i])'
      OBVIOUS
    <3>2. i + 1 \in 1 .. m /\ writes'[i] = writes[i + 1] /\ writes'[i].fd # f
      BY <1>3, <1>5
    <3>3. PICK e : e = writes[i + 1]
      OBVIOUS
    <3>4. e \in ResponseType /\ Due(e) /\ e.fd # f
      BY <1>1, <1>2, <3>2, <3>3 DEF OInv, Contents
    <3>5. e.fd \in Fds
      BY <3>4 DEF ResponseType
    <3>6. Due(e)'
      BY <2>1, <3>4, <3>5
    <3>7. writes'[i] = e
      BY <3>2, <3>3
    <3>8. QED
      BY <3>6, <3>7, Zenon DEF Due
  <2>3. \A i \in 1 .. Len(pending) : Due(pending[i])'
    <3>1. SUFFICES ASSUME NEW i \in 1 .. Len(pending), NEW e, e = pending[i] PROVE Due(e)'
      BY DEF Due
    <3>2. e \in ResponseType /\ Due(e) /\ e.fd # f
      BY <1>1, <1>2, <1>3, <3>1 DEF OInv, Contents, Single, TInv, PoolOK
    <3>3. e.fd \in Fds
      BY <3>2 DEF ResponseType
    <3>4. QED
      BY <2>1, <3>2, <3>3
  <2>4. ASSUME NEW x \in Workers, worker[x].pc = "run"
        PROVE  sock'[worker[x].fd] = sock[worker[x].fd]
    <3>1. worker[x].fd \in Fds /\ worker[x].fd # f
      BY <1>1, <1>2, <1>3, <2>4 DEF OInv, Single, TInv, PoolOK
    <3>2. QED
      BY <3>1
  <2>5. ASSUME NEW x \in Workers, worker[x].pc = "run"
        PROVE  LET d == sock'[worker[x].fd]
               IN  /\ Part(d, client[d].sent - Segments, worker[x].data)
                   /\ Len(worker[x].data) = Segments
    BY <2>4, <2>5 DEF OInv, Contents
  <2>6. QED
    BY <1>3, <2>2, <2>3, <2>5, Zenon DEF Contents
<1>13. Moments'
  BY DEF OInv, Moments
<1>14. QED
  BY <1>9, <1>11, <1>12, <1>13

(* The answer us to the request of f: x of it is sent, and the rest is left. *)
Replies(f, x, us) ==
    /\ UNCHANGED <<rcv, rst, backlog, ticks, sock>>
    /\ snd' = [snd EXCEPT ![sock[f]] = @ \o x]
    /\ \A g \in Fds \ {f} : conn'[g] = conn[g]
    /\ Rest(conn'[f]) \in Seq(UnitType) /\ x \o Rest(conn'[f]) = us
    /\ conn'[f].rbuf = conn[f].rbuf /\ FileShape(conn'[f]) /\ conn'[f].age = conn[f].age
    /\ files' = files + Held(conn'[f]) - Held(conn[f])

LEMMA RepliesOrder ==
    ASSUME TInv, TInv', OInv, writes # <<>>, writes' = Tail(writes), loop.pc = "deliver",
           UNCHANGED <<client, jobs, worker, pending, loop, batch>>,
           NEW r, r = Head(writes), NEW x \in Seq(UnitType), NEW us \in Seq(UnitType),
           Begun(r.c, us, r.n), Ended(us), Replies(r.fd, x, us)
    PROVE  OInv'
<1>1. PICK f : f = r.fd
  OBVIOUS
<1>2. /\ r \in ResponseType /\ f \in Fds /\ Due(r) /\ sock[f] # NoClient /\ Stage(f) = "out"
  BY <1>1, NextResponse
<1>3. /\ UNCHANGED <<rcv, rst, backlog, ticks, sock>>
      /\ \A g \in Fds \ {f} : conn'[g] = conn[g]
  BY <1>1 DEF Replies
<1>4. PICK c, p, q, s, k : /\ c = sock[f] /\ p = client[c] /\ q = rcv[c] /\ s = snd[c]
                           /\ k = conn[f]
  OBVIOUS
<1>5. PICK ss, kk : ss = s \o x /\ kk = conn'[f]
  OBVIOUS
<1>6. c \in Clients /\ Link(p, q, s, k)
  BY <1>2, <1>4, Linked
<1>7. Good(c, p, q, s, k, "out")
  BY <1>2, <1>4, Zenon DEF OInv, Lines, GoodAt
<1>8. snd'[c] = ss /\ \A d \in Clients \ {c} : snd'[d] = snd[d]
  BY <1>1, <1>4, <1>5, <1>6 DEF Replies, TInv, PeersOK
<1>9. Link(p, q, ss, kk)
  <2>1. sock'[f] = c /\ sock'[f] # NoClient /\ client'[c] = p /\ rcv'[c] = q
    BY <1>2, <1>3, <1>4
  <2>2. Link(client'[sock'[f]], rcv'[sock'[f]], snd'[sock'[f]], conn'[f])
    BY <1>2, <2>1, LinkedNext
  <2>3. QED
    BY <1>5, <1>8, <2>1, <2>2, Zenon
<1>10. Quiet(s, k) /\ k.rbuf = <<>>
  BY <1>7 DEF Good, Asks
<1>11. Whole(p, ss, kk) = Whole(p, s, k) \o us
  <2>1. Rest(kk) \in Seq(UnitType)
    BY <1>1, <1>5 DEF Replies
  <2>2. x \o Rest(kk) = us
    BY <1>1, <1>5 DEF Replies
  <2>3. Quiet(s, k)
    BY <1>10
  <2>4. Whole(p, s \o x, kk) = Whole(p, s, k) \o (x \o Rest(kk))
    BY <1>6, <2>1, <2>3, NewAndLeft
  <2>5. QED
    BY <1>5, <2>2, <2>4, Zenon
<1>12. r.c = c /\ r.n * Segments = p.sent /\ r.n \in Nat
  BY <1>1, <1>2, <1>4 DEF Due, ResponseType
<1>13. Answering(c, p, s, k, ss, kk, us, r.n)
  <2>1. kk.rbuf = <<>> /\ FileShape(kk)
    BY <1>1, <1>4, <1>5, <1>10 DEF Replies
  <2>2. Begun(c, us, r.n)
    BY <1>12
  <2>3. QED
    BY <1>11, <1>12, <2>1, <2>2, Zenon DEF Answering
<1>14. Good(c, p, q, ss, kk, "none")
  BY <1>6, <1>7, <1>9, <1>13, Replied
<1>15. /\ Stage(f)' = "none" /\ \A g \in Fds \ {f} : Stage(g)' = Stage(g)
       /\ Single' /\ Contents' /\ Moments'
  BY <1>1, <1>2, <1>3, DeliverPool
<1>16. GoodAt(f)'
  BY <1>3, <1>4, <1>5, <1>8, <1>14, <1>15, Zenon DEF GoodAt
<1>17. OneConn(f)
  BY <1>3, <1>4, <1>8, <1>15 DEF OneConn
<1>18. conn'[f].age <= ticks /\ sock'[f] = sock[f]
  BY <1>1, <1>2, <1>3 DEF OInv, Socks, Replies
<1>19. Lines' /\ Socks' /\ Waiting' /\ Left'
  BY <1>2, <1>16, <1>17, <1>18, LineFrame
<1>20. NoFileLeak'
  BY <1>1, <1>2, <1>3, FilesFrame DEF OInv, Replies
<1>21. QED
  BY <1>15, <1>19, <1>20 DEF OInv

(* What a response finds: nothing in the socket, and nothing to send.       *)
Open(f) == /\ sock[f] \in Clients /\ sock[f] \notin rst /\ conn[f] \in ConnType
           /\ snd \in [Clients -> Seq(UnitType)] /\ conn \in [Fds -> ConnType \cup {NoConn}]
           /\ Room(sock[f]) = SndCap /\ ~conn[f].fileFd /\ Rest(conn[f]) = <<>>
           /\ conn[f] # NoConn /\ files \in Nat
LEMMA FindsOpen ==
    ASSUME TInv, OInv, NEW f \in Fds, sock[f] # NoClient, Stage(f) = "out"
    PROVE  Open(f)
<1>1. PICK c, p, q, s, k : /\ c = sock[f] /\ p = client[c] /\ q = rcv[c] /\ s = snd[c]
                           /\ k = conn[f]
  OBVIOUS
<1>2. c \in Clients /\ k # NoConn /\ k \in ConnType
  BY <1>1, Linked DEF Link
<1>3. Good(c, p, q, s, k, "out")
  BY <1>1, Zenon DEF OInv, Lines, GoodAt
<1>4. Quiet(s, k)
  BY <1>3 DEF Good, Asks
<1>5. ~k.fileFd
  BY <1>3, <1>4, QuietHoldsNone
<1>6. c \notin rst
  BY <1>1 DEF OInv, Socks
<1>7. Room(c) = SndCap
  <2>1. Len(s) = 0 /\ SndCap \in Nat
    BY <1>4, SizesAssumption DEF Quiet
  <2>2. QED
    BY <1>1, <2>1 DEF Room
<1>8. QED
  BY <1>1, <1>2, <1>4, <1>5, <1>6, <1>7 DEF Open, Quiet, TInv, PeersOK, SocketsOK, FilesOK

(* A short response is sent as far as it goes, ...                           *)
LEMMA NowReplies ==
    ASSUME NEW f \in Fds, Open(f), NEW us \in Seq(UnitType), SendNow(f, us), UNCHANGED ticks
    PROVE  \E x \in Seq(UnitType) : Replies(f, x, us)
<1>1. PICK c, k : c = sock[f] /\ k = conn[f]
  OBVIOUS
<1>2. PICK n : n = Least(Room(c), Len(us))
  OBVIOUS
<1>3. n \in 0 .. Len(us)
  BY <1>1, <1>2, LeastIn, SizesAssumption DEF Open
<1>4. PICK x : x = SubSeq(us, 1, n)
  OBVIOUS
<1>5. /\ x \in Seq(UnitType) /\ Drop(us, n) \in Seq(UnitType) /\ x \o Drop(us, n) = us
      /\ Len(Drop(us, n)) = Len(us) - n
  <2>1. 0 \in 0 .. Len(us) /\ n \in 0 .. Len(us) /\ 0 + 1 = 1
    BY <1>3
  <2>2. /\ SubSeq(us, 0 + 1, n) \in Seq(UnitType)
        /\ SubSeq(us, 0 + 1, n) \o SubSeq(us, n + 1, Len(us)) = SubSeq(us, 0 + 1, Len(us))
    BY <2>1, Cut
  <2>3. SubSeq(us, 1, Len(us)) = us
    OBVIOUS
  <2>4. QED
    BY <1>3, <1>4, <2>1, <2>2, <2>3, DropTyped DEF Drop
<1>6. /\ snd' = [snd EXCEPT ![c] = @ \o x] /\ UNCHANGED <<rcv, rst, backlog, sock, files>>
      /\ n = Len(us) => conn' = conn
      /\ n # Len(us) => conn' = [conn EXCEPT ![f] = [k EXCEPT !.wbuf = Drop(us, n), !.written = 0]]
  BY <1>1, <1>2, <1>4 DEF SendNow, Deliver, Open, sockVars
<1>7. CASE n = Len(us)
  <2>1. Drop(us, n) = <<>>
    BY <1>5, <1>7
  <2>2. Rest(conn'[f]) = <<>> /\ conn'[f] = k /\ conn' = conn
    BY <1>1, <1>6, <1>7 DEF Open
  <2>3. <<>> \in Seq(UnitType) /\ x \o <<>> = us
    BY <1>5, <2>1
  <2>4. FileShape(k) /\ files' = files + Held(conn'[f]) - Held(conn[f])
    BY <1>1, <1>6, <2>2 DEF Open, FileShape, Held
  <2>5. Replies(f, x, us)
    BY <1>1, <1>6, <2>2, <2>3, <2>4 DEF Replies
  <2>6. QED
    BY <1>5, <2>5
<1>8. CASE n # Len(us)
  <2>1. PICK kk : kk = [k EXCEPT !.wbuf = Drop(us, n), !.written = 0]
    OBVIOUS
  <2>2. conn'[f] = kk /\ \A g \in Fds \ {f} : conn'[g] = conn[g]
    BY <1>6, <1>8, <2>1 DEF Open
  <2>3. /\ kk.wbuf = Drop(us, n) /\ kk.written = 0 /\ kk.fileFd = k.fileFd
        /\ kk.rbuf = k.rbuf /\ kk.age = k.age /\ k.fileFd = FALSE
    BY <1>1, <2>1 DEF Open, ConnType
  <2>4. Rest(kk) = Drop(us, n)
    <3>1. SubSeq(Drop(us, n), 0 + 1, Len(Drop(us, n))) = Drop(us, n)
      BY <1>5
    <3>2. QED
      BY <2>3, <3>1 DEF Rest
  <2>5. FileShape(kk) /\ files' = files + Held(conn'[f]) - Held(conn[f])
    <3>1. Held(kk) = 0 /\ Held(k) = 0
      BY <2>3 DEF Held
    <3>2. QED
      BY <1>1, <1>6, <2>2, <2>3, <3>1 DEF Open, FileShape
  <2>6. Replies(f, x, us)
    BY <1>1, <1>5, <1>6, <2>2, <2>3, <2>4, <2>5 DEF Replies
  <2>7. QED
    BY <1>5, <2>6
<1>9. QED
  BY <1>7, <1>8

(* ... a long one buffered, ...                                              *)
LEMMA LaterReplies ==
    ASSUME NEW f \in Fds, Open(f), NEW us \in Seq(UnitType), SendLater(f, us), UNCHANGED ticks
    PROVE  \E x \in Seq(UnitType) : Replies(f, x, us)
<1>1. PICK k, kk : k = conn[f] /\ kk = [k EXCEPT !.wbuf = us, !.written = 0]
  OBVIOUS
<1>2. conn' = [conn EXCEPT ![f] = kk] /\ UNCHANGED <<rcv, snd, rst, backlog, sock, files>>
  BY <1>1 DEF SendLater, kernelVars
<1>3. conn'[f] = kk /\ \A g \in Fds \ {f} : conn'[g] = conn[g]
  BY <1>2 DEF Open
<1>4. /\ kk.wbuf = us /\ kk.written = 0 /\ kk.fileFd = k.fileFd
      /\ kk.rbuf = k.rbuf /\ kk.age = k.age /\ k.fileFd = FALSE
  BY <1>1 DEF Open, ConnType
<1>5. Rest(kk) = us
  <2>1. SubSeq(us, 0 + 1, Len(us)) = us
    OBVIOUS
  <2>2. QED
    BY <1>4, <2>1 DEF Rest
<1>6. snd' = [snd EXCEPT ![sock[f]] = @ \o <<>>]
  <2>1. \A s \in Seq(UnitType) : s \o <<>> = s
    BY ConcatEmptySeq
  <2>2. QED
    BY <1>2, <2>1 DEF Open
<1>7. <<>> \in Seq(UnitType) /\ <<>> \o us = us
  BY ConcatEmptySeq
<1>8. FileShape(kk) /\ files' = files + Held(conn'[f]) - Held(conn[f])
  <2>1. Held(kk) = 0 /\ Held(k) = 0
    BY <1>4 DEF Held
  <2>2. QED
    BY <1>1, <1>2, <1>3, <1>4, <2>1 DEF Open, FileShape
<1>9. Replies(f, <<>>, us)
  BY <1>1, <1>2, <1>3, <1>4, <1>5, <1>6, <1>7, <1>8 DEF Replies
<1>10. QED
  BY <1>7, <1>9

(* ... a file is sent after its header, ...                                  *)
LEMMA FileReplies ==
    ASSUME NEW f \in Fds, Open(f), NEW r \in ResponseType, StreamFile(f, r), UNCHANGED ticks
    PROVE  \E x \in Seq(UnitType) : Replies(f, x, Header(r) \o Body(r))
<1>1. PICK c, k : c = sock[f] /\ k = conn[f]
  OBVIOUS
<1>2. PICK k1 : k1 = [k EXCEPT !.isFileStream = TRUE, !.fileFd = TRUE, !.stream = Body(r),
                               !.wbuf = <<>>, !.written = 0]
  OBVIOUS
<1>3. /\ Header(r) \in Seq(UnitType) /\ Len(Header(r)) = 1 /\ Body(r) \in Seq(UnitType)
      /\ k \in ConnType /\ SndCap \in Nat \ {0}
  BY <1>1, UnitsTyped, SizesAssumption DEF Open
<1>4. /\ k1 \in ConnType /\ k1.isFileStream /\ k1.fileFd /\ k1.stream = Body(r)
      /\ k1.wbuf = <<>> /\ k1.rbuf = k.rbuf /\ k1.age = k.age
  <2>1. k1 \in ConnType
    <3>1. PICK b \in Seq(UnitType), e \in Seq(UnitType), t \in BOOLEAN :
             b = Body(r) /\ e = <<>> /\ t = TRUE
      <4>1. <<>> \in Seq(UnitType) /\ TRUE \in BOOLEAN
        OBVIOUS
      <4>2. QED
        BY <1>3, <4>1, Zenon
    <3>2. k1 = [k EXCEPT !.isFileStream = t, !.fileFd = t, !.stream = b, !.wbuf = e,
                         !.written = 0]
      BY <1>2, <3>1
    <3>3. QED
      BY <1>3, <3>2 DEF ConnType
  <2>2. k1.isFileStream = TRUE /\ k1.fileFd = TRUE
    BY <1>2, <1>3 DEF ConnType
  <2>3. k1.stream = Body(r) /\ k1.wbuf = <<>> /\ k1.rbuf = k.rbuf /\ k1.age = k.age
    BY <1>2, <1>3 DEF ConnType
  <2>4. QED
    BY <2>1, <2>2, <2>3
<1>5. Least(Room(c), 1) = 1
  BY <1>1, <1>3 DEF Open, Least
<1>6. SubSeq(Header(r), 1, 1) = Header(r)
  BY <1>3
<1>7. SendFileChunked(f, k1, Header(r), files + 1)
  BY <1>1, <1>2, <1>5, <1>6 DEF StreamFile
<1>8. PICK n : n = Least(Room(c) - Len(Header(r)), Len(Body(r)))
  OBVIOUS
<1>9. n \in 0 .. Len(Body(r))
  <2>1. Room(c) - Len(Header(r)) \in Nat
    BY <1>1, <1>3 DEF Open
  <2>2. QED
    BY <1>3, <1>8, <2>1, LeastIn
<1>10. PICK y : y = SubSeq(Body(r), 1, n)
  OBVIOUS
<1>11. PICK x : x = Header(r) \o y
  OBVIOUS
<1>12. /\ snd' = [snd EXCEPT ![c] = @ \o x] /\ UNCHANGED <<rcv, rst, backlog, sock>>
       /\ IF Drop(Body(r), n) = <<>>
          THEN conn' = [conn EXCEPT ![f] = CloseFile(k1)] /\ files' = (files + 1) - 1
          ELSE conn' = [conn EXCEPT ![f] = [k1 EXCEPT !.stream = Drop(Body(r), n)]]
               /\ files' = files + 1
  BY <1>1, <1>4, <1>7, <1>8, <1>10, <1>11 DEF SendFileChunked, Deliver, Open
<1>13. /\ y \in Seq(UnitType) /\ Rest(StreamedTo(k1, n)) \in Seq(UnitType)
       /\ y \o Rest(StreamedTo(k1, n)) = Body(r)
       /\ StreamedTo(k1, n).rbuf = k1.rbuf /\ FileShape(StreamedTo(k1, n))
  BY <1>4, <1>9, <1>10, Streamed
<1>14. conn' = [conn EXCEPT ![f] = StreamedTo(k1, n)]
  BY <1>4, <1>12 DEF StreamedTo
<1>15. conn'[f] = StreamedTo(k1, n) /\ \A g \in Fds \ {f} : conn'[g] = conn[g]
  BY <1>14 DEF Open
<1>16. x \in Seq(UnitType) /\ x \o Rest(conn'[f]) = Header(r) \o Body(r)
  <2>1. PICK h, z : h = Header(r) /\ z = Rest(StreamedTo(k1, n))
    OBVIOUS
  <2>2. h \in Seq(UnitType) /\ y \in Seq(UnitType) /\ z \in Seq(UnitType)
    BY <1>3, <1>13, <2>1
  <2>3. (h \o y) \o z = h \o (y \o z) /\ h \o y \in Seq(UnitType)
    BY <2>2, ConcatAssociative
  <2>4. QED
    BY <1>11, <1>13, <1>15, <2>1, <2>3, Zenon
<1>17. conn'[f].age = k.age
  BY <1>4, <1>15 DEF StreamedTo, CloseFile, ConnType
<1>18. files' = files + Held(conn'[f]) - Held(conn[f])
  <2>1. Held(conn[f]) = 0 /\ files \in Nat
    BY DEF Held, Open
  <2>2. CASE Drop(Body(r), n) = <<>>
    <3>1. ~CloseFile(k1).fileFd
      BY <1>4, CloseFileTyped
    <3>2. conn'[f] = CloseFile(k1)
      BY <1>4, <1>15, <2>2 DEF StreamedTo
    <3>3. QED
      BY <1>12, <2>1, <2>2, <3>1, <3>2 DEF Held
  <2>3. CASE Drop(Body(r), n) # <<>>
    <3>1. Drop(Body(r), n) \in Seq(UnitType)
      BY <1>3, <1>9, DropTyped
    <3>2. PICK kk : kk = [k1 EXCEPT !.stream = Drop(Body(r), n)]
      OBVIOUS
    <3>3. kk \in ConnType
      BY <1>4, <3>1, <3>2 DEF ConnType
    <3>4. kk.fileFd = k1.fileFd
      BY <1>4, <3>2 DEF ConnType
    <3>5. conn'[f] = kk
      BY <1>4, <1>15, <2>3, <3>2 DEF StreamedTo
    <3>6. conn'[f].fileFd /\ conn'[f] # NoConn
      BY <1>4, <3>3, <3>4, <3>5, NoConnAssumption, Zenon
    <3>7. QED
      BY <1>12, <2>1, <2>3, <3>6 DEF Held
  <2>4. QED
    BY <2>2, <2>3
<1>19. Replies(f, x, Header(r) \o Body(r))
  BY <1>1, <1>4, <1>12, <1>13, <1>15, <1>16, <1>17, <1>18 DEF Replies
<1>20. QED
  BY <1>16, <1>19

(* ... and a file that does not open ends the connection after its header.   *)
LEMMA GoneOrder ==
    ASSUME TInv, OInv, writes # <<>>, writes' = Tail(writes), loop.pc = "deliver",
           UNCHANGED <<client, jobs, worker, pending, loop, batch, ticks, files>>,
           NEW r, r = Head(writes), Erase({r.fd}),
           Deliver(sock[r.fd], SubSeq(Header(r), 1, Least(Room(sock[r.fd]), 1)))
    PROVE  OInv'
<1>1. PICK f : f = r.fd
  OBVIOUS
<1>2. /\ r \in ResponseType /\ f \in Fds /\ Due(r) /\ sock[f] # NoClient /\ Stage(f) = "out"
  BY <1>1, NextResponse
<1>3. Open(f)
  BY <1>2, FindsOpen
<1>4. PICK c, p, q, s, k : /\ c = sock[f] /\ p = client[c] /\ q = rcv[c] /\ s = snd[c]
                           /\ k = conn[f]
  OBVIOUS
<1>5. c \in Clients /\ Link(p, q, s, k)
  BY <1>2, <1>4, Linked
<1>6. Good(c, p, q, s, k, "out")
  BY <1>2, <1>4, Zenon DEF OInv, Lines, GoodAt
<1>7. SubSeq(Header(r), 1, Least(Room(c), 1)) = Header(r)
  <2>1. Header(r) \in Seq(UnitType) /\ Len(Header(r)) = 1 /\ SndCap \in Nat \ {0}
    BY <1>2, UnitsTyped, SizesAssumption
  <2>2. Least(Room(c), 1) = 1
    BY <1>3, <1>4, <2>1 DEF Open, Least
  <2>3. SubSeq(Header(r), 1, 1) = Header(r)
    BY <2>1
  <2>4. QED
    BY <2>2, <2>3
<1>8. snd' = [snd EXCEPT ![c] = @ \o Header(r)] /\ UNCHANGED <<rcv, rst, backlog>>
  BY <1>1, <1>4, <1>7 DEF Deliver
<1>9. snd'[c] = s \o Header(r) /\ \A d \in Clients \ {c} : snd'[d] = snd[d]
  BY <1>3, <1>4, <1>5, <1>8 DEF Open
<1>10. /\ sock'[f] = NoClient /\ conn'[f] = NoConn
       /\ \A g \in Fds \ {f} : sock'[g] = sock[g] /\ conn'[g] = conn[g]
  BY <1>1, <1>2 DEF Erase, CloseSock
<1>11. /\ Stage(f)' = "none" /\ \A g \in Fds \ {f} : Stage(g)' = Stage(g)
       /\ Single' /\ Contents' /\ Moments'
  BY <1>1, <1>2, <1>10, DeliverPool
<1>12. OneConn(f)
  BY <1>4, <1>8, <1>9, <1>10, <1>11 DEF OneConn
<1>13. Ordered(c, p.got \o (s \o Header(r)))
  <2>1. PICK n, us : us = Whole(p, s, k) /\ n = Count(us)
    OBVIOUS
  <2>2. us \in Seq(UnitType) /\ n \in Nat /\ p.got \in Seq(UnitType)
    BY <1>5, <2>1, WholeTyped, CountTyped
  <2>3. Answers(c, us, n)
    BY <1>6, <2>1, Zenon DEF Good
  <2>4. r.c = c /\ r.n * Segments = p.sent /\ r.n \in Nat
    BY <1>1, <1>2, <1>4 DEF Due, ResponseType
  <2>5. r.n = n + 1
    BY <1>5, <1>6, <2>1, <2>4, NextAnswer
  <2>6. Header(r) \in Seq(UnitType) /\ Begun(c, Header(r), n + 1)
    BY <1>2, <2>4, <2>5, HeaderAnswers
  <2>7. Ordered(c, us \o Header(r))
    BY <2>2, <2>3, <2>6, OneMore
  <2>8. s = <<>> /\ Rest(k) = <<>>
    BY <1>6 DEF Good, Asks, Quiet
  <2>9. us = p.got
    <3>1. \A g \in Seq(UnitType) : (g \o <<>>) \o <<>> = g
      BY ConcatEmptySeq
    <3>2. QED
      BY <2>1, <2>2, <2>8, <3>1, Zenon DEF Whole
  <2>10. s \o Header(r) = Header(r)
    <3>1. \A g \in Seq(UnitType) : <<>> \o g = g
      BY ConcatEmptySeq
    <3>2. QED
      BY <2>6, <2>8, <3>1, Zenon
  <2>11. QED
    BY <2>7, <2>9, <2>10, Zenon
<1>14. Ordered(sock[f], client[sock[f]].got \o snd'[sock[f]])
  BY <1>4, <1>9, <1>13, Zenon
<1>15. Lines' /\ Socks' /\ Waiting' /\ Left'
  BY <1>2, <1>10, <1>12, <1>14, LineEnds
<1>16. NoFileLeak'
  <2>1. Held(conn[f]) = 0 /\ Held(conn'[f]) = 0 /\ files \in Nat
    BY <1>3, <1>10 DEF Held, Open
  <2>2. files' = files + Held(conn'[f]) - Held(conn[f])
    BY <2>1
  <2>3. QED
    BY <1>2, <1>10, <2>2, FilesFrame DEF OInv
<1>17. QED
  BY <1>11, <1>15, <1>16 DEF OInv

LEMMA DeliverOrder == ASSUME TInv, TInv', OInv, DeliverNext PROVE OInv'
<1>1. /\ writes # <<>> /\ writes' = Tail(writes) /\ loop.pc = "deliver"
      /\ UNCHANGED <<client, jobs, worker, pending, loop, batch, ticks>>
  BY DEF DeliverNext, poolVars, timeVars
<1>2. PICK r, f : r = Head(writes) /\ f = r.fd
  OBVIOUS
<1>3. /\ r \in ResponseType /\ f \in Fds /\ Due(r) /\ sock[f] # NoClient /\ conn[f] # NoConn
      /\ Stage(f) = "out"
  BY <1>1, <1>2, NextResponse
<1>4. Open(f)
  BY <1>3, FindsOpen
<1>5. r.kind \in {"small", "large", "file", "gone"}
  BY <1>3, KindsAssumption DEF Due, AllKinds
<1>6. CASE r.kind = "small"
  <2>1. SendNow(f, Units(r))
    BY <1>2, <1>3, <1>6 DEF DeliverNext
  <2>2. Units(r) \in Seq(UnitType) /\ Begun(r.c, Units(r), r.n) /\ Ended(Units(r))
    BY <1>3, <1>6, UnitsAnswer
  <2>3. PICK x \in Seq(UnitType) : Replies(f, x, Units(r))
    BY <1>1, <1>3, <1>4, <2>1, <2>2, NowReplies
  <2>4. QED
    BY <1>1, <1>2, <2>2, <2>3, RepliesOrder
<1>7. CASE r.kind = "large"
  <2>1. SendLater(f, Units(r))
    BY <1>2, <1>3, <1>7 DEF DeliverNext
  <2>2. Units(r) \in Seq(UnitType) /\ Begun(r.c, Units(r), r.n) /\ Ended(Units(r))
    BY <1>3, <1>7, UnitsAnswer
  <2>3. PICK x \in Seq(UnitType) : Replies(f, x, Units(r))
    BY <1>1, <1>3, <1>4, <2>1, <2>2, LaterReplies
  <2>4. QED
    BY <1>1, <1>2, <2>2, <2>3, RepliesOrder
<1>8. CASE r.kind = "file"
  <2>1. StreamFile(f, r)
    BY <1>2, <1>3, <1>8 DEF DeliverNext
  <2>2. PICK us : us = Header(r) \o Body(r)
    OBVIOUS
  <2>3. us \in Seq(UnitType) /\ Begun(r.c, us, r.n) /\ Ended(us)
    BY <1>3, <2>2, FileAnswers
  <2>4. PICK x \in Seq(UnitType) : Replies(f, x, us)
    BY <1>1, <1>3, <1>4, <2>1, <2>2, FileReplies
  <2>5. QED
    BY <1>1, <1>2, <2>3, <2>4, RepliesOrder
<1>9. CASE r.kind = "gone"
  <2>1. /\ Erase({f}) /\ files' = files
        /\ Deliver(sock[f], SubSeq(Header(r), 1, Least(Room(sock[f]), 1)))
    BY <1>2, <1>3, <1>4, <1>9 DEF DeliverNext, Open
  <2>2. QED
    BY <1>1, <1>2, <2>1, GoneOrder
<1>10. QED
  BY <1>5, <1>6, <1>7, <1>8, <1>9

-----------------------------------------------------------------------------
LEMMA InitOrder == Init => OInv
<1>1. SUFFICES ASSUME Init PROVE OInv
  OBVIOUS
<1>2. /\ \A f \in Fds : sock[f] = NoClient /\ conn[f] = NoConn /\ jobs[f] = 0
      /\ pending = <<>> /\ writes = <<>> /\ batch = {} /\ files = 0 /\ backlog = {} /\ rst = {}
      /\ \A w \in Workers : worker[w].pc = "idle"
      /\ loop.pc = "events"
      /\ \A c \in Clients : /\ client[c].got = <<>> /\ client[c].st = "idle" /\ client[c].sent = 0
                            /\ rcv[c] = <<>> /\ snd[c] = <<>>
  BY <1>1 DEF Init, Idle, LoopAt
<1>3. Len(pending) = 0 /\ Len(writes) = 0
  BY <1>2
<1>4. \A f : ~Out(f)
  BY <1>2, <1>3 DEF Out, Runs
<1>5. \A f \in Fds : Stage(f) = "none"
  BY <1>2, <1>4 DEF Stage
<1>6. Lines /\ Socks
  BY <1>2 DEF Lines, Socks
<1>7. Waiting
  <2>1. SUFFICES ASSUME NEW c \in Clients PROVE WaitsIfNew(c)
    BY DEF Waiting
  <2>2. Len(rcv[c]) = 0 /\ 1 .. 0 = {} /\ Segments \in Nat
    BY <1>2, SizesAssumption
  <2>3. Part(c, 0, rcv[c])
    BY <2>2 DEF Part
  <2>4. \A f \in Fds : sock[f] # c
    BY <1>2, ClientsAssumption
  <2>5. QED
    BY <1>2, <2>2, <2>3, <2>4 DEF WaitsIfNew, Waits
<1>8. Left
  <2>1. SUFFICES ASSUME NEW c \in Clients PROVE LeftInOrder(c)
    BY DEF Left
  <2>2. client[c].got \o snd[c] = <<>>
    BY <1>2
  <2>3. Len(<<>>) = 0 /\ 1 .. 0 = {} /\ 1 .. 0 - 1 = {}
    OBVIOUS
  <2>4. Ordered(c, <<>>)
    BY <2>3 DEF Ordered
  <2>5. QED
    BY <2>2, <2>4, Zenon DEF LeftInOrder
<1>9. Single
  BY <1>2, <1>3, <1>4, <1>5 DEF Single
<1>10. Contents
  BY <1>2, <1>3 DEF Contents
<1>11. Moments
  BY <1>2 DEF Moments
<1>12. NoFileLeak
  <2>1. Streaming(Fds) = {}
    BY <1>2 DEF Streaming
  <2>2. QED
    BY <1>2, <2>1, FS_EmptySet DEF NoFileLeak
<1>13. QED
  BY <1>6, <1>7, <1>8, <1>9, <1>10, <1>11, <1>12 DEF OInv

LEMMA StepOrder ==
    ASSUME Impatient = {}, Malformed = {}, MaxTicks <= ConnTimeout, TInv, TInv', OInv, [Next]_vars
    PROVE  OInv'
<1>1. ASSUME NEW c \in Clients, Peer(c) PROVE OInv'
  BY <1>1, ConnectOrder, SendOrder, ReceiveOrder, LeaveOrder, ResetOrder DEF Peer
<1>2. CASE TimerExpires
  BY <1>2, TimerOrder
<1>3. CASE EpollWait
  BY <1>3, WaitOrder
<1>4. CASE BeginAccept \/ EndAccept \/ DrainWakeup \/ EndDeliver
  BY <1>4, MoveOrder
<1>5. ASSUME NEW c \in Clients, Accept(c) PROVE OInv'
  BY <1>5, AcceptOrder
<1>6. CASE CleanupTimeouts
  BY <1>6, CleanupOrder
<1>7. CASE TakePending
  BY <1>7, TakePendingOrder
<1>8. CASE DeliverNext
  BY <1>8, DeliverOrder
<1>9. CASE CheckRequest
  BY <1>9, CheckOrder
<1>10. ASSUME NEW f \in Fds, NEW ev \in SocketEvents,
              HandleError(f, ev) \/ HandleRead(f, ev) \/ HandleWrite(f, ev)
       PROVE  OInv'
  BY <1>10, ErrorOrder, ReadOrder, WriteOrder
<1>11. ASSUME NEW w \in Workers, Work(w) PROVE OInv'
  BY <1>11, TakeJobOrder, RespondOrder, SignalOrder DEF Work, Throw
<1>12. CASE UNCHANGED vars
  <2>1. /\ UNCHANGED <<client, rcv, snd, rst, backlog, sock, conn, ticks, files>>
        /\ UNCHANGED <<jobs, worker, pending, writes, loop, batch>>
    BY <1>12 DEF vars, kernelVars, timeVars, sockVars, poolVars, loopVars
  <2>2. Moments'
    BY <2>1, MomentsSame DEF OInv
  <2>3. QED
    BY <2>1, <2>2, IdleFrame
<1>13. CASE Loop
  BY <1>3, <1>4, <1>5, <1>6, <1>7, <1>8, <1>9, <1>10, <1>13, Zenon DEF Loop
<1>14. QED
  BY <1>1, <1>2, <1>11, <1>12, <1>13, Zenon DEF Next

LEMMA OrderFollows == ASSUME TInv, OInv PROVE AnswersInOrder /\ NoFileLeak
<1>1. SUFFICES ASSUME NEW c \in Clients, NEW got, got = client[c].got
               PROVE  /\ \A i \in DOMAIN got : got[i].c = c
                      /\ got # <<>> => got[1].n = 1 /\ got[1].i = 1
                      /\ \A i \in 1 .. Len(got) - 1 : Follows(got[i], got[i + 1])
  BY DEF AnswersInOrder, OInv
<1>2. got \in Seq(UnitType) /\ snd[c] \in Seq(UnitType)
  BY <1>1 DEF TInv, PeersOK, ClientType
<1>3. Ordered(c, got)
  <2>1. CASE \A f \in Fds : sock[f] # c
    <3>1. Ordered(c, got \o snd[c])
      BY <1>1, <2>1 DEF OInv, Left, LeftInOrder
    <3>2. QED
      BY <1>2, <3>1, PrefixOrdered
  <2>2. ASSUME NEW f \in Fds, sock[f] = c PROVE Ordered(c, got)
    <3>1. sock[f] # NoClient
      BY <2>2, ClientsAssumption
    <3>2. PICK p, q, s, k : p = client[c] /\ q = rcv[c] /\ s = snd[c] /\ k = conn[f]
      OBVIOUS
    <3>3. Link(p, q, s, k)
      BY <2>2, <3>1, <3>2, Linked
    <3>4. Ordered(c, Whole(p, s, k))
      BY <2>2, <3>1, <3>2, Zenon DEF OInv, Lines, GoodAt, Good, Answers
    <3>5. p.got \o s \in Seq(UnitType) /\ Rest(k) \in Seq(UnitType)
      BY <3>3, WholeTyped
    <3>6. Ordered(c, (p.got \o s) \o Rest(k))
      BY <3>4, Zenon DEF Whole
    <3>7. Ordered(c, p.got \o s)
      BY <3>5, <3>6, PrefixOrdered
    <3>8. p.got \in Seq(UnitType) /\ s \in Seq(UnitType)
      BY <3>3, WholeTyped
    <3>9. Ordered(c, p.got)
      BY <3>7, <3>8, PrefixOrdered
    <3>10. QED
      BY <1>1, <3>2, <3>9, Zenon
  <2>3. QED
    BY <2>1, <2>2
<1>4. DOMAIN got = 1 .. Len(got)
  BY <1>2
<1>5. QED
  BY <1>3, <1>4, Zenon DEF Ordered

LEMMA OrderHolds ==
    ASSUME Impatient = {}, Malformed = {}, MaxTicks <= ConnTimeout
    PROVE  Spec => [](TInv /\ OInv)
<1>1. ASSUME TInv, TInv', OInv, [Next]_vars PROVE OInv'
  BY <1>1, StepOrder
<1>2. QED
  BY <1>1, InitOrder, TypesHold, PTL DEF Spec

(* What a client receives is the answers to its own requests, in the order  *)
(* of the requests, through partial sends, buffers, files and descriptors   *)
(* used again: when peers close only once answered, no connection lives to  *)
(* its timeout and parse() throws on none, a descriptor is address enough   *)
(* (processPendingWrites, sendResponse, sendFileChunked, handleWrite).      *)
THEOREM AnswersOrdered ==
    ASSUME Impatient = {}, Malformed = {}, MaxTicks <= ConnTimeout
    PROVE  Spec => []AnswersInOrder
BY OrderHolds, OrderFollows, PTL

(* Under the same conditions the files open are those being streamed.       *)
THEOREM FilesClosed ==
    ASSUME Impatient = {}, Malformed = {}, MaxTicks <= ConnTimeout
    PROVE  Spec => []NoFileLeak
BY OrderHolds, OrderFollows, PTL
-----------------------------------------------------------------------------
(* Answers that reach a peer they are not for, whenever peers leave and     *)
(* connections time out.                                                    *)
(*                                                                         *)
(* The connections that ended after their peer had begun a request          *)
(* (Departed) may each have left a job, a worker or a response on their     *)
(* descriptor.                                                              *)
Disturbed(c) == Departed \ {c} # {}

(* What is read from a descriptor and not taken yet, and the units that are *)
(* with c or will be sent to it.                                            *)
Members(s) == {s[i] : i \in DOMAIN s}
Buf(f) == IF conn[f] = NoConn THEN <<>> ELSE conn[f].rbuf
Kept(f) == IF conn[f] = NoConn THEN {} ELSE Members(conn[f].wbuf) \cup Members(conn[f].stream)
InHand(c) == Members(client[c].got) \cup Members(snd[c]) \cup UNION {Kept(f) : f \in FdsOf(c)}

(* The calls of the handlers, under way or answered: the descriptor, and    *)
(* whose request it is; NoClient, when what was taken is no request.        *)
CallOf(r) == [fd |-> r.fd, c |-> r.c, n |-> r.n]
WorkerCall(w) ==
    LET data == worker[w].data
    IN  [fd |-> worker[w].fd,
         c |-> IF Parses(data) THEN data[1].c ELSE NoClient,
         n |-> IF Parses(data) THEN data[1].s \div Segments + 1 ELSE 0]
Calls == {CallOf(r) : r \in Members(pending) \cup Members(writes)}
         \cup {WorkerCall(w) : w \in {x \in Workers : worker[x].pc = "run"}}

(* A client has at most one socket, and none before it is accepted.         *)
OneSocket == \A f \in Fds : sock[f] # NoClient =>
    /\ sock[f] \notin backlog /\ client[sock[f]].st # "idle"
    /\ \A g \in Fds : sock[g] = sock[f] => g = f
Untouched(c) == /\ client[c].got = <<>> /\ snd[c] = <<>>
                /\ client[c].sent = Len(rcv[c]) /\ Part(c, 0, rcv[c])
NotAccepted == \A c \in Clients :
    /\ client[c].st = "idle" => c \notin backlog /\ client[c].sent = 0
    /\ client[c].st = "idle" \/ c \in backlog => Untouched(c)

(* Requests are read from the connection of who sent them.                  *)
Sender(c, s) == s # <<>> => client[c].sent > 0 /\ \A x \in Members(s) : x.c = c
Senders == /\ \A c \in Clients : Sender(c, rcv[c])
           /\ \A f \in Fds : sock[f] # NoClient => Sender(sock[f], Buf(f))

(* What is out of place is of a connection that ended, or was taken when    *)
(* one had.                                                                 *)
Astray(c, u) == u.c # c => \E d \in Departed \ {c} : u.c \in {d, NoClient}
Strays == \A c \in Clients : \A u \in InHand(c) : Astray(c, u)
Addressed(k) ==
    /\ k.c # NoClient => client[k.c].sent > 0 /\ (sock[k.fd] = k.c \/ k.c \in Departed)
    /\ k.c = NoClient => Departed # {}
Addresses == \A k \in Calls : Addressed(k)
JobsOwned == \A f \in Fds : jobs[f] > 0 =>
    \/ Departed # {}
    \/ sock[f] # NoClient /\ client[sock[f]].sent > 0

(* As long as no other connection ended so, the requests of a client are    *)
(* told apart: what was read and what is to be read of it is the one that   *)
(* is not taken yet, and all answers are to earlier ones.                   *)
Settled(f) == client[sock[f]].sent - Len(Buf(f) \o rcv[sock[f]])
AtCheck(f) == loop.pc = "check" /\ loop.fd = f
Neat(f) ==
    LET c == sock[f]
        m == Settled(f)
    IN  /\ m \in Nat /\ m % Segments = 0
        /\ Part(c, m, Buf(f) \o rcv[c])
        /\ jobs[f] > 0 => /\ jobs[f] = 1 /\ rcv[c] = <<>> /\ Len(Buf(f)) = Segments
                          /\ ~AtCheck(f)
        /\ \A u \in InHand(c) : u.n * Segments <= m
        /\ \A k \in Calls : k.c = c => k.n * Segments <= m
Undisturbed == \A f \in Fds : sock[f] # NoClient /\ ~Disturbed(sock[f]) => Neat(f)

SInv == /\ OneSocket /\ NotAccepted /\ Senders
        /\ Strays /\ Addresses /\ JobsOwned /\ Undisturbed

(* What a client may have in hand after a step: what it had, and the        *)
(* answers to calls on its descriptor.                                      *)
Sources(c) == InHand(c) \cup {u \in UnitType : \E k \in Calls :
                                 sock[k.fd] = c /\ u.c = k.c /\ u.n = k.n}

LEMMA HandFrom ==
    ASSUME NEW c, NEW S, Members(client[c].got) \subseteq S, Members(snd[c]) \subseteq S,
           \A f \in Fds : sock[f] = c => Kept(f) \subseteq S
    PROVE  InHand(c) \subseteq S
  BY DEF InHand, FdsOf

LEMMA HandHas ==
    ASSUME NEW c
    PROVE  /\ Members(client[c].got) \subseteq InHand(c) /\ Members(snd[c]) \subseteq InHand(c)
           /\ \A f \in Fds : sock[f] = c => Kept(f) \subseteq InHand(c)
           /\ InHand(c) \subseteq Sources(c)
  BY DEF InHand, FdsOf, Sources

LEMMA NothingInHand ==
    ASSUME NEW s, s \in Seq(UnitType) PROVE Members(s) = {} <=> s = <<>>
<1>1. CASE s = <<>>
  BY <1>1 DEF Members
<1>2. CASE s # <<>>
  <2>1. 1 \in DOMAIN s
    BY <1>2
  <2>2. QED
    BY <1>2, <2>1 DEF Members
<1>3. QED
  BY <1>1, <1>2

(* A socket that is there belongs to a client that has not departed.        *)
LEMMA Present ==
    ASSUME TInv, NEW f \in Fds, sock[f] # NoClient
    PROVE  sock[f] \in Clients /\ sock[f] \notin Departed
<1>1. sock[f] \in Clients
  BY DEF TInv, SocketsOK
<1>2. f \in FdsOf(sock[f])
  BY DEF FdsOf
<1>3. QED
  BY <1>1, <1>2 DEF Departed, Disconnected

(* On the descriptor of an undisturbed client there are no calls but its    *)
(* own.                                                                     *)
LEMMA OwnCall ==
    ASSUME TInv, SInv, NEW k \in Calls, sock[k.fd] # NoClient, k.fd \in Fds,
           ~Disturbed(sock[k.fd])
    PROVE  k.c = sock[k.fd]
<1>1. Addressed(k)
  BY DEF SInv, Addresses
<1>2. sock[k.fd] \notin Departed
  BY Present
<1>3. QED
  BY <1>1, <1>2 DEF Addressed, Disturbed

LEMMA CallsTyped ==
    ASSUME TInv, NEW k \in Calls
    PROVE  k.fd \in Fds /\ k.c \in Clients \cup {NoClient} /\ k.n \in Nat
<1>1. ASSUME NEW s \in Seq(ResponseType), NEW r \in Members(s)
      PROVE  r.fd \in Fds /\ r.c \in Clients \cup {NoClient} /\ r.n \in Nat
  <2>1. r \in ResponseType
    BY <1>1 DEF Members
  <2>2. QED
    BY <2>1 DEF ResponseType
<1>2. ASSUME NEW r \in Members(pending) \cup Members(writes), k = CallOf(r)
      PROVE  k.fd \in Fds /\ k.c \in Clients \cup {NoClient} /\ k.n \in Nat
  BY <1>1, <1>2 DEF CallOf, TInv, PoolOK
<1>3. ASSUME NEW w \in Workers, worker[w].pc = "run", k = WorkerCall(w)
      PROVE  k.fd \in Fds /\ k.c \in Clients \cup {NoClient} /\ k.n \in Nat
  <2>1. PICK data : data = worker[w].data
    OBVIOUS
  <2>2. worker[w].fd \in Fds /\ data \in Seq(Segment)
    BY <1>3, <2>1 DEF TInv, PoolOK, WorkerType
  <2>3. CASE Parses(data)
    <3>1. data[1] \in Segment
      BY <2>2, <2>3, SizesAssumption DEF Parses
    <3>2. data[1].c \in Clients /\ data[1].s \div Segments + 1 \in Nat
      BY <3>1, SizesAssumption DEF Segment
    <3>3. QED
      BY <1>3, <2>1, <2>2, <2>3, <3>2 DEF WorkerCall
  <2>4. CASE ~Parses(data)
    BY <1>3, <2>1, <2>2, <2>4 DEF WorkerCall
  <2>5. QED
    BY <2>3, <2>4
<1>4. QED
  BY <1>2, <1>3 DEF Calls

LEMMA UntouchedSame ==
    ASSUME TInv, TInv', NEW c \in Clients, Untouched(c), \A f \in Fds : sock[f] # c,
           client'[c].sent = client[c].sent, rcv'[c] = rcv[c], InHand(c)' \subseteq Sources(c),
           \A k \in Calls : k.fd \in Fds
    PROVE  Untouched(c)'
<1>1. InHand(c) = {}
  <2>1. Members(client[c].got) = {} /\ Members(snd[c]) = {}
    BY DEF Members, Untouched
  <2>2. QED
    BY <2>1, HandFrom
<1>2. Sources(c) = {}
  BY <1>1 DEF Sources
<1>3. Members(client'[c].got) = {} /\ Members(snd'[c]) = {}
  BY <1>2 DEF InHand
<1>4. client'[c].got \in Seq(UnitType) /\ snd'[c] \in Seq(UnitType)
  BY DEF TInv, PeersOK
<1>5. client'[c].got = <<>> /\ snd'[c] = <<>>
  BY <1>3, <1>4, NothingInHand
<1>6. QED
  BY <1>5 DEF Untouched

(* A step that closes the descriptors in fs, moves units to the clients     *)
(* they are for and finishes calls keeps the invariant.                     *)
LEMMA StrayFrame ==
    ASSUME TInv, TInv', SInv, NEW fs \in SUBSET Fds,
           \A f \in Fds : sock'[f] = IF f \in fs THEN NoClient ELSE sock[f],
           backlog' = backlog, rcv' = rcv, jobs' = jobs,
           \A c \in Clients : /\ client'[c].sent = client[c].sent
                              /\ client'[c].st = "idle" <=> client[c].st = "idle",
           \A f \in Fds : f \notin fs => Buf(f)' = Buf(f),
           \A f \in Fds : AtCheck(f)' => AtCheck(f),
           \A c \in Clients : InHand(c)' \subseteq Sources(c),
           Calls' \subseteq Calls
    PROVE  SInv'
<1>1. \A f \in Fds : sock'[f] # NoClient => f \notin fs /\ sock'[f] = sock[f]
  OBVIOUS
<1>2. \A c \in Clients : c # NoClient
  BY ClientsAssumption
<1>3. Departed \subseteq Departed'
  BY <1>1, <1>2 DEF Departed, Disconnected, FdsOf
<1>4. ASSUME NEW f \in fs, sock[f] # NoClient, client[sock[f]].sent > 0
      PROVE  sock[f] \in Departed'
  <2>1. sock[f] \in Clients /\ sock[f] \notin backlog /\ \A g \in Fds : sock[g] = sock[f] => g = f
    BY <1>4, Present DEF SInv, OneSocket
  <2>2. \A g \in Fds : sock'[g] # sock[f]
    BY <1>1, <1>4, <2>1
  <2>3. QED
    BY <1>4, <2>1, <2>2 DEF Departed, Disconnected, FdsOf
<1>5. \A c : Disturbed(c) => Disturbed(c)'
  BY <1>3 DEF Disturbed
<1>6. \A k \in Calls : k.fd \in Fds /\ k.c \in Clients \cup {NoClient} /\ k.n \in Nat
  BY CallsTyped
<1>7. OneSocket'
  <2>1. SUFFICES ASSUME NEW f \in Fds, sock'[f] # NoClient
                 PROVE  /\ sock'[f] \notin backlog' /\ client'[sock'[f]].st # "idle"
                        /\ \A g \in Fds : sock'[g] = sock'[f] => g = f
    BY DEF OneSocket
  <2>2. sock'[f] = sock[f] /\ sock[f] \in Clients
    BY <1>1, <2>1, Present
  <2>3. QED
    BY <1>1, <2>1, <2>2 DEF SInv, OneSocket
<1>8. NotAccepted'
  <2>1. SUFFICES ASSUME NEW c \in Clients
                 PROVE  /\ client'[c].st = "idle" => c \notin backlog' /\ client'[c].sent = 0
                        /\ client'[c].st = "idle" \/ c \in backlog' => Untouched(c)'
    BY DEF NotAccepted
  <2>2. /\ client[c].st = "idle" => c \notin backlog /\ client[c].sent = 0
        /\ client[c].st = "idle" \/ c \in backlog =>
              Untouched(c) /\ \A f \in Fds : sock[f] # c
    BY <1>2 DEF SInv, NotAccepted, OneSocket
  <2>3. client[c].st = "idle" \/ c \in backlog => Untouched(c)'
    BY <1>6, <2>2, UntouchedSame
  <2>4. QED
    BY <2>2, <2>3
<1>9. Senders'
  <2>1. \A c \in Clients : Sender(c, rcv[c])'
    BY DEF SInv, Senders, Sender
  <2>2. ASSUME NEW f \in Fds, sock'[f] # NoClient PROVE Sender(sock[f], Buf(f))'
    <3>1. sock'[f] = sock[f] /\ Buf(f)' = Buf(f) /\ sock[f] \in Clients
      BY <1>1, <2>2, Present
    <3>2. QED
      BY <2>2, <3>1 DEF SInv, Senders, Sender
  <2>3. QED
    BY <2>1, <2>2 DEF Senders
<1>10. ASSUME NEW c \in Clients, NEW u \in Sources(c) PROVE Astray(c, u)'
  <2>1. CASE u \in InHand(c)
    BY <1>3, <2>1 DEF SInv, Strays, Astray
  <2>2. ASSUME NEW k \in Calls, sock[k.fd] = c, u.c = k.c PROVE Astray(c, u)'
    <3>1. Addressed(k) /\ c \notin Departed
      BY <1>2, <1>6, <2>2, Present DEF SInv, Addresses
    <3>2. QED
      BY <1>3, <2>2, <3>1 DEF Addressed, Astray
  <2>3. QED
    BY <2>1, <2>2 DEF Sources
<1>11. Strays'
  BY <1>10 DEF Strays
<1>12. Addresses'
  <2>1. SUFFICES ASSUME NEW k \in Calls PROVE Addressed(k)'
    BY DEF Addresses
  <2>2. Addressed(k)
    BY DEF SInv, Addresses
  <2>3. CASE k.c # NoClient
    <3>1. client'[k.c].sent > 0
      BY <1>6, <2>2, <2>3 DEF Addressed
    <3>2. k.c \in Departed => k.c \in Departed'
      BY <1>3
    <3>3. sock[k.fd] = k.c => sock'[k.fd] = k.c \/ k.c \in Departed'
      BY <1>4, <1>6, <2>2, <2>3 DEF Addressed
    <3>4. QED
      BY <2>2, <2>3, <3>1, <3>2, <3>3 DEF Addressed
  <2>4. CASE k.c = NoClient
    BY <1>3, <2>2, <2>4 DEF Addressed
  <2>5. QED
    BY <2>3, <2>4
<1>13. JobsOwned'
  <2>1. SUFFICES ASSUME NEW f \in Fds, jobs'[f] > 0, Departed' = {}
                 PROVE  sock'[f] # NoClient /\ client'[sock'[f]].sent > 0
    BY DEF JobsOwned
  <2>2. sock[f] # NoClient /\ client[sock[f]].sent > 0
    BY <1>3, <2>1 DEF SInv, JobsOwned
  <2>3. f \notin fs /\ sock[f] \in Clients
    BY <1>4, <2>1, <2>2, Present
  <2>4. QED
    BY <2>2, <2>3
<1>14. ASSUME NEW f \in Fds, sock'[f] # NoClient, ~Disturbed(sock[f])' PROVE Neat(f)'
  <2>1. PICK c, m : c = sock[f] /\ m = Settled(f)
    OBVIOUS
  <2>2. sock[f] = c /\ sock'[f] = c /\ c \in Clients /\ c # NoClient /\ f \notin fs
    BY <1>1, <1>14, <2>1, Present
  <2>3. ~Disturbed(c)
    BY <1>3, <1>14, <2>2 DEF Disturbed
  <2>4. Neat(f)
    BY <2>2, <2>3 DEF SInv, Undisturbed
  <2>5. Settled(f)' = m /\ Buf(f)' = Buf(f) /\ (AtCheck(f)' => AtCheck(f))
    BY <2>1, <2>2 DEF Settled
  <2>6. /\ m \in Nat /\ m % Segments = 0
        /\ Part(c, m, Buf(f) \o rcv[c])
        /\ jobs[f] > 0 => /\ jobs[f] = 1 /\ rcv[c] = <<>> /\ Len(Buf(f)) = Segments
                          /\ ~AtCheck(f)
        /\ \A u \in InHand(c) : u.n * Segments <= m
        /\ \A k \in Calls : k.c = c => k.n * Segments <= m
    BY <2>1, <2>4 DEF Neat
  <2>7. \A u \in InHand(c)' : u.n * Segments <= m
    <3>1. ASSUME NEW k \in Calls, sock[k.fd] = c PROVE k.c = c
      BY <1>6, <2>2, <2>3, <3>1, OwnCall
    <3>2. \A u \in Sources(c) : u \in InHand(c) \/ \E k \in Calls : sock[k.fd] = c /\ u.n = k.n
      BY DEF Sources
    <3>3. QED
      BY <2>2, <2>6, <3>1, <3>2
  <2>8. \A k \in Calls' : k.c = c => k.n * Segments <= m
    BY <2>6
  <2>9. QED
    BY <2>2, <2>5, <2>6, <2>7, <2>8 DEF Neat
<1>15. Undisturbed'
  BY <1>14 DEF Undisturbed
<1>16. QED
  BY <1>7, <1>8, <1>9, <1>11, <1>12, <1>13, <1>15 DEF SInv

-----------------------------------------------------------------------------
(* What the parts of sequences have in them.                                *)
LEMMA PartMembers ==
    ASSUME NEW S, NEW s \in Seq(S), NEW t \in Seq(S),
           \A i \in 1 .. Len(t) : \E j \in 1 .. Len(s) : t[i] = s[j]
    PROVE  Members(t) \subseteq Members(s)
  BY DEF Members

LEMMA SliceMembers ==
    ASSUME NEW S, NEW s \in Seq(S), NEW m \in 0 .. Len(s), NEW n \in m .. Len(s)
    PROVE  Members(SubSeq(s, m + 1, n)) \subseteq Members(s)
<1>1. PICK t : t = SubSeq(s, m + 1, n)
  OBVIOUS
<1>2. t \in Seq(S)
  BY <1>1, Cut
<1>3. \A i \in m + 1 .. n : s[i] \in S
  OBVIOUS
<1>4. Len(t) = n - m /\ \A i \in 1 .. n - m : t[i] = s[m + i]
  <2>1. /\ Len(SubSeq(s, m + 1, n)) = IF m + 1 <= n THEN n - (m + 1) + 1 ELSE 0
        /\ \A i \in 1 .. n - (m + 1) + 1 : SubSeq(s, m + 1, n)[i] = s[(m + 1) + i - 1]
    <3>1. m + 1 \in Int /\ n \in Int
      OBVIOUS
    <3>2. QED
      BY <1>3, <3>1, SubSeqProperties
  <2>2. \A i \in 1 .. n - m : (m + 1) + i - 1 = m + i
    OBVIOUS
  <2>3. QED
    BY <1>1, <2>1, <2>2
<1>5. \A i \in 1 .. Len(t) : m + i \in 1 .. Len(s) /\ t[i] = s[m + i]
  BY <1>4
<1>6. \A i \in 1 .. Len(t) : \E j \in 1 .. Len(s) : t[i] = s[j]
  BY <1>5
<1>7. Members(t) \subseteq Members(s)
  BY <1>2, <1>6, PartMembers
<1>8. QED
  BY <1>1, <1>7, Zenon

LEMMA JoinMembers ==
    ASSUME NEW S, NEW a \in Seq(S), NEW b \in Seq(S)
    PROVE  Members(a \o b) = Members(a) \cup Members(b)
<1>1. PICK d : d = a \o b
  OBVIOUS
<1>2. /\ Len(d) = Len(a) + Len(b) /\ Len(a) \in Nat /\ Len(b) \in Nat /\ d \in Seq(S)
      /\ \A i \in 1 .. Len(a) : d[i] = a[i]
      /\ \A i \in 1 .. Len(b) : d[Len(a) + i] = b[i]
  <2>1. /\ a \o b \in Seq(S) /\ Len(a \o b) = Len(a) + Len(b)
        /\ \A i \in 1 .. Len(a) + Len(b) : (a \o b)[i] = IF i <= Len(a) THEN a[i]
                                                         ELSE b[i - Len(a)]
    BY ConcatProperties
  <2>2. QED
    BY <1>1, <2>1
<1>3. Members(d) \subseteq Members(a) \cup Members(b)
  <2>1. ASSUME NEW i \in 1 .. Len(d) PROVE d[i] \in Members(a) \cup Members(b)
    <3>1. CASE i <= Len(a)
      BY <1>2, <2>1, <3>1 DEF Members
    <3>2. CASE ~(i <= Len(a))
      <4>1. PICK j \in 1 .. Len(b) : i = Len(a) + j
        <5>1. i - Len(a) \in 1 .. Len(b) /\ i = Len(a) + (i - Len(a))
          BY <1>2, <2>1, <3>2
        <5>2. QED
          BY <5>1
      <4>2. d[i] = b[j]
        BY <1>2, <4>1
      <4>3. QED
        BY <4>1, <4>2 DEF Members
    <3>3. QED
      BY <3>1, <3>2
  <2>2. QED
    BY <1>2, <2>1 DEF Members
<1>4. Members(a) \subseteq Members(d)
  <2>1. ASSUME NEW i \in 1 .. Len(a) PROVE i \in 1 .. Len(d) /\ a[i] = d[i]
    <3>1. i \in 1 .. Len(d)
      BY <1>2
    <3>2. QED
      BY <1>2, <3>1
  <2>2. QED
    BY <1>2, <2>1, PartMembers
<1>5. Members(b) \subseteq Members(d)
  <2>1. \A i \in 1 .. Len(b) : Len(a) + i \in 1 .. Len(d) /\ b[i] = d[Len(a) + i]
    BY <1>2
  <2>2. QED
    BY <1>2, <2>1, PartMembers
<1>6. QED
  BY <1>1, <1>3, <1>4, <1>5

LEMMA OneMember ==
    ASSUME NEW S, NEW s \in Seq(S), NEW x \in S
    PROVE  Members(Append(s, x)) = Members(s) \cup {x}
<1>1. Append(s, x) = s \o <<x>> /\ <<x>> \in Seq(S)
  BY AppendIsConcat
<1>2. Members(<<x>>) = {x}
  BY DEF Members
<1>3. Members(s \o <<x>>) = Members(s) \cup Members(<<x>>)
  BY <1>1, JoinMembers
<1>4. QED
  BY <1>1, <1>2, <1>3, Zenon

LEMMA EndMembers ==
    ASSUME NEW S, NEW s \in Seq(S), s # <<>>
    PROVE  Head(s) \in Members(s) /\ Members(Tail(s)) \subseteq Members(s)
<1>1. Len(s) \in Nat \ {0} /\ Head(s) = s[1] /\ Tail(s) \in Seq(S)
  BY HeadTailProperties
<1>2. Len(Tail(s)) = Len(s) - 1 /\ \A i \in 1 .. Len(s) - 1 : Tail(s)[i] = s[i + 1]
  BY HeadTailProperties
<1>3. \A i \in 1 .. Len(Tail(s)) : i + 1 \in 1 .. Len(s) /\ Tail(s)[i] = s[i + 1]
  BY <1>1, <1>2
<1>4. QED
  BY <1>1, <1>3, PartMembers DEF Members

(* Calls that are no longer queued.                                         *)
LEMMA CallsFewer ==
    ASSUME worker' = worker,
           Members(pending') \cup Members(writes') \subseteq Members(pending) \cup Members(writes)
    PROVE  Calls' \subseteq Calls
<1>1. \A w \in Workers : WorkerCall(w)' = WorkerCall(w)
  BY DEF WorkerCall
<1>2. QED
  BY <1>1 DEF Calls, CallOf

-----------------------------------------------------------------------------
(* The steps that leave buffers, sockets and jobs alone.                    *)
LEMMA StillStray ==
    ASSUME TInv, TInv', SInv, UNCHANGED <<client, rcv, snd, backlog, sock, jobs>>,
           \A f \in Fds : Buf(f)' = Buf(f) /\ Kept(f)' \subseteq Kept(f),
           \A f \in Fds : AtCheck(f)' => AtCheck(f),
           Calls' \subseteq Calls
    PROVE  SInv'
<1>1. PICK fs \in SUBSET Fds : fs = {}
  OBVIOUS
<1>2. ASSUME NEW c \in Clients PROVE InHand(c)' \subseteq Sources(c)
  <2>1. \A f \in Fds : sock[f] = c => Kept(f)' \subseteq InHand(c)
    BY HandHas
  <2>2. InHand(c)' \subseteq InHand(c)
    BY <2>1, HandHas DEF InHand, FdsOf
  <2>3. QED
    BY <2>2, HandHas
<1>3. \A f \in Fds : sock'[f] = IF f \in fs THEN NoClient ELSE sock[f]
  BY <1>1
<1>4. QED
  BY <1>1, <1>2, <1>3, StrayFrame

LEMMA SameConn ==
    ASSUME NEW f, conn'[f] = conn[f]
    PROVE  Buf(f)' = Buf(f) /\ Kept(f)' = Kept(f)
  BY DEF Buf, Kept

LEMMA NoConnStray ==
    ASSUME TInv, TInv', SInv, UNCHANGED <<client, rcv, snd, backlog, sock, jobs, conn>>,
           \A f \in Fds : AtCheck(f)' => AtCheck(f), Calls' \subseteq Calls
    PROVE  SInv'
<1>1. \A f \in Fds : Buf(f)' = Buf(f) /\ Kept(f)' \subseteq Kept(f)
  BY SameConn
<1>2. QED
  BY <1>1, StillStray

LEMMA MoveStray ==
    ASSUME TInv, TInv', SInv,
           EpollWait \/ BeginAccept \/ EndAccept \/ DrainWakeup \/ TakePending \/ EndDeliver
    PROVE  SInv'
<1>1. UNCHANGED <<client, rcv, snd, backlog, sock, jobs, conn, worker>>
  BY DEF EpollWait, BeginAccept, EndAccept, DrainWakeup, TakePending, EndDeliver,
         kernelVars, sockVars, poolVars
<1>2. loop' = loop \/ loop'.pc # "check"
  BY DEF EpollWait, BeginAccept, EndAccept, DrainWakeup, TakePending, EndDeliver, Done, LoopAt
<1>3. \A f \in Fds : AtCheck(f)' => AtCheck(f)
  BY <1>2 DEF AtCheck
<1>4. Members(pending') \cup Members(writes') \subseteq Members(pending) \cup Members(writes)
  <2>1. CASE TakePending
    BY <2>1 DEF TakePending, Members
  <2>2. CASE ~TakePending
    BY <2>2 DEF EpollWait, BeginAccept, EndAccept, DrainWakeup, EndDeliver, Members
  <2>3. QED
    BY <2>1, <2>2
<1>5. QED
  BY <1>1, <1>3, <1>4, CallsFewer, NoConnStray

LEMMA TimerStray == ASSUME TInv, TInv', SInv, TimerExpires PROVE SInv'
<1>1. /\ UNCHANGED <<client, rcv, snd, backlog, sock, jobs, worker, pending, writes, loop>>
      /\ conn' = [f \in Fds |-> IF conn[f] = NoConn THEN NoConn
                                ELSE [conn[f] EXCEPT !.age = @ + 1]]
  BY DEF TimerExpires, kernelVars, sockVars, poolVars, loopVars
<1>2. ASSUME NEW f \in Fds PROVE Buf(f)' = Buf(f) /\ Kept(f)' \subseteq Kept(f)
  <2>1. CASE conn[f] = NoConn
    <3>1. conn'[f] = conn[f]
      BY <1>1, <2>1
    <3>2. QED
      BY <3>1, SameConn
  <2>2. CASE conn[f] # NoConn
    <3>1. PICK k, j : k = conn[f] /\ j = conn'[f]
      OBVIOUS
    <3>2. k \in ConnType /\ k # NoConn
      BY <2>2, <3>1, ConnectionTyped DEF TInv
    <3>3. j = [k EXCEPT !.age = k.age + 1]
      BY <1>1, <2>2, <3>1
    <3>4. j \in ConnType /\ j.rbuf = k.rbuf /\ j.wbuf = k.wbuf /\ j.stream = k.stream
      BY <3>2, <3>3 DEF ConnType
    <3>5. j # NoConn
      BY <3>4, NoConnAssumption
    <3>6. QED
      BY <3>1, <3>2, <3>4, <3>5 DEF Buf, Kept
  <2>3. QED
    BY <2>1, <2>2
<1>3. \A f \in Fds : AtCheck(f)' => AtCheck(f)
  BY <1>1 DEF AtCheck
<1>4. Calls' \subseteq Calls
  BY <1>1, CallsFewer
<1>5. QED
  BY <1>1, <1>2, <1>3, <1>4, StillStray

LEMMA FreeStray ==
    ASSUME TInv, TInv', SInv, NEW w \in Workers, Signal(w) \/ Throw(w) PROVE SInv'
<1>1. /\ UNCHANGED <<client, rcv, snd, backlog, sock, jobs, conn, pending, writes, loop>>
      /\ worker' = [worker EXCEPT ![w] = Idle]
  BY DEF Signal, Throw, kernelVars, sockVars, loopVars
<1>2. DOMAIN worker = Workers
  BY DEF TInv, PoolOK
<1>3. \A x \in Workers : worker'[x].pc = "run" => worker'[x] = worker[x]
  BY <1>1, <1>2 DEF Idle
<1>4. Calls' \subseteq Calls
  <2>1. \A x \in Workers : worker'[x].pc = "run" =>
            worker[x].pc = "run" /\ WorkerCall(x)' = WorkerCall(x)
    BY <1>3 DEF WorkerCall
  <2>2. QED
    BY <1>1, <2>1 DEF Calls, CallOf
<1>5. \A f \in Fds : AtCheck(f)' => AtCheck(f)
  BY <1>1 DEF AtCheck
<1>6. QED
  BY <1>1, <1>4, <1>5, NoConnStray

(* The response of a worker is its call.                                    *)
LEMMA RespondStray == ASSUME TInv, TInv', SInv, NEW w \in Workers, Respond(w) PROVE SInv'
<1>1. PICK data, kind, r :
        /\ data = worker[w].data /\ kind \in (IF Parses(data) THEN Kinds ELSE {"bad"})
        /\ r = Response(worker[w].fd, data, kind)
        /\ pending' = Append(pending, r)
  BY DEF Respond
<1>2. /\ UNCHANGED <<client, rcv, snd, backlog, sock, jobs, conn, writes, loop>>
      /\ worker[w].pc = "run" /\ worker' = [worker EXCEPT ![w] = [Idle EXCEPT !.pc = "signal"]]
  BY DEF Respond, kernelVars, sockVars, loopVars
<1>3. CallOf(r) = WorkerCall(w)
  <2>1. CASE Parses(data)
    <3>1. kind # "bad"
      BY <1>1, <2>1, KindsAssumption
    <3>2. QED
      BY <1>1, <2>1, <3>1 DEF Response, CallOf, WorkerCall
  <2>2. CASE ~Parses(data)
    <3>1. kind = "bad"
      BY <1>1, <2>2
    <3>2. QED
      BY <1>1, <2>2, <3>1 DEF Response, CallOf, WorkerCall
  <2>3. QED
    BY <2>1, <2>2
<1>4. Members(pending') \subseteq Members(pending) \cup {r}
  <2>1. pending \in Seq(ResponseType) /\ pending' \in Seq(ResponseType)
    BY DEF TInv, PoolOK
  <2>2. Len(pending') = Len(pending) + 1 /\ pending'[Len(pending) + 1] = r
        /\ \A i \in 1 .. Len(pending) : pending'[i] = pending[i]
    BY <1>1, <2>1
  <2>3. \A i \in 1 .. Len(pending') : i \in 1 .. Len(pending) \/ i = Len(pending) + 1
    BY <2>1, <2>2
  <2>4. QED
    BY <2>1, <2>2, <2>3 DEF Members
<1>5. \A x \in Workers : worker'[x].pc = "run" =>
          worker[x].pc = "run" /\ WorkerCall(x)' = WorkerCall(x)
  <2>1. DOMAIN worker = Workers
    BY DEF TInv, PoolOK
  <2>2. \A x \in Workers : worker'[x].pc = "run" => worker'[x] = worker[x]
    BY <1>2, <2>1 DEF Idle
  <2>3. QED
    BY <2>2 DEF WorkerCall
<1>6. Calls' \subseteq Calls
  BY <1>2, <1>3, <1>4, <1>5 DEF Calls, CallOf
<1>7. \A f \in Fds : AtCheck(f)' => AtCheck(f)
  BY <1>2 DEF AtCheck
<1>8. QED
  BY <1>2, <1>6, <1>7, NoConnStray

-----------------------------------------------------------------------------
(* The parts of the invariant that a step leaves alone.                     *)
LEMMA StraysKept ==
    ASSUME Strays, Departed \subseteq Departed', \A c \in Clients : InHand(c)' \subseteq InHand(c)
    PROVE  Strays'
<1>1. ASSUME NEW c \in Clients, NEW u \in InHand(c)' PROVE Astray(c, u)'
  <2>1. Astray(c, u)
    BY <1>1 DEF Strays
  <2>2. QED
    BY <2>1 DEF Astray
<1>2. QED
  BY <1>1 DEF Strays

LEMMA CallKept ==
    ASSUME TInv, Departed \subseteq Departed', NEW k \in Calls, Addressed(k),
           \A c \in Clients : client'[c].sent >= client[c].sent,
           \A c \in Clients : client[c].sent \in Nat /\ client'[c].sent \in Nat,
           \A f \in Fds : sock[f] # NoClient => sock'[f] = sock[f]
    PROVE  Addressed(k)'
<1>1. k.fd \in Fds /\ k.c \in Clients \cup {NoClient}
  BY CallsTyped
<1>2. CASE k.c # NoClient
  <2>1. client'[k.c].sent > 0
    <3>1. k.c \in Clients /\ client[k.c].sent > 0
      BY <1>1, <1>2 DEF Addressed
    <3>2. QED
      BY <3>1
  <2>2. sock[k.fd] = k.c \/ k.c \in Departed
    BY <1>2 DEF Addressed
  <2>3. sock'[k.fd] = k.c \/ k.c \in Departed'
    BY <1>1, <1>2, <2>2
  <2>4. QED
    BY <1>2, <2>1, <2>3 DEF Addressed
<1>3. CASE k.c = NoClient
  BY <1>3 DEF Addressed
<1>4. QED
  BY <1>2, <1>3

LEMMA NeatKept ==
    ASSUME NEW f \in Fds, Neat(f), NEW c, sock[f] = c, sock'[f] = c,
           client'[c].sent = client[c].sent, rcv'[c] = rcv[c], Buf(f)' = Buf(f),
           jobs'[f] = jobs[f], AtCheck(f)' => AtCheck(f), InHand(c)' \subseteq InHand(c),
           \A k \in Calls' : k.c = c => k \in Calls
    PROVE  Neat(f)'
<1>1. PICK m : m = Settled(f)
  OBVIOUS
<1>2. Settled(f)' = m
  BY <1>1 DEF Settled
<1>3. /\ m \in Nat /\ m % Segments = 0
      /\ Part(c, m, Buf(f) \o rcv[c])
      /\ jobs[f] > 0 => /\ jobs[f] = 1 /\ rcv[c] = <<>> /\ Len(Buf(f)) = Segments
                        /\ ~AtCheck(f)
      /\ \A u \in InHand(c) : u.n * Segments <= m
      /\ \A k \in Calls : k.c = c => k.n * Segments <= m
  BY <1>1 DEF Neat
<1>4. /\ \A u \in InHand(c)' : u.n * Segments <= m
      /\ \A k \in Calls' : k.c = c => k.n * Segments <= m
  BY <1>3
<1>5. QED
  BY <1>2, <1>3, <1>4 DEF Neat

LEMMA BufTyped == ASSUME TInv, NEW f \in Fds PROVE Buf(f) \in Seq(Segment)
<1>1. CASE conn[f] = NoConn
  BY <1>1 DEF Buf
<1>2. CASE conn[f] # NoConn
  <2>1. conn[f] \in ConnType
    BY <1>2, ConnectionTyped DEF TInv
  <2>2. QED
    BY <1>2, <2>1 DEF Buf, ConnType
<1>3. QED
  BY <1>1, <1>2

(* The peers.                                                              *)
LEMMA HandSame ==
    ASSUME NEW c, sock' = sock, conn' = conn,
           Members(client'[c].got) \cup Members(snd'[c]) \subseteq InHand(c)
    PROVE  InHand(c)' \subseteq InHand(c)
<1>1. \A f \in Fds : Kept(f)' = Kept(f)
  BY SameConn
<1>2. \A f \in Fds : sock[f] = c => Kept(f)' \subseteq InHand(c)
  BY <1>1, HandHas
<1>3. QED
  BY <1>2 DEF InHand, FdsOf

LEMMA ReadsStray ==
    ASSUME TInv, TInv', SInv, NEW c \in Clients, Receive(c) \/ Leave(c) \/ Reset(c)
    PROVE  SInv'
<1>1. /\ UNCHANGED <<rcv, backlog, sock, jobs, worker, conn, pending, writes, loop>>
      /\ \A d \in Clients \ {c} : client'[d] = client[d] /\ snd'[d] = snd[d]
      /\ client'[c].sent = client[c].sent /\ client[c].st # "idle" /\ client'[c].st # "idle"
  <2>1. client \in [Clients -> [st : {"idle", "open", "closed"}, sent : Nat, got : Seq(UnitType)]]
        /\ snd \in [Clients -> Seq(UnitType)]
    BY DEF TInv, PeersOK
  <2>2. CASE Receive(c)
    BY <2>1, <2>2 DEF Receive, poolVars, loopVars
  <2>3. CASE Leave(c)
    BY <2>1, <2>3 DEF Leave, poolVars, loopVars
  <2>4. CASE Reset(c)
    BY <2>1, <2>4 DEF Reset, poolVars, loopVars
  <2>5. QED
    BY <2>2, <2>3, <2>4
<1>2. Members(client'[c].got) \cup Members(snd'[c]) \subseteq InHand(c)
  <2>1. client \in [Clients -> [st : {"idle", "open", "closed"}, sent : Nat, got : Seq(UnitType)]]
        /\ snd \in [Clients -> Seq(UnitType)]
    BY DEF TInv, PeersOK
  <2>2. PICK g, s : g = client[c].got /\ s = snd[c]
    OBVIOUS
  <2>3. g \in Seq(UnitType) /\ s \in Seq(UnitType)
    BY <2>1, <2>2
  <2>4. Members(g) \subseteq InHand(c) /\ Members(s) \subseteq InHand(c)
    BY <2>2, HandHas
  <2>5. CASE Receive(c)
    <3>1. s # <<>> /\ client'[c].got = Append(g, Head(s)) /\ snd'[c] = Tail(s)
      BY <2>1, <2>2, <2>5 DEF Receive
    <3>2. Head(s) \in UnitType /\ Head(s) \in Members(s) /\ Members(Tail(s)) \subseteq Members(s)
      BY <2>3, <3>1, EndMembers, HeadTailProperties
    <3>3. Members(Append(g, Head(s))) = Members(g) \cup {Head(s)}
      BY <2>3, <3>2, OneMember
    <3>4. QED
      BY <2>4, <3>1, <3>2, <3>3
  <2>6. CASE Leave(c)
    <3>1. client'[c].got = g /\ snd'[c] = s
      BY <2>1, <2>2, <2>6 DEF Leave
    <3>2. QED
      BY <2>4, <3>1
  <2>7. CASE Reset(c)
    <3>1. client'[c].got = g /\ snd'[c] = <<>>
      BY <2>1, <2>2, <2>7 DEF Reset
    <3>2. Members(<<>>) = {}
      BY DEF Members
    <3>3. QED
      BY <2>4, <3>1, <3>2
  <2>8. QED
    BY <2>5, <2>6, <2>7
<1>3. ASSUME NEW d \in Clients PROVE InHand(d)' \subseteq Sources(d)
  <2>1. Members(client'[d].got) \cup Members(snd'[d]) \subseteq InHand(d)
    BY <1>1, <1>2, HandHas
  <2>2. InHand(d)' \subseteq InHand(d)
    BY <1>1, <2>1, HandSame
  <2>3. QED
    BY <2>2, HandHas
<1>4. PICK fs \in SUBSET Fds : fs = {}
  OBVIOUS
<1>5. \A f \in Fds : sock'[f] = IF f \in fs THEN NoClient ELSE sock[f]
  BY <1>1, <1>4
<1>6. \A f \in Fds : Buf(f)' = Buf(f) /\ (AtCheck(f)' => AtCheck(f))
  BY <1>1, SameConn DEF AtCheck
<1>7. Calls' \subseteq Calls
  BY <1>1, CallsFewer
<1>8. \A d \in Clients : /\ client'[d].sent = client[d].sent
                         /\ client'[d].st = "idle" <=> client[d].st = "idle"
  BY <1>1
<1>9. QED
  BY <1>1, <1>3, <1>5, <1>6, <1>7, <1>8, StrayFrame

LEMMA ConnectStray == ASSUME TInv, TInv', SInv, NEW c \in Clients, Connect(c) PROVE SInv'
<1>1. /\ UNCHANGED <<rcv, snd, sock, jobs, worker, conn, pending, writes, loop>>
      /\ backlog' = backlog \cup {c}
      /\ \A d \in Clients \ {c} : client'[d] = client[d]
      /\ client[c].st = "idle" /\ client'[c].st = "open" /\ client'[c].sent = client[c].sent
      /\ client'[c].got = client[c].got
  BY DEF Connect, TInv, PeersOK, sockVars, poolVars, loopVars
<1>2. \A d \in Clients : client'[d].sent = client[d].sent /\ client'[d].got = client[d].got
                         /\ client[d].sent \in Nat
  BY <1>1 DEF TInv, PeersOK
<1>3. c \notin backlog /\ client[c].sent = 0 /\ Untouched(c) /\ \A f \in Fds : sock[f] # c
  <2>1. c # NoClient
    BY ClientsAssumption
  <2>2. QED
    BY <1>1, <2>1 DEF SInv, NotAccepted, OneSocket
<1>4. Departed' = Departed
  BY <1>1, <1>2, <1>3 DEF Departed, Disconnected, FdsOf
<1>5. ASSUME NEW d \in Clients PROVE InHand(d)' \subseteq InHand(d)
  <2>1. Members(client'[d].got) \cup Members(snd'[d]) \subseteq InHand(d)
    BY <1>1, <1>2, HandHas
  <2>2. QED
    BY <1>1, <2>1, HandSame
<1>6. \A f \in Fds : Buf(f)' = Buf(f) /\ (AtCheck(f)' => AtCheck(f))
  BY <1>1, SameConn DEF AtCheck
<1>7. Calls' \subseteq Calls
  BY <1>1, CallsFewer
<1>8. \A f \in Fds : sock[f] # NoClient => sock[f] \in Clients
  BY Present
<1>9. OneSocket'
  <2>1. SUFFICES ASSUME NEW f \in Fds, sock[f] # NoClient
                 PROVE  /\ sock[f] \notin backlog' /\ client'[sock[f]].st # "idle"
                        /\ \A g \in Fds : sock[g] = sock[f] => g = f
    BY <1>1 DEF OneSocket
  <2>2. /\ sock[f] \notin backlog /\ client[sock[f]].st # "idle"
        /\ \A g \in Fds : sock[g] = sock[f] => g = f
    BY <2>1 DEF SInv, OneSocket
  <2>3. QED
    BY <1>1, <1>3, <1>8, <2>1, <2>2
<1>10. NotAccepted'
  <2>1. ASSUME NEW d \in Clients, Untouched(d) PROVE Untouched(d)'
    BY <1>1, <1>2, <2>1 DEF Untouched
  <2>2. QED
    BY <1>1, <1>2, <1>3, <2>1 DEF SInv, NotAccepted
<1>11. Senders'
  BY <1>1, <1>2, <1>6, <1>8 DEF SInv, Senders, Sender
<1>12. Strays'
  BY <1>4, <1>5, StraysKept DEF SInv
<1>13. Addresses'
  BY <1>1, <1>2, <1>4, <1>7, CallKept DEF SInv, Addresses
<1>14. JobsOwned'
  <2>1. ASSUME NEW f \in Fds, jobs[f] > 0
        PROVE  Departed # {} \/ (sock[f] # NoClient /\ client'[sock[f]].sent > 0)
    BY <1>2, <1>8, <2>1 DEF SInv, JobsOwned
  <2>2. QED
    BY <1>1, <1>4, <2>1 DEF JobsOwned
<1>15. Undisturbed'
  <2>1. SUFFICES ASSUME NEW f \in Fds, sock'[f] # NoClient, ~Disturbed(sock[f])' PROVE Neat(f)'
    BY <1>1 DEF Undisturbed
  <2>2. PICK d : d = sock[f]
    OBVIOUS
  <2>3. d \in Clients /\ sock[f] = d /\ sock'[f] = d
    BY <1>1, <1>8, <2>1, <2>2
  <2>4. Neat(f)
    BY <1>1, <1>4, <2>1 DEF SInv, Undisturbed, Disturbed
  <2>5. QED
    BY <1>1, <1>2, <1>5, <1>6, <1>7, <2>3, <2>4, NeatKept
<1>16. QED
  BY <1>9, <1>10, <1>11, <1>12, <1>13, <1>14, <1>15 DEF SInv

(* A client that sends is owed no answer, and its request is not whole.     *)
LEMMA NotWhole ==
    ASSUME NEW c \in Clients, client[c].sent \in Nat, NEW m \in Nat, m % Segments = 0,
           NEW l \in 0 .. Segments, client[c].sent = m + l,
           client[c].sent % Segments # 0 \/ Answered(c),
           \A i \in DOMAIN client[c].got : client[c].got[i].n * Segments <= m
    PROVE  l < Segments
<1>1. SUFFICES ASSUME l = Segments PROVE FALSE
  BY SizesAssumption
<1>2. PICK S \in Nat \ {0} : S = Segments
  BY SizesAssumption
<1>3. PICK q \in Nat : m = q * S
  <2>1. m \div S \in Nat /\ m = S * (m \div S) + (m % S)
    BY <1>2
  <2>2. m = (m \div S) * S
    BY <1>2, <2>1
  <2>3. QED
    BY <2>1, <2>2
<1>4. client[c].sent = (q + 1) * S + 0
  BY <1>1, <1>2, <1>3
<1>5. client[c].sent % S = 0 /\ client[c].sent \div S = q + 1
  <2>1. ((q + 1) * S + 0) % S = 0 /\ ((q + 1) * S + 0) \div S = q + 1
    BY Division
  <2>2. QED
    BY <1>4, <2>1, Zenon
<1>6. client[c].sent # 0
  BY <1>1, <1>2
<1>7. PICK i \in DOMAIN client[c].got : client[c].got[i].n = q + 1
  BY <1>2, <1>5, <1>6 DEF Answered
<1>8. (q + 1) * S <= q * S
  BY <1>2, <1>3, <1>7
<1>9. (q + 1) * S = q * S + S
  OBVIOUS
<1>10. QED
  BY <1>8, <1>9

LEMMA SendStray == ASSUME TInv, TInv', SInv, NEW c \in Clients, SendSegment(c) PROVE SInv'
<1>1. /\ UNCHANGED <<snd, backlog, sock, jobs, worker, conn, pending, writes, loop>>
      /\ \A d \in Clients \ {c} : client'[d] = client[d] /\ rcv'[d] = rcv[d]
      /\ client[c].st = "open" /\ client'[c].st = "open" /\ client'[c].sent = client[c].sent + 1
      /\ client'[c].got = client[c].got
      /\ rcv'[c] = Append(rcv[c], [c |-> c, s |-> client[c].sent])
  BY DEF SendSegment, TInv, PeersOK, poolVars, loopVars
<1>2. \A d \in Clients : /\ client[d].sent \in Nat /\ client'[d].sent \in Nat
                         /\ client'[d].sent >= client[d].sent
                         /\ client'[d].got = client[d].got
                         /\ client'[d].st = "idle" <=> client[d].st = "idle"
  <2>1. \A d \in Clients : client[d].sent \in Nat
    BY DEF TInv, PeersOK
  <2>2. ASSUME NEW d \in Clients \ {c}
        PROVE  client'[d] = client[d] /\ client[d].sent \in Nat
    BY <1>1, <2>1
  <2>3. ASSUME NEW d \in Clients
        PROVE  /\ client[d].sent \in Nat /\ client'[d].sent \in Nat
               /\ client'[d].sent >= client[d].sent
    <3>1. client[d].sent \in Nat
      BY <2>1
    <3>2. client'[d].sent = client[d].sent \/ client'[d].sent = client[d].sent + 1
      BY <1>1
    <3>3. QED
      BY <3>1, <3>2
  <2>4. ASSUME NEW d \in Clients
        PROVE  /\ client'[d].got = client[d].got
               /\ client'[d].st = "idle" <=> client[d].st = "idle"
    BY <1>1
  <2>5. QED
    BY <2>3, <2>4
<1>3. client[c].sent % Segments # 0 \/ Answered(c)
  BY DEF SendSegment
<1>4. Departed \subseteq Departed'
  <2>1. \A d \in Clients : client[d].sent > 0 => client'[d].sent > 0
    BY <1>2
  <2>2. QED
    BY <1>1, <2>1 DEF Departed, Disconnected, FdsOf
<1>5. ASSUME NEW d \in Clients PROVE InHand(d)' \subseteq InHand(d)
  <2>1. Members(client'[d].got) \cup Members(snd'[d]) \subseteq InHand(d)
    BY <1>1, <1>2, HandHas
  <2>2. QED
    BY <1>1, <2>1, HandSame
<1>6. \A f \in Fds : Buf(f)' = Buf(f) /\ (AtCheck(f)' => AtCheck(f))
  BY <1>1, SameConn DEF AtCheck
<1>7. Calls' \subseteq Calls
  BY <1>1, CallsFewer
<1>8. \A f \in Fds : sock[f] # NoClient => sock[f] \in Clients
  BY Present
<1>9. PICK q, x : q = rcv[c] /\ x = [c |-> c, s |-> client[c].sent]
  OBVIOUS
<1>10. q \in Seq(Segment) /\ x \in Segment /\ rcv'[c] = Append(q, x) /\ Len(q) \in Nat
       /\ Len(Append(q, x)) = Len(q) + 1
  <2>1. q \in Seq(Segment)
    BY <1>9 DEF TInv, PeersOK
  <2>2. x \in Segment
    BY <1>2, <1>9 DEF Segment
  <2>3. rcv'[c] = Append(q, x)
    BY <1>1, <1>9
  <2>4. QED
    BY <2>1, <2>2, <2>3, AppendProperties
<1>11. OneSocket'
  BY <1>1, <1>2, <1>8 DEF SInv, OneSocket
<1>12. NotAccepted'
  <2>1. ASSUME c \in backlog PROVE Untouched(c)'
    <3>1. client[c].got = <<>> /\ snd[c] = <<>> /\ client[c].sent = Len(q) /\ Part(c, 0, q)
      BY <1>9, <2>1 DEF SInv, NotAccepted, Untouched
    <3>2. Len(q) \in 0 .. Segments /\ 0 % Segments = 0
      <4>1. (0 * Segments + 0) % Segments = 0
        BY Division, SizesAssumption
      <4>2. QED
        BY <1>10, <3>1, <4>1, SizesAssumption DEF Part
    <3>3. \A i \in DOMAIN client[c].got : client[c].got[i].n * Segments <= 0
      BY <3>1
    <3>4. client[c].sent = 0 + Len(q)
      BY <1>10, <3>1
    <3>5. Len(q) < Segments
      BY <1>2, <1>3, <3>2, <3>3, <3>4, NotWhole
    <3>6. Part(c, 0, Append(q, [c |-> c, s |-> 0 + Len(q)]))
      BY <1>10, <3>1, <3>5, PartGrows
    <3>7. Part(c, 0, Append(q, x))
      BY <1>9, <3>4, <3>6, Zenon
    <3>8. QED
      BY <1>1, <1>10, <3>1, <3>7 DEF Untouched
  <2>2. ASSUME NEW d \in Clients \ {c}, Untouched(d) PROVE Untouched(d)'
    BY <1>1, <2>2 DEF Untouched
  <2>3. QED
    BY <1>1, <2>1, <2>2 DEF SInv, NotAccepted
<1>13. Senders'
  <2>1. Sender(c, rcv[c])'
    <3>1. Members(Append(q, x)) = Members(q) \cup {x}
      BY <1>10, OneMember
    <3>2. q # <<>> => \A y \in Members(q) : y.c = c
      BY <1>9 DEF SInv, Senders, Sender
    <3>3. q = <<>> => Members(q) = {}
      BY DEF Members
    <3>4. x.c = c /\ client'[c].sent > 0
      BY <1>1, <1>2, <1>9
    <3>5. QED
      BY <1>10, <3>1, <3>2, <3>3, <3>4 DEF Sender
  <2>2. ASSUME NEW d \in Clients, NEW s, Sender(d, s)
        PROVE  s # <<>> => client'[d].sent > 0 /\ \A y \in Members(s) : y.c = d
    BY <1>2, <2>2 DEF Sender
  <2>3. ASSUME NEW d \in Clients \ {c} PROVE Sender(d, rcv[d])'
    BY <1>1, <2>2 DEF SInv, Senders, Sender
  <2>4. ASSUME NEW f \in Fds, sock[f] # NoClient PROVE Sender(sock[f], Buf(f))'
    <3>1. sock[f] \in Clients /\ Sender(sock[f], Buf(f)) /\ sock'[f] = sock[f]
          /\ Buf(f)' = Buf(f)
      BY <1>1, <1>6, <1>8, <2>4 DEF SInv, Senders
    <3>2. QED
      BY <2>2, <3>1 DEF Sender
  <2>5. QED
    BY <1>1, <2>1, <2>3, <2>4 DEF Senders
<1>14. Strays'
  BY <1>4, <1>5, StraysKept DEF SInv
<1>15. Addresses'
  BY <1>1, <1>2, <1>4, <1>7, CallKept DEF SInv, Addresses
<1>16. JobsOwned'
  <2>1. ASSUME NEW f \in Fds, jobs[f] > 0
        PROVE  Departed' # {} \/ (sock[f] # NoClient /\ client'[sock[f]].sent > 0)
    <3>1. sock[f] # NoClient /\ client[sock[f]].sent > 0 => client'[sock[f]].sent > 0
      BY <1>2, <1>8
    <3>2. QED
      BY <1>4, <2>1, <3>1 DEF SInv, JobsOwned
  <2>2. QED
    BY <1>1, <2>1 DEF JobsOwned
<1>17. ASSUME NEW f \in Fds, sock[f] = c, Neat(f) PROVE Neat(f)'
  <2>1. PICK b, m, a : b = Buf(f) /\ m = Settled(f) /\ a = b \o q
    OBVIOUS
  <2>2. b \in Seq(Segment) /\ a \in Seq(Segment) /\ Len(a) = Len(b) + Len(q) /\ Len(b) \in Nat
        /\ Len(a) \in Nat
    BY <1>10, <2>1, BufTyped
  <2>3. /\ m \in Nat /\ m % Segments = 0 /\ Part(c, m, a)
        /\ jobs[f] > 0 => q = <<>> /\ Len(b) = Segments
        /\ \A u \in InHand(c) : u.n * Segments <= m
        /\ \A k \in Calls : k.c = c => k.n * Segments <= m
    BY <1>9, <1>17, <2>1 DEF Neat
  <2>4. client[c].sent = m + Len(a)
    <3>1. m = client[c].sent - Len(a)
      BY <1>9, <1>17, <2>1 DEF Settled
    <3>2. QED
      BY <1>2, <2>2, <3>1
  <2>5. Len(a) < Segments
    <3>1. \A i \in DOMAIN client[c].got : client[c].got[i] \in InHand(c)
      BY HandHas DEF Members
    <3>2. Len(a) \in 0 .. Segments
      BY <2>2, <2>3, SizesAssumption DEF Part
    <3>3. QED
      BY <1>2, <1>3, <2>3, <2>4, <3>1, <3>2, NotWhole
  <2>6. Part(c, m, Append(a, x))
    <3>1. Part(c, m, Append(a, [c |-> c, s |-> m + Len(a)]))
      BY <2>2, <2>3, <2>5, PartGrows
    <3>2. QED
      BY <1>9, <2>4, <3>1, Zenon
  <2>7. b \o Append(q, x) = Append(a, x)
    <3>1. (b \o q) \o <<x>> = b \o (q \o <<x>>)
      <4>1. <<x>> \in Seq(Segment)
        BY <1>10
      <4>2. QED
        BY <1>10, <2>2, <4>1, ConcatAssociative
    <3>2. Append(q, x) = q \o <<x>> /\ Append(a, x) = a \o <<x>>
      BY <1>10, <2>2, AppendIsConcat
    <3>3. QED
      BY <2>1, <3>1, <3>2, Zenon
  <2>8. (Buf(f) \o rcv[sock[f]])' = Append(a, x)
    <3>1. Buf(f)' = b /\ sock'[f] = c /\ rcv'[c] = Append(q, x)
      BY <1>1, <1>6, <1>10, <1>17, <2>1
    <3>2. QED
      BY <2>7, <3>1
  <2>9. Settled(f)' = m
    <3>1. Len(Append(a, x)) = Len(a) + 1
      BY <1>10, <2>2
    <3>2. client'[c].sent - Len(Append(a, x)) = m
      BY <1>1, <2>2, <2>3, <2>4, <3>1
    <3>3. QED
      BY <1>1, <1>17, <2>8, <3>2 DEF Settled
  <2>10. jobs[f] \in Nat /\ ~(jobs[f] > 0)
    <3>1. jobs[f] > 0 => Len(a) >= Segments
      BY <2>2, <2>3, <1>10
    <3>2. QED
      BY <2>2, <2>5, <3>1, SizesAssumption DEF TInv, PoolOK
  <2>11. /\ \A u \in InHand(c)' : u.n * Segments <= m
         /\ \A k \in Calls' : k.c = c => k.n * Segments <= m
    BY <1>5, <1>7, <2>3
  <2>12. sock'[f] = c /\ jobs'[f] = jobs[f]
    BY <1>1, <1>17
  <2>13. QED
    BY <2>3, <2>6, <2>8, <2>9, <2>10, <2>11, <2>12 DEF Neat
<1>18. Undisturbed'
  <2>1. SUFFICES ASSUME NEW f \in Fds, sock'[f] # NoClient, ~Disturbed(sock[f])' PROVE Neat(f)'
    BY <1>1 DEF Undisturbed
  <2>2. PICK d : d = sock[f]
    OBVIOUS
  <2>3. d \in Clients /\ sock[f] = d /\ sock'[f] = d
    BY <1>1, <1>8, <2>1, <2>2
  <2>4. Neat(f)
    BY <1>1, <1>4, <2>1 DEF SInv, Undisturbed, Disturbed
  <2>5. CASE d # c
    BY <1>1, <1>2, <1>5, <1>6, <1>7, <2>3, <2>4, <2>5, NeatKept
  <2>6. QED
    BY <1>17, <2>3, <2>4, <2>5
<1>19. QED
  BY <1>11, <1>12, <1>13, <1>14, <1>15, <1>16, <1>18 DEF SInv

-----------------------------------------------------------------------------
(* Sending on f: what goes out, or is kept for later, was kept there or     *)
(* answers a call on f; or f is closed.                                     *)
Ours(f) == Kept(f) \cup {u \in UnitType : \E k \in Calls : k.fd = f /\ u.c = k.c /\ u.n = k.n}
Hands(f) ==
    /\ UNCHANGED <<rcv, backlog>>
    /\ \A c \in Clients : Members(snd'[c]) \subseteq
                             Members(snd[c]) \cup (IF c = sock[f] THEN Ours(f) ELSE {})
    /\ \A g \in Fds \ {f} : sock'[g] = sock[g] /\ conn'[g] = conn[g]
    /\ \/ sock'[f] = NoClient
       \/ sock'[f] = sock[f] /\ Buf(f)' = Buf(f) /\ Kept(f)' \subseteq Ours(f)

LEMMA HandsStray ==
    ASSUME TInv, TInv', SInv, NEW f \in Fds, Hands(f), UNCHANGED <<client, jobs>>,
           \A g \in Fds : AtCheck(g)' => AtCheck(g), Calls' \subseteq Calls
    PROVE  SInv'
<1>1. PICK fs \in SUBSET Fds : /\ \A g \in Fds : sock'[g] = IF g \in fs THEN NoClient ELSE sock[g]
                               /\ fs \subseteq {f}
                               /\ f \notin fs => Buf(f)' = Buf(f) /\ Kept(f)' \subseteq Ours(f)
                                                 /\ sock'[f] = sock[f]
  <2>1. CASE sock'[f] = NoClient
    <3>1. \A g \in Fds : sock'[g] = IF g \in {f} THEN NoClient ELSE sock[g]
      BY <2>1 DEF Hands
    <3>2. QED
      BY <3>1
  <2>2. CASE sock'[f] = sock[f] /\ Buf(f)' = Buf(f) /\ Kept(f)' \subseteq Ours(f)
    <3>1. PICK e \in SUBSET Fds : e = {}
      OBVIOUS
    <3>2. \A g \in Fds : sock'[g] = sock[g]
      BY <2>2 DEF Hands
    <3>3. /\ \A g \in Fds : sock'[g] = IF g \in e THEN NoClient ELSE sock[g]
          /\ e \subseteq {f}
      BY <3>1, <3>2
    <3>4. QED
      BY <2>2, <3>3
  <2>3. QED
    BY <2>1, <2>2 DEF Hands
<1>2. \A c \in Clients : c # NoClient
  BY ClientsAssumption
<1>3. ASSUME NEW c \in Clients, sock[f] = c PROVE Ours(f) \subseteq Sources(c)
  <2>1. Kept(f) \subseteq InHand(c)
    BY <1>3, HandHas
  <2>2. QED
    BY <1>3, <2>1 DEF Ours, Sources
<1>4. ASSUME NEW c \in Clients PROVE InHand(c)' \subseteq Sources(c)
  <2>1. Members(client'[c].got) \subseteq Sources(c)
    BY HandHas
  <2>2. Members(snd'[c]) \subseteq Sources(c)
    <3>1. Members(snd[c]) \subseteq Sources(c)
      BY HandHas
    <3>2. Members(snd'[c]) \subseteq Members(snd[c]) \cup (IF c = sock[f] THEN Ours(f) ELSE {})
      BY DEF Hands
    <3>3. QED
      BY <1>3, <3>1, <3>2
  <2>3. ASSUME NEW g \in Fds, sock'[g] = c PROVE Kept(g)' \subseteq Sources(c)
    <3>1. g \notin fs /\ sock[g] = c
      BY <1>1, <1>2, <2>3
    <3>2. CASE g = f
      BY <1>1, <1>3, <3>1, <3>2
    <3>3. CASE g # f
      <4>1. Kept(g)' = Kept(g)
        BY <3>3, SameConn DEF Hands
      <4>2. QED
        BY <3>1, <4>1, HandHas
    <3>4. QED
      BY <3>2, <3>3
  <2>4. QED
    BY <2>1, <2>2, <2>3 DEF InHand, FdsOf
<1>5. ASSUME NEW g \in Fds, g \notin fs PROVE Buf(g)' = Buf(g)
  <2>1. CASE g = f
    BY <1>1, <1>5, <2>1
  <2>2. CASE g # f
    BY <2>2, SameConn DEF Hands
  <2>3. QED
    BY <2>1, <2>2
<1>6. backlog' = backlog /\ rcv' = rcv
  BY DEF Hands
<1>7. QED
  BY <1>1, <1>4, <1>5, <1>6, StrayFrame

LEMMA EraseHands ==
    ASSUME TInv, NEW f \in Fds, Erase({f}), UNCHANGED <<rcv, snd, backlog>>
    PROVE  Hands(f)
  BY DEF Erase, CloseSock, Hands, TInv, SocketsOK

LEMMA StepBack ==
    ASSUME UNCHANGED <<worker, pending>>, loop' = loop \/ loop'.pc # "check",
           Members(writes') \subseteq Members(writes)
    PROVE  Calls' \subseteq Calls /\ \A f \in Fds : AtCheck(f)' => AtCheck(f)
<1>1. Calls' \subseteq Calls
  BY CallsFewer
<1>2. QED
  BY <1>1 DEF AtCheck

LEMMA CloseStray ==
    ASSUME TInv, TInv', SInv, NEW fs \in SUBSET Fds, Erase(fs),
           UNCHANGED <<client, kernelVars, poolVars, loop, writes, pending>>
    PROVE  SInv'
<1>1. /\ UNCHANGED <<client, rcv, snd, backlog, jobs>>
      /\ \A f \in Fds : sock'[f] = IF f \in fs THEN NoClient ELSE sock[f]
      /\ \A f \in Fds : f \notin fs => conn'[f] = conn[f]
  BY DEF Erase, CloseSock, kernelVars, poolVars
<1>2. Calls' \subseteq Calls /\ \A f \in Fds : AtCheck(f)' => AtCheck(f)
  <2>1. UNCHANGED <<worker, pending, loop>> /\ Members(writes') \subseteq Members(writes)
    BY DEF poolVars
  <2>2. QED
    BY <2>1, StepBack
<1>3. ASSUME NEW c \in Clients PROVE InHand(c)' \subseteq Sources(c)
  <2>1. c # NoClient
    BY ClientsAssumption
  <2>2. \A f \in Fds : sock'[f] = c => f \notin fs /\ sock[f] = c
    BY <1>1, <2>1
  <2>3. \A f \in Fds : sock'[f] = c => Kept(f)' \subseteq InHand(c)
    BY <1>1, <2>2, SameConn, HandHas
  <2>4. InHand(c)' \subseteq InHand(c)
    BY <1>1, <2>3, HandHas DEF InHand, FdsOf
  <2>5. QED
    BY <2>4, HandHas
<1>4. \A f \in Fds : f \notin fs => Buf(f)' = Buf(f)
  BY <1>1, SameConn
<1>5. QED
  BY <1>1, <1>2, <1>3, <1>4, StrayFrame

LEMMA EndStray ==
    ASSUME TInv, TInv', SInv, CleanupTimeouts \/ (\E f \in Fds, ev \in SocketEvents : HandleError(f, ev))
    PROVE  SInv'
<1>1. CASE CleanupTimeouts
  <2>1. PICK fs \in SUBSET Fds : Erase(fs)
    BY <1>1 DEF CleanupTimeouts
  <2>2. QED
    BY <1>1, <2>1, CloseStray DEF CleanupTimeouts
<1>2. CASE \E f \in Fds, ev \in SocketEvents : HandleError(f, ev)
  <2>1. PICK fs \in SUBSET Fds : /\ Erase(fs)
                                 /\ UNCHANGED <<client, kernelVars, poolVars, loop, writes, pending>>
    BY <1>2 DEF HandleError
  <2>2. QED
    BY <2>1, CloseStray
<1>3. QED
  BY <1>1, <1>2

-----------------------------------------------------------------------------
(* What goes out, and what is kept, is what there was to send.              *)
LEMMA KeptOurs ==
    ASSUME TInv, NEW f \in Fds, conn[f] # NoConn
    PROVE  /\ Members(conn[f].wbuf) \subseteq Ours(f) /\ Members(conn[f].stream) \subseteq Ours(f)
           /\ sock[f] \in Clients /\ conn[f] \in ConnType
           /\ conn[f].wbuf \in Seq(UnitType) /\ conn[f].stream \in Seq(UnitType)
<1>1. sock[f] \in Clients /\ conn[f] \in ConnType
  BY ConnectionTyped DEF TInv
<1>2. QED
  BY <1>1 DEF Kept, Ours, ConnType

(* What is cut from a sequence, from the front or from behind.              *)
LEMMA PartsOf ==
    ASSUME NEW s \in Seq(UnitType), NEW n \in 0 .. Len(s)
    PROVE  /\ SubSeq(s, 1, n) \in Seq(UnitType) /\ Drop(s, n) \in Seq(UnitType)
           /\ Members(SubSeq(s, 1, n)) \subseteq Members(s)
           /\ Members(Drop(s, n)) \subseteq Members(s)
<1>1. 0 \in 0 .. Len(s) /\ Len(s) \in n .. Len(s) /\ 0 + 1 = 1
  OBVIOUS
<1>2. /\ Members(SubSeq(s, 0 + 1, n)) \subseteq Members(s)
      /\ Members(SubSeq(s, n + 1, Len(s))) \subseteq Members(s)
  BY <1>1, SliceMembers
<1>3. SubSeq(s, 1, n) \in Seq(UnitType) /\ Drop(s, n) \in Seq(UnitType)
  BY PrefixTyped, DropTyped
<1>4. QED
  BY <1>1, <1>2, <1>3, Zenon DEF Drop

(* A step that sends on the socket of f and moves no other connection.      *)
Passes(f) ==
    /\ UNCHANGED <<rcv, rst, backlog, sock>>
    /\ \A d \in Clients : d # sock[f] => snd'[d] = snd[d]
    /\ \A g \in Fds \ {f} : conn'[g] = conn[g]
    /\ conn'[f] # NoConn /\ Buf(f)' = Buf(f)
SameStream(f) == /\ conn'[f].fileFd = conn[f].fileFd
                 /\ conn'[f].isFileStream = conn[f].isFileStream
                 /\ conn'[f].stream = conn[f].stream

LEMMA DeliverMoves ==
    ASSUME TInv, NEW c \in Clients, NEW us \in Seq(UnitType), Deliver(c, us)
    PROVE  /\ UNCHANGED <<rcv, rst, backlog>>
           /\ Members(snd'[c]) = Members(snd[c]) \cup Members(us)
           /\ \A d \in Clients : d # c => snd'[d] = snd[d]
<1>1. snd \in [Clients -> Seq(UnitType)]
  BY DEF TInv, PeersOK
<1>2. PICK s : s = snd[c]
  OBVIOUS
<1>3. s \in Seq(UnitType)
  BY <1>1, <1>2
<1>4. /\ UNCHANGED <<rcv, rst, backlog>>
      /\ snd'[c] = s \o us /\ \A d \in Clients : d # c => snd'[d] = snd[d]
  BY <1>1, <1>2 DEF Deliver
<1>5. Members(s \o us) = Members(s) \cup Members(us)
  BY <1>3, JoinMembers
<1>6. QED
  BY <1>2, <1>4, <1>5

LEMMA ConnMoves ==
    ASSUME TInv, NEW f \in Fds, conn[f] # NoConn, NEW j \in ConnType, conn' = [conn EXCEPT ![f] = j],
           j.rbuf = conn[f].rbuf
    PROVE  /\ conn'[f] = j /\ j # NoConn /\ Buf(f)' = Buf(f)
           /\ \A g \in Fds \ {f} : conn'[g] = conn[g]
           /\ Kept(f)' = Members(j.wbuf) \cup Members(j.stream)
<1>1. conn'[f] = j /\ \A g \in Fds \ {f} : conn'[g] = conn[g]
  BY DEF TInv, SocketsOK
<1>2. j # NoConn
  BY NoConnAssumption
<1>3. QED
  BY <1>1, <1>2 DEF Buf, Kept

(* What is buffered, or sent of what is buffered, leaves the stream alone.  *)
LEMMA BufferMoves ==
    ASSUME TInv, NEW f \in Fds, conn[f] # NoConn, NEW us \in Seq(UnitType), NEW n \in Nat,
           conn' = [conn EXCEPT ![f].wbuf = us, ![f].written = n]
    PROVE  /\ SameStream(f) /\ conn'[f] # NoConn /\ Buf(f)' = Buf(f)
           /\ \A g \in Fds \ {f} : conn'[g] = conn[g]
           /\ Kept(f)' \subseteq Kept(f) \cup Members(us)
<1>1. PICK k : k = conn[f]
  OBVIOUS
<1>2. k \in ConnType /\ Kept(f) = Members(k.wbuf) \cup Members(k.stream)
  BY <1>1, KeptOurs DEF Kept
<1>3. PICK j : j = [k EXCEPT !.wbuf = us, !.written = n]
  OBVIOUS
<1>4. /\ j \in ConnType /\ j.rbuf = k.rbuf /\ j.wbuf = us /\ j.stream = k.stream
      /\ j.fileFd = k.fileFd /\ j.isFileStream = k.isFileStream
  BY <1>2, <1>3 DEF ConnType
<1>5. conn' = [conn EXCEPT ![f] = j]
  BY <1>1, <1>3
<1>6. /\ conn'[f] = j /\ j # NoConn /\ Buf(f)' = Buf(f)
      /\ \A g \in Fds \ {f} : conn'[g] = conn[g]
      /\ Kept(f)' = Members(j.wbuf) \cup Members(j.stream)
  BY <1>1, <1>4, <1>5, ConnMoves
<1>7. QED
  BY <1>1, <1>2, <1>4, <1>6 DEF SameStream

LEMMA FlushMoves ==
    ASSUME TInv, NEW f \in Fds, conn[f] # NoConn, FlushBuffer(f), sock[f] \notin rst
    PROVE  /\ Passes(f) /\ SameStream(f) /\ Kept(f)' \subseteq Kept(f) /\ files' = files
           /\ Members(snd'[sock[f]]) \subseteq Members(snd[sock[f]]) \cup Kept(f)
<1>1. PICK k, c : k = conn[f] /\ c = sock[f]
  OBVIOUS
<1>2. /\ c \in Clients /\ k \in ConnType /\ k.written \in Nat /\ k.written <= Len(k.wbuf)
      /\ k.wbuf \in Seq(UnitType) /\ Len(k.wbuf) \in Nat
      /\ Kept(f) = Members(k.wbuf) \cup Members(k.stream)
  <2>1. k \in ConnType /\ c \in Clients /\ k.written <= Len(k.wbuf)
    BY <1>1, ConnectionTyped DEF TInv
  <2>2. QED
    BY <1>1, <2>1 DEF ConnType, Kept
<1>3. PICK n, e : n = Least(Room(c), Len(k.wbuf) - k.written) /\ e = k.written + n
  OBVIOUS
<1>4. n \in Nat /\ e \in k.written .. Len(k.wbuf)
  <2>1. PICK a \in Nat, b \in Nat : a = Room(c) /\ b = Len(k.wbuf) - k.written
    <3>1. Room(c) \in Nat /\ Len(k.wbuf) - k.written \in Nat
      BY <1>2, RoomTyped DEF TInv
    <3>2. QED
      BY <3>1
  <2>2. Least(a, b) \in 0 .. b
    BY LeastIn
  <2>3. n \in 0 .. b
    BY <1>3, <2>1, <2>2
  <2>4. QED
    BY SMTT(30), <1>2, <1>3, <2>1, <2>3
<1>5. /\ Deliver(c, SubSeq(k.wbuf, k.written + 1, e)) /\ sock' = sock /\ files' = files
      /\ \/ conn' = [conn EXCEPT ![f].wbuf = <<>>, ![f].written = 0]
         \/ conn' = [conn EXCEPT ![f].written = e]
  BY <1>1, <1>3 DEF FlushBuffer
<1>6. PICK us : us = SubSeq(k.wbuf, k.written + 1, e)
  OBVIOUS
<1>7. us \in Seq(UnitType) /\ Members(us) \subseteq Kept(f)
  <2>1. k.written \in 0 .. Len(k.wbuf)
    BY <1>2
  <2>2. SubSeq(k.wbuf, k.written + 1, e) \in Seq(UnitType)
    BY <1>2, <1>4, <2>1, Cut
  <2>3. Members(SubSeq(k.wbuf, k.written + 1, e)) \subseteq Members(k.wbuf)
    BY <1>2, <1>4, <2>1, SliceMembers
  <2>4. QED
    BY <1>2, <1>6, <2>2, <2>3
<1>8. /\ UNCHANGED <<rcv, rst, backlog>>
      /\ Members(snd'[c]) \subseteq Members(snd[c]) \cup Kept(f)
      /\ \A d \in Clients : d # c => snd'[d] = snd[d]
  <2>1. Deliver(c, us)
    BY <1>5, <1>6
  <2>2. QED
    BY <1>2, <1>7, <2>1, DeliverMoves
<1>9. PICK x \in Seq(UnitType), i \in Nat : /\ conn' = [conn EXCEPT ![f].wbuf = x, ![f].written = i]
                                            /\ Members(x) \subseteq Kept(f)
  <2>1. CASE conn' = [conn EXCEPT ![f].wbuf = <<>>, ![f].written = 0]
    <3>1. PICK x \in Seq(UnitType), i \in Nat : x = <<>> /\ i = 0
      <4>1. <<>> \in Seq(UnitType)
        OBVIOUS
      <4>2. QED
        BY <4>1
    <3>2. Members(x) = {}
      BY <3>1 DEF Members
    <3>3. QED
      BY <2>1, <3>1, <3>2
  <2>2. CASE conn' = [conn EXCEPT ![f].written = e]
    <3>1. PICK j : j = [k EXCEPT !.written = e]
      OBVIOUS
    <3>2. j = [k EXCEPT !.wbuf = k.wbuf, !.written = e]
      BY <1>2, <3>1 DEF ConnType
    <3>3. conn' = [conn EXCEPT ![f] = j]
      BY <1>1, <2>2, <3>1
    <3>4. conn' = [conn EXCEPT ![f].wbuf = k.wbuf, ![f].written = e]
      BY <1>1, <3>2, <3>3
    <3>5. e \in Nat /\ Members(k.wbuf) \subseteq Kept(f)
      BY <1>2, <1>4
    <3>6. QED
      BY <1>2, <3>4, <3>5
  <2>3. QED
    BY <1>5, <2>1, <2>2
<1>10. /\ SameStream(f) /\ conn'[f] # NoConn /\ Buf(f)' = Buf(f)
       /\ \A g \in Fds \ {f} : conn'[g] = conn[g]
       /\ Kept(f)' \subseteq Kept(f)
  BY <1>9, BufferMoves
<1>11. QED
  BY <1>1, <1>5, <1>8, <1>10 DEF Passes

LEMMA NowMoves ==
    ASSUME TInv, NEW f \in Fds, conn[f] # NoConn, NEW us \in Seq(UnitType), SendNow(f, us)
    PROVE  /\ Passes(f) /\ SameStream(f) /\ files' = files
           /\ Kept(f)' \subseteq Kept(f) \cup Members(us)
           /\ Members(snd'[sock[f]]) \subseteq Members(snd[sock[f]]) \cup Members(us)
<1>1. PICK c : c = sock[f]
  OBVIOUS
<1>2. c \in Clients
  BY <1>1, KeptOurs
<1>3. PICK n : n = Least(Room(c), Len(us))
  OBVIOUS
<1>4. n \in 0 .. Len(us)
  <2>1. Room(c) \in Nat /\ Len(us) \in Nat
    BY <1>2, RoomTyped DEF TInv
  <2>2. QED
    BY <1>3, <2>1, LeastIn
<1>5. files' = files
  BY DEF SendNow
<1>6. UNCHANGED conn => /\ SameStream(f) /\ conn'[f] # NoConn /\ Buf(f)' = Buf(f)
                        /\ Kept(f)' = Kept(f) /\ \A g \in Fds \ {f} : conn'[g] = conn[g]
  BY SameConn DEF SameStream
<1>7. CASE c \in rst
  <2>1. UNCHANGED <<rcv, snd, rst, backlog, conn, sock>>
    BY <1>1, <1>7 DEF SendNow, kernelVars, sockVars
  <2>2. QED
    BY <1>1, <1>5, <1>6, <2>1 DEF Passes
<1>8. CASE c \notin rst
  <2>1. /\ Deliver(c, SubSeq(us, 1, n)) /\ sock' = sock
        /\ \/ conn' = conn
           \/ conn' = [conn EXCEPT ![f].wbuf = Drop(us, n), ![f].written = 0]
    BY <1>1, <1>3, <1>8 DEF SendNow, sockVars
  <2>2. /\ SubSeq(us, 1, n) \in Seq(UnitType) /\ Drop(us, n) \in Seq(UnitType)
        /\ Members(SubSeq(us, 1, n)) \subseteq Members(us)
        /\ Members(Drop(us, n)) \subseteq Members(us)
    BY <1>4, PartsOf
  <2>3. /\ UNCHANGED <<rcv, rst, backlog>>
        /\ Members(snd'[c]) \subseteq Members(snd[c]) \cup Members(us)
        /\ \A d \in Clients : d # c => snd'[d] = snd[d]
    BY <1>2, <2>1, <2>2, DeliverMoves
  <2>4. /\ SameStream(f) /\ conn'[f] # NoConn /\ Buf(f)' = Buf(f)
        /\ Kept(f)' \subseteq Kept(f) \cup Members(us)
        /\ \A g \in Fds \ {f} : conn'[g] = conn[g]
    BY <1>6, <2>1, <2>2, BufferMoves
  <2>5. QED
    BY <1>1, <1>5, <2>1, <2>3, <2>4 DEF Passes
<1>9. QED
  BY <1>7, <1>8

(* A part of the file goes out; the file is closed or the rest kept.        *)
LEMMA ChunkParts ==
    ASSUME TInv, NEW f \in Fds, conn[f] # NoConn, NEW k \in ConnType, k.rbuf = conn[f].rbuf,
           NEW head \in Seq(UnitType), Len(head) <= Room(sock[f]),
           NEW open, SendFileChunked(f, k, head, open), sock[f] \notin rst
    PROVE  \E n \in 0 .. Len(k.stream) :
              /\ Passes(f)
              /\ Members(snd'[sock[f]]) = Members(snd[sock[f]]) \cup
                    (Members(head) \cup Members(SubSeq(k.stream, 1, n)))
              /\ Kept(f)' = Members(k.wbuf) \cup Members(conn'[f].stream)
              /\ \/ conn'[f].stream = <<>> /\ ~conn'[f].fileFd /\ files' = open - 1
                 \/ /\ conn'[f].stream = Drop(k.stream, n) /\ Drop(k.stream, n) # <<>>
                    /\ conn'[f].fileFd = k.fileFd /\ conn'[f].isFileStream = k.isFileStream
                    /\ files' = open
<1>1. PICK c, s : c = sock[f] /\ s = k.stream
  OBVIOUS
<1>2. c \in Clients /\ s \in Seq(UnitType) /\ Len(s) \in Nat /\ Len(head) \in Nat
  BY <1>1, KeptOurs DEF ConnType
<1>3. PICK n, rest : /\ n = Least(Room(c) - Len(head), Len(s))
                     /\ rest = Drop(s, n)
  OBVIOUS
<1>4. n \in 0 .. Len(s)
  <2>1. Room(c) - Len(head) \in Nat
    BY <1>1, <1>2, RoomTyped DEF TInv
  <2>2. PICK a, b : a = Room(c) - Len(head) /\ b = Len(s)
    OBVIOUS
  <2>3. Least(a, b) \in 0 .. b
    BY <1>2, <2>1, <2>2, LeastIn
  <2>4. QED
    BY <1>3, <2>2, <2>3
<1>5. /\ Deliver(c, head \o SubSeq(s, 1, n)) /\ sock' = sock
      /\ \/ rest = <<>> /\ conn' = [conn EXCEPT ![f] = CloseFile(k)] /\ files' = open - 1
         \/ rest # <<>> /\ conn' = [conn EXCEPT ![f] = [k EXCEPT !.stream = rest]] /\ files' = open
  BY <1>1, <1>3 DEF SendFileChunked
<1>6. PICK p : p = SubSeq(s, 1, n)
  OBVIOUS
<1>7. p \in Seq(UnitType) /\ rest \in Seq(UnitType) /\ head \o p \in Seq(UnitType)
  <2>1. SubSeq(s, 1, n) \in Seq(UnitType) /\ Drop(s, n) \in Seq(UnitType)
    BY <1>2, <1>4, PartsOf
  <2>2. QED
    BY <1>3, <1>6, <2>1
<1>8. /\ UNCHANGED <<rcv, rst, backlog>>
      /\ Members(snd'[c]) = Members(snd[c]) \cup (Members(head) \cup Members(SubSeq(s, 1, n)))
      /\ \A d \in Clients : d # c => snd'[d] = snd[d]
  <2>1. Deliver(c, head \o p)
    BY <1>5, <1>6
  <2>2. Members(head \o p) = Members(head) \cup Members(p)
    BY <1>7, JoinMembers
  <2>3. /\ UNCHANGED <<rcv, rst, backlog>>
        /\ Members(snd'[c]) = Members(snd[c]) \cup Members(head \o p)
        /\ \A d \in Clients : d # c => snd'[d] = snd[d]
    BY <1>2, <1>7, <2>1, DeliverMoves
  <2>4. QED
    BY <1>6, <2>2, <2>3, Zenon
<1>9. ASSUME NEW j \in ConnType, conn' = [conn EXCEPT ![f] = j],
             j.rbuf = k.rbuf, j.wbuf = k.wbuf
      PROVE  /\ Passes(f) /\ conn'[f] = j
             /\ Kept(f)' = Members(k.wbuf) \cup Members(conn'[f].stream)
  <2>1. /\ conn'[f] = j /\ j # NoConn /\ Buf(f)' = Buf(f)
        /\ \A g \in Fds \ {f} : conn'[g] = conn[g]
        /\ Kept(f)' = Members(j.wbuf) \cup Members(j.stream)
    BY <1>9, ConnMoves
  <2>2. QED
    BY <1>1, <1>5, <1>8, <1>9, <2>1 DEF Passes
<1>10. CASE rest = <<>>
  <2>1. PICK e \in Seq(UnitType), t \in BOOLEAN : e = <<>> /\ t = FALSE
    <3>1. <<>> \in Seq(UnitType)
      OBVIOUS
    <3>2. QED
      BY <3>1
  <2>2. PICK j : j = [k EXCEPT !.stream = e, !.isFileStream = t, !.fileFd = t]
    OBVIOUS
  <2>3. j \in ConnType /\ j.rbuf = k.rbuf /\ j.wbuf = k.wbuf /\ j.fileFd = t /\ j.stream = e
    BY <2>2 DEF ConnType
  <2>4. conn' = [conn EXCEPT ![f] = j] /\ files' = open - 1
    BY <1>5, <1>10, <2>1, <2>2 DEF CloseFile
  <2>5. /\ Passes(f) /\ conn'[f] = j
        /\ Kept(f)' = Members(k.wbuf) \cup Members(conn'[f].stream)
    BY <1>9, <2>3, <2>4
  <2>6. QED
    BY <1>1, <1>4, <1>8, <2>1, <2>3, <2>4, <2>5
<1>11. CASE rest # <<>>
  <2>1. PICK j : j = [k EXCEPT !.stream = rest]
    OBVIOUS
  <2>2. /\ j \in ConnType /\ j.rbuf = k.rbuf /\ j.wbuf = k.wbuf
        /\ j.fileFd = k.fileFd /\ j.isFileStream = k.isFileStream /\ j.stream = rest
    BY <1>7, <2>1 DEF ConnType
  <2>3. conn' = [conn EXCEPT ![f] = j] /\ files' = open
    BY <1>5, <1>11, <2>1
  <2>4. /\ Passes(f) /\ conn'[f] = j
        /\ Kept(f)' = Members(k.wbuf) \cup Members(conn'[f].stream)
    BY <1>9, <2>2, <2>3
  <2>5. rest = Drop(k.stream, n)
    BY <1>1, <1>3
  <2>6. QED
    BY <1>1, <1>4, <1>8, <1>11, <2>2, <2>3, <2>4, <2>5
<1>12. QED
  BY <1>10, <1>11

LEMMA PassHands ==
    ASSUME NEW f \in Fds, Passes(f), Kept(f)' \subseteq Ours(f),
           Members(snd'[sock[f]]) \subseteq Members(snd[sock[f]]) \cup Ours(f)
    PROVE  Hands(f)
BY DEF Passes, Hands

LEMMA ChunkHands ==
    ASSUME TInv, NEW f \in Fds, conn[f] # NoConn, NEW k \in ConnType, k.rbuf = conn[f].rbuf,
           Members(k.wbuf) \subseteq Ours(f), Members(k.stream) \subseteq Ours(f),
           NEW head \in Seq(UnitType), Members(head) \subseteq Ours(f),
           Len(head) <= Room(sock[f]), NEW open, SendFileChunked(f, k, head, open)
    PROVE  Hands(f)
<1>1. CASE sock[f] \in rst
  <2>1. Erase({f}) /\ UNCHANGED kernelVars
    BY <1>1 DEF SendFileChunked
  <2>2. QED
    BY <2>1, EraseHands DEF kernelVars
<1>2. CASE sock[f] \notin rst
  <2>1. PICK n \in 0 .. Len(k.stream) :
           /\ Passes(f)
           /\ Members(snd'[sock[f]]) = Members(snd[sock[f]]) \cup
                 (Members(head) \cup Members(SubSeq(k.stream, 1, n)))
           /\ Kept(f)' = Members(k.wbuf) \cup Members(conn'[f].stream)
           /\ conn'[f].stream = <<>> \/ conn'[f].stream = Drop(k.stream, n)
    BY <1>2, ChunkParts
  <2>2. k.stream \in Seq(UnitType)
    BY DEF ConnType
  <2>3. /\ Members(SubSeq(k.stream, 1, n)) \subseteq Members(k.stream)
        /\ Members(Drop(k.stream, n)) \subseteq Members(k.stream)
    BY <2>2, PartsOf
  <2>4. Members(<<>>) = {}
    BY DEF Members
  <2>5. Members(conn'[f].stream) \subseteq Members(k.stream)
    BY <2>1, <2>3, <2>4, Zenon
  <2>6. QED
    BY <2>1, <2>3, <2>5, PassHands
<1>3. QED
  BY <1>1, <1>2

(* The units of a response answer its call.                                 *)
LEMMA UnitsOurs ==
    ASSUME TInv, NEW r \in ResponseType, CallOf(r) \in Calls
    PROVE  /\ Members(Units(r)) \subseteq Ours(r.fd) /\ Members(Header(r)) \subseteq Ours(r.fd)
           /\ Members(Body(r)) \subseteq Ours(r.fd)
<1>1. \A i, last : Unit(r, i, last).c = r.c /\ Unit(r, i, last).n = r.n
  BY DEF Unit
<1>2. /\ \A u \in Members(Units(r)) : u.c = r.c /\ u.n = r.n
      /\ \A u \in Members(Header(r)) : u.c = r.c /\ u.n = r.n
      /\ \A u \in Members(Body(r)) : u.c = r.c /\ u.n = r.n
  <2>1. \A u \in Members(Units(r)) : \E i, last : u = Unit(r, i, last)
    BY DEF Members, Units
  <2>2. \A u, v : Members(<<u>>) = {u} /\ Members(<<u, v>>) = {u, v}
    BY DEF Members
  <2>3. /\ Members(Header(r)) = {Unit(r, 1, FALSE)}
        /\ Members(Body(r)) = {Unit(r, 2, FALSE), Unit(r, 3, TRUE)}
    BY <2>2, Zenon DEF Header, Body
  <2>4. \A u \in Members(Units(r)) : u.c = r.c /\ u.n = r.n
    <3>1. ASSUME NEW u \in Members(Units(r)) PROVE u.c = r.c /\ u.n = r.n
      <4>1. PICK i, last : u = Unit(r, i, last)
        BY <2>1
      <4>2. QED
        BY <1>1, <4>1
    <3>2. QED
      BY <3>1
  <2>5. \A u \in Members(Header(r)) : u.c = r.c /\ u.n = r.n
    BY <1>1, <2>3
  <2>6. \A u \in Members(Body(r)) : u.c = r.c /\ u.n = r.n
    <3>1. ASSUME NEW u \in Members(Body(r)) PROVE u.c = r.c /\ u.n = r.n
      <4>1. u = Unit(r, 2, FALSE) \/ u = Unit(r, 3, TRUE)
        BY <2>3, Zenon
      <4>2. QED
        BY <1>1, <4>1
    <3>2. QED
      BY <3>1
  <2>7. QED
    BY <2>4, <2>5, <2>6
<1>3. /\ Members(Units(r)) \subseteq UnitType /\ Members(Header(r)) \subseteq UnitType
      /\ Members(Body(r)) \subseteq UnitType
  <2>1. \A s \in Seq(UnitType) : Members(s) \subseteq UnitType
    BY DEF Members
  <2>2. QED
    BY <2>1, UnitsTyped
<1>4. \A u \in UnitType : u.c = r.c /\ u.n = r.n => u \in Ours(r.fd)
  BY DEF Ours, CallOf
<1>5. QED
  BY <1>2, <1>3, <1>4

LEMMA PrefixOurs ==
    ASSUME NEW f, NEW s \in Seq(UnitType), Members(s) \subseteq Ours(f), NEW n \in 0 .. Len(s)
    PROVE  SubSeq(s, 1, n) \in Seq(UnitType) /\ Members(SubSeq(s, 1, n)) \subseteq Ours(f)
BY PartsOf

LEMMA FlushHands ==
    ASSUME TInv, NEW f \in Fds, conn[f] # NoConn, FlushBuffer(f)
    PROVE  Hands(f)
<1>1. Kept(f) \subseteq Ours(f)
  BY DEF Ours
<1>2. CASE sock[f] \in rst
  <2>1. Erase({f}) /\ UNCHANGED kernelVars
    BY <1>2 DEF FlushBuffer
  <2>2. QED
    BY <2>1, EraseHands DEF kernelVars
<1>3. CASE sock[f] \notin rst
  <2>1. /\ Passes(f) /\ Kept(f)' \subseteq Kept(f)
        /\ Members(snd'[sock[f]]) \subseteq Members(snd[sock[f]]) \cup Kept(f)
    BY <1>3, FlushMoves
  <2>2. QED
    BY <1>1, <2>1, PassHands
<1>4. QED
  BY <1>2, <1>3

LEMMA NowHands ==
    ASSUME TInv, NEW f \in Fds, conn[f] # NoConn, NEW us \in Seq(UnitType),
           Members(us) \subseteq Ours(f), SendNow(f, us)
    PROVE  Hands(f)
<1>1. Kept(f) \subseteq Ours(f)
  BY DEF Ours
<1>2. /\ Passes(f) /\ Kept(f)' \subseteq Kept(f) \cup Members(us)
      /\ Members(snd'[sock[f]]) \subseteq Members(snd[sock[f]]) \cup Members(us)
  BY NowMoves
<1>3. QED
  BY <1>1, <1>2, PassHands

LEMMA StreamHands ==
    ASSUME TInv, NEW r \in ResponseType, CallOf(r) \in Calls, conn[r.fd] # NoConn,
           StreamFile(r.fd, r)
    PROVE  Hands(r.fd)
<1>1. PICK f \in Fds : f = r.fd
  BY DEF ResponseType
<1>2. sock[f] \in Clients /\ conn[f] \in ConnType /\ conn[f] # NoConn
  BY <1>1, KeptOurs
<1>3. PICK b, e, t : b = Body(r) /\ e = <<>> /\ t = TRUE
  OBVIOUS
<1>4. /\ b \in Seq(UnitType) /\ Members(b) \subseteq Ours(f)
      /\ e \in Seq(UnitType) /\ Members(e) \subseteq Ours(f)
      /\ t \in BOOLEAN
  <2>1. b \in Seq(UnitType) /\ Members(b) \subseteq Ours(f)
    BY <1>1, <1>3, UnitsTyped, UnitsOurs
  <2>2. e \in Seq(UnitType)
    BY <1>3
  <2>3. Members(e) \subseteq Ours(f)
    BY <1>3 DEF Members
  <2>4. QED
    BY <1>3, <2>1, <2>2, <2>3
<1>5. PICK k : k = [conn[f] EXCEPT !.isFileStream = t, !.fileFd = t, !.stream = b,
                                   !.wbuf = e, !.written = 0]
  OBVIOUS
<1>6. k \in ConnType /\ k.rbuf = conn[f].rbuf /\ k.stream = b /\ k.wbuf = e
  BY <1>2, <1>4, <1>5 DEF ConnType
<1>7. PICK n : n = Least(Room(sock[f]), 1)
  OBVIOUS
<1>8. n \in 0 .. 1 /\ n <= Room(sock[f])
  <2>1. Room(sock[f]) \in Nat
    BY <1>2, RoomTyped DEF TInv
  <2>2. PICK a \in Nat : a = Room(sock[f])
    BY <2>1
  <2>3. Least(a, 1) \in 0 .. 1 /\ Least(a, 1) <= a
    BY DEF Least
  <2>4. QED
    BY <1>7, <2>2, <2>3
<1>9. PICK head : head = SubSeq(Header(r), 1, n)
  OBVIOUS
<1>10. head \in Seq(UnitType) /\ Members(head) \subseteq Ours(f) /\ Len(head) <= Room(sock[f])
  <2>1. Header(r) \in Seq(UnitType) /\ Len(Header(r)) = 1 /\ Members(Header(r)) \subseteq Ours(f)
    BY <1>1, UnitsTyped, UnitsOurs
  <2>2. n \in 0 .. Len(Header(r))
    BY <1>8, <2>1
  <2>3. /\ SubSeq(Header(r), 1, n) \in Seq(UnitType) /\ Len(SubSeq(Header(r), 1, n)) = n
        /\ Members(SubSeq(Header(r), 1, n)) \subseteq Ours(f)
    BY <2>1, <2>2, PrefixOurs, PrefixTyped
  <2>4. QED
    BY <1>8, <1>9, <2>3
<1>11. SendFileChunked(f, k, head, files + 1)
  BY <1>1, <1>3, <1>5, <1>7, <1>9 DEF StreamFile
<1>12. Hands(f)
  <2>1. Members(k.wbuf) \subseteq Ours(f) /\ Members(k.stream) \subseteq Ours(f)
    BY <1>4, <1>6
  <2>2. PICK open : open = files + 1
    OBVIOUS
  <2>3. QED
    BY <1>2, <1>6, <1>10, <1>11, <2>1, <2>2, ChunkHands
<1>13. QED
  BY <1>1, <1>12

LEMMA GoneHands ==
    ASSUME TInv, NEW r \in ResponseType, CallOf(r) \in Calls, conn[r.fd] # NoConn,
           Erase({r.fd}),
           IF sock[r.fd] \in rst THEN UNCHANGED kernelVars
           ELSE Deliver(sock[r.fd], SubSeq(Header(r), 1, Least(Room(sock[r.fd]), 1)))
    PROVE  Hands(r.fd)
<1>1. PICK f \in Fds : f = r.fd
  BY DEF ResponseType
<1>2. sock[f] \in Clients
  BY <1>1, KeptOurs
<1>3. CASE sock[f] \in rst
  BY <1>1, <1>3, EraseHands DEF kernelVars
<1>4. CASE sock[f] \notin rst
  <2>1. PICK n : n = Least(Room(sock[f]), 1)
    OBVIOUS
  <2>2. n \in 0 .. 1
    <3>1. Room(sock[f]) \in Nat
      BY <1>2, RoomTyped DEF TInv
    <3>2. QED
      BY <2>1, <3>1, LeastTyped
  <2>3. PICK us : us = SubSeq(Header(r), 1, n)
    OBVIOUS
  <2>4. us \in Seq(UnitType) /\ Members(us) \subseteq Ours(f)
    <3>1. Header(r) \in Seq(UnitType) /\ Len(Header(r)) = 1 /\ Members(Header(r)) \subseteq Ours(f)
      BY <1>1, UnitsTyped, UnitsOurs
    <3>2. n \in 0 .. Len(Header(r))
      BY <2>2, <3>1
    <3>3. /\ SubSeq(Header(r), 1, n) \in Seq(UnitType)
          /\ Members(SubSeq(Header(r), 1, n)) \subseteq Ours(f)
      BY <3>1, <3>2, PrefixOurs
    <3>4. QED
      BY <2>3, <3>3
  <2>5. Deliver(sock[f], us)
    BY <1>1, <1>4, <2>1, <2>3
  <2>6. /\ UNCHANGED <<rcv, backlog>>
        /\ Members(snd'[sock[f]]) = Members(snd[sock[f]]) \cup Members(us)
        /\ \A d \in Clients : d # sock[f] => snd'[d] = snd[d]
    BY <1>2, <2>4, <2>5, DeliverMoves
  <2>7. sock'[f] = NoClient /\ \A g \in Fds \ {f} : sock'[g] = sock[g] /\ conn'[g] = conn[g]
    BY <1>1 DEF Erase, CloseSock
  <2>8. QED
    BY <1>1, <2>4, <2>6, <2>7 DEF Hands
<1>5. QED
  BY <1>3, <1>4

LEMMA WriteStray ==
    ASSUME TInv, TInv', SInv, NEW f \in Fds, NEW ev \in SocketEvents, HandleWrite(f, ev)
    PROVE  SInv'
<1>1. UNCHANGED <<client, jobs, worker, pending, writes, loop>>
  BY DEF HandleWrite, poolVars
<1>2. Calls' \subseteq Calls /\ \A g \in Fds : AtCheck(g)' => AtCheck(g)
  BY <1>1, StepBack
<1>3. CASE conn[f] = NoConn
  <2>1. UNCHANGED <<rcv, snd, backlog, sock, conn>>
    BY <1>3 DEF HandleWrite, kernelVars, sockVars
  <2>2. QED
    BY <1>1, <1>2, <2>1, NoConnStray
<1>4. CASE conn[f] # NoConn /\ conn[f].isFileStream /\ conn[f].fileFd
  <2>1. SendFileChunked(f, conn[f], <<>>, files)
    BY <1>4 DEF HandleWrite
  <2>2. PICK k, head : k = conn[f] /\ head = <<>>
    OBVIOUS
  <2>3. /\ k \in ConnType /\ sock[f] \in Clients
        /\ Members(k.wbuf) \subseteq Ours(f) /\ Members(k.stream) \subseteq Ours(f)
    BY <1>4, <2>2, KeptOurs
  <2>4. head \in Seq(UnitType) /\ Len(head) = 0 /\ Members(head) \subseteq Ours(f)
    <3>1. Members(head) = {}
      BY <2>2 DEF Members
    <3>2. QED
      BY <2>2, <3>1
  <2>5. Len(head) <= Room(sock[f])
    BY <2>3, <2>4, RoomTyped DEF TInv
  <2>6. SendFileChunked(f, k, head, files)
    BY <2>1, <2>2
  <2>7. Hands(f)
    BY <1>4, <2>2, <2>3, <2>4, <2>5, <2>6, ChunkHands
  <2>8. QED
    BY <1>1, <1>2, <2>7, HandsStray
<1>5. CASE conn[f] # NoConn /\ ~(conn[f].isFileStream /\ conn[f].fileFd)
  <2>1. FlushBuffer(f)
    BY <1>5 DEF HandleWrite
  <2>2. QED
    BY <1>1, <1>2, <1>5, <2>1, FlushHands, HandsStray
<1>6. QED
  BY <1>3, <1>4, <1>5

LEMMA DeliverStray == ASSUME TInv, TInv', SInv, DeliverNext PROVE SInv'
<1>1. UNCHANGED <<client, jobs, worker, pending, loop>>
  BY DEF DeliverNext, poolVars
<1>2. writes \in Seq(ResponseType) /\ writes # <<>> /\ writes' = Tail(writes)
  BY DEF DeliverNext, TInv, PoolOK
<1>3. PICK r \in ResponseType : r = Head(writes)
  BY <1>2, HeadTailProperties
<1>4. r \in Members(writes) /\ Members(writes') \subseteq Members(writes)
  BY <1>2, <1>3, EndMembers
<1>5. CallOf(r) \in Calls /\ r.fd \in Fds
  BY <1>4 DEF Calls, ResponseType
<1>6. Calls' \subseteq Calls /\ \A g \in Fds : AtCheck(g)' => AtCheck(g)
  BY <1>1, <1>4, StepBack
<1>7. \/ UNCHANGED <<kernelVars, sockVars, conn>>
      \/ conn[r.fd] # NoConn /\ SendNow(r.fd, Units(r))
      \/ conn[r.fd] # NoConn /\ SendLater(r.fd, Units(r))
      \/ conn[r.fd] # NoConn /\ StreamFile(r.fd, r)
      \/ /\ conn[r.fd] # NoConn /\ Erase({r.fd})
         /\ IF sock[r.fd] \in rst THEN UNCHANGED kernelVars
            ELSE Deliver(sock[r.fd], SubSeq(Header(r), 1, Least(Room(sock[r.fd]), 1)))
  BY <1>3 DEF DeliverNext
<1>8. PICK us : us = Units(r)
  OBVIOUS
<1>9. us \in Seq(UnitType) /\ Members(us) \subseteq Ours(r.fd)
  BY <1>5, <1>8, UnitsTyped, UnitsOurs
<1>10. CASE UNCHANGED <<kernelVars, sockVars, conn>>
  <2>1. UNCHANGED <<rcv, snd, backlog, sock, conn>>
    BY <1>10 DEF kernelVars, sockVars
  <2>2. QED
    BY <1>1, <1>6, <2>1, NoConnStray
<1>11. Hands(r.fd) => SInv'
  BY <1>1, <1>5, <1>6, HandsStray
<1>12. CASE conn[r.fd] # NoConn /\ SendNow(r.fd, Units(r))
  BY <1>5, <1>8, <1>9, <1>11, <1>12, NowHands
<1>13. CASE conn[r.fd] # NoConn /\ SendLater(r.fd, Units(r))
  <2>1. /\ conn' = [conn EXCEPT ![r.fd].wbuf = us, ![r.fd].written = 0]
        /\ UNCHANGED <<sock, rcv, snd, backlog>>
    BY <1>8, <1>13 DEF SendLater, kernelVars
  <2>2. /\ Buf(r.fd)' = Buf(r.fd) /\ Kept(r.fd)' \subseteq Ours(r.fd)
        /\ \A g \in Fds \ {r.fd} : conn'[g] = conn[g]
    BY <1>5, <1>9, <1>13, <2>1, BufferMoves DEF Ours
  <2>3. QED
    BY <1>11, <2>1, <2>2 DEF Hands
<1>14. CASE conn[r.fd] # NoConn /\ StreamFile(r.fd, r)
  BY <1>5, <1>11, <1>14, StreamHands
<1>15. CASE /\ conn[r.fd] # NoConn /\ Erase({r.fd})
            /\ IF sock[r.fd] \in rst THEN UNCHANGED kernelVars
               ELSE Deliver(sock[r.fd], SubSeq(Header(r), 1, Least(Room(sock[r.fd]), 1)))
  BY <1>5, <1>11, <1>15, GoneHands
<1>16. QED
  BY <1>7, <1>10, <1>12, <1>13, <1>14, <1>15

-----------------------------------------------------------------------------
(* The steps inside the server that move what was read from f.              *)
LEMMA InsideFrame ==
    ASSUME TInv, TInv', SInv, UNCHANGED <<client, snd, backlog, sock>>, NEW f \in Fds,
           \A g \in Fds \ {f} : /\ conn'[g] = conn[g] /\ jobs'[g] = jobs[g]
                                /\ AtCheck(g)' => AtCheck(g),
           Kept(f)' \subseteq Kept(f),
           \A c \in Clients : c = sock[f] \/ rcv'[c] = rcv[c],
           sock[f] # NoClient => Sender(sock[f], rcv'[sock[f]]) /\ Sender(sock[f], Buf(f)'),
           \A k \in Calls' : k \in Calls \/ (Addressed(k) /\ k.c \in {sock[f], NoClient}),
           jobs'[f] > 0 => Departed # {} \/ (sock[f] # NoClient /\ client[sock[f]].sent > 0),
           sock[f] # NoClient /\ ~Disturbed(sock[f]) => Neat(f)'
    PROVE  SInv'
<1>1. Departed' = Departed
  BY DEF Departed, Disconnected, FdsOf
<1>2. \A g \in Fds : sock[g] # NoClient =>
          sock[g] \in Clients /\ sock[g] \notin backlog /\ client[sock[g]].st # "idle"
          /\ \A h \in Fds : sock[h] = sock[g] => h = g
  BY Present DEF SInv, OneSocket
<1>3. ASSUME NEW c \in Clients PROVE InHand(c)' \subseteq InHand(c)
  <2>1. ASSUME NEW g \in Fds, sock[g] = c PROVE Kept(g)' \subseteq InHand(c)
    <3>1. Kept(g)' \subseteq Kept(g)
      BY SameConn
    <3>2. QED
      BY <2>1, <3>1, HandHas
  <2>2. QED
    BY <2>1, HandHas DEF InHand, FdsOf
<1>4. OneSocket'
  BY DEF SInv, OneSocket
<1>5. NotAccepted'
  <2>1. \A c \in Clients : client[c].st = "idle" \/ c \in backlog => c # sock[f]
    <3>1. \A c \in Clients : c # NoClient
      BY ClientsAssumption
    <3>2. QED
      BY <1>2, <3>1
  <2>2. QED
    BY <2>1 DEF SInv, NotAccepted, Untouched
<1>6. Senders'
  <2>1. ASSUME NEW c \in Clients PROVE Sender(c, rcv[c])'
    <3>1. CASE c = sock[f]
      <4>1. c # NoClient
        BY ClientsAssumption
      <4>2. QED
        BY <3>1, <4>1 DEF Sender
    <3>2. CASE c # sock[f]
      BY <3>2 DEF SInv, Senders, Sender
    <3>3. QED
      BY <3>1, <3>2
  <2>2. ASSUME NEW g \in Fds, sock[g] # NoClient PROVE Sender(sock[g], Buf(g))'
    <3>1. CASE g = f
      BY <2>2, <3>1 DEF Sender
    <3>2. CASE g # f
      <4>1. Buf(g)' = Buf(g)
        BY <3>2, SameConn
      <4>2. QED
        BY <2>2, <4>1 DEF SInv, Senders, Sender
    <3>3. QED
      BY <3>1, <3>2
  <2>3. QED
    BY <2>1, <2>2 DEF Senders
<1>7. Strays'
  BY <1>1, <1>3, StraysKept DEF SInv
<1>8. Addresses'
  <2>1. ASSUME NEW k \in Calls' PROVE Addressed(k)'
    <3>1. Addressed(k)
      BY <2>1 DEF SInv, Addresses
    <3>2. QED
      BY <1>1, <3>1 DEF Addressed
  <2>2. QED
    BY <2>1 DEF Addresses
<1>9. JobsOwned'
  <2>1. ASSUME NEW g \in Fds, jobs'[g] > 0
        PROVE  Departed # {} \/ (sock[g] # NoClient /\ client[sock[g]].sent > 0)
    BY <2>1 DEF SInv, JobsOwned
  <2>2. QED
    BY <1>1, <2>1 DEF JobsOwned
<1>10. Undisturbed'
  <2>1. SUFFICES ASSUME NEW g \in Fds, sock[g] # NoClient, ~Disturbed(sock[g]) PROVE Neat(g)'
    BY <1>1 DEF Undisturbed, Disturbed
  <2>2. CASE g = f
    BY <2>1, <2>2
  <2>3. CASE g # f
    <3>1. PICK c \in Clients : c = sock[g]
      BY <1>2, <2>1
    <3>2. c # NoClient /\ c # sock[f]
      BY <1>2, <2>1, <2>3, <3>1
    <3>3. Neat(g)
      BY <2>1 DEF SInv, Undisturbed
    <3>4. Buf(g)' = Buf(g)
      BY <2>3, SameConn
    <3>5. \A k \in Calls' : k.c = c => k \in Calls
      BY <3>2
    <3>6. InHand(c)' \subseteq InHand(c)
      BY <1>3
    <3>7. QED
      BY <2>3, <3>1, <3>2, <3>3, <3>4, <3>5, <3>6, NeatKept
  <2>4. QED
    BY <2>2, <2>3
<1>11. QED
  BY <1>4, <1>5, <1>6, <1>7, <1>8, <1>9, <1>10 DEF SInv

LEMMA Emptied == ASSUME NEW S, NEW a \in Seq(S)
                 PROVE a \o <<>> = a /\ <<>> \o a = a
  BY ConcatEmptySeq

LEMMA ReadStray ==
    ASSUME TInv, TInv', SInv, NEW f \in Fds, NEW ev \in SocketEvents, HandleRead(f, ev)
    PROVE  SInv'
<1>1. UNCHANGED <<client, snd, backlog, jobs, worker, pending, writes>>
  BY DEF HandleRead, poolVars
<1>2. PICK c : c = sock[f]
  OBVIOUS
<1>3. CASE EndOfStream(c)
  <2>1. Erase({f}) /\ UNCHANGED <<rcv, loop>>
    BY <1>2, <1>3 DEF HandleRead
  <2>2. Calls' \subseteq Calls /\ \A g \in Fds : AtCheck(g)' => AtCheck(g)
    BY <1>1, <2>1, StepBack
  <2>3. QED
    BY <1>1, <2>1, <2>2, EraseHands, HandsStray
<1>4. CASE ~EndOfStream(c) /\ rcv[c] = <<>>
  <2>1. UNCHANGED <<rcv, conn, loop, sock>>
    BY <1>2, <1>4 DEF HandleRead, sockVars
  <2>2. Calls' \subseteq Calls /\ \A g \in Fds : AtCheck(g)' => AtCheck(g)
    BY <1>1, <2>1, StepBack
  <2>3. QED
    BY <1>1, <2>1, <2>2, NoConnStray
<1>5. CASE ~EndOfStream(c) /\ rcv[c] # <<>>
  <2>1. c # NoClient /\ c \in Clients /\ conn[f] # NoConn /\ conn[f] \in ConnType
    BY <1>2, <1>5 DEF EndOfStream, TInv, SocketsOK, ConnOwnsSocket
  <2>2. PICK q, k, b : q = rcv[c] /\ k = conn[f] /\ b = k.rbuf \o q
    OBVIOUS
  <2>3. /\ q \in Seq(Segment) /\ q # <<>> /\ k.rbuf \in Seq(Segment) /\ b \in Seq(Segment)
        /\ Buf(f) = k.rbuf
    <3>1. q \in Seq(Segment) /\ q # <<>>
      BY <1>5, <2>1, <2>2 DEF TInv, PeersOK
    <3>2. k.rbuf \in Seq(Segment) /\ Buf(f) = k.rbuf
      BY <2>1, <2>2 DEF ConnType, Buf
    <3>3. QED
      BY <2>2, <3>1, <3>2
  <2>4. /\ rcv' = [rcv EXCEPT ![c] = Drop(q, Len(q))]
        /\ conn' = [conn EXCEPT ![f].rbuf = b, ![f].age = 0]
        /\ loop' = LoopAt("check", f) /\ sock' = sock
    BY <1>2, <1>5, <2>2 DEF HandleRead, RequestData, sockVars
  <2>5. PICK j : j = [k EXCEPT !.rbuf = b, !.age = 0]
    OBVIOUS
  <2>6. j \in ConnType /\ j.rbuf = b /\ j.wbuf = k.wbuf /\ j.stream = k.stream /\ j # NoConn
    <3>1. j \in ConnType /\ j.rbuf = b /\ j.wbuf = k.wbuf /\ j.stream = k.stream
      BY <2>1, <2>2, <2>3, <2>5 DEF ConnType
    <3>2. QED
      BY <3>1, NoConnAssumption
  <2>7. conn'[f] = j /\ \A g \in Fds \ {f} : conn'[g] = conn[g]
    BY <2>2, <2>4, <2>5 DEF TInv, SocketsOK
  <2>8. rcv'[c] = <<>> /\ \A d \in Clients : d = c \/ rcv'[d] = rcv[d]
    <3>1. Drop(q, Len(q)) \in Seq(Segment) /\ Len(Drop(q, Len(q))) = 0
      <4>1. Len(q) \in 0 .. Len(q)
        BY <2>3
      <4>2. Drop(q, Len(q)) \in Seq(Segment) /\ Len(Drop(q, Len(q))) = Len(q) - Len(q)
        BY <2>3, <4>1, DropTyped
      <4>3. QED
        BY <4>1, <4>2
    <3>2. Drop(q, Len(q)) = <<>>
      BY <3>1
    <3>3. QED
      BY <2>1, <2>4, <3>2 DEF TInv, PeersOK
  <2>9. Buf(f)' = b /\ Kept(f)' = Kept(f)
    BY <2>1, <2>2, <2>6, <2>7 DEF Buf, Kept
  <2>10. Sender(c, b)
    <3>1. /\ client[c].sent > 0 /\ \A x \in Members(q) : x.c = c
          /\ k.rbuf # <<>> => \A x \in Members(k.rbuf) : x.c = c
      BY <1>2, <2>1, <2>2, <2>3 DEF SInv, Senders, Sender
    <3>2. k.rbuf = <<>> => Members(k.rbuf) = {}
      BY DEF Members
    <3>3. Members(k.rbuf \o q) = Members(k.rbuf) \cup Members(q)
      BY <2>3, JoinMembers
    <3>4. \A x \in Members(b) : x.c = c
      BY <2>2, <3>1, <3>2, <3>3
    <3>5. QED
      BY <3>1, <3>4 DEF Sender
  <2>11. Sender(c, rcv'[c])
    BY <2>8 DEF Sender
  <2>12. Calls' \subseteq Calls
    BY <1>1, CallsFewer
  <2>13. \A g \in Fds \ {f} : AtCheck(g)' => AtCheck(g)
    BY <2>4 DEF AtCheck, LoopAt
  <2>14. ASSUME ~Disturbed(c) PROVE Neat(f)'
    <3>1. Neat(f)
      BY <1>2, <2>1, <2>14 DEF SInv, Undisturbed
    <3>2. PICK m : m = Settled(f)
      OBVIOUS
    <3>3. /\ m \in Nat /\ m % Segments = 0 /\ Part(c, m, b)
          /\ jobs[f] > 0 => q = <<>>
          /\ \A u \in InHand(c) : u.n * Segments <= m
          /\ \A x \in Calls : x.c = c => x.n * Segments <= m
      BY <1>2, <2>2, <2>3, <3>1, <3>2 DEF Neat
    <3>4. (Buf(f) \o rcv[sock[f]])' = b
      <4>1. b \o <<>> = b
        BY <2>3, Emptied
      <4>2. QED
        BY <1>2, <2>4, <2>8, <2>9, <4>1
    <3>5. Settled(f)' = m
      <4>1. m = client[c].sent - Len(b)
        BY <1>2, <2>2, <2>3, <3>2 DEF Settled
      <4>2. QED
        BY <1>1, <1>2, <2>4, <3>4, <4>1 DEF Settled
    <3>6. InHand(c)' \subseteq InHand(c)
      <4>1. \A g \in Fds : Kept(g)' = Kept(g)
        BY <2>7, <2>9, SameConn
      <4>2. \A g \in Fds : sock'[g] = c => Kept(g)' \subseteq InHand(c)
        BY <2>4, <4>1, HandHas
      <4>3. QED
        BY <1>1, <4>2, HandHas DEF InHand, FdsOf
    <3>7. ~(jobs'[f] > 0)
      BY <1>1, <2>3, <3>3
    <3>8. sock'[f] = c
      BY <1>2, <2>4
    <3>9. QED
      BY <2>12, <3>3, <3>4, <3>5, <3>6, <3>7, <3>8 DEF Neat
  <2>15. jobs'[f] > 0 => Departed # {} \/ (sock[f] # NoClient /\ client[sock[f]].sent > 0)
    BY <1>1 DEF SInv, JobsOwned
  <2>16. Sender(sock[f], Buf(f)')
    BY <1>2, <2>9, <2>10
  <2>17. QED
    BY <1>1, <1>2, <2>4, <2>7, <2>8, <2>9, <2>11, <2>12, <2>13, <2>14, <2>15, <2>16, InsideFrame
<1>6. QED
  BY <1>3, <1>4, <1>5

(* A buffer that holds the end of a request holds nothing after it.         *)
LEMMA WholeMultiple == ASSUME NEW m \in Nat, m % Segments = 0
                       PROVE  \E q \in Nat : m = q * Segments
<1>1. PICK S \in Nat \ {0} : S = Segments
  BY SizesAssumption
<1>2. m \div S \in Nat /\ m = S * (m \div S) + (m % S)
  BY <1>1
<1>3. m = (m \div S) * S
  BY <1>1, <1>2
<1>4. QED
  BY <1>1, <1>2, <1>3

LEMMA CompleteIsWhole ==
    ASSUME NEW c, NEW m \in Nat, m % Segments = 0, NEW b \in Seq(Segment), NEW q \in Seq(Segment),
           Part(c, m, b \o q), Complete(b)
    PROVE  q = <<>> /\ Len(b) = Segments
<1>1. PICK S \in Nat \ {0} : S = Segments
  BY SizesAssumption
<1>2. PICK n \in Nat : m = n * S
  BY <1>1, WholeMultiple
<1>3. PICK i \in 1 .. Len(b) : b[i].s % S = S - 1
  BY <1>1 DEF Complete
<1>4. PICK d : d = b \o q
  OBVIOUS
<1>5. Len(d) = Len(b) + Len(q) /\ d[i] = b[i] /\ Len(b) \in Nat /\ Len(q) \in Nat
  BY <1>4
<1>6. Len(d) <= S /\ d[i].s = m + i - 1
  <2>1. Part(c, m, d)
    BY <1>4
  <2>2. i \in 1 .. Len(d)
    BY <1>5
  <2>3. Len(d) <= S /\ \A j \in 1 .. Len(d) : d[j] = [c |-> c, s |-> m + j - 1]
    BY <1>1, <2>1, Zenon DEF Part
  <2>4. d[i] = [c |-> c, s |-> m + i - 1]
    BY <2>2, <2>3
  <2>5. QED
    BY <2>3, <2>4
<1>7. i - 1 \in 0 .. S - 1
  BY <1>5, <1>6
<1>8. (n * S + (i - 1)) % S = i - 1
  BY <1>7, Division
<1>9. b[i].s = n * S + (i - 1)
  BY <1>2, <1>5, <1>6
<1>10. i = S
  <2>1. b[i].s % S = i - 1
    BY <1>8, <1>9, Zenon
  <2>2. QED
    BY <1>3, <2>1
<1>11. Len(b) = S /\ Len(q) = 0
  BY <1>5, <1>6, <1>10
<1>12. q = <<>>
  BY <1>11
<1>13. QED
  BY <1>1, <1>11, <1>12

LEMMA CheckStray == ASSUME TInv, TInv', SInv, CheckRequest PROVE SInv'
<1>1. /\ UNCHANGED <<client, rcv, snd, backlog, sock, conn, worker, pending, writes>>
      /\ loop.pc = "check" /\ loop'.pc = "events"
  BY DEF CheckRequest, Done, LoopAt, kernelVars, sockVars
<1>2. PICK f : f = loop.fd
  OBVIOUS
<1>3. Calls' \subseteq Calls /\ \A g \in Fds : ~AtCheck(g)'
  BY <1>1, CallsFewer DEF AtCheck
<1>4. CASE jobs' = jobs
  BY <1>1, <1>3, <1>4, NoConnStray
<1>5. CASE jobs' # jobs
  <2>1. f \in Fds /\ conn[f] # NoConn /\ Complete(conn[f].rbuf)
        /\ jobs' = [jobs EXCEPT ![f] = @ + 1]
    <3>1. conn[f] # NoConn /\ Complete(conn[f].rbuf) /\ jobs' = [jobs EXCEPT ![f] = @ + 1]
      BY <1>2, <1>5 DEF CheckRequest
    <3>2. f \notin Fds => jobs' = jobs
      BY <3>1 DEF TInv, PoolOK
    <3>3. QED
      BY <1>5, <3>1, <3>2
  <2>2. PICK c, b, q : c \in Clients /\ c = sock[f] /\ b = Buf(f) /\ q = rcv[c]
    BY <2>1, ConnectionTyped DEF TInv
  <2>3. /\ b \in Seq(Segment) /\ q \in Seq(Segment) /\ Complete(b) /\ b # <<>>
        /\ c # NoClient
    <3>1. b \in Seq(Segment) /\ q \in Seq(Segment) /\ Complete(b)
      BY <2>1, <2>2, BufTyped DEF TInv, PeersOK, Buf
    <3>2. b # <<>>
      BY <3>1 DEF Complete
    <3>3. c # NoClient
      BY <2>2, ClientsAssumption
    <3>4. QED
      BY <3>1, <3>2, <3>3
  <2>4. client[c].sent > 0 /\ Sender(c, q) /\ Sender(c, b)
    BY <2>1, <2>2, <2>3 DEF SInv, Senders, Sender
  <2>5. jobs[f] \in Nat /\ jobs'[f] = jobs[f] + 1 /\ \A g \in Fds \ {f} : jobs'[g] = jobs[g]
    BY <2>1 DEF TInv, PoolOK
  <2>6. Buf(f)' = b /\ Kept(f)' = Kept(f)
    BY <1>1, <2>2, SameConn
  <2>7. ASSUME ~Disturbed(c) PROVE Neat(f)'
    <3>1. Neat(f)
      BY <2>1, <2>2, <2>3, <2>7 DEF SInv, Undisturbed
    <3>2. PICK m : m = Settled(f)
      OBVIOUS
    <3>3. /\ m \in Nat /\ m % Segments = 0 /\ Part(c, m, b \o q)
          /\ jobs[f] > 0 => ~AtCheck(f)
          /\ \A u \in InHand(c) : u.n * Segments <= m
          /\ \A x \in Calls : x.c = c => x.n * Segments <= m
      BY <2>2, <3>1, <3>2 DEF Neat
    <3>4. jobs'[f] = 1
      BY <1>1, <1>2, <2>5, <3>3 DEF AtCheck
    <3>5. q = <<>> /\ Len(b) = Segments
      BY <2>3, <3>3, CompleteIsWhole
    <3>6. Settled(f)' = m
      BY <1>1, <2>2, <2>6, <3>2 DEF Settled
    <3>7. InHand(c)' \subseteq InHand(c)
      <4>1. \A g \in Fds : Kept(g)' = Kept(g)
        BY <1>1, SameConn
      <4>2. QED
        BY <1>1, <4>1 DEF InHand, FdsOf
    <3>8. sock'[f] = c /\ rcv' = rcv /\ ~AtCheck(f)'
      BY <1>1, <1>3, <2>1, <2>2
    <3>9. QED
      BY <1>3, <2>2, <2>6, <3>3, <3>4, <3>5, <3>6, <3>7, <3>8 DEF Neat
  <2>8. \A g \in Fds \ {f} : /\ conn'[g] = conn[g] /\ jobs'[g] = jobs[g]
                             /\ AtCheck(g)' => AtCheck(g)
    BY <1>1, <1>3, <2>5
  <2>9. Sender(sock[f], rcv'[sock[f]]) /\ Sender(sock[f], Buf(f)')
    BY <1>1, <2>2, <2>4, <2>6
  <2>10. Departed # {} \/ (sock[f] # NoClient /\ client[sock[f]].sent > 0)
    BY <2>2, <2>3, <2>4
  <2>11. QED
    BY <1>1, <1>3, <2>1, <2>2, <2>6, <2>7, <2>8, <2>9, <2>10, InsideFrame
<1>6. QED
  BY <1>4, <1>5

LEMMA HandTyped ==
    ASSUME TInv, NEW c \in Clients PROVE InHand(c) \subseteq UnitType
<1>1. /\ client[c].got \in Seq(UnitType) /\ snd[c] \in Seq(UnitType)
      /\ \A g \in Fds : conn[g] # NoConn =>
            conn[g].wbuf \in Seq(UnitType) /\ conn[g].stream \in Seq(UnitType)
  BY KeptOurs DEF TInv, PeersOK
<1>2. \A s \in Seq(UnitType) : Members(s) \subseteq UnitType
  BY DEF Members
<1>3. \A g \in Fds : Kept(g) \subseteq UnitType
  BY <1>1, <1>2 DEF Kept
<1>4. QED
  BY <1>1, <1>2, <1>3, HandFrom

(* The call of a worker: a request of who is on the descriptor, or what a   *)
(* connection that ended has left.                                          *)
LEMMA TakeJobStray ==
    ASSUME TInv, TInv', SInv, NEW w \in Workers, NEW f \in Fds, TakeJob(w, f)
    PROVE  SInv'
<1>1. /\ UNCHANGED <<client, rcv, snd, backlog, sock, pending, writes, loop>>
      /\ worker[w].pc = "idle" /\ jobs[f] > 0 /\ jobs' = [jobs EXCEPT ![f] = @ - 1]
  BY DEF TakeJob, kernelVars, sockVars, loopVars
<1>2. /\ jobs[f] \in Nat /\ jobs'[f] = jobs[f] - 1
      /\ \A g \in Fds \ {f} : jobs'[g] = jobs[g]
  BY <1>1 DEF TInv, PoolOK
<1>3. \A g \in Fds : AtCheck(g)' => AtCheck(g)
  BY <1>1 DEF AtCheck
<1>4. PICK c : c = sock[f]
  OBVIOUS
<1>5. Departed # {} \/ (sock[f] # NoClient /\ client[sock[f]].sent > 0)
  BY <1>1 DEF SInv, JobsOwned
<1>6. CASE conn[f] = NoConn
  <2>1. UNCHANGED <<worker, conn>>
    BY <1>6 DEF TakeJob
  <2>2. Calls' \subseteq Calls
    BY <1>1, <2>1, CallsFewer
  <2>3. Buf(f)' = Buf(f) /\ Kept(f)' = Kept(f)
    BY <2>1, SameConn
  <2>4. sock[f] = NoClient
    BY <1>6 DEF TInv, SocketsOK, ConnOwnsSocket
  <2>5. QED
    BY <1>1, <1>2, <1>3, <1>5, <2>1, <2>2, <2>3, <2>4, InsideFrame
<1>7. CASE conn[f] # NoConn
  <2>1. PICK k, b, q : k = conn[f] /\ b = k.rbuf /\ q = rcv[c]
    OBVIOUS
  <2>2. /\ c \in Clients /\ k \in ConnType /\ b \in Seq(Segment) /\ Buf(f) = b /\ c # NoClient
        /\ q \in Seq(Segment)
    <3>1. c \in Clients /\ k \in ConnType
      BY <1>4, <1>7, <2>1, ConnectionTyped DEF TInv
    <3>2. QED
      BY <1>7, <2>1, <3>1, ClientsAssumption DEF Buf, ConnType, TInv, PeersOK
  <2>3. PICK e, j : e = <<>> /\ j = [k EXCEPT !.rbuf = e]
    OBVIOUS
  <2>4. /\ j \in ConnType /\ j.rbuf = e /\ j.wbuf = k.wbuf /\ j.stream = k.stream
        /\ j # NoConn
    <3>1. e \in Seq(Segment)
      BY <2>3
    <3>2. j \in ConnType /\ j.rbuf = e /\ j.wbuf = k.wbuf /\ j.stream = k.stream
      BY <2>2, <2>3, <3>1 DEF ConnType
    <3>3. QED
      BY <3>2, NoConnAssumption
  <2>5. /\ worker' = [worker EXCEPT ![w] = [pc |-> "run", fd |-> f, data |-> b]]
        /\ conn' = [conn EXCEPT ![f] = j]
    BY <1>7, <2>1, <2>3 DEF TakeJob
  <2>6. conn'[f] = j /\ \A g \in Fds \ {f} : conn'[g] = conn[g]
    BY <2>5 DEF TInv, SocketsOK
  <2>7. /\ worker'[w] = [pc |-> "run", fd |-> f, data |-> b]
        /\ \A x \in Workers : x # w => worker'[x] = worker[x]
    BY <2>5 DEF TInv, PoolOK
  <2>8. Buf(f)' = <<>> /\ Kept(f)' = Kept(f)
    BY <1>7, <2>1, <2>3, <2>4, <2>6 DEF Buf, Kept
  <2>9. PICK x : x = [fd |-> f, c |-> IF Parses(b) THEN b[1].c ELSE NoClient,
                      n |-> IF Parses(b) THEN b[1].s \div Segments + 1 ELSE 0]
    OBVIOUS
  <2>10. Calls' \subseteq Calls \cup {x}
    <3>1. WorkerCall(w)' = x
      BY <2>7, <2>9 DEF WorkerCall
    <3>2. \A y \in Workers : y # w => WorkerCall(y)' = WorkerCall(y)
      BY <2>7 DEF WorkerCall
    <3>3. \A y \in Workers : y # w => worker'[y].pc = worker[y].pc
      BY <2>7
    <3>4. QED
      BY <1>1, <3>1, <3>2, <3>3 DEF Calls, CallOf
  <2>11. Parses(b) => x.c = c /\ client[c].sent > 0
    <3>1. SUFFICES ASSUME Parses(b) PROVE x.c = c /\ client[c].sent > 0
      OBVIOUS
    <3>2. 1 \in DOMAIN b /\ b # <<>>
      BY <2>2, <3>1, SizesAssumption DEF Parses
    <3>3. b[1].c = c /\ client[c].sent > 0
      BY <1>4, <2>2, <3>2 DEF SInv, Senders, Sender, Members
    <3>4. QED
      BY <2>9, <3>1, <3>3
  <2>12. ASSUME ~Disturbed(c)
         PROVE  \E m \in Nat : /\ m % Segments = 0 /\ client[c].sent = m + Segments /\ q = <<>>
                               /\ jobs[f] = 1 /\ Parses(b) /\ x.n * Segments = m + Segments
                               /\ \A u \in InHand(c) : u.n * Segments <= m
                               /\ \A y \in Calls : y.c = c => y.n * Segments <= m
    <3>1. Neat(f)
      BY <1>4, <2>2, <2>12 DEF SInv, Undisturbed
    <3>2. PICK m : m = Settled(f)
      OBVIOUS
    <3>3. /\ m \in Nat /\ m % Segments = 0 /\ Part(c, m, b \o q) /\ jobs[f] = 1
          /\ q = <<>> /\ Len(b) = Segments
          /\ \A u \in InHand(c) : u.n * Segments <= m
          /\ \A y \in Calls : y.c = c => y.n * Segments <= m
      BY <1>1, <1>4, <2>1, <2>2, <3>1, <3>2 DEF Neat
    <3>4. b \o q = b
      BY <2>2, <3>3, Emptied
    <3>5. client[c].sent = m + Segments
      <4>1. m = client[c].sent - Len(b)
        BY <1>4, <2>1, <2>2, <3>2, <3>4 DEF Settled
      <4>2. client[c].sent \in Nat
        BY <2>2 DEF TInv, PeersOK
      <4>3. QED
        BY SMTT(30), <3>3, <4>1, <4>2, SizesAssumption
    <3>6. b[1].s = m
      <4>1. 1 \in 1 .. Len(b)
        BY <3>3, SizesAssumption
      <4>2. b[1] = [c |-> c, s |-> m + 1 - 1]
        BY <3>3, <3>4, <4>1 DEF Part
      <4>3. QED
        BY <3>3, <4>2
    <3>7. Parses(b)
      BY <3>3, <3>6, SizesAssumption DEF Parses
    <3>8. x.n * Segments = m + Segments
      <4>1. PICK S \in Nat \ {0} : S = Segments
        BY SizesAssumption
      <4>2. PICK n \in Nat : m = n * S
        BY <3>3, <4>1, WholeMultiple
      <4>3. (n * S + 0) \div S = n
        BY <4>1, Division
      <4>4. n * S + 0 = m
        BY <4>2
      <4>5. m \div S = n
        BY <4>3, <4>4, Zenon
      <4>6. x.n = n + 1
        BY <2>9, <3>6, <3>7, <4>1, <4>5
      <4>7. (n + 1) * S = n * S + S
        OBVIOUS
      <4>8. QED
        BY <4>1, <4>2, <4>6, <4>7
    <3>9. QED
      BY <3>3, <3>5, <3>7, <3>8
  <2>13. Addressed(x) /\ x.c \in {c, NoClient}
    <3>1. CASE Parses(b)
      BY <1>4, <2>2, <2>9, <2>11, <3>1 DEF Addressed
    <3>2. CASE ~Parses(b)
      <4>1. Disturbed(c)
        BY <2>12, <3>2
      <4>2. x.c = NoClient
        BY <2>9, <3>2
      <4>3. QED
        BY <4>1, <4>2 DEF Addressed, Disturbed
    <3>3. QED
      BY <3>1, <3>2
  <2>14. ASSUME ~Disturbed(c) PROVE Neat(f)'
    <3>1. PICK m \in Nat : /\ m % Segments = 0 /\ client[c].sent = m + Segments /\ q = <<>>
                           /\ jobs[f] = 1 /\ x.n * Segments = m + Segments
                           /\ \A u \in InHand(c) : u.n * Segments <= m
                           /\ \A y \in Calls : y.c = c => y.n * Segments <= m
      BY <2>12, <2>14
    <3>2. PICK mm : mm = m + Segments
      OBVIOUS
    <3>3. mm \in Nat /\ mm % Segments = 0
      <4>1. PICK S \in Nat \ {0} : S = Segments
        BY SizesAssumption
      <4>2. PICK n \in Nat : m = n * S
        BY <3>1, <4>1, WholeMultiple
      <4>3. ((n + 1) * S + 0) % S = 0
        BY <4>1, Division
      <4>4. (n + 1) * S + 0 = mm
        BY <3>2, <4>1, <4>2
      <4>5. QED
        BY <3>2, <4>1, <4>3, <4>4
    <3>4. (Buf(f) \o rcv[sock[f]])' = <<>>
      BY <1>1, <1>4, <2>1, <2>8, <3>1
    <3>5. Settled(f)' = mm
      <4>1. Len(<<>>) = 0 /\ client[c].sent - 0 = mm
        BY <3>1, <3>2, <3>3
      <4>2. QED
        BY <1>1, <1>4, <3>4, <4>1 DEF Settled
    <3>6. Part(c, mm, <<>>)
      BY SizesAssumption DEF Part
    <3>7. InHand(c)' \subseteq InHand(c)
      <4>1. \A g \in Fds : Kept(g)' = Kept(g)
        BY <2>6, <2>8, SameConn
      <4>2. QED
        BY <1>1, <4>1 DEF InHand, FdsOf
    <3>8. \A u \in InHand(c)' : u.n * Segments <= mm
      <4>1. ASSUME NEW u \in InHand(c) PROVE u.n * Segments <= mm
        <5>1. u.n \in Nat
          BY <2>2, <4>1, HandTyped DEF UnitType
        <5>2. PICK v, z : v = u.n * Segments /\ z = Segments
          OBVIOUS
        <5>3. v \in Nat /\ v <= m /\ z \in Nat
          BY SMTT(30), <3>1, <5>1, <5>2, SizesAssumption
        <5>4. QED
          BY <3>2, <5>2, <5>3
      <4>2. QED
        BY <3>7, <4>1
    <3>9. \A y \in Calls' : y.c = c => y.n * Segments <= mm
      <4>1. ASSUME NEW y \in Calls, y.c = c PROVE y.n * Segments <= mm
        <5>1. y.n \in Nat
          BY CallsTyped
        <5>2. PICK v, z : v = y.n * Segments /\ z = Segments
          OBVIOUS
        <5>3. v \in Nat /\ v <= m /\ z \in Nat
          BY SMTT(30), <3>1, <4>1, <5>1, <5>2, SizesAssumption
        <5>4. QED
          BY <3>2, <5>2, <5>3
      <4>2. x.n * Segments <= mm
        BY <3>1, <3>2, <3>3
      <4>3. QED
        BY <2>10, <4>1, <4>2
    <3>10. sock'[f] = c /\ ~(jobs'[f] > 0)
      BY <1>1, <1>2, <1>4, <3>1
    <3>11. QED
      BY <3>3, <3>4, <3>5, <3>6, <3>8, <3>9, <3>10 DEF Neat
  <2>15. Sender(sock[f], rcv'[sock[f]]) /\ Sender(sock[f], Buf(f)')
    BY <1>1, <1>4, <2>2, <2>8 DEF SInv, Senders, Sender
  <2>16. \A g \in Fds \ {f} : /\ conn'[g] = conn[g] /\ jobs'[g] = jobs[g]
                              /\ AtCheck(g)' => AtCheck(g)
    BY <1>2, <1>3, <2>6
  <2>17. \A y \in Calls' : y \in Calls \/ (Addressed(y) /\ y.c \in {sock[f], NoClient})
    BY <1>4, <2>10, <2>13
  <2>18. QED
    BY <1>1, <1>4, <1>5, <2>8, <2>14, <2>15, <2>16, <2>17, InsideFrame
<1>8. QED
  BY <1>6, <1>7

LEMMA AcceptStray == ASSUME TInv, TInv', SInv, NEW c \in Clients, Accept(c) PROVE SInv'
<1>1. /\ UNCHANGED <<client, rcv, snd, jobs, worker, pending, writes, loop>>
      /\ c \in backlog /\ backlog' = backlog \ {c}
  BY DEF Accept, poolVars, loopVars
<1>2. PICK f \in Free : sock' = [sock EXCEPT ![f] = c] /\ conn' = [conn EXCEPT ![f] = Fresh]
  BY AcceptTakes
<1>3. f \in Fds /\ sock[f] = NoClient /\ c # NoClient
  BY <1>2, ClientsAssumption DEF Free
<1>4. /\ sock'[f] = c /\ conn'[f] = Fresh
      /\ \A g \in Fds \ {f} : sock'[g] = sock[g] /\ conn'[g] = conn[g]
  BY <1>2, <1>3 DEF TInv, SocketsOK
<1>5. \A g \in Fds : sock[g] # c
  BY <1>1, <1>3 DEF SInv, OneSocket
<1>6. client[c].st # "idle" /\ Untouched(c)
  BY <1>1 DEF SInv, NotAccepted
<1>7. Departed' = Departed /\ c \notin Departed
  <2>1. \A d \in Clients \ {c} : (\E g \in Fds : sock'[g] = d) <=> (\E g \in Fds : sock[g] = d)
    BY <1>3, <1>4, ClientsAssumption
  <2>2. \A d \in Clients \ {c} : Disconnected(d)' <=> Disconnected(d)
    BY <1>1, <2>1 DEF Disconnected, FdsOf
  <2>3. ~Disconnected(c) /\ ~Disconnected(c)'
    BY <1>1, <1>3, <1>4 DEF Disconnected, FdsOf
  <2>4. QED
    BY <1>1, <2>2, <2>3 DEF Departed
<1>8. Buf(f)' = <<>> /\ Kept(f)' = {}
  <2>1. Fresh # NoConn /\ Fresh.rbuf = <<>> /\ Fresh.wbuf = <<>> /\ Fresh.stream = <<>>
    BY FreshTyped DEF Fresh
  <2>2. Members(<<>>) = {}
    BY DEF Members
  <2>3. QED
    BY <1>4, <2>1, <2>2 DEF Buf, Kept
<1>9. \A g \in Fds \ {f} : Buf(g)' = Buf(g) /\ Kept(g)' = Kept(g)
  BY <1>4, SameConn
<1>10. ASSUME NEW d \in Clients PROVE InHand(d)' \subseteq InHand(d)
  <2>1. \A g \in Fds : sock'[g] = d => Kept(g)' \subseteq InHand(d)
    BY <1>4, <1>8, <1>9, HandHas
  <2>2. QED
    BY <1>1, <2>1, HandHas DEF InHand, FdsOf
<1>11. InHand(c)' = {}
  <2>1. Members(client'[c].got) = {} /\ Members(snd'[c]) = {}
    BY <1>1, <1>6 DEF Members, Untouched
  <2>2. \A g \in Fds : sock'[g] = c => g = f
    BY <1>4, <1>5
  <2>3. QED
    BY <1>8, <2>1, <2>2 DEF InHand, FdsOf
<1>12. Calls' \subseteq Calls
  BY <1>1, CallsFewer
<1>13. OneSocket'
  <2>1. ASSUME NEW g \in Fds \ {f}, sock[g] # NoClient
        PROVE  /\ sock[g] \notin backlog' /\ client[sock[g]].st # "idle"
               /\ \A h \in Fds : sock'[h] = sock[g] => h = g
    BY <1>1, <1>4, <1>5, <2>1 DEF SInv, OneSocket
  <2>2. c \notin backlog' /\ \A h \in Fds : sock'[h] = c => h = f
    BY <1>1, <1>4, <1>5
  <2>3. QED
    BY <1>1, <1>3, <1>4, <1>6, <2>1, <2>2 DEF OneSocket
<1>14. NotAccepted'
  BY <1>1 DEF SInv, NotAccepted, Untouched
<1>15. Senders'
  <2>1. Sender(c, Buf(f))'
    BY <1>8 DEF Sender
  <2>2. ASSUME NEW g \in Fds \ {f}, sock[g] # NoClient PROVE Sender(sock[g], Buf(g))'
    BY <1>1, <1>4, <1>9, <2>2 DEF SInv, Senders, Sender
  <2>3. \A d \in Clients : Sender(d, rcv[d])'
    BY <1>1 DEF SInv, Senders, Sender
  <2>4. ASSUME NEW g \in Fds, sock'[g] # NoClient PROVE Sender(sock[g], Buf(g))'
    <3>1. CASE g = f
      BY <1>4, <1>8, <3>1 DEF Sender
    <3>2. CASE g # f
      BY <1>4, <2>2, <2>4, <3>2
    <3>3. QED
      BY <3>1, <3>2
  <2>5. QED
    BY <2>3, <2>4 DEF Senders
<1>16. Strays'
  BY <1>7, <1>10, StraysKept DEF SInv
<1>17. Addresses'
  <2>1. \A d \in Clients : client[d].sent \in Nat /\ client'[d].sent >= client[d].sent
                           /\ client'[d].sent \in Nat
    BY <1>1 DEF TInv, PeersOK
  <2>2. \A g \in Fds : sock[g] # NoClient => sock'[g] = sock[g]
    BY <1>3, <1>4
  <2>3. QED
    BY <1>7, <1>12, <2>1, <2>2, CallKept DEF SInv, Addresses
<1>18. JobsOwned'
  <2>1. ASSUME NEW g \in Fds, jobs[g] > 0
        PROVE  Departed # {} \/ (sock'[g] # NoClient /\ client[sock'[g]].sent > 0)
    BY <1>3, <1>4, <2>1 DEF SInv, JobsOwned
  <2>2. QED
    BY <1>1, <1>7, <2>1 DEF JobsOwned
<1>19. ASSUME ~Disturbed(c) PROVE Neat(f)'
  <2>1. Departed = {}
    BY <1>7, <1>19 DEF Disturbed
  <2>2. ~(jobs'[f] > 0)
    BY <1>1, <1>3, <2>1 DEF SInv, JobsOwned
  <2>3. \A k \in Calls' : k.c # c
    <3>1. \A k \in Calls : k.fd \in Fds /\ Addressed(k)
      BY CallsTyped DEF SInv, Addresses
    <3>2. QED
      BY <1>3, <1>5, <1>12, <2>1, <3>1 DEF Addressed
  <2>4. PICK q : q = rcv[c]
    OBVIOUS
  <2>5. q \in Seq(Segment) /\ client[c].sent = Len(q) /\ Part(c, 0, q) /\ client[c].sent \in Nat
    BY <1>6, <2>4 DEF Untouched, TInv, PeersOK
  <2>6. (Buf(f) \o rcv[sock[f]])' = q
    <3>1. <<>> \o q = q
      BY <2>5, Emptied
    <3>2. QED
      BY <1>1, <1>4, <1>8, <2>4, <3>1
  <2>7. Settled(f)' = 0
    <3>1. client[c].sent - Len(q) = 0
      BY <2>5
    <3>2. QED
      BY <1>1, <1>4, <2>6, <3>1 DEF Settled
  <2>8. 0 % Segments = 0
    <3>1. (0 * Segments + 0) % Segments = 0
      BY Division, SizesAssumption
    <3>2. QED
      BY <3>1, SizesAssumption
  <2>9. QED
    BY <1>4, <1>11, <2>2, <2>3, <2>5, <2>6, <2>7, <2>8 DEF Neat
<1>20. Undisturbed'
  <2>1. SUFFICES ASSUME NEW g \in Fds, sock'[g] # NoClient, ~Disturbed(sock'[g]) PROVE Neat(g)'
    BY <1>7 DEF Undisturbed, Disturbed
  <2>2. CASE g = f
    BY <1>4, <1>19, <2>1, <2>2
  <2>3. CASE g # f
    <3>1. PICK d : d = sock[g]
      OBVIOUS
    <3>2. sock[g] = d /\ sock'[g] = d /\ d # NoClient /\ d \in Clients
      BY <1>4, <2>1, <2>3, <3>1, Present
    <3>3. Neat(g)
      BY <2>1, <3>2 DEF SInv, Undisturbed
    <3>4. Buf(g)' = Buf(g) /\ (AtCheck(g)' => AtCheck(g)) /\ jobs'[g] = jobs[g]
      BY <1>1, <1>9, <2>3 DEF AtCheck
    <3>5. InHand(d)' \subseteq InHand(d)
      BY <1>10, <3>2
    <3>6. QED
      BY <1>1, <1>12, <3>2, <3>3, <3>4, <3>5, NeatKept
  <2>4. QED
    BY <2>2, <2>3
<1>21. QED
  BY <1>13, <1>14, <1>15, <1>16, <1>17, <1>18, <1>20 DEF SInv

-----------------------------------------------------------------------------
LEMMA InitStray == Init => SInv
<1>1. SUFFICES ASSUME Init PROVE SInv
  OBVIOUS
<1>2. /\ \A c \in Clients : /\ client[c].st = "idle" /\ client[c].sent = 0
                            /\ client[c].got = <<>> /\ rcv[c] = <<>> /\ snd[c] = <<>>
      /\ backlog = {} /\ \A f \in Fds : sock[f] = NoClient /\ jobs[f] = 0
      /\ pending = <<>> /\ writes = <<>> /\ \A w \in Workers : worker[w].pc = "idle"
  BY <1>1 DEF Init, Idle
<1>3. \A c \in Clients : InHand(c) = {}
  <2>1. ASSUME NEW c \in Clients PROVE InHand(c) = {}
    <3>1. Members(client[c].got) = {} /\ Members(snd[c]) = {}
      BY <1>2 DEF Members
    <3>2. \A f \in Fds : sock[f] # c
      BY <1>2, ClientsAssumption
    <3>3. QED
      BY <3>1, <3>2 DEF InHand, FdsOf
  <2>2. QED
    BY <2>1
<1>4. Calls = {}
  <2>1. Members(pending) = {} /\ Members(writes) = {}
    BY <1>2 DEF Members
  <2>2. QED
    BY <1>2, <2>1 DEF Calls
<1>5. OneSocket
  BY <1>2 DEF OneSocket
<1>6. NotAccepted
  <2>1. \A c \in Clients : Untouched(c)
    <3>1. Len(<<>>) = 0 /\ Segments \in Nat
      BY SizesAssumption
    <3>2. QED
      BY <1>2, <3>1 DEF Untouched, Part
  <2>2. QED
    BY <1>2, <2>1 DEF NotAccepted
<1>7. Senders
  BY <1>2 DEF Senders, Sender
<1>8. Strays
  BY <1>3 DEF Strays
<1>9. Addresses
  BY <1>4 DEF Addresses
<1>10. JobsOwned
  BY <1>2 DEF JobsOwned
<1>11. Undisturbed
  BY <1>2 DEF Undisturbed
<1>12. QED
  BY <1>5, <1>6, <1>7, <1>8, <1>9, <1>10, <1>11 DEF SInv

LEMMA StrayStep == ASSUME TInv, TInv', SInv, [Next]_vars PROVE SInv'
<1>1. ASSUME NEW c \in Clients, Peer(c) PROVE SInv'
  BY <1>1, ConnectStray, SendStray, ReadsStray DEF Peer
<1>2. CASE Loop
  <2>1. CASE EpollWait \/ BeginAccept \/ EndAccept \/ DrainWakeup \/ TakePending \/ EndDeliver
    BY <2>1, MoveStray
  <2>2. ASSUME NEW c \in Clients, Accept(c) PROVE SInv'
    BY <2>2, AcceptStray
  <2>3. CASE CleanupTimeouts
    BY <2>3, EndStray
  <2>4. CASE DeliverNext
    BY <2>4, DeliverStray
  <2>5. CASE CheckRequest
    BY <2>5, CheckStray
  <2>6. ASSUME NEW f \in Fds, NEW ev \in SocketEvents,
               HandleError(f, ev) \/ HandleRead(f, ev) \/ HandleWrite(f, ev)
        PROVE  SInv'
    BY <2>6, EndStray, ReadStray, WriteStray
  <2>7. QED
    BY <1>2, <2>1, <2>2, <2>3, <2>4, <2>5, <2>6 DEF Loop
<1>3. CASE TimerExpires
  BY <1>3, TimerStray
<1>4. ASSUME NEW w \in Workers, Work(w) PROVE SInv'
  BY <1>4, TakeJobStray, RespondStray, FreeStray DEF Work
<1>5. CASE UNCHANGED vars
  <2>1. UNCHANGED <<client, rcv, snd, backlog, sock, jobs, conn, worker, pending, writes, loop>>
    BY <1>5 DEF vars, kernelVars, sockVars, poolVars, loopVars
  <2>2. Calls' \subseteq Calls /\ \A f \in Fds : AtCheck(f)' => AtCheck(f)
    BY <2>1, StepBack
  <2>3. QED
    BY <2>1, <2>2, NoConnStray
<1>6. QED
  BY <1>1, <1>2, <1>3, <1>4, <1>5 DEF Next

LEMMA StraysFollow == SInv => StraysHaveNoHome
<1>1. SUFFICES ASSUME SInv, NEW c \in Clients, NEW i \in DOMAIN client[c].got,
                      client[c].got[i].c # c
               PROVE  \E d \in Clients \ {c} : /\ client[c].got[i].c \in {d, NoClient}
                                               /\ client[d].sent > 0 /\ Disconnected(d)
  BY DEF StraysHaveNoHome
<1>2. client[c].got[i] \in InHand(c)
  BY DEF InHand, Members
<1>3. Astray(c, client[c].got[i])
  BY <1>1, <1>2 DEF SInv, Strays
<1>4. QED
  BY <1>1, <1>3 DEF Astray, Departed

(* Whenever peers leave and connections time out, for any number of peers,  *)
(* descriptors, workers and requests: an answer that is not the client's    *)
(* own, and the 400 to what is half a request, need another client that had *)
(* begun a request and is connected no more.  The loop sends by descriptor  *)
(* alone (epoll_server.cpp:393-397): nothing else sends an answer astray.   *)
THEOREM OnlyStraysGoAstray == Spec => []StraysHaveNoHome
<1>1. Init /\ TInv => SInv
  BY InitStray
<1>2. TInv /\ TInv' /\ SInv /\ [Next]_vars => SInv'
  BY StrayStep
<1>3. SInv => StraysHaveNoHome
  BY StraysFollow
<1>4. QED
  BY <1>1, <1>2, <1>3, TypesHold, PTL DEF Spec

-----------------------------------------------------------------------------
(* Files that are lost, whenever peers leave and connections time out.      *)
(*                                                                         *)
(* A response is alone on its descriptor: a worker, the queue and the loop  *)
(* have one in all.                                                         *)
OnePlace ==
    /\ \A w, x \in Workers : worker[w].pc = "run" /\ Runs(x, worker[w].fd) => w = x
    /\ \A i, j \in 1 .. Len(pending) : pending[i].fd = pending[j].fd => i = j
    /\ \A i, j \in 1 .. Len(writes) : writes[i].fd = writes[j].fd => i = j
    /\ \A i \in 1 .. Len(pending), j \in 1 .. Len(writes) : pending[i].fd # writes[j].fd
    /\ \A w \in Workers : worker[w].pc = "run" =>
          /\ \A i \in 1 .. Len(pending) : pending[i].fd # worker[w].fd
          /\ \A i \in 1 .. Len(writes) : writes[i].fd # worker[w].fd

(* As long as no connection ended with a request begun: while a request is  *)
(* being answered, and while its answer is streamed, its client has sent    *)
(* nothing else and has not got the end of the answer.                      *)
Untaken(f) == Buf(f) \o rcv[sock[f]]
Arrived(c) == Members(client[c].got) \cup Members(snd[c])
LastEnds(s) == \A i \in 1 .. Len(s) : s[i].last => i = Len(s)
Calm(f) ==
    LET c == sock[f]
        m == Settled(f)
    IN  /\ Out(f) => /\ Untaken(f) = <<>> /\ m > 0 /\ ~conn[f].fileFd
                     /\ \A u \in InHand(c) : u.n * Segments < m
        /\ conn[f].fileFd =>
              /\ Untaken(f) = <<>> /\ m > 0 /\ LastEnds(conn[f].stream)
              /\ \A u \in Arrived(c) : u.last => u.n * Segments < m
AllCalm == OnePlace /\ \A f \in Fds : sock[f] # NoClient => Calm(f)

FInv == /\ \A f \in Fds : conn[f] # NoConn /\ conn[f].fileFd => conn[f].isFileStream
        /\ \A c \in rst : client[c].st = "closed"
        /\ loop.pc # "deliver" => writes = <<>>
        /\ Departed = {} => AllCalm

LEMMA PlacesSame ==
    ASSUME UNCHANGED <<worker, pending, writes>>
    PROVE  (OnePlace => OnePlace') /\ \A g : Out(g)' <=> Out(g)
  BY DEF OnePlace, Out, Runs

LEMMA TakePlaces ==
    ASSUME TInv, OnePlace, NEW w \in Workers, NEW f \in Fds, ~Out(f), NEW d,
           UNCHANGED <<pending, writes>>,
           worker' = [worker EXCEPT ![w] = [pc |-> "run", fd |-> f, data |-> d]]
    PROVE  OnePlace'
<1>1. /\ worker'[w].pc = "run" /\ worker'[w].fd = f
      /\ \A x \in Workers : x # w => worker'[x] = worker[x]
  BY DEF TInv, PoolOK
<1>2. /\ \A x \in Workers : worker[x].pc = "run" => worker[x].fd # f
      /\ \A i \in 1 .. Len(pending) : pending[i].fd # f
      /\ \A i \in 1 .. Len(writes) : writes[i].fd # f
  BY DEF Out, Runs
<1>3. ASSUME NEW x \in Workers, NEW y \in Workers, worker'[x].pc = "run", worker'[y].pc = "run",
             worker'[y].fd = worker'[x].fd
      PROVE  x = y
  BY <1>1, <1>2, <1>3 DEF OnePlace, Runs
<1>4. ASSUME NEW x \in Workers, worker'[x].pc = "run"
      PROVE  /\ \A i \in 1 .. Len(pending) : pending[i].fd # worker'[x].fd
             /\ \A i \in 1 .. Len(writes) : writes[i].fd # worker'[x].fd
  BY <1>1, <1>2, <1>4 DEF OnePlace
<1>5. /\ \A i, j \in 1 .. Len(pending) : pending[i].fd = pending[j].fd => i = j
      /\ \A i, j \in 1 .. Len(writes) : writes[i].fd = writes[j].fd => i = j
      /\ \A i \in 1 .. Len(pending), j \in 1 .. Len(writes) : pending[i].fd # writes[j].fd
  BY DEF OnePlace
<1>6. QED
  BY <1>3, <1>4, <1>5 DEF OnePlace, Runs

LEMMA TakeElsewhere ==
    ASSUME TInv, NEW w \in Workers, worker[w].pc = "idle", NEW f, NEW d,
           UNCHANGED <<pending, writes>>,
           worker' = [worker EXCEPT ![w] = [pc |-> "run", fd |-> f, data |-> d]]
    PROVE  \A g : g # f => (Out(g)' <=> Out(g))
<1>1. /\ worker'[w].fd = f /\ \A x \in Workers : x # w => worker'[x] = worker[x]
  BY DEF TInv, PoolOK
<1>2. SUFFICES ASSUME NEW g, g # f PROVE Out(g)' <=> Out(g)
  OBVIOUS
<1>3. \A x \in Workers : Runs(x, g)' <=> Runs(x, g)
  BY <1>1, <1>2 DEF Runs
<1>4. QED
  BY <1>3 DEF Out

LEMMA RespondPlaces ==
    ASSUME TInv, NEW w \in Workers, Respond(w)
    PROVE  (OnePlace => OnePlace') /\ \A g : Out(g)' <=> Out(g)
<1>1. /\ UNCHANGED writes /\ worker[w].pc = "run"
      /\ worker' = [worker EXCEPT ![w] = [Idle EXCEPT !.pc = "signal"]]
  BY DEF Respond, loopVars
<1>2. PICK r : pending' = Append(pending, r) /\ r.fd = worker[w].fd
  BY DEF Respond, Response
<1>3. PICK f, m : f = worker[w].fd /\ m = Len(pending)
  OBVIOUS
<1>4. /\ m \in Nat /\ Len(pending') = m + 1 /\ pending'[m + 1] = r
      /\ \A i \in 1 .. m : pending'[i] = pending[i]
  BY <1>2, <1>3 DEF TInv, PoolOK
<1>5. worker'[w].pc = "signal" /\ \A x \in Workers : x # w => worker'[x] = worker[x]
  BY <1>1 DEF TInv, PoolOK, Idle
<1>6. Out(f) /\ Out(f)'
  <2>1. m + 1 \in 1 .. Len(pending') /\ pending'[m + 1].fd = f
    BY <1>2, <1>3, <1>4
  <2>2. QED
    BY <1>1, <1>3, <2>1 DEF Out, Runs
<1>7. \A g : g # f => (Out(g)' <=> Out(g))
  <2>1. SUFFICES ASSUME NEW g, g # f PROVE Out(g)' <=> Out(g)
    OBVIOUS
  <2>2. \A x \in Workers : Runs(x, g)' <=> Runs(x, g)
    BY <1>3, <1>5, <2>1 DEF Runs
  <2>3. (\E i \in 1 .. Len(pending') : pending'[i].fd = g) <=> \E i \in 1 .. m : pending[i].fd = g
    BY <1>2, <1>3, <1>4, <2>1
  <2>4. QED
    BY <1>1, <1>3, <2>2, <2>3 DEF Out
<1>8. ASSUME OnePlace PROVE OnePlace'
  <2>1. /\ \A i \in 1 .. m : pending[i].fd # f
        /\ \A i \in 1 .. Len(writes) : writes[i].fd # f
        /\ \A x \in Workers : worker[x].pc = "run" /\ x # w => worker[x].fd # f
    BY <1>1, <1>3, <1>8 DEF OnePlace, Runs
  <2>2. ASSUME NEW x \in Workers, NEW y \in Workers, worker'[x].pc = "run", worker'[y].pc = "run",
               worker'[y].fd = worker'[x].fd
        PROVE  x = y
    BY <1>5, <1>8, <2>2 DEF OnePlace, Runs
  <2>3. \A i, j \in 1 .. Len(pending') : pending'[i].fd = pending'[j].fd => i = j
    BY <1>2, <1>3, <1>4, <1>8, <2>1 DEF OnePlace
  <2>4. \A i \in 1 .. Len(pending'), j \in 1 .. Len(writes) : pending'[i].fd # writes[j].fd
    BY <1>2, <1>3, <1>4, <1>8, <2>1 DEF OnePlace
  <2>5. ASSUME NEW x \in Workers, worker'[x].pc = "run"
        PROVE  /\ \A i \in 1 .. Len(pending') : pending'[i].fd # worker'[x].fd
               /\ \A i \in 1 .. Len(writes) : writes[i].fd # worker'[x].fd
    <3>1. x # w /\ worker'[x] = worker[x]
      BY <1>5, <2>5
    <3>2. /\ \A i \in 1 .. m : pending[i].fd # worker[x].fd
          /\ \A i \in 1 .. Len(writes) : writes[i].fd # worker[x].fd
      BY <1>3, <1>8, <2>5, <3>1 DEF OnePlace
    <3>3. QED
      BY <1>2, <1>3, <1>4, <2>1, <2>5, <3>1, <3>2
  <2>6. \A i, j \in 1 .. Len(writes) : writes[i].fd = writes[j].fd => i = j
    BY <1>8 DEF OnePlace
  <2>7. QED
    BY <1>1, <2>2, <2>3, <2>4, <2>5, <2>6 DEF OnePlace, Runs
<1>9. QED
  BY <1>6, <1>7, <1>8

LEMMA FreePlaces ==
    ASSUME TInv, NEW w \in Workers, Signal(w) \/ Throw(w)
    PROVE  (OnePlace => OnePlace') /\ \A g : Out(g)' => Out(g)
<1>1. UNCHANGED <<pending, writes>> /\ worker' = [worker EXCEPT ![w] = Idle]
  BY DEF Signal, Throw, loopVars
<1>2. worker'[w].pc = "idle" /\ \A x \in Workers : x # w => worker'[x] = worker[x]
  BY <1>1 DEF TInv, PoolOK, Idle
<1>3. \A x \in Workers : \A g : Runs(x, g)' => Runs(x, g)
  BY <1>1, <1>2 DEF Runs
<1>4. \A g : Out(g)' => Out(g)
  BY <1>1, <1>3 DEF Out
<1>5. \A x \in Workers : worker'[x].pc = "run" => worker[x].pc = "run" /\ worker'[x] = worker[x]
  BY <1>1, <1>2
<1>6. ASSUME OnePlace PROVE OnePlace'
  <2>1. ASSUME NEW x \in Workers, NEW y \in Workers, worker'[x].pc = "run", worker'[y].pc = "run",
               worker'[y].fd = worker'[x].fd
        PROVE  x = y
    BY <1>5, <1>6, <2>1 DEF OnePlace, Runs
  <2>2. ASSUME NEW x \in Workers, worker'[x].pc = "run"
        PROVE  /\ \A i \in 1 .. Len(pending) : pending[i].fd # worker'[x].fd
               /\ \A i \in 1 .. Len(writes) : writes[i].fd # worker'[x].fd
    BY <1>5, <1>6, <2>2 DEF OnePlace
  <2>3. /\ \A i, j \in 1 .. Len(pending) : pending[i].fd = pending[j].fd => i = j
        /\ \A i, j \in 1 .. Len(writes) : writes[i].fd = writes[j].fd => i = j
        /\ \A i \in 1 .. Len(pending), j \in 1 .. Len(writes) : pending[i].fd # writes[j].fd
    BY <1>6 DEF OnePlace
  <2>4. QED
    BY <1>1, <2>1, <2>2, <2>3 DEF OnePlace, Runs
<1>7. QED
  BY <1>4, <1>6

LEMMA SwapPlaces ==
    ASSUME TakePending, writes = <<>>
    PROVE  (OnePlace => OnePlace') /\ \A g : Out(g)' <=> Out(g)
<1>1. worker' = worker /\ writes' = pending /\ pending' = <<>>
  BY DEF TakePending, poolVars
<1>2. Len(writes) = 0 /\ Len(pending') = 0
  BY <1>1
<1>3. QED
  BY <1>1, <1>2 DEF OnePlace, Out, Runs

LEMMA DeliverPlaces ==
    ASSUME TInv, writes # <<>>, writes' = Tail(writes), UNCHANGED <<worker, pending>>,
           NEW f, f = Head(writes).fd
    PROVE  /\ \A g : Out(g)' => Out(g)
           /\ OnePlace => OnePlace' /\ ~Out(f)'
<1>1. writes \in Seq(ResponseType) /\ Len(writes) \in Nat \ {0} /\ writes[1].fd = f
  BY DEF TInv, PoolOK
<1>2. PICK m : m = Len(writes)
  OBVIOUS
<1>3. /\ m \in Nat \ {0} /\ Len(writes') = m - 1
      /\ \A i \in 1 .. m - 1 : i + 1 \in 1 .. m /\ i + 1 # 1 /\ writes'[i] = writes[i + 1]
  BY <1>1, <1>2
<1>4. \A x \in Workers : \A g : Runs(x, g)' <=> Runs(x, g)
  BY DEF Runs
<1>5. ASSUME NEW g, Out(g)' PROVE Out(g)
  BY <1>2, <1>3, <1>4, <1>5 DEF Out
<1>6. ASSUME OnePlace PROVE ~Out(f)'
  <2>1. \A i \in 1 .. m - 1 : writes'[i].fd # f
    <3>1. SUFFICES ASSUME NEW i \in 1 .. m - 1 PROVE writes'[i].fd # f
      OBVIOUS
    <3>2. i + 1 \in 1 .. m /\ 1 \in 1 .. m /\ i + 1 # 1 /\ writes'[i] = writes[i + 1]
      BY <1>3
    <3>3. QED
      BY <1>1, <1>2, <1>6, <3>2 DEF OnePlace
  <2>2. /\ \A x \in Workers : ~Runs(x, f)
        /\ \A i \in 1 .. Len(pending) : pending[i].fd # f
    BY <1>1, <1>2, <1>3, <1>6 DEF OnePlace, Runs
  <2>3. QED
    BY <1>3, <1>4, <2>1, <2>2 DEF Out
<1>7. ASSUME OnePlace PROVE OnePlace'
  <2>1. \A i, j \in 1 .. m - 1 : writes'[i].fd = writes'[j].fd => i = j
    <3>1. SUFFICES ASSUME NEW i \in 1 .. m - 1, NEW j \in 1 .. m - 1, writes'[i].fd = writes'[j].fd
                   PROVE  i = j
      OBVIOUS
    <3>2. i + 1 = j + 1
      BY <1>2, <1>3, <1>7, <3>1 DEF OnePlace
    <3>3. QED
      BY <3>2
  <2>2. /\ \A i \in 1 .. Len(pending), j \in 1 .. m - 1 : pending[i].fd # writes'[j].fd
        /\ \A x \in Workers : worker[x].pc = "run" =>
              \A i \in 1 .. m - 1 : writes'[i].fd # worker[x].fd
    BY <1>2, <1>3, <1>7 DEF OnePlace
  <2>3. /\ \A x, y \in Workers : worker'[x].pc = "run" /\ Runs(y, worker[x].fd)' => x = y
        /\ \A i, j \in 1 .. Len(pending) : pending[i].fd = pending[j].fd => i = j
        /\ \A x \in Workers : worker[x].pc = "run" =>
              \A i \in 1 .. Len(pending) : pending[i].fd # worker[x].fd
    BY <1>7 DEF OnePlace, Runs
  <2>4. QED
    BY <1>3, <2>1, <2>2, <2>3 DEF OnePlace
<1>8. QED
  BY <1>5, <1>6, <1>7

-----------------------------------------------------------------------------
LEMMA OutIsCall ==
    ASSUME TInv, NEW f PROVE Out(f) <=> \E k \in Calls : k.fd = f
<1>1. /\ \A r : CallOf(r).fd = r.fd
      /\ \A w : WorkerCall(w).fd = worker[w].fd
  BY DEF CallOf, WorkerCall
<1>2. \A s \in Seq(ResponseType) :
         (\E r \in Members(s) : r.fd = f) <=> \E i \in 1 .. Len(s) : s[i].fd = f
  BY DEF Members
<1>3. pending \in Seq(ResponseType) /\ writes \in Seq(ResponseType)
  BY DEF TInv, PoolOK
<1>4. Out(f) <=> \/ \E w \in Workers : Runs(w, f)
                 \/ \E r \in Members(pending) : r.fd = f
                 \/ \E r \in Members(writes) : r.fd = f
  BY <1>2, <1>3 DEF Out
<1>5. (\E k \in Calls : k.fd = f) <=> \/ \E w \in Workers : Runs(w, f)
                                      \/ \E r \in Members(pending) : r.fd = f
                                      \/ \E r \in Members(writes) : r.fd = f
  <2>1. ASSUME NEW k \in Calls, k.fd = f
        PROVE  \/ \E w \in Workers : Runs(w, f)
               \/ \E r \in Members(pending) : r.fd = f
               \/ \E r \in Members(writes) : r.fd = f
    BY <1>1, <2>1 DEF Calls, Runs
  <2>2. ASSUME NEW w \in Workers, Runs(w, f) PROVE \E k \in Calls : k.fd = f
    BY <1>1, <2>2 DEF Calls, Runs
  <2>3. ASSUME NEW r \in Members(pending) \cup Members(writes), r.fd = f
        PROVE  \E k \in Calls : k.fd = f
    BY <1>1, <2>3 DEF Calls
  <2>4. QED
    BY <2>1, <2>2, <2>3
<1>6. QED
  BY <1>4, <1>5

(* Until a connection departs, a response has its connection.               *)
LEMMA OutHasSocket ==
    ASSUME TInv, SInv, Departed = {}, NEW f \in Fds, Out(f)
    PROVE  sock[f] # NoClient
<1>1. PICK k \in Calls : k.fd = f
  BY OutIsCall
<1>2. Addressed(k) /\ k.c # NoClient
  BY DEF SInv, Addresses, Addressed
<1>3. QED
  BY <1>1, <1>2 DEF Addressed

LEMMA DepartedKept ==
    ASSUME \A c \in Clients : client[c].sent > 0 => client'[c].sent > 0,
           \A c \in Departed : c \notin backlog',
           \A f \in Fds : sock'[f] \in Departed => sock'[f] = sock[f]
    PROVE  Departed \subseteq Departed'
  BY DEF Departed, Disconnected, FdsOf

LEMMA CalmKept ==
    ASSUME NEW f \in Fds, NEW c, sock[f] = c, sock'[f] = c, Calm(f),
           client'[c].sent = client[c].sent, Untaken(f)' = Untaken(f),
           Out(f)' => Out(f) /\ InHand(c)' \subseteq InHand(c),
           conn'[f].fileFd => conn[f].fileFd,
           conn'[f].fileFd => /\ LastEnds(conn'[f].stream)
                              /\ \A u \in Arrived(c)' : u.last => u \in Arrived(c)
    PROVE  Calm(f)'
<1>1. PICK m : m = Settled(f)
  OBVIOUS
<1>2. Settled(f)' = m
  BY <1>1 DEF Settled, Untaken
<1>3. /\ Out(f) => /\ Untaken(f) = <<>> /\ m > 0 /\ ~conn[f].fileFd
                   /\ \A u \in InHand(c) : u.n * Segments < m
      /\ conn[f].fileFd =>
              /\ Untaken(f) = <<>> /\ m > 0 /\ LastEnds(conn[f].stream)
              /\ \A u \in Arrived(c) : u.last => u.n * Segments < m
  BY <1>1 DEF Calm
<1>4. Out(f)' => /\ Untaken(f)' = <<>> /\ m > 0 /\ ~conn'[f].fileFd
                 /\ \A u \in InHand(c)' : u.n * Segments < m
  BY <1>3
<1>5. conn'[f].fileFd =>
              /\ Untaken(f)' = <<>> /\ m > 0 /\ LastEnds(conn'[f].stream)
              /\ \A u \in Arrived(c)' : u.last => u.n * Segments < m
  BY <1>3
<1>6. QED
  BY <1>2, <1>4, <1>5 DEF Calm

(* A connection that a step does not move.                                  *)
Unmoved(f, c) ==
    /\ sock[f] = c /\ sock'[f] = c /\ client'[c].sent = client[c].sent
    /\ Untaken(f)' = Untaken(f)
    /\ Out(f)' => Out(f)
    /\ InHand(c)' \subseteq InHand(c) /\ Arrived(c)' \subseteq Arrived(c)
    /\ conn'[f].fileFd = conn[f].fileFd /\ conn'[f].stream = conn[f].stream

LEMMA UnmovedCalm ==
    ASSUME NEW f \in Fds, NEW c, Unmoved(f, c), Calm(f)
    PROVE  Calm(f)'
<1>1. LastEnds(conn[f].stream) = LastEnds(conn'[f].stream)
  BY DEF Unmoved, LastEnds
<1>2. conn[f].fileFd => LastEnds(conn[f].stream)
  BY DEF Calm
<1>3. QED
  BY <1>1, <1>2, CalmKept DEF Unmoved

(* A step that moves only the connections in fs.                            *)
LEMMA CalmFrame ==
    ASSUME FInv, NEW fs, Departed \subseteq Departed',
           Departed = {} /\ Departed' = {} /\ AllCalm => OnePlace',
           \A f \in Fds : \/ f \in fs \/ sock'[f] = NoClient
                          \/ \E c : Unmoved(f, c),
           \A f \in fs : Departed = {} /\ Departed' = {} /\ AllCalm /\ sock'[f] # NoClient
                             => Calm(f)',
           NoClient \notin Clients,
           \A f \in Fds : conn'[f] # NoConn /\ conn'[f].fileFd => conn'[f].isFileStream,
           \A c \in rst' : client'[c].st = "closed",
           loop'.pc # "deliver" => writes' = <<>>
    PROVE  FInv'
<1>1. SUFFICES ASSUME Departed' = {} PROVE AllCalm'
  BY DEF FInv
<1>2. Departed = {} /\ AllCalm
  BY <1>1 DEF FInv
<1>3. OnePlace'
  BY <1>1, <1>2
<1>4. ASSUME NEW f \in Fds, sock'[f] # NoClient PROVE Calm(f)'
  <2>1. CASE f \in fs
    BY <1>1, <1>2, <1>4, <2>1
  <2>2. CASE f \notin fs
    <3>1. PICK c : Unmoved(f, c)
      BY <1>4, <2>2
    <3>2. Calm(f)
      BY <1>2, <1>4, <3>1 DEF AllCalm, Unmoved
    <3>3. QED
      BY <3>1, <3>2, UnmovedCalm
  <2>3. QED
    BY <2>1, <2>2
<1>5. QED
  BY <1>3, <1>4 DEF AllCalm

LEMMA ConnUnmoved ==
    ASSUME NEW f \in Fds, NEW c, sock[f] = c, sock'[f] = c, client'[c].sent = client[c].sent,
           rcv'[c] = rcv[c], Buf(f)' = Buf(f), Out(f)' => Out(f),
           InHand(c)' \subseteq InHand(c), Arrived(c)' \subseteq Arrived(c),
           conn'[f].fileFd = conn[f].fileFd, conn'[f].stream = conn[f].stream
    PROVE  Unmoved(f, c)
  BY DEF Unmoved, Untaken

(* The steps that move no connection.                                       *)
LEMMA RestCalm ==
    ASSUME TInv, SInv, FInv, UNCHANGED <<client, rcv, snd, rst, backlog, sock>>,
           \A f \in Fds : /\ Buf(f)' = Buf(f) /\ Kept(f)' = Kept(f)
                          /\ conn'[f] # NoConn => conn[f] # NoConn
                          /\ conn'[f].fileFd = conn[f].fileFd
                          /\ conn'[f].stream = conn[f].stream
                          /\ conn'[f].isFileStream = conn[f].isFileStream,
           \A f \in Fds : Out(f)' => Out(f), OnePlace => OnePlace',
           loop'.pc # "deliver" => writes' = <<>>
    PROVE  FInv'
<1>1. Departed' = Departed
  BY DEF Departed, Disconnected, FdsOf
<1>2. \A c : InHand(c)' = InHand(c) /\ Arrived(c)' = Arrived(c)
  BY DEF InHand, Arrived, FdsOf
<1>3. \A f \in Fds : \E c : Unmoved(f, c)
  BY <1>2, ConnUnmoved
<1>4. \A f \in Fds : conn'[f] # NoConn /\ conn'[f].fileFd => conn'[f].isFileStream
  BY DEF FInv
<1>5. \A c \in rst' : client'[c].st = "closed"
  BY DEF FInv
<1>6. Departed = {} /\ AllCalm => OnePlace'
  BY DEF AllCalm
<1>7. PICK fs : fs = {}
  OBVIOUS
<1>8. QED
  BY <1>1, <1>3, <1>4, <1>5, <1>6, <1>7, CalmFrame, ClientsAssumption

LEMMA MoveCalm ==
    ASSUME TInv, SInv, FInv,
           \/ EpollWait \/ BeginAccept \/ EndAccept \/ DrainWakeup \/ TakePending \/ EndDeliver
           \/ CheckRequest \/ (\E w \in Workers : Respond(w) \/ Throw(w) \/ Signal(w))
    PROVE  FInv'
<1>1. UNCHANGED <<client, rcv, snd, rst, backlog, sock, conn>>
  BY DEF EpollWait, BeginAccept, EndAccept, DrainWakeup, TakePending, EndDeliver, CheckRequest,
         Respond, Throw, Signal, kernelVars, sockVars
<1>2. \A f \in Fds : Buf(f)' = Buf(f) /\ Kept(f)' = Kept(f)
  BY <1>1, SameConn
<1>3. SUFFICES /\ OnePlace => OnePlace'
               /\ \A g \in Fds : Out(g)' => Out(g)
               /\ loop'.pc # "deliver" => writes' = <<>>
  BY <1>1, <1>2, RestCalm
<1>4. CASE \/ EpollWait \/ BeginAccept \/ EndAccept \/ DrainWakeup \/ EndDeliver \/ CheckRequest
  <2>1. UNCHANGED <<worker, pending, writes>>
    BY <1>4 DEF EpollWait, BeginAccept, EndAccept, DrainWakeup, EndDeliver, CheckRequest, poolVars
  <2>2. loop'.pc # "deliver" => writes = <<>>
    <3>1. loop.pc # "deliver" \/ writes = <<>>
      BY <1>4 DEF EpollWait, BeginAccept, EndAccept, DrainWakeup, EndDeliver, CheckRequest, Handle
    <3>2. QED
      BY <3>1 DEF FInv
  <2>3. QED
    BY <2>1, <2>2, PlacesSame
<1>5. CASE TakePending
  <2>1. writes = <<>>
    BY <1>5 DEF TakePending, FInv
  <2>2. loop'.pc = "deliver"
    BY <1>5 DEF TakePending, LoopAt
  <2>3. QED
    BY <1>5, <2>1, <2>2, SwapPlaces
<1>6. ASSUME NEW w \in Workers, Respond(w) \/ Throw(w) \/ Signal(w)
      PROVE  /\ OnePlace => OnePlace'
             /\ \A g \in Fds : Out(g)' => Out(g)
             /\ loop'.pc # "deliver" => writes' = <<>>
  <2>1. UNCHANGED <<loop, writes>>
    BY <1>6 DEF Respond, Throw, Signal, loopVars
  <2>2. QED
    BY <1>6, <2>1, RespondPlaces, FreePlaces DEF FInv
<1>7. QED
  BY <1>4, <1>5, <1>6

LEMMA TimerCalm == ASSUME TInv, SInv, FInv, TimerExpires PROVE FInv'
<1>1. /\ UNCHANGED <<client, rcv, snd, rst, backlog, sock, worker, pending, writes, loop>>
      /\ conn' = [f \in Fds |-> IF conn[f] = NoConn THEN NoConn
                                ELSE [conn[f] EXCEPT !.age = @ + 1]]
  BY DEF TimerExpires, kernelVars, sockVars, poolVars, loopVars
<1>2. ASSUME NEW f \in Fds
      PROVE  /\ Buf(f)' = Buf(f) /\ Kept(f)' = Kept(f)
             /\ conn'[f] # NoConn => conn[f] # NoConn
             /\ conn'[f].fileFd = conn[f].fileFd
             /\ conn'[f].stream = conn[f].stream
             /\ conn'[f].isFileStream = conn[f].isFileStream
  <2>1. CASE conn[f] = NoConn
    <3>1. conn'[f] = conn[f]
      BY <1>1, <2>1
    <3>2. QED
      BY <3>1, SameConn
  <2>2. CASE conn[f] # NoConn
    <3>1. PICK k, j : k = conn[f] /\ j = conn'[f]
      OBVIOUS
    <3>2. k \in ConnType /\ k # NoConn
      BY <2>2, <3>1, ConnectionTyped DEF TInv
    <3>3. j = [k EXCEPT !.age = k.age + 1]
      BY <1>1, <2>2, <3>1
    <3>4. /\ j \in ConnType /\ j.rbuf = k.rbuf /\ j.wbuf = k.wbuf /\ j.stream = k.stream
          /\ j.fileFd = k.fileFd /\ j.isFileStream = k.isFileStream
      BY <3>2, <3>3 DEF ConnType
    <3>5. j # NoConn
      BY <3>4, NoConnAssumption
    <3>6. QED
      BY <2>2, <3>1, <3>2, <3>4, <3>5 DEF Buf, Kept
  <2>3. QED
    BY <2>1, <2>2
<1>3. /\ OnePlace => OnePlace'
      /\ \A f \in Fds : Out(f)' => Out(f)
  BY <1>1, PlacesSame
<1>4. loop'.pc # "deliver" => writes' = <<>>
  BY <1>1 DEF FInv
<1>5. QED
  BY <1>1, <1>2, <1>3, <1>4, RestCalm

-----------------------------------------------------------------------------
(* The peers that do not send.                                              *)
LEMMA PeerCalm ==
    ASSUME TInv, SInv, FInv, UNCHANGED <<sock, conn, rcv, worker, pending, writes, loop>>,
           \A d \in Clients : /\ client'[d].sent = client[d].sent
                              /\ Arrived(d)' \subseteq Arrived(d),
           \A d \in Clients : d \in backlog' => d \in backlog \/ client[d].sent = 0,
           \A d \in rst' : client'[d].st = "closed"
    PROVE  FInv'
<1>1. ASSUME NEW d \in Clients PROVE InHand(d)' \subseteq InHand(d)
  <2>1. Members(client'[d].got) \cup Members(snd'[d]) \subseteq Arrived(d)
    BY DEF Arrived
  <2>2. Arrived(d) \subseteq InHand(d)
    BY DEF Arrived, InHand
  <2>3. QED
    BY <2>1, <2>2, HandSame
<1>2. Departed \subseteq Departed'
  <2>1. \A c \in Departed : c \notin backlog'
    <3>1. \A c \in Departed : c \in Clients /\ client[c].sent > 0 /\ c \notin backlog
      BY DEF Departed, Disconnected
    <3>2. QED
      BY <3>1
  <2>2. QED
    BY <2>1, DepartedKept
<1>3. \A f \in Fds : sock[f] # NoClient => sock[f] \in Clients
  BY Present
<1>4. /\ OnePlace => OnePlace'
      /\ \A f \in Fds : Out(f)' => Out(f)
  BY PlacesSame
<1>5. ASSUME NEW f \in Fds, sock'[f] # NoClient PROVE \E c : Unmoved(f, c)
  <2>1. PICK c : c = sock[f]
    OBVIOUS
  <2>2. c \in Clients /\ sock[f] = c /\ sock'[f] = c
    BY <1>3, <1>5, <2>1
  <2>3. Buf(f)' = Buf(f)
    BY SameConn
  <2>4. Unmoved(f, c)
    BY <1>1, <1>4, <2>2, <2>3, ConnUnmoved
  <2>5. QED
    BY <2>4
<1>6. /\ \A f \in Fds : conn'[f] # NoConn /\ conn'[f].fileFd => conn'[f].isFileStream
      /\ loop'.pc # "deliver" => writes' = <<>>
  BY DEF FInv
<1>7. Departed = {} /\ AllCalm => OnePlace'
  BY <1>4 DEF AllCalm
<1>8. PICK fs : fs = {}
  OBVIOUS
<1>9. QED
  BY <1>2, <1>5, <1>6, <1>7, <1>8, CalmFrame, ClientsAssumption

LEMMA ReceiveArrives ==
    ASSUME TInv, NEW c \in Clients, Receive(c)
    PROVE  Arrived(c)' \subseteq Arrived(c)
<1>1. /\ client \in [Clients -> [st : {"idle", "open", "closed"}, sent : Nat, got : Seq(UnitType)]]
      /\ snd \in [Clients -> Seq(UnitType)]
  BY DEF TInv, PeersOK
<1>2. PICK g, s : g = client[c].got /\ s = snd[c]
  OBVIOUS
<1>3. g \in Seq(UnitType) /\ s \in Seq(UnitType)
  BY <1>1, <1>2
<1>4. s # <<>> /\ client'[c].got = Append(g, Head(s)) /\ snd'[c] = Tail(s)
  BY <1>1, <1>2 DEF Receive
<1>5. Head(s) \in UnitType /\ Head(s) \in Members(s) /\ Members(Tail(s)) \subseteq Members(s)
  BY <1>3, <1>4, EndMembers, HeadTailProperties
<1>6. Members(Append(g, Head(s))) = Members(g) \cup {Head(s)}
  BY <1>3, <1>5, OneMember
<1>7. QED
  BY <1>2, <1>4, <1>5, <1>6 DEF Arrived

LEMMA ReadsCalm ==
    ASSUME TInv, SInv, FInv, NEW c \in Clients, Connect(c) \/ Receive(c) \/ Leave(c) \/ Reset(c)
    PROVE  FInv'
<1>1. /\ client \in [Clients -> [st : {"idle", "open", "closed"}, sent : Nat, got : Seq(UnitType)]]
      /\ snd \in [Clients -> Seq(UnitType)]
  BY DEF TInv, PeersOK
<1>2. /\ UNCHANGED <<rcv, sock, worker, conn, pending, writes, loop>>
      /\ \A d \in Clients \ {c} : client'[d] = client[d] /\ snd'[d] = snd[d]
      /\ client'[c].sent = client[c].sent /\ backlog' \subseteq backlog \cup {c}
      /\ rst' \subseteq rst \cup {c}
  <2>1. CASE Connect(c)
    BY <1>1, <2>1 DEF Connect, sockVars, poolVars, loopVars
  <2>2. CASE Receive(c)
    BY <1>1, <2>2 DEF Receive, poolVars, loopVars
  <2>3. CASE Leave(c)
    BY <1>1, <2>3 DEF Leave, poolVars, loopVars
  <2>4. CASE Reset(c)
    BY <1>1, <2>4 DEF Reset, poolVars, loopVars
  <2>5. QED
    BY <2>1, <2>2, <2>3, <2>4
<1>3. /\ Connect(c) => client[c].st = "idle" /\ client'[c].st = "open" /\ rst' = rst
      /\ Receive(c) => client'[c].st = client[c].st /\ rst' = rst /\ backlog' = backlog
      /\ Leave(c) => client'[c].st = "closed" /\ rst' = rst /\ backlog' = backlog
      /\ Reset(c) => client'[c].st = "closed" /\ backlog' = backlog
  BY <1>1 DEF Connect, Receive, Leave, Reset
<1>4. Arrived(c)' \subseteq Arrived(c)
  <2>1. Members(<<>>) = {}
    BY DEF Members
  <2>2. CASE Connect(c)
    <3>1. client'[c].got = client[c].got /\ snd'[c] = snd[c]
      BY <1>1, <2>2 DEF Connect
    <3>2. QED
      BY <3>1 DEF Arrived
  <2>3. CASE Leave(c)
    <3>1. client'[c].got = client[c].got /\ snd'[c] = snd[c]
      BY <1>1, <2>3 DEF Leave
    <3>2. QED
      BY <3>1 DEF Arrived
  <2>4. CASE Reset(c)
    <3>1. client'[c].got = client[c].got /\ snd'[c] = <<>>
      BY <1>1, <2>4 DEF Reset
    <3>2. QED
      BY <2>1, <3>1 DEF Arrived
  <2>5. QED
    BY <2>2, <2>3, <2>4, ReceiveArrives
<1>5. ASSUME NEW d \in Clients
      PROVE  client'[d].sent = client[d].sent /\ Arrived(d)' \subseteq Arrived(d)
  <2>1. CASE d = c
    BY <1>2, <1>4, <2>1
  <2>2. CASE d # c
    BY <1>2, <2>2 DEF Arrived
  <2>3. QED
    BY <2>1, <2>2
<1>6. ASSUME NEW d \in Clients, d \in backlog' PROVE d \in backlog \/ client[d].sent = 0
  <2>1. CASE Connect(c)
    BY <1>2, <1>3, <1>6, <2>1 DEF SInv, NotAccepted
  <2>2. CASE ~Connect(c)
    BY <1>3, <1>6, <2>2
  <2>3. QED
    BY <2>1, <2>2
<1>7. ASSUME NEW d \in rst' PROVE client'[d].st = "closed"
  <2>1. d \in Clients /\ (d \in rst => client[d].st = "closed")
    BY <1>2, <1>7 DEF FInv, TInv, PeersOK
  <2>2. CASE d # c
    BY <1>2, <1>7, <2>1, <2>2
  <2>3. CASE d = c
    BY <1>3, <1>7, <2>1, <2>3
  <2>4. QED
    BY <2>2, <2>3
<1>8. QED
  BY <1>2, <1>5, <1>6, <1>7, PeerCalm

(* A client that sends has nothing under way.                               *)
LEMMA SenderIdle ==
    ASSUME TInv, SInv, NEW c \in Clients, SendSegment(c), NEW f \in Fds, sock[f] = c,
           Departed = {}, AllCalm
    PROVE  ~Out(f) /\ ~conn[f].fileFd
<1>1. SUFFICES ASSUME Out(f) \/ conn[f].fileFd PROVE FALSE
  OBVIOUS
<1>2. Calm(f) /\ Neat(f) /\ c # NoClient
  BY ClientsAssumption DEF AllCalm, SInv, Undisturbed, Disturbed
<1>3. PICK m, b : m = Settled(f) /\ b = Untaken(f)
  OBVIOUS
<1>4. b = <<>> /\ m > 0 /\ \A u \in Members(client[c].got) : u.last => u.n * Segments < m
  <2>1. Untaken(f) = <<>> /\ Settled(f) > 0
    BY <1>1, <1>2 DEF Calm
  <2>2. Members(client[c].got) \subseteq Arrived(c) /\ Members(client[c].got) \subseteq InHand(c)
    BY DEF Arrived, InHand
  <2>3. \A u \in Members(client[c].got) : u.last => u.n * Segments < Settled(f)
    BY <1>1, <1>2, <2>2 DEF Calm
  <2>4. QED
    BY <1>3, <2>1, <2>3
<1>5. m \in Nat /\ m % Segments = 0
  BY <1>2, <1>3 DEF Neat
<1>6. client[c].sent = m
  <2>1. m = client[c].sent - Len(b)
    BY <1>3 DEF Settled, Untaken
  <2>2. Len(b) = 0 /\ client[c].sent \in Nat
    BY <1>4 DEF TInv, PeersOK
  <2>3. QED
    BY <2>1, <2>2
<1>7. Answered(c)
  BY <1>5, <1>6 DEF SendSegment
<1>8. PICK i \in DOMAIN client[c].got : /\ client[c].got[i].last
                                        /\ client[c].got[i].n = m \div Segments
  BY <1>4, <1>5, <1>6, <1>7 DEF Answered
<1>9. (m \div Segments) * Segments < m
  BY <1>4, <1>8 DEF Members
<1>10. PICK q \in Nat : m = q * Segments
  BY <1>5, WholeMultiple
<1>11. m \div Segments = q
  <2>1. PICK S \in Nat \ {0} : S = Segments
    BY SizesAssumption
  <2>2. (q * S + 0) \div S = q
    BY Division
  <2>3. q * S + 0 = m
    BY <1>5, <1>10, <2>1
  <2>4. QED
    BY <2>1, <2>2, <2>3, Zenon
<1>12. QED
  BY <1>9, <1>10, <1>11, SizesAssumption

LEMMA SendCalm == ASSUME TInv, SInv, FInv, NEW c \in Clients, SendSegment(c) PROVE FInv'
<1>1. /\ UNCHANGED <<snd, rst, backlog, sock, worker, conn, pending, writes, loop>>
      /\ \A d \in Clients \ {c} : client'[d] = client[d] /\ rcv'[d] = rcv[d]
      /\ client'[c].sent = client[c].sent + 1 /\ client'[c].st = client[c].st
      /\ client'[c].got = client[c].got
  BY DEF SendSegment, TInv, PeersOK, poolVars, loopVars
<1>2. \A f \in Fds : sock[f] # NoClient => sock[f] \in Clients
  BY Present
<1>3. Departed \subseteq Departed'
  <2>1. \A d \in Clients : client[d].sent \in Nat
    BY DEF TInv, PeersOK
  <2>2. \A d \in Clients : client[d].sent > 0 => client'[d].sent > 0
    BY <1>1, <2>1
  <2>3. \A d \in Departed : d \notin backlog'
    BY <1>1 DEF Departed, Disconnected
  <2>4. QED
    BY <1>1, <2>2, <2>3, DepartedKept
<1>4. /\ OnePlace => OnePlace'
      /\ \A f \in Fds : Out(f)' => Out(f)
  BY <1>1, PlacesSame
<1>5. PICK fs : fs = FdsOf(c)
  OBVIOUS
<1>6. ASSUME NEW f \in Fds, f \notin fs, sock'[f] # NoClient PROVE \E d : Unmoved(f, d)
  <2>1. PICK d : d = sock[f]
    OBVIOUS
  <2>2. d \in Clients /\ d # c /\ sock[f] = d /\ sock'[f] = d
    BY <1>1, <1>2, <1>5, <1>6, <2>1 DEF FdsOf
  <2>3. Buf(f)' = Buf(f)
    BY <1>1, SameConn
  <2>4. client'[d] = client[d] /\ snd'[d] = snd[d] /\ rcv'[d] = rcv[d]
    BY <1>1, <2>2
  <2>5. Arrived(d)' \subseteq Arrived(d)
    BY <2>4 DEF Arrived
  <2>6. Members(client'[d].got) \cup Members(snd'[d]) \subseteq InHand(d)
    BY <2>4, HandHas
  <2>7. InHand(d)' \subseteq InHand(d)
    BY <1>1, <2>6, HandSame
  <2>8. Unmoved(f, d)
    BY <1>1, <1>4, <2>2, <2>3, <2>4, <2>5, <2>7, ConnUnmoved
  <2>9. QED
    BY <2>8
<1>7. ASSUME NEW f \in fs, Departed = {}, AllCalm PROVE Calm(f)'
  <2>1. f \in Fds /\ sock[f] = c
    BY <1>5, <1>7 DEF FdsOf
  <2>2. ~Out(f) /\ ~conn[f].fileFd
    BY <1>7, <2>1, SenderIdle
  <2>3. ~Out(f)' /\ ~conn'[f].fileFd
    BY <1>1, <1>4, <2>1, <2>2
  <2>4. QED
    BY <2>3 DEF Calm
<1>8. /\ \A f \in Fds : conn'[f] # NoConn /\ conn'[f].fileFd => conn'[f].isFileStream
      /\ loop'.pc # "deliver" => writes' = <<>>
  BY <1>1 DEF FInv
<1>9. \A d \in rst' : client'[d].st = "closed"
  BY <1>1 DEF FInv, TInv, PeersOK
<1>10. Departed = {} /\ AllCalm => OnePlace'
  BY <1>4 DEF AllCalm
<1>11. QED
  BY <1>3, <1>6, <1>7, <1>8, <1>9, <1>10, CalmFrame, ClientsAssumption

-----------------------------------------------------------------------------
(* Connections that end.                                                   *)
LEMMA EraseCalm ==
    ASSUME TInv, SInv, FInv, NEW fs \in SUBSET Fds, Erase(fs),
           UNCHANGED <<client, rcv, rst, backlog>>,
           \A f \in Fds : f \notin fs /\ sock[f] # NoClient => snd'[sock[f]] = snd[sock[f]],
           \A f \in Fds : Out(f)' => Out(f), OnePlace => OnePlace',
           loop'.pc # "deliver" => writes' = <<>>
    PROVE  FInv'
<1>1. /\ \A f \in Fds : sock'[f] = IF f \in fs THEN NoClient ELSE sock[f]
      /\ \A f \in Fds : conn'[f] = IF f \in fs THEN NoConn ELSE conn[f]
  BY DEF Erase, CloseSock
<1>2. NoClient \notin Clients
  BY ClientsAssumption
<1>3. Departed \subseteq Departed'
  <2>1. \A d \in Departed : d \notin backlog' /\ d # NoClient
    BY <1>2 DEF Departed, Disconnected
  <2>2. QED
    BY <1>1, <2>1, DepartedKept
<1>4. ASSUME NEW f \in Fds, f \notin fs, sock'[f] # NoClient PROVE \E c : Unmoved(f, c)
  <2>1. PICK c : c = sock[f]
    OBVIOUS
  <2>2. sock[f] = c /\ sock'[f] = c /\ c # NoClient /\ conn'[f] = conn[f]
    BY <1>1, <1>4, <2>1
  <2>3. Buf(f)' = Buf(f)
    BY <2>2, SameConn
  <2>4. client'[c] = client[c] /\ snd'[c] = snd[c] /\ rcv'[c] = rcv[c]
    BY <1>4, <2>2
  <2>5. Arrived(c)' \subseteq Arrived(c)
    BY <2>4 DEF Arrived
  <2>6. \A g \in Fds : sock'[g] = c => sock[g] = c /\ conn'[g] = conn[g]
    BY <1>1, <2>2
  <2>7. \A g \in Fds : sock'[g] = c => Kept(g)' \subseteq InHand(c)
    BY <2>6, SameConn, HandHas
  <2>8. InHand(c)' \subseteq InHand(c)
    BY <2>4, <2>7, HandHas DEF InHand, FdsOf
  <2>9. Unmoved(f, c)
    BY <2>2, <2>3, <2>4, <2>5, <2>8, ConnUnmoved
  <2>10. QED
    BY <2>9
<1>5. \A f \in fs : sock'[f] = NoClient
  BY <1>1
<1>6. \A f \in Fds : conn'[f] # NoConn /\ conn'[f].fileFd => conn'[f].isFileStream
  BY <1>1 DEF FInv
<1>7. \A d \in rst' : client'[d].st = "closed"
  BY DEF FInv
<1>8. Departed = {} /\ AllCalm => OnePlace'
  BY DEF AllCalm
<1>9. QED
  BY <1>2, <1>3, <1>4, <1>5, <1>6, <1>7, <1>8, CalmFrame

LEMMA CloseCalm ==
    ASSUME TInv, SInv, FInv, NEW fs \in SUBSET Fds, Erase(fs),
           UNCHANGED <<client, kernelVars, worker, loop, writes, pending>>
    PROVE  FInv'
<1>1. UNCHANGED <<client, rcv, rst, backlog, snd>>
  BY DEF kernelVars
<1>2. /\ OnePlace => OnePlace'
      /\ \A f \in Fds : Out(f)' => Out(f)
  BY PlacesSame
<1>3. loop'.pc # "deliver" => writes' = <<>>
  BY DEF FInv
<1>4. QED
  BY <1>1, <1>2, <1>3, EraseCalm

LEMMA EndCalm ==
    ASSUME TInv, SInv, FInv,
           CleanupTimeouts \/ (\E f \in Fds, ev \in SocketEvents : HandleError(f, ev))
    PROVE  FInv'
<1>1. PICK fs \in SUBSET Fds : Erase(fs)
  BY DEF CleanupTimeouts, HandleError
<1>2. UNCHANGED <<client, kernelVars, worker, loop, writes, pending>>
  BY DEF CleanupTimeouts, HandleError, poolVars
<1>3. QED
  BY <1>1, <1>2, CloseCalm

-----------------------------------------------------------------------------
(* A step that moves the connection of f to k, and no other.                *)
LEMMA OneMoves ==
    ASSUME TInv, SInv, FInv, NEW f \in Fds, NEW k, conn[f] # NoConn,
           UNCHANGED <<client, rst, backlog, sock>>,
           conn'[f] = k, k.fileFd => k.isFileStream, \A g \in Fds \ {f} : conn'[g] = conn[g],
           \A d \in Clients : d # sock[f] => rcv'[d] = rcv[d] /\ snd'[d] = snd[d],
           \A g \in Fds : g # f => (Out(g)' => Out(g)),
           Departed = {} /\ AllCalm => OnePlace' /\ Calm(f)',
           loop'.pc # "deliver" => writes' = <<>>
    PROVE  FInv'
<1>1. Departed \subseteq Departed'
  BY DEF Departed, Disconnected, FdsOf
<1>2. ASSUME NEW g \in Fds, g \notin {f}, sock'[g] # NoClient PROVE \E c : Unmoved(g, c)
  <2>1. PICK c : c = sock[g]
    OBVIOUS
  <2>2. /\ c \in Clients /\ sock[g] = c /\ sock'[g] = c /\ c # sock[f]
        /\ \A h \in Fds : sock[h] = c => h = g
    BY <1>2, <2>1, Present DEF SInv, OneSocket
  <2>3. Buf(g)' = Buf(g) /\ Kept(g)' = Kept(g) /\ conn'[g] = conn[g]
    BY <1>2, SameConn
  <2>4. client'[c] = client[c] /\ snd'[c] = snd[c] /\ rcv'[c] = rcv[c]
    BY <2>2
  <2>5. Arrived(c)' \subseteq Arrived(c)
    BY <2>4 DEF Arrived
  <2>6. \A h \in Fds : sock'[h] = c => Kept(h)' \subseteq InHand(c)
    BY <2>2, <2>3, HandHas
  <2>7. InHand(c)' \subseteq InHand(c)
    BY <2>4, <2>6, HandHas DEF InHand, FdsOf
  <2>8. Unmoved(g, c)
    BY <1>2, <2>2, <2>3, <2>4, <2>5, <2>7, ConnUnmoved
  <2>9. QED
    BY <2>8
<1>3. \A g \in Fds : conn'[g] # NoConn /\ conn'[g].fileFd => conn'[g].isFileStream
  BY DEF FInv
<1>4. \A d \in rst' : client'[d].st = "closed"
  BY DEF FInv
<1>5. PICK fs : fs = {f}
  OBVIOUS
<1>6. \A g \in fs : Departed = {} /\ AllCalm => Calm(g)'
  BY <1>5
<1>7. QED
  BY <1>1, <1>2, <1>3, <1>4, <1>5, <1>6, CalmFrame, ClientsAssumption

LEMMA ReadCalm ==
    ASSUME TInv, SInv, FInv, NEW f \in Fds, NEW ev \in SocketEvents, HandleRead(f, ev)
    PROVE  FInv'
<1>1. UNCHANGED <<client, snd, rst, backlog, worker, pending, writes>> /\ loop.pc = "events"
  BY DEF HandleRead, poolVars, Handle
<1>2. PICK c : c = sock[f]
  OBVIOUS
<1>3. /\ OnePlace => OnePlace'
      /\ \A g \in Fds : Out(g)' => Out(g)
  BY <1>1, PlacesSame
<1>4. writes' = <<>>
  BY <1>1 DEF FInv
<1>5. CASE EndOfStream(c)
  <2>1. Erase({f}) /\ UNCHANGED <<rcv, loop>>
    BY <1>2, <1>5 DEF HandleRead
  <2>2. QED
    BY <1>1, <1>3, <1>4, <2>1, EraseCalm
<1>6. CASE ~EndOfStream(c) /\ rcv[c] = <<>>
  <2>1. UNCHANGED <<rcv, conn, loop, sock>>
    BY <1>2, <1>6 DEF HandleRead, sockVars
  <2>2. \A g \in Fds : Buf(g)' = Buf(g) /\ Kept(g)' = Kept(g)
    BY <2>1, SameConn
  <2>3. QED
    BY <1>1, <1>3, <1>4, <2>1, <2>2, RestCalm
<1>7. CASE ~EndOfStream(c) /\ rcv[c] # <<>>
  <2>1. c # NoClient /\ c \in Clients /\ conn[f] # NoConn /\ conn[f] \in ConnType
    BY <1>2, <1>7 DEF EndOfStream, TInv, SocketsOK, ConnOwnsSocket
  <2>2. PICK q, k, b : q = rcv[c] /\ k = conn[f] /\ b = k.rbuf \o q
    OBVIOUS
  <2>3. /\ q \in Seq(Segment) /\ k.rbuf \in Seq(Segment) /\ b \in Seq(Segment)
        /\ Buf(f) = k.rbuf /\ Untaken(f) = b
    <3>1. q \in Seq(Segment)
      BY <2>1, <2>2 DEF TInv, PeersOK
    <3>2. k.rbuf \in Seq(Segment) /\ Buf(f) = k.rbuf
      BY <2>1, <2>2 DEF ConnType, Buf
    <3>3. QED
      BY <1>2, <2>2, <3>1, <3>2 DEF Untaken
  <2>4. /\ rcv' = [rcv EXCEPT ![c] = Drop(q, Len(q))]
        /\ conn' = [conn EXCEPT ![f].rbuf = b, ![f].age = 0] /\ sock' = sock
    BY <1>2, <1>7, <2>2 DEF HandleRead, RequestData, sockVars
  <2>5. PICK j : j = [k EXCEPT !.rbuf = b, !.age = 0]
    OBVIOUS
  <2>6. /\ j \in ConnType /\ j.rbuf = b /\ j.wbuf = k.wbuf /\ j.stream = k.stream /\ j # NoConn
        /\ j.fileFd = k.fileFd /\ j.isFileStream = k.isFileStream
    <3>1. /\ j \in ConnType /\ j.rbuf = b /\ j.wbuf = k.wbuf /\ j.stream = k.stream
          /\ j.fileFd = k.fileFd /\ j.isFileStream = k.isFileStream
      BY <2>1, <2>2, <2>3, <2>5 DEF ConnType
    <3>2. QED
      BY <3>1, NoConnAssumption
  <2>7. conn'[f] = j /\ \A g \in Fds \ {f} : conn'[g] = conn[g]
    BY <2>2, <2>4, <2>5 DEF TInv, SocketsOK
  <2>8. rcv'[c] = <<>> /\ \A d \in Clients : d = c \/ rcv'[d] = rcv[d]
    <3>1. Len(q) \in 0 .. Len(q)
      BY <2>3
    <3>2. Drop(q, Len(q)) \in Seq(Segment) /\ Len(Drop(q, Len(q))) = Len(q) - Len(q)
      BY <2>3, <3>1, DropTyped
    <3>3. Drop(q, Len(q)) = <<>>
      BY <3>1, <3>2
    <3>4. QED
      BY <2>1, <2>4, <3>3 DEF TInv, PeersOK
  <2>9. Buf(f)' = b /\ Kept(f)' = Kept(f)
    BY <2>1, <2>2, <2>6, <2>7 DEF Buf, Kept
  <2>10. Untaken(f)' = Untaken(f)
    <3>1. b \o <<>> = b
      BY <2>3, Emptied
    <3>2. QED
      BY <1>2, <2>3, <2>4, <2>8, <2>9, <3>1 DEF Untaken
  <2>11. InHand(c)' \subseteq InHand(c) /\ Arrived(c)' = Arrived(c)
    <3>1. \A g \in Fds : Kept(g)' = Kept(g)
      BY <2>7, <2>9, SameConn
    <3>2. \A g \in Fds : sock'[g] = c => Kept(g)' \subseteq InHand(c)
      BY <2>4, <3>1, HandHas
    <3>3. QED
      BY <1>1, <3>2, HandHas DEF InHand, FdsOf, Arrived
  <2>12. Unmoved(f, c)
    BY <1>1, <1>2, <1>3, <2>2, <2>4, <2>6, <2>7, <2>10, <2>11 DEF Unmoved
  <2>13. AllCalm => OnePlace' /\ Calm(f)'
    BY <1>2, <1>3, <2>1, <2>12, UnmovedCalm DEF AllCalm
  <2>14. j.fileFd => j.isFileStream
    BY <2>1, <2>2, <2>6 DEF FInv
  <2>15. QED
    BY <1>1, <1>2, <1>3, <1>4, <2>1, <2>4, <2>7, <2>8, <2>13, <2>14, OneMoves
<1>8. QED
  BY <1>5, <1>6, <1>7

-----------------------------------------------------------------------------
(* A worker takes a request only after the answer to the one before.        *)
LEMMA TakeJobCalm ==
    ASSUME TInv, SInv, FInv, NEW w \in Workers, NEW f \in Fds, TakeJob(w, f)
    PROVE  FInv'
<1>1. /\ UNCHANGED <<client, rcv, snd, rst, backlog, sock, pending, writes, loop>>
      /\ worker[w].pc = "idle" /\ jobs[f] > 0
  BY DEF TakeJob, kernelVars, sockVars, loopVars
<1>2. loop'.pc # "deliver" => writes' = <<>>
  BY <1>1 DEF FInv
<1>3. CASE conn[f] = NoConn
  <2>1. UNCHANGED <<worker, conn>>
    BY <1>3 DEF TakeJob
  <2>2. \A g \in Fds : Buf(g)' = Buf(g) /\ Kept(g)' = Kept(g)
    BY <2>1, SameConn
  <2>3. /\ OnePlace => OnePlace'
        /\ \A g \in Fds : Out(g)' => Out(g)
    BY <1>1, <2>1, PlacesSame
  <2>4. QED
    BY <1>1, <1>2, <2>1, <2>2, <2>3, RestCalm
<1>4. CASE conn[f] # NoConn
  <2>1. PICK c, k, b, q : c = sock[f] /\ k = conn[f] /\ b = k.rbuf /\ q = rcv[c]
    OBVIOUS
  <2>2. /\ c \in Clients /\ k \in ConnType /\ b \in Seq(Segment) /\ Buf(f) = b /\ c # NoClient
        /\ q \in Seq(Segment) /\ Untaken(f) = b \o q
    <3>1. c \in Clients /\ k \in ConnType
      BY <1>4, <2>1, ConnectionTyped DEF TInv
    <3>2. QED
      BY <1>4, <2>1, <3>1, ClientsAssumption DEF Buf, ConnType, TInv, PeersOK, Untaken
  <2>3. PICK e, j : e = <<>> /\ j = [k EXCEPT !.rbuf = e]
    OBVIOUS
  <2>4. /\ j \in ConnType /\ j.rbuf = e /\ j.wbuf = k.wbuf /\ j.stream = k.stream
        /\ j # NoConn /\ j.fileFd = k.fileFd /\ j.isFileStream = k.isFileStream
    <3>1. e \in Seq(Segment)
      BY <2>3
    <3>2. /\ j \in ConnType /\ j.rbuf = e /\ j.wbuf = k.wbuf /\ j.stream = k.stream
          /\ j.fileFd = k.fileFd /\ j.isFileStream = k.isFileStream
      BY <2>2, <2>3, <3>1 DEF ConnType
    <3>3. QED
      BY <3>2, NoConnAssumption
  <2>5. /\ worker' = [worker EXCEPT ![w] = [pc |-> "run", fd |-> f, data |-> b]]
        /\ conn' = [conn EXCEPT ![f] = j]
    BY <1>4, <2>1, <2>3 DEF TakeJob
  <2>6. conn'[f] = j /\ \A g \in Fds \ {f} : conn'[g] = conn[g]
    BY <2>5 DEF TInv, SocketsOK
  <2>7. Buf(f)' = <<>> /\ Kept(f)' = Kept(f)
    BY <1>4, <2>1, <2>3, <2>4, <2>6 DEF Buf, Kept
  <2>8. \A g : g # f => (Out(g)' <=> Out(g))
    BY <1>1, <2>5, TakeElsewhere
  <2>9. ASSUME Departed = {}, AllCalm PROVE OnePlace' /\ Calm(f)'
    <3>1. Neat(f) /\ Calm(f)
      BY <2>1, <2>2, <2>9 DEF SInv, Undisturbed, Disturbed, AllCalm
    <3>2. PICK m : m = Settled(f)
      OBVIOUS
    <3>3. /\ m \in Nat /\ q = <<>> /\ Len(b) = Segments
          /\ \A u \in InHand(c) : u.n * Segments <= m
      BY <1>1, <2>1, <2>2, <3>1, <3>2 DEF Neat
    <3>4. b \o q = b /\ b # <<>>
      BY <2>2, <3>3, Emptied, SizesAssumption
    <3>5. ~Out(f) /\ ~k.fileFd
      BY <2>1, <2>2, <3>1, <3>4 DEF Calm
    <3>6. OnePlace'
      BY <1>1, <2>5, <2>9, <3>5, TakePlaces DEF AllCalm
    <3>7. client[c].sent = m + Segments
      <4>1. m = client[c].sent - Len(b)
        BY <2>1, <2>2, <3>2, <3>4 DEF Settled
      <4>2. client[c].sent \in Nat
        BY <2>2 DEF TInv, PeersOK
      <4>3. QED
        BY SMTT(30), <3>3, <4>1, <4>2, SizesAssumption
    <3>8. Untaken(f)' = <<>>
      BY <1>1, <2>1, <2>7, <3>3 DEF Untaken
    <3>9. PICK mm : mm = m + Segments
      OBVIOUS
    <3>10. Settled(f)' = mm /\ mm > 0 /\ mm > m
      <4>1. Settled(f)' = client[c].sent - 0
        BY <1>1, <2>1, <3>8 DEF Settled, Untaken
      <4>2. QED
        BY <3>3, <3>7, <3>9, <4>1, SizesAssumption
    <3>11. \A u \in InHand(c)' : u.n * Segments < mm
      <4>1. \A g \in Fds : Kept(g)' = Kept(g)
        BY <2>6, <2>7, SameConn
      <4>2. \A g \in Fds : sock'[g] = c => Kept(g)' \subseteq InHand(c)
        BY <1>1, <4>1, HandHas
      <4>3. InHand(c)' \subseteq InHand(c)
        BY <1>1, <4>2, HandHas DEF InHand, FdsOf
      <4>4. InHand(c) \subseteq UnitType
        <5>1. c \in Clients
          BY <2>2
        <5>2. QED
          BY <5>1, HandTyped
      <4>5. ASSUME NEW u \in InHand(c) PROVE u.n * Segments < mm
        <5>1. u.n \in Nat
          BY <4>4 DEF UnitType
        <5>2. u.n * Segments \in Nat
          BY <5>1, SizesAssumption
        <5>3. QED
          BY <3>3, <3>9, <5>2, SizesAssumption
      <4>6. QED
        BY <4>3, <4>5
    <3>12. ~conn'[f].fileFd /\ sock'[f] = c
      BY <1>1, <2>1, <2>4, <2>6, <3>5
    <3>13. QED
      BY <3>6, <3>8, <3>10, <3>11, <3>12 DEF Calm
  <2>10. j.fileFd => j.isFileStream
    BY <1>4, <2>1, <2>4 DEF FInv
  <2>11. QED
    BY <1>1, <1>2, <1>4, <2>6, <2>8, <2>9, <2>10, OneMoves
<1>5. QED
  BY <1>3, <1>4

-----------------------------------------------------------------------------
(* A new connection takes a descriptor that no response is under way for.   *)
LEMMA AcceptCalm == ASSUME TInv, SInv, FInv, NEW c \in Clients, Accept(c) PROVE FInv'
<1>1. /\ UNCHANGED <<client, rcv, snd, rst, worker, pending, writes, loop>>
      /\ c \in backlog /\ backlog' = backlog \ {c}
  BY DEF Accept, poolVars, loopVars
<1>2. PICK f \in Free : sock' = [sock EXCEPT ![f] = c] /\ conn' = [conn EXCEPT ![f] = Fresh]
  BY AcceptTakes
<1>3. f \in Fds /\ sock[f] = NoClient
  BY <1>2 DEF Free
<1>4. /\ sock'[f] = c /\ conn'[f] = Fresh
      /\ \A g \in Fds \ {f} : sock'[g] = sock[g] /\ conn'[g] = conn[g]
  BY <1>2, <1>3 DEF TInv, SocketsOK
<1>5. \A g \in Fds : sock[g] # c
  BY <1>1, <1>3, ClientsAssumption DEF SInv, OneSocket
<1>6. Departed \subseteq Departed'
  <2>1. \A d \in Departed : d \notin backlog' /\ d # c
    BY <1>1 DEF Departed, Disconnected
  <2>2. \A g \in Fds : sock'[g] \in Departed => sock'[g] = sock[g]
    BY <1>4, <2>1
  <2>3. QED
    BY <1>1, <2>1, <2>2, DepartedKept
<1>7. /\ OnePlace => OnePlace'
      /\ \A g : Out(g)' <=> Out(g)
  BY <1>1, PlacesSame
<1>8. ASSUME NEW g \in Fds, g \notin {f}, sock'[g] # NoClient PROVE \E d : Unmoved(g, d)
  <2>1. PICK d : d = sock[g]
    OBVIOUS
  <2>2. sock[g] = d /\ sock'[g] = d /\ d # c /\ conn'[g] = conn[g]
    BY <1>4, <1>5, <1>8, <2>1
  <2>3. Buf(g)' = Buf(g)
    BY <2>2, SameConn
  <2>4. Arrived(d)' = Arrived(d)
    BY <1>1 DEF Arrived
  <2>5. \A h \in Fds : sock'[h] = d => sock[h] = d /\ conn'[h] = conn[h]
    BY <1>4, <2>2
  <2>6. \A h \in Fds : sock'[h] = d => Kept(h)' \subseteq InHand(d)
    BY <2>5, SameConn, HandHas
  <2>7. InHand(d)' \subseteq InHand(d)
    BY <1>1, <2>6, HandHas DEF InHand, FdsOf
  <2>8. Unmoved(g, d)
    BY <1>1, <1>7, <1>8, <2>2, <2>3, <2>4, <2>7, ConnUnmoved
  <2>9. QED
    BY <2>8
<1>9. ASSUME Departed = {} PROVE Calm(f)'
  <2>1. ~Out(f)'
    BY <1>3, <1>7, <1>9, OutHasSocket
  <2>2. ~conn'[f].fileFd
    BY <1>4 DEF Fresh
  <2>3. QED
    BY <2>1, <2>2 DEF Calm
<1>10. \A g \in Fds : conn'[g] # NoConn /\ conn'[g].fileFd => conn'[g].isFileStream
  <2>1. ~Fresh.fileFd
    BY DEF Fresh
  <2>2. QED
    BY <1>4, <2>1 DEF FInv
<1>11. /\ \A d \in rst' : client'[d].st = "closed"
       /\ loop'.pc # "deliver" => writes' = <<>>
  BY <1>1 DEF FInv
<1>12. Departed = {} /\ AllCalm => OnePlace'
  BY <1>7 DEF AllCalm
<1>13. PICK fs : fs = {f}
  OBVIOUS
<1>14. \A g \in fs : Departed = {} => Calm(g)'
  BY <1>9, <1>13
<1>15. QED
  BY <1>6, <1>8, <1>10, <1>11, <1>12, <1>13, <1>14, CalmFrame, ClientsAssumption

-----------------------------------------------------------------------------
(* The parts of a stream that ends with its last unit.                      *)
LEMMA StreamParts ==
    ASSUME NEW s \in Seq(UnitType), LastEnds(s), NEW n \in 0 .. Len(s), Drop(s, n) # <<>>
    PROVE  LastEnds(Drop(s, n)) /\ \A u \in Members(SubSeq(s, 1, n)) : ~u.last
<1>1. /\ Drop(s, n) \in Seq(UnitType) /\ Len(Drop(s, n)) = Len(s) - n
      /\ SubSeq(s, 1, n) \in Seq(UnitType) /\ Len(SubSeq(s, 1, n)) = n
  BY DropTyped, PrefixTyped
<1>2. n < Len(s)
  BY <1>1
<1>3. \A i \in 1 .. Len(s) - n : Drop(s, n)[i] = s[n + i]
  <2>1. \A i \in n + 1 .. Len(s) : s[i] \in UnitType
    OBVIOUS
  <2>2. n + 1 \in Int /\ Len(s) \in Int
    OBVIOUS
  <2>3. \A i \in 1 .. Len(s) - (n + 1) + 1 : SubSeq(s, n + 1, Len(s))[i] = s[(n + 1) + i - 1]
    BY <2>1, <2>2, SubSeqProperties
  <2>4. \A i \in 1 .. Len(s) - n : i \in 1 .. Len(s) - (n + 1) + 1 /\ (n + 1) + i - 1 = n + i
    OBVIOUS
  <2>5. QED
    BY <2>3, <2>4 DEF Drop
<1>4. \A i \in 1 .. n : SubSeq(s, 1, n)[i] = s[i]
  <2>1. \A i \in 1 .. n : s[i] \in UnitType
    OBVIOUS
  <2>2. 1 \in Int /\ n \in Int
    OBVIOUS
  <2>3. \A i \in 1 .. n - 1 + 1 : SubSeq(s, 1, n)[i] = s[1 + i - 1]
    BY <2>1, <2>2, SubSeqProperties
  <2>4. \A i \in 1 .. n : i \in 1 .. n - 1 + 1 /\ 1 + i - 1 = i
    OBVIOUS
  <2>5. QED
    BY <2>3, <2>4
<1>5. PICK t, p : t = Drop(s, n) /\ p = SubSeq(s, 1, n)
  OBVIOUS
<1>6. LastEnds(t)
  <2>1. ASSUME NEW i \in 1 .. Len(t), t[i].last PROVE i = Len(t)
    <3>1. Len(t) = Len(s) - n /\ t[i] = s[n + i] /\ n + i \in 1 .. Len(s)
      BY <1>1, <1>3, <1>5, <2>1
    <3>2. n + i = Len(s)
      BY <2>1, <3>1 DEF LastEnds
    <3>3. QED
      BY <3>1, <3>2
  <2>2. QED
    BY <2>1 DEF LastEnds
<1>7. \A u \in Members(p) : ~u.last
  <2>1. ASSUME NEW i \in DOMAIN p PROVE ~p[i].last
    <3>1. p \in Seq(UnitType) /\ Len(p) = n
      BY <1>1, <1>5
    <3>2. i \in 1 .. n
      BY <2>1, <3>1
    <3>3. p[i] = s[i]
      BY <1>4, <1>5, <3>2
    <3>4. i \in 1 .. Len(s) /\ i # Len(s)
      BY <1>2, <3>2
    <3>5. QED
      BY <3>3, <3>4 DEF LastEnds
  <2>2. QED
    BY <2>1 DEF Members
<1>8. QED
  BY <1>5, <1>6, <1>7, Zenon

LEMMA ChunkMoves ==
    ASSUME TInv, NEW f \in Fds, conn[f] # NoConn, NEW k \in ConnType, k.rbuf = conn[f].rbuf,
           k.fileFd, k.isFileStream,
           NEW head \in Seq(UnitType), Len(head) <= Room(sock[f]), \A u \in Members(head) : ~u.last,
           NEW open \in Int, SendFileChunked(f, k, head, open), sock[f] \notin rst
    PROVE  /\ Passes(f) /\ files' = open - 1 + Held(conn'[f])
           /\ conn'[f].fileFd => conn'[f].isFileStream
           /\ LastEnds(k.stream) /\ conn'[f].fileFd =>
                 /\ LastEnds(conn'[f].stream)
                 /\ \A u \in Members(snd'[sock[f]]) : u.last => u \in Members(snd[sock[f]])
<1>1. PICK c, s : c = sock[f] /\ s = k.stream
  OBVIOUS
<1>2. s \in Seq(UnitType) /\ Len(s) \in Nat
  BY <1>1 DEF ConnType
<1>3. PICK n \in 0 .. Len(s) :
         /\ Passes(f)
         /\ Members(snd'[c]) = Members(snd[c]) \cup (Members(head) \cup Members(SubSeq(s, 1, n)))
         /\ \/ ~conn'[f].fileFd /\ files' = open - 1
            \/ /\ conn'[f].stream = Drop(s, n) /\ Drop(s, n) # <<>>
               /\ conn'[f].fileFd /\ conn'[f].isFileStream /\ files' = open
  BY <1>1, ChunkParts
<1>4. CASE ~conn'[f].fileFd /\ files' = open - 1
  <2>1. Held(conn'[f]) = 0
    BY <1>4 DEF Held
  <2>2. QED
    BY <1>3, <1>4, <2>1
<1>5. CASE /\ conn'[f].stream = Drop(s, n) /\ Drop(s, n) # <<>>
           /\ conn'[f].fileFd /\ conn'[f].isFileStream /\ files' = open
  <2>1. Held(conn'[f]) = 1 /\ files' = open - 1 + 1
    BY <1>3, <1>5 DEF Held, Passes
  <2>2. ASSUME LastEnds(s)
        PROVE  LastEnds(conn'[f].stream) /\ \A u \in Members(SubSeq(s, 1, n)) : ~u.last
    <3>1. LastEnds(Drop(s, n)) /\ \A u \in Members(SubSeq(s, 1, n)) : ~u.last
      BY <1>2, <1>5, <2>2, StreamParts
    <3>2. QED
      BY <1>5, <3>1, Zenon
  <2>3. LastEnds(s) => \A u \in Members(snd'[c]) : u.last => u \in Members(snd[c])
    BY <1>3, <2>2
  <2>4. QED
    BY <1>1, <1>3, <1>5, <2>1, <2>2, <2>3
<1>6. QED
  BY <1>3, <1>4, <1>5

-----------------------------------------------------------------------------
(* What is sent of a file leaves the end of the answer to be sent.          *)
LEMMA WriteCalm ==
    ASSUME TInv, SInv, FInv, NEW f \in Fds, NEW ev \in SocketEvents, HandleWrite(f, ev)
    PROVE  FInv'
<1>1. UNCHANGED <<client, worker, pending, writes, loop>> /\ loop.pc = "events"
  BY DEF HandleWrite, poolVars, Handle
<1>2. /\ OnePlace => OnePlace'
      /\ \A g \in Fds : Out(g)' <=> Out(g)
  BY <1>1, PlacesSame
<1>3. writes' = <<>>
  BY <1>1 DEF FInv
<1>4. CASE conn[f] = NoConn
  <2>1. UNCHANGED <<rcv, snd, rst, backlog, sock, conn>>
    BY <1>4 DEF HandleWrite, kernelVars, sockVars
  <2>2. \A g \in Fds : Buf(g)' = Buf(g) /\ Kept(g)' = Kept(g)
    BY <2>1, SameConn
  <2>3. QED
    BY <1>1, <1>2, <1>3, <2>1, <2>2, RestCalm
<1>5. CASE conn[f] # NoConn /\ sock[f] \in rst
  <2>1. Erase({f}) /\ UNCHANGED <<rcv, snd, rst, backlog>>
    BY <1>5 DEF HandleWrite, SendFileChunked, FlushBuffer, kernelVars
  <2>2. QED
    BY <1>1, <1>2, <1>3, <2>1, EraseCalm
<1>6. CASE conn[f] # NoConn /\ sock[f] \notin rst
  <2>1. PICK c : c = sock[f]
    OBVIOUS
  <2>2. c \in Clients /\ conn[f] \in ConnType /\ c # NoClient
    BY <1>6, <2>1, KeptOurs, ClientsAssumption
  <2>3. CASE conn[f].isFileStream /\ conn[f].fileFd
    <3>1. PICK k, head : k = conn[f] /\ head = <<>>
      OBVIOUS
    <3>2. SendFileChunked(f, k, head, files)
      BY <1>6, <2>3, <3>1 DEF HandleWrite
    <3>3. head \in Seq(UnitType) /\ Len(head) = 0 /\ \A u \in Members(head) : ~u.last
      BY <3>1 DEF Members
    <3>4. Len(head) <= Room(sock[f]) /\ files \in Int
      BY <2>1, <2>2, <3>3, RoomTyped DEF TInv, FilesOK
    <3>5. /\ Passes(f) /\ (conn'[f].fileFd => conn'[f].isFileStream)
          /\ LastEnds(k.stream) /\ conn'[f].fileFd =>
                /\ LastEnds(conn'[f].stream)
                /\ \A u \in Members(snd'[c]) : u.last => u \in Members(snd[c])
      BY <1>6, <2>1, <2>2, <2>3, <3>1, <3>2, <3>3, <3>4, ChunkMoves
    <3>6. ASSUME AllCalm PROVE OnePlace' /\ Calm(f)'
      <4>1. Calm(f) /\ ~Out(f) /\ LastEnds(k.stream)
        BY <2>1, <2>2, <2>3, <3>1, <3>6 DEF AllCalm, Calm
      <4>2. sock'[f] = c /\ Untaken(f)' = Untaken(f)
        BY <2>1, <3>5 DEF Passes, Untaken
      <4>3. conn'[f].fileFd => /\ LastEnds(conn'[f].stream)
                               /\ \A u \in Arrived(c)' : u.last => u \in Arrived(c)
        BY <1>1, <3>5, <4>1 DEF Arrived
      <4>4. client'[c].sent = client[c].sent /\ ~Out(f)'
        BY <1>1, <1>2, <4>1
      <4>5. conn'[f].fileFd => conn[f].fileFd
        BY <2>3
      <4>6. Calm(f)'
        BY <2>1, <4>1, <4>2, <4>3, <4>4, <4>5, CalmKept
      <4>7. QED
        BY <1>2, <3>6, <4>6 DEF AllCalm
    <3>7. QED
      BY <1>1, <1>2, <1>3, <1>6, <3>5, <3>6, OneMoves DEF Passes
  <2>4. CASE ~(conn[f].isFileStream /\ conn[f].fileFd)
    <3>1. FlushBuffer(f) /\ ~conn[f].fileFd
      BY <1>6, <2>4 DEF HandleWrite, FInv
    <3>2. /\ Passes(f) /\ SameStream(f) /\ Kept(f)' \subseteq Kept(f)
          /\ Members(snd'[c]) \subseteq Members(snd[c]) \cup Kept(f)
      BY <1>6, <2>1, <3>1, FlushMoves
    <3>3. ~conn'[f].fileFd
      BY <3>1, <3>2 DEF SameStream
    <3>4. InHand(c)' \subseteq InHand(c)
      <4>1. \A g \in Fds : sock'[g] = c => g = f
        BY <2>1, <2>2, <3>2 DEF Passes, SInv, OneSocket
      <4>2. \A g \in Fds : sock'[g] = c => Kept(g)' \subseteq InHand(c)
        BY <2>1, <3>2, <4>1, HandHas
      <4>3. Kept(f) \subseteq InHand(c)
        BY <2>1, HandHas
      <4>4. Members(snd'[c]) \subseteq InHand(c) /\ Members(client'[c].got) \subseteq InHand(c)
        BY <1>1, <3>2, <4>3, HandHas
      <4>5. QED
        BY <4>2, <4>4 DEF InHand, FdsOf
    <3>5. ASSUME AllCalm PROVE OnePlace' /\ Calm(f)'
      <4>1. Calm(f)
        BY <2>1, <2>2, <3>5 DEF AllCalm
      <4>2. sock'[f] = c /\ Untaken(f)' = Untaken(f)
        BY <2>1, <3>2 DEF Passes, Untaken
      <4>3. client'[c].sent = client[c].sent /\ (Out(f)' => Out(f))
        BY <1>1, <1>2
      <4>4. Calm(f)'
        BY <2>1, <3>3, <3>4, <4>1, <4>2, <4>3, CalmKept
      <4>5. QED
        BY <1>2, <3>5, <4>4 DEF AllCalm
    <3>6. QED
      BY <1>1, <1>2, <1>3, <1>6, <3>2, <3>3, <3>5, OneMoves DEF Passes
  <2>5. QED
    BY <2>3, <2>4
<1>7. QED
  BY <1>4, <1>5, <1>6

LEMMA BodyEnds ==
    ASSUME NEW r
    PROVE  LastEnds(Body(r)) /\ \A u \in Members(Header(r)) : ~u.last
<1>1. ~Unit(r, 1, FALSE).last /\ ~Unit(r, 2, FALSE).last
  BY DEF Unit
<1>2. LastEnds(Body(r))
  <2>1. PICK a, b : a = Unit(r, 2, FALSE) /\ b = Unit(r, 3, TRUE)
    OBVIOUS
  <2>2. LastEnds(<<a, b>>)
    <3>1. PICK t : t = <<a, b>>
      OBVIOUS
    <3>2. Len(t) = 2 /\ t[1] = a
      BY <3>1
    <3>3. ~t[1].last
      BY <1>1, <2>1, <3>2
    <3>4. LastEnds(t)
      BY <3>2, <3>3 DEF LastEnds
    <3>5. QED
      BY <3>1, <3>4, Zenon
  <2>3. QED
    BY <2>1, <2>2, Zenon DEF Body
<1>3. Members(Header(r)) = {Unit(r, 1, FALSE)}
  <2>1. \A u : Members(<<u>>) = {u}
    BY DEF Members
  <2>2. QED
    BY <2>1, Zenon DEF Header
<1>4. QED
  BY <1>1, <1>2, <1>3

LEMMA FileMoves ==
    ASSUME TInv, NEW r \in ResponseType, NEW f \in Fds, conn[f] # NoConn,
           StreamFile(f, r), sock[f] \notin rst
    PROVE  /\ Passes(f) /\ files' = files + Held(conn'[f])
           /\ conn'[f].fileFd => conn'[f].isFileStream
           /\ conn'[f].fileFd =>
                 /\ LastEnds(conn'[f].stream)
                 /\ \A u \in Members(snd'[sock[f]]) : u.last => u \in Members(snd[sock[f]])
<1>1. sock[f] \in Clients /\ conn[f] \in ConnType /\ conn[f] # NoConn
  BY KeptOurs
<1>2. PICK b, e, t : b = Body(r) /\ e = <<>> /\ t = TRUE
  OBVIOUS
<1>3. b \in Seq(UnitType) /\ e \in Seq(UnitType) /\ t \in BOOLEAN /\ LastEnds(b)
  <2>1. b \in Seq(UnitType) /\ LastEnds(b)
    BY <1>2, UnitsTyped, BodyEnds
  <2>2. e \in Seq(UnitType)
    BY <1>2
  <2>3. QED
    BY <1>2, <2>1, <2>2
<1>4. PICK k : k = [conn[f] EXCEPT !.isFileStream = t, !.fileFd = t, !.stream = b,
                                   !.wbuf = e, !.written = 0]
  OBVIOUS
<1>5. /\ k \in ConnType /\ k.rbuf = conn[f].rbuf /\ k.stream = b
      /\ k.fileFd = t /\ k.isFileStream = t
  BY <1>1, <1>3, <1>4 DEF ConnType
<1>6. PICK n : n = Least(Room(sock[f]), 1)
  OBVIOUS
<1>7. n \in 0 .. 1 /\ n <= Room(sock[f])
  <2>1. Room(sock[f]) \in Nat
    BY <1>1, RoomTyped DEF TInv
  <2>2. PICK a \in Nat : a = Room(sock[f])
    BY <2>1
  <2>3. Least(a, 1) \in 0 .. 1 /\ Least(a, 1) <= a
    BY DEF Least
  <2>4. QED
    BY <1>6, <2>2, <2>3
<1>8. PICK head : head = SubSeq(Header(r), 1, n)
  OBVIOUS
<1>9. head \in Seq(UnitType) /\ Len(head) <= Room(sock[f]) /\ \A u \in Members(head) : ~u.last
  <2>1. Header(r) \in Seq(UnitType) /\ Len(Header(r)) = 1 /\ \A u \in Members(Header(r)) : ~u.last
    BY UnitsTyped, BodyEnds
  <2>2. n \in 0 .. Len(Header(r)) /\ 0 \in 0 .. Len(Header(r)) /\ 0 + 1 = 1
    BY <1>7, <2>1
  <2>3. SubSeq(Header(r), 1, n) \in Seq(UnitType) /\ Len(SubSeq(Header(r), 1, n)) = n
    BY <2>1, <2>2, PrefixTyped
  <2>4. Members(SubSeq(Header(r), 0 + 1, n)) \subseteq Members(Header(r))
    BY <2>1, <2>2, SliceMembers
  <2>5. QED
    BY <1>7, <1>8, <2>1, <2>2, <2>3, <2>4
<1>10. SendFileChunked(f, k, head, files + 1)
  BY <1>2, <1>4, <1>6, <1>8 DEF StreamFile
<1>11. PICK open : open = files + 1
  OBVIOUS
<1>12. open \in Int /\ files \in Nat
  BY <1>11 DEF TInv, FilesOK
<1>13. k.fileFd /\ k.isFileStream /\ LastEnds(k.stream)
  BY <1>2, <1>3, <1>5
<1>14. /\ Passes(f) /\ files' = open - 1 + Held(conn'[f])
       /\ conn'[f].fileFd => conn'[f].isFileStream
       /\ LastEnds(k.stream) /\ conn'[f].fileFd =>
             /\ LastEnds(conn'[f].stream)
             /\ \A u \in Members(snd'[sock[f]]) : u.last => u \in Members(snd[sock[f]])
  BY <1>1, <1>5, <1>9, <1>10, <1>11, <1>12, <1>13, ChunkMoves
<1>15. Held(conn'[f]) \in {0, 1}
  BY DEF Held
<1>16. open - 1 + Held(conn'[f]) = files + Held(conn'[f])
  BY <1>11, <1>12, <1>15
<1>17. QED
  BY <1>13, <1>14, <1>16

(* The response delivered was the last one on its descriptor.               *)
LEMMA DeliverCalm == ASSUME TInv, SInv, FInv, DeliverNext PROVE FInv'
<1>1. UNCHANGED <<client, worker, pending, loop>> /\ loop.pc = "deliver"
  BY DEF DeliverNext, poolVars
<1>2. writes \in Seq(ResponseType) /\ writes # <<>> /\ writes' = Tail(writes)
  BY DEF DeliverNext, TInv, PoolOK
<1>3. PICK r \in ResponseType : r = Head(writes)
  BY <1>2, HeadTailProperties
<1>4. PICK f \in Fds : f = r.fd
  BY DEF ResponseType
<1>5. /\ \A g \in Fds : Out(g)' => Out(g)
      /\ OnePlace => OnePlace' /\ ~Out(f)'
  BY <1>1, <1>2, <1>3, <1>4, DeliverPlaces
<1>6. Out(f)
  BY <1>2, <1>3, <1>4 DEF Out
<1>7. loop'.pc = "deliver"
  BY <1>1
<1>8. \/ UNCHANGED <<kernelVars, sockVars, conn>>
      \/ conn[f] # NoConn /\ SendNow(f, Units(r))
      \/ conn[f] # NoConn /\ SendLater(f, Units(r))
      \/ conn[f] # NoConn /\ StreamFile(f, r)
      \/ /\ conn[f] # NoConn /\ Erase({f})
         /\ IF sock[f] \in rst THEN UNCHANGED kernelVars
            ELSE Deliver(sock[f], SubSeq(Header(r), 1, Least(Room(sock[f]), 1)))
  BY <1>3, <1>4 DEF DeliverNext
<1>9. CASE UNCHANGED <<kernelVars, sockVars, conn>>
  <2>1. UNCHANGED <<rcv, snd, rst, backlog, sock, conn>>
    BY <1>9 DEF kernelVars, sockVars
  <2>2. \A g \in Fds : Buf(g)' = Buf(g) /\ Kept(g)' = Kept(g)
    BY <2>1, SameConn
  <2>3. QED
    BY <1>1, <1>5, <1>7, <2>1, <2>2, RestCalm
<1>10. ASSUME conn[f] # NoConn, Passes(f), conn'[f].fileFd => conn'[f].isFileStream,
              AllCalm => Calm(f)'
       PROVE  FInv'
  <2>1. AllCalm => OnePlace' /\ Calm(f)'
    BY <1>5, <1>10 DEF AllCalm
  <2>2. QED
    BY <1>1, <1>5, <1>7, <1>10, <2>1, OneMoves DEF Passes
<1>11. ASSUME conn[f] # NoConn, Passes(f), SameStream(f) PROVE FInv'
  <2>1. AllCalm => ~Out(f)' /\ ~conn'[f].fileFd
    <3>1. ASSUME AllCalm PROVE ~Out(f)' /\ ~conn'[f].fileFd
      <4>1. sock[f] # NoClient
        BY <1>11, KeptOurs, ClientsAssumption
      <4>2. Calm(f)
        BY <3>1, <4>1 DEF AllCalm
      <4>3. ~conn[f].fileFd
        BY <1>6, <4>2 DEF Calm
      <4>4. QED
        BY <1>5, <1>11, <3>1, <4>3 DEF AllCalm, SameStream
    <3>2. QED
      BY <3>1
  <2>2. AllCalm => Calm(f)'
    BY <2>1 DEF Calm
  <2>3. conn'[f].fileFd => conn'[f].isFileStream
    BY <1>11 DEF FInv, SameStream
  <2>4. QED
    BY <1>10, <1>11, <2>2, <2>3
<1>12. PICK us : us = Units(r)
  OBVIOUS
<1>13. us \in Seq(UnitType)
  BY <1>12, UnitsTyped
<1>14. CASE conn[f] # NoConn /\ SendNow(f, Units(r))
  BY <1>11, <1>12, <1>13, <1>14, NowMoves
<1>15. CASE conn[f] # NoConn /\ SendLater(f, Units(r))
  <2>1. /\ conn' = [conn EXCEPT ![f].wbuf = us, ![f].written = 0]
        /\ UNCHANGED <<sock, rcv, snd, rst, backlog>>
    BY <1>12, <1>15 DEF SendLater, kernelVars
  <2>2. /\ SameStream(f) /\ conn'[f] # NoConn /\ Buf(f)' = Buf(f)
        /\ \A g \in Fds \ {f} : conn'[g] = conn[g]
    BY <1>13, <1>15, <2>1, BufferMoves
  <2>3. Passes(f)
    BY <2>1, <2>2 DEF Passes
  <2>4. QED
    BY <1>11, <1>15, <2>2, <2>3
<1>16. CASE conn[f] # NoConn /\ StreamFile(f, r) /\ sock[f] \notin rst
  <2>1. /\ Passes(f) /\ (conn'[f].fileFd => conn'[f].isFileStream)
        /\ conn'[f].fileFd =>
              /\ LastEnds(conn'[f].stream)
              /\ \A u \in Members(snd'[sock[f]]) : u.last => u \in Members(snd[sock[f]])
    BY <1>16, FileMoves
  <2>2. PICK c : c = sock[f]
    OBVIOUS
  <2>3. c # NoClient
    BY <1>16, <2>2, KeptOurs, ClientsAssumption
  <2>4. ASSUME AllCalm PROVE Calm(f)'
    <3>1. Calm(f)
      BY <2>2, <2>3, <2>4 DEF AllCalm
    <3>2. PICK m, b : m = Settled(f) /\ b = Untaken(f)
      OBVIOUS
    <3>3. b = <<>> /\ m > 0 /\ \A u \in InHand(c) : u.n * Segments < m
      BY <1>6, <2>2, <3>1, <3>2 DEF Calm
    <3>4. sock'[f] = c /\ Untaken(f)' = b
      BY <2>1, <2>2, <3>2 DEF Passes, Untaken
    <3>5. Settled(f)' = m
      BY <1>1, <2>2, <3>2, <3>4 DEF Settled, Untaken
    <3>6. ~Out(f)'
      BY <1>5, <2>4 DEF AllCalm
    <3>7. Arrived(c) \subseteq InHand(c)
      BY DEF Arrived, InHand
    <3>8. conn'[f].fileFd => /\ LastEnds(conn'[f].stream)
                             /\ \A u \in Arrived(c)' : u.last => u.n * Segments < m
      <4>1. conn'[f].fileFd => \A u \in Arrived(c)' : u.last => u \in Arrived(c)
        BY <1>1, <2>1, <2>2 DEF Arrived
      <4>2. QED
        BY <2>1, <3>3, <3>7, <4>1
    <3>9. QED
      BY <3>3, <3>4, <3>5, <3>6, <3>8 DEF Calm
  <2>5. QED
    BY <1>10, <1>16, <2>1, <2>4
<1>17. ASSUME conn[f] # NoConn, Erase({f}), UNCHANGED <<rcv, rst, backlog>>,
              \A d \in Clients : d # sock[f] => snd'[d] = snd[d]
       PROVE  FInv'
  <2>1. \A g \in Fds : g \notin {f} /\ sock[g] # NoClient => snd'[sock[g]] = snd[sock[g]]
    BY <1>17, Present DEF SInv, OneSocket
  <2>2. OnePlace => OnePlace'
    BY <1>5
  <2>3. QED
    BY <1>1, <1>5, <1>7, <1>17, <2>1, <2>2, EraseCalm
<1>18. CASE conn[f] # NoConn /\ StreamFile(f, r) /\ sock[f] \in rst
  BY <1>17, <1>18 DEF StreamFile, SendFileChunked, kernelVars
<1>19. CASE /\ conn[f] # NoConn /\ Erase({f})
            /\ IF sock[f] \in rst THEN UNCHANGED kernelVars
               ELSE Deliver(sock[f], SubSeq(Header(r), 1, Least(Room(sock[f]), 1)))
  <2>1. UNCHANGED <<rcv, rst, backlog>>
    BY <1>19 DEF kernelVars, Deliver
  <2>2. \A d \in Clients : d # sock[f] => snd'[d] = snd[d]
    BY <1>19 DEF kernelVars, Deliver, TInv, PeersOK
  <2>3. QED
    BY <1>17, <1>19, <2>1, <2>2
<1>20. QED
  BY <1>8, <1>9, <1>14, <1>15, <1>16, <1>18, <1>19

LEMMA InitCalm == Init => FInv
<1>1. SUFFICES ASSUME Init PROVE FInv
  OBVIOUS
<1>2. /\ \A c \in Clients : client[c].sent = 0
      /\ rst = {} /\ \A f \in Fds : sock[f] = NoClient /\ conn[f] = NoConn
      /\ pending = <<>> /\ writes = <<>> /\ \A w \in Workers : worker[w].pc = "idle"
  BY <1>1 DEF Init, Idle
<1>3. Len(pending) = 0 /\ Len(writes) = 0
  BY <1>2
<1>4. OnePlace
  BY <1>2, <1>3 DEF OnePlace
<1>5. AllCalm
  BY <1>2, <1>4 DEF AllCalm
<1>6. QED
  BY <1>2, <1>5 DEF FInv

LEMMA CalmStep == ASSUME TInv, SInv, FInv, [Next]_vars PROVE FInv'
<1>1. ASSUME NEW c \in Clients, Peer(c) PROVE FInv'
  BY <1>1, ReadsCalm, SendCalm DEF Peer
<1>2. CASE Loop
  <2>1. CASE \/ EpollWait \/ BeginAccept \/ EndAccept \/ DrainWakeup \/ TakePending \/ EndDeliver
             \/ CheckRequest
    BY <2>1, MoveCalm
  <2>2. ASSUME NEW c \in Clients, Accept(c) PROVE FInv'
    BY <2>2, AcceptCalm
  <2>3. CASE CleanupTimeouts
    BY <2>3, EndCalm
  <2>4. CASE DeliverNext
    BY <2>4, DeliverCalm
  <2>5. ASSUME NEW f \in Fds, NEW ev \in SocketEvents,
               HandleError(f, ev) \/ HandleRead(f, ev) \/ HandleWrite(f, ev)
        PROVE  FInv'
    BY <2>5, EndCalm, ReadCalm, WriteCalm
  <2>6. QED
    BY <1>2, <2>1, <2>2, <2>3, <2>4, <2>5 DEF Loop
<1>3. CASE TimerExpires
  BY <1>3, TimerCalm
<1>4. ASSUME NEW w \in Workers, Work(w) PROVE FInv'
  BY <1>4, TakeJobCalm, MoveCalm DEF Work
<1>5. CASE UNCHANGED vars
  <2>1. UNCHANGED <<client, rcv, snd, rst, backlog, sock, conn, worker, pending, writes, loop>>
    BY <1>5 DEF vars, kernelVars, sockVars, poolVars, loopVars
  <2>2. \A f \in Fds : Buf(f)' = Buf(f) /\ Kept(f)' = Kept(f)
    BY <2>1, SameConn
  <2>3. /\ OnePlace => OnePlace'
        /\ \A g \in Fds : Out(g)' => Out(g)
    BY <2>1, PlacesSame
  <2>4. loop'.pc # "deliver" => writes' = <<>>
    BY <2>1 DEF FInv
  <2>5. QED
    BY <2>1, <2>2, <2>3, <2>4, RestCalm
<1>6. QED
  BY <1>1, <1>2, <1>3, <1>4, <1>5 DEF Next

-----------------------------------------------------------------------------
(* The files that are lost, step by step.                                   *)
Accounted == Lost' > Lost => Lost' = Lost + 1 /\ \E f \in Fds : Loses(f)

LEMMA LostTyped == ASSUME TInv PROVE Lost \in Int
  BY HoldingFinite, StreamingIsHolding DEF Lost, TInv, FilesOK

LEMMA NoneLost == ASSUME TInv, files' = files, Holding(conn', Fds) = Holding(conn, Fds)
                  PROVE  Accounted
<1>1. Streaming(Fds) = Holding(conn, Fds) /\ Streaming(Fds)' = Holding(conn', Fds)
  BY DEF Streaming, Holding
<1>2. Lost' = Lost
  BY <1>1 DEF Lost
<1>3. QED
  BY <1>2, LostTyped DEF Accounted

LEMMA LossFrame ==
    ASSUME TInv, NEW f \in Fds, \A g \in Fds \ {f} : conn'[g] = conn[g], NEW x \in {0, 1},
           files' = files + Held(conn'[f]) - Held(conn[f]) + x, x = 1 => Loses(f)
    PROVE  Accounted
<1>1. Streaming(Fds) = Holding(conn, Fds) /\ Streaming(Fds)' = Holding(conn', Fds)
  BY DEF Streaming, Holding
<1>2. Holding(conn', Fds \ {f}) = Holding(conn, Fds \ {f})
  BY DEF Holding
<1>3. /\ Cardinality(Holding(conn, Fds)) = Cardinality(Holding(conn, Fds \ {f})) + Held(conn[f])
      /\ Cardinality(Holding(conn', Fds)) = Cardinality(Holding(conn', Fds \ {f}))
                                            + Held(conn'[f])
  BY HoldingSplit DEF Held
<1>4. Cardinality(Holding(conn, Fds \ {f})) \in Nat /\ files \in Nat
  BY HoldingFinite DEF TInv, FilesOK
<1>5. Held(conn[f]) \in {0, 1} /\ Held(conn'[f]) \in {0, 1}
  BY DEF Held
<1>6. PICK a, p, q : a = Cardinality(Holding(conn, Fds \ {f})) /\ p = Held(conn[f])
                     /\ q = Held(conn'[f])
  OBVIOUS
<1>7. Lost = files - (a + p) /\ Lost' = files' - (a + q) /\ files' = files + q - p + x
  BY <1>1, <1>2, <1>3, <1>6 DEF Lost
<1>8. a \in Nat /\ p \in {0, 1} /\ q \in {0, 1}
  BY <1>4, <1>5, <1>6
<1>9. Lost' = Lost + x /\ Lost \in Int
  BY <1>4, <1>7, <1>8
<1>10. QED
  BY <1>9 DEF Accounted

LEMMA SameLost ==
    ASSUME TInv, NEW f \in Fds, \A g \in Fds \ {f} : conn'[g] = conn[g], files' = files,
           Held(conn'[f]) = Held(conn[f])
    PROVE  Accounted
<1>1. files \in Nat /\ Held(conn[f]) \in {0, 1}
  BY DEF TInv, FilesOK, Held
<1>2. PICK x \in {0, 1} : x = 0
  OBVIOUS
<1>3. files' = files + Held(conn'[f]) - Held(conn[f]) + x
  BY <1>1, <1>2
<1>4. QED
  BY <1>2, <1>3, LossFrame

(* The file of the connection on f, if it has one, is lost with it.         *)
LEMMA FileLost ==
    ASSUME TInv, NEW f \in Fds, \A g \in Fds \ {f} : conn'[g] = conn[g],
           files' = files + Held(conn'[f]), Held(conn[f]) = 1 => Loses(f)
    PROVE  Accounted
<1>1. files \in Nat /\ Held(conn[f]) \in {0, 1} /\ Held(conn'[f]) \in {0, 1}
  BY DEF TInv, FilesOK, Held
<1>2. files' = files + Held(conn'[f]) - Held(conn[f]) + Held(conn[f])
  BY <1>1
<1>3. QED
  BY <1>1, <1>2, LossFrame

LEMMA EraseAt ==
    ASSUME TInv, NEW f \in Fds, Erase({f})
    PROVE  conn'[f] = NoConn /\ Held(conn'[f]) = 0 /\ \A g \in Fds \ {f} : conn'[g] = conn[g]
  BY DEF Erase, Held

LEMMA EndLoss ==
    ASSUME TInv, CleanupTimeouts \/ (\E f \in Fds, ev \in SocketEvents : HandleError(f, ev))
    PROVE  Accounted
<1>1. PICK fs \in SUBSET Fds : Erase(fs) /\ files' = files - Cardinality(Streaming(fs))
  BY DEF CleanupTimeouts, HandleError
<1>2. Holding(conn', Fds) = Holding(conn, Fds \ fs)
  BY <1>1, EraseKeeps DEF TInv
<1>3. Cardinality(Holding(conn', Fds)) = Cardinality(Holding(conn, Fds))
                                         - Cardinality(Streaming(fs))
  BY <1>2, HoldingWithout, StreamingIsHolding
<1>4. /\ Cardinality(Holding(conn, Fds)) \in Nat /\ Cardinality(Streaming(fs)) \in Nat
      /\ files \in Nat
  BY HoldingFinite, StreamingIsHolding DEF TInv, FilesOK
<1>5. Streaming(Fds) = Holding(conn, Fds) /\ Streaming(Fds)' = Holding(conn', Fds)
  BY DEF Streaming, Holding
<1>6. Lost' = Lost
  BY <1>1, <1>3, <1>4, <1>5 DEF Lost
<1>7. QED
  BY <1>6, LostTyped DEF Accounted

LEMMA TimerLoss == ASSUME TInv, TimerExpires PROVE Accounted
<1>1. /\ files' = files
      /\ conn' = [f \in Fds |-> IF conn[f] = NoConn THEN NoConn
                                ELSE [conn[f] EXCEPT !.age = @ + 1]]
  BY DEF TimerExpires
<1>2. ASSUME NEW f \in Fds
      PROVE  (conn'[f] # NoConn /\ conn'[f].fileFd) <=> (conn[f] # NoConn /\ conn[f].fileFd)
  <2>1. CASE conn[f] = NoConn
    BY <1>1, <2>1
  <2>2. CASE conn[f] # NoConn
    <3>1. PICK k, j : k = conn[f] /\ j = conn'[f]
      OBVIOUS
    <3>2. k \in ConnType
      BY <2>2, <3>1, ConnectionTyped DEF TInv
    <3>3. j = [k EXCEPT !.age = k.age + 1]
      BY <1>1, <2>2, <3>1
    <3>4. j \in ConnType /\ j.fileFd = k.fileFd
      BY <3>2, <3>3 DEF ConnType
    <3>5. j # NoConn
      BY <3>4, NoConnAssumption
    <3>6. QED
      BY <2>2, <3>1, <3>4, <3>5
  <2>3. QED
    BY <2>1, <2>2
<1>3. Holding(conn', Fds) = Holding(conn, Fds)
  BY <1>2 DEF Holding
<1>4. QED
  BY <1>1, <1>3, NoneLost

LEMMA AcceptLoss == ASSUME TInv, NEW c \in Clients, Accept(c) PROVE Accounted
<1>1. PICK f \in Free : conn' = [conn EXCEPT ![f] = Fresh]
  BY AcceptTakes
<1>2. f \in Fds /\ conn[f] = NoConn
  BY <1>1 DEF Free, TInv, SocketsOK, ConnOwnsSocket
<1>3. conn'[f] = Fresh /\ \A g \in Fds \ {f} : conn'[g] = conn[g]
  BY <1>1, <1>2 DEF TInv, SocketsOK
<1>4. Held(conn'[f]) = 0 /\ Held(conn[f]) = 0
  BY <1>2, <1>3 DEF Held, Fresh
<1>5. files' = files
  BY DEF Accept
<1>6. QED
  BY <1>2, <1>3, <1>4, <1>5, SameLost

LEMMA ReadLoss ==
    ASSUME TInv, FInv, NEW f \in Fds, NEW ev \in SocketEvents, HandleRead(f, ev)
    PROVE  Accounted
<1>1. files' = files
  BY DEF HandleRead
<1>2. PICK c : c = sock[f]
  OBVIOUS
<1>3. CASE EndOfStream(c)
  <2>1. Erase({f}) /\ UNCHANGED client
    BY <1>2, <1>3 DEF HandleRead
  <2>2. conn'[f] = NoConn /\ Held(conn'[f]) = 0 /\ \A g \in Fds \ {f} : conn'[g] = conn[g]
    BY <2>1, EraseAt
  <2>3. ASSUME Held(conn[f]) = 1 PROVE Loses(f)
    <3>1. conn[f] # NoConn /\ conn[f].fileFd
      BY <2>3 DEF Held
    <3>2. c # NoClient
      BY <1>2, <3>1, KeptOurs, ClientsAssumption
    <3>3. client[c].st = "closed"
      BY <1>3, <3>2 DEF EndOfStream, FInv
    <3>4. QED
      BY <1>2, <2>2, <3>1, <3>3 DEF Loses
  <2>4. files \in Nat
    BY DEF TInv, FilesOK
  <2>5. QED
    BY <1>1, <2>2, <2>3, <2>4, FileLost
<1>4. CASE ~EndOfStream(c) /\ rcv[c] = <<>>
  <2>1. conn' = conn
    BY <1>2, <1>4 DEF HandleRead
  <2>2. QED
    BY <1>1, <2>1, NoneLost
<1>5. CASE ~EndOfStream(c) /\ rcv[c] # <<>>
  <2>1. c # NoClient /\ c \in Clients /\ conn[f] # NoConn /\ conn[f] \in ConnType
    BY <1>2, <1>5 DEF EndOfStream, TInv, SocketsOK, ConnOwnsSocket
  <2>2. PICK q, k, b : q = rcv[c] /\ k = conn[f] /\ b = k.rbuf \o q
    OBVIOUS
  <2>3. b \in Seq(Segment)
    <3>1. q \in Seq(Segment)
      BY <2>1, <2>2 DEF TInv, PeersOK
    <3>2. k.rbuf \in Seq(Segment)
      BY <2>1, <2>2 DEF ConnType
    <3>3. QED
      BY <2>2, <3>1, <3>2
  <2>4. PICK j : j = [k EXCEPT !.rbuf = b, !.age = 0]
    OBVIOUS
  <2>5. j \in ConnType /\ j.fileFd = k.fileFd
    BY <2>1, <2>2, <2>3, <2>4 DEF ConnType
  <2>6. conn' = [conn EXCEPT ![f] = j]
    BY <1>2, <1>5, <2>2, <2>4 DEF HandleRead, RequestData
  <2>7. conn'[f] = j /\ j # NoConn /\ \A g \in Fds \ {f} : conn'[g] = conn[g]
    BY <2>5, <2>6, NoConnAssumption DEF TInv, SocketsOK
  <2>8. Held(conn'[f]) = Held(conn[f])
    BY <2>1, <2>2, <2>5, <2>7 DEF Held
  <2>9. QED
    BY <1>1, <2>7, <2>8, SameLost
<1>6. QED
  BY <1>3, <1>4, <1>5

LEMMA TakeJobLoss ==
    ASSUME TInv, NEW w \in Workers, NEW f \in Fds, TakeJob(w, f) PROVE Accounted
<1>1. files' = files
  BY DEF TakeJob
<1>2. CASE conn[f] = NoConn
  <2>1. conn' = conn
    BY <1>2 DEF TakeJob
  <2>2. QED
    BY <1>1, <2>1, NoneLost
<1>3. CASE conn[f] # NoConn
  <2>1. PICK k, e : k = conn[f] /\ e = <<>>
    OBVIOUS
  <2>2. k \in ConnType /\ e \in Seq(Segment)
    BY <1>3, <2>1, ConnectionTyped DEF TInv
  <2>3. PICK j : j = [k EXCEPT !.rbuf = e]
    OBVIOUS
  <2>4. j \in ConnType /\ j.fileFd = k.fileFd
    BY <2>2, <2>3 DEF ConnType
  <2>5. conn' = [conn EXCEPT ![f] = j]
    BY <1>3, <2>1, <2>3 DEF TakeJob
  <2>6. conn'[f] = j /\ j # NoConn /\ \A g \in Fds \ {f} : conn'[g] = conn[g]
    BY <2>4, <2>5, NoConnAssumption DEF TInv, SocketsOK
  <2>7. Held(conn'[f]) = Held(conn[f])
    BY <1>3, <2>1, <2>4, <2>6 DEF Held
  <2>8. QED
    BY <1>1, <2>6, <2>7, SameLost
<1>4. QED
  BY <1>2, <1>3

LEMMA StreamSameLost ==
    ASSUME TInv, NEW f \in Fds, conn[f] # NoConn, conn'[f] # NoConn, SameStream(f),
           \A g \in Fds \ {f} : conn'[g] = conn[g], files' = files
    PROVE  Accounted
<1>1. Held(conn'[f]) = Held(conn[f])
  BY DEF SameStream, Held
<1>2. QED
  BY <1>1, SameLost

LEMMA WriteLoss ==
    ASSUME TInv, FInv, NEW f \in Fds, NEW ev \in SocketEvents, HandleWrite(f, ev)
    PROVE  Accounted
<1>1. files \in Nat /\ Held(conn'[f]) \in {0, 1}
  BY DEF TInv, FilesOK, Held
<1>2. CASE conn[f] = NoConn
  <2>1. UNCHANGED <<conn, files>>
    BY <1>2 DEF HandleWrite
  <2>2. QED
    BY <2>1, NoneLost
<1>3. CASE conn[f] # NoConn /\ conn[f].isFileStream /\ conn[f].fileFd
  <2>1. PICK k, head : k = conn[f] /\ head = <<>>
    OBVIOUS
  <2>2. SendFileChunked(f, k, head, files) /\ Held(conn[f]) = 1
    BY <1>3, <2>1 DEF HandleWrite, Held
  <2>3. /\ files' = files - 1 + Held(conn'[f])
        /\ \A g \in Fds \ {f} : conn'[g] = conn[g]
    <3>1. CASE sock[f] \in rst
      <4>1. Erase({f}) /\ files' = files - 1
        BY <2>2, <3>1 DEF SendFileChunked
      <4>2. QED
        BY <1>1, <4>1, EraseAt
    <3>2. CASE sock[f] \notin rst
      <4>1. head \in Seq(UnitType) /\ Len(head) = 0 /\ \A u \in Members(head) : ~u.last
        BY <2>1 DEF Members
      <4>2. sock[f] \in Clients /\ k \in ConnType
        BY <1>3, <2>1, KeptOurs
      <4>3. Len(head) <= Room(sock[f]) /\ files \in Int
        BY <1>1, <4>1, <4>2, RoomTyped DEF TInv
      <4>4. Passes(f) /\ files' = files - 1 + Held(conn'[f])
        BY <1>3, <2>1, <2>2, <3>2, <4>1, <4>2, <4>3, ChunkMoves
      <4>5. QED
        BY <4>4 DEF Passes
    <3>3. QED
      BY <3>1, <3>2
  <2>4. PICK x \in {0, 1} : x = 0
    OBVIOUS
  <2>5. files' = files + Held(conn'[f]) - Held(conn[f]) + x
    BY <1>1, <2>2, <2>3, <2>4
  <2>6. QED
    BY <2>3, <2>4, <2>5, LossFrame
<1>4. CASE conn[f] # NoConn /\ ~(conn[f].isFileStream /\ conn[f].fileFd)
  <2>1. FlushBuffer(f) /\ ~conn[f].fileFd
    BY <1>4 DEF HandleWrite, FInv
  <2>2. CASE sock[f] \in rst
    <3>1. Erase({f}) /\ files' = files
      BY <2>1, <2>2 DEF FlushBuffer
    <3>2. Held(conn'[f]) = Held(conn[f]) /\ \A g \in Fds \ {f} : conn'[g] = conn[g]
      BY <2>1, <3>1, EraseAt DEF Held
    <3>3. QED
      BY <3>1, <3>2, SameLost
  <2>3. CASE sock[f] \notin rst
    BY <1>4, <2>1, <2>3, FlushMoves, StreamSameLost DEF Passes
  <2>4. QED
    BY <2>2, <2>3
<1>5. QED
  BY <1>2, <1>3, <1>4

(* A response that ends or replaces a stream is not its client's.           *)
LEMMA DeliverLoss == ASSUME TInv, SInv, FInv, DeliverNext PROVE Accounted
<1>1. loop.pc = "deliver" /\ writes \in Seq(ResponseType) /\ writes # <<>>
  BY DEF DeliverNext, TInv, PoolOK
<1>2. PICK r \in ResponseType : r = Head(writes)
  BY <1>1, HeadTailProperties
<1>3. PICK f \in Fds : f = r.fd
  BY DEF ResponseType
<1>4. Out(f)
  BY <1>1, <1>2, <1>3 DEF Out
<1>5. \/ UNCHANGED <<conn, files>>
      \/ conn[f] # NoConn /\ SendNow(f, Units(r))
      \/ conn[f] # NoConn /\ SendLater(f, Units(r))
      \/ conn[f] # NoConn /\ StreamFile(f, r)
      \/ conn[f] # NoConn /\ Erase({f}) /\ UNCHANGED files
  BY <1>2, <1>3 DEF DeliverNext
<1>6. ASSUME Held(conn[f]) = 1 PROVE Loses(f)
  <2>1. conn[f] # NoConn /\ conn[f].fileFd
    BY <1>6 DEF Held
  <2>2. sock[f] # NoClient
    BY <2>1, KeptOurs, ClientsAssumption
  <2>3. Departed # {}
    <3>1. SUFFICES ASSUME Departed = {} PROVE FALSE
      OBVIOUS
    <3>2. Calm(f)
      BY <2>2, <3>1 DEF FInv, AllCalm
    <3>3. QED
      BY <1>4, <2>1, <3>2 DEF Calm
  <2>4. Departed \ {sock[f]} # {}
    BY <2>2, <2>3, Present
  <2>5. QED
    BY <1>1, <1>2, <1>3, <2>1, <2>4 DEF Loses
<1>7. files \in Nat /\ Held(conn'[f]) \in {0, 1}
  BY DEF TInv, FilesOK, Held
<1>8. PICK us : us = Units(r)
  OBVIOUS
<1>9. us \in Seq(UnitType)
  BY <1>8, UnitsTyped
<1>10. CASE UNCHANGED <<conn, files>>
  BY <1>10, NoneLost
<1>11. CASE conn[f] # NoConn /\ SendNow(f, Units(r))
  BY <1>8, <1>9, <1>11, NowMoves, StreamSameLost DEF Passes
<1>12. CASE conn[f] # NoConn /\ SendLater(f, Units(r))
  <2>1. /\ conn' = [conn EXCEPT ![f].wbuf = us, ![f].written = 0]
        /\ files' = files
    BY <1>8, <1>12 DEF SendLater
  <2>2. QED
    BY <1>9, <1>12, <2>1, BufferMoves, StreamSameLost
<1>13. CASE conn[f] # NoConn /\ StreamFile(f, r)
  <2>1. CASE sock[f] \in rst
    <3>1. PICK k, head, open : open = files + 1 /\ SendFileChunked(f, k, head, open)
      BY <1>13 DEF StreamFile
    <3>2. SendFileChunked(f, k, head, open)
      BY <3>1
    <3>3. Erase({f}) /\ files' = open - 1
      BY <2>1, <3>2 DEF SendFileChunked
    <3>4. files' = files
      BY <1>7, <3>1, <3>3
    <3>5. QED
      BY <1>6, <1>7, <3>3, <3>4, EraseAt, FileLost
  <2>2. CASE sock[f] \notin rst
    <3>1. Passes(f) /\ files' = files + Held(conn'[f])
      BY <1>13, <2>2, FileMoves
    <3>2. QED
      BY <1>6, <3>1, FileLost DEF Passes
  <2>3. QED
    BY <2>1, <2>2
<1>14. CASE conn[f] # NoConn /\ Erase({f}) /\ UNCHANGED files
  BY <1>6, <1>7, <1>14, EraseAt, FileLost
<1>15. QED
  BY <1>5, <1>10, <1>11, <1>12, <1>13, <1>14

LEMMA LossStep == ASSUME TInv, SInv, FInv, [Next]_vars PROVE Accounted
<1>1. ASSUME UNCHANGED <<conn, files>> PROVE Accounted
  BY <1>1, NoneLost
<1>2. ASSUME NEW c \in Clients, Peer(c) PROVE Accounted
  BY <1>1, <1>2 DEF Peer, Connect, SendSegment, Receive, Leave, Reset
<1>3. CASE Loop
  <2>1. CASE \/ EpollWait \/ BeginAccept \/ EndAccept \/ DrainWakeup \/ TakePending \/ EndDeliver
             \/ CheckRequest
    BY <1>1, <2>1 DEF EpollWait, BeginAccept, EndAccept, DrainWakeup, TakePending, EndDeliver,
                      CheckRequest
  <2>2. ASSUME NEW c \in Clients, Accept(c) PROVE Accounted
    BY <2>2, AcceptLoss
  <2>3. CASE CleanupTimeouts
    BY <2>3, EndLoss
  <2>4. CASE DeliverNext
    BY <2>4, DeliverLoss
  <2>5. ASSUME NEW f \in Fds, NEW ev \in SocketEvents,
               HandleError(f, ev) \/ HandleRead(f, ev) \/ HandleWrite(f, ev)
        PROVE  Accounted
    BY <2>5, EndLoss, ReadLoss, WriteLoss
  <2>6. QED
    BY <1>3, <2>1, <2>2, <2>3, <2>4, <2>5 DEF Loop
<1>4. CASE TimerExpires
  BY <1>4, TimerLoss
<1>5. ASSUME NEW w \in Workers, Work(w) PROVE Accounted
  <2>1. ASSUME NEW f \in Fds, TakeJob(w, f) PROVE Accounted
    BY <2>1, TakeJobLoss
  <2>2. CASE Respond(w) \/ Throw(w) \/ Signal(w)
    BY <1>1, <2>2 DEF Respond, Throw, Signal
  <2>3. QED
    BY <1>5, <2>1, <2>2 DEF Work
<1>6. CASE UNCHANGED vars
  BY <1>1, <1>6 DEF vars
<1>7. QED
  BY <1>2, <1>3, <1>4, <1>5, <1>6 DEF Next

(* Whenever peers leave and connections time out, for any number of peers,  *)
(* descriptors, workers and requests: files are lost one at a time, and     *)
(* only by the read that finds that the peer has closed                     *)
(* (epoll_server.cpp:221-242) or by a response that ends or replaces the    *)
(* stream of its connection after another connection ended with a request   *)
(* begun (epoll_server.cpp:401-441).  The timer, an error, a write and the  *)
(* end of a file close what they end.                                       *)
THEOREM FilesLostHaveCause == Spec => LossNeedsCause
<1>1. Init /\ TInv => SInv /\ FInv
  BY InitStray, InitCalm
<1>2. TInv /\ TInv' /\ SInv /\ FInv /\ [Next]_vars => SInv' /\ FInv'
  BY StrayStep, CalmStep
<1>3. TInv /\ SInv /\ FInv /\ [Next]_vars
        => [Lost' > Lost => Lost' = Lost + 1 /\ \E f \in Fds : Loses(f)]_vars
  BY LossStep DEF Accounted
<1>4. QED
  BY <1>1, <1>2, <1>3, TypesHold, PTL DEF Spec, LossNeedsCause
=============================================================================

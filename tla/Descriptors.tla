------------------------------ MODULE Descriptors ------------------------------
(***************************************************************************)
(* Who has which descriptor number: src/core/epoll_server.cpp seen from the *)
(* process's table.  The event loop knows a socket, and the file it streams *)
(* to it, by number alone; other threads (workers, downloads, the log) open *)
(* and close numbers of the same table meanwhile; and the events of one     *)
(* epoll_wait keep naming a number that a timeout or a failed delivery has  *)
(* closed since.                                                            *)
(*                                                                         *)
(* What is sent and received is left to EpollServer: here any registered    *)
(* socket may have any event, and any read or write may fail.               *)
(***************************************************************************)
EXTENDS Integers, FiniteSets, FiniteSetsExt

CONSTANTS N,         \* bound: numbers of the table
          MaxEvents  \* MAX_EVENTS: events of one epoll_wait
ASSUME TableAssumption == N \in Nat /\ MaxEvents \in Nat \ {0}

Numbers == 1 .. N
None == 0      \* fileFd = -1

VARIABLES
    table,   \* [Numbers -> "free" | "sock" | "file" | "other"]: the kernel's
    theirs,  \* numbers that other threads hold
    conns,   \* connections_: the number of a socket gives that of its file
    batch,   \* events of the current epoll_wait not handled yet
    loop,    \* what the loop is at, and the number it is about to close
    shut,    \* history: sockets the loop has closed during this batch
    struck   \* history: a stale event has closed a number taken again
tableVars == <<table, theirs, conns, batch, loop, shut, struck>>

At(pc, f) == [pc |-> pc, fd |-> f]
TableInit == /\ table = [n \in Numbers |-> "free"] /\ theirs = {}
        /\ conns = [f \in {} |-> None] /\ batch = {}
        /\ loop = At("events", None) /\ shut = {} /\ struck = FALSE

Of(kind) == {n \in Numbers : table[n] = kind}
(* The kernel gives the lowest free number.                                 *)
Lowest == Min(Of("free"))

(* close() of the numbers in ns, whoever has them; of a free one it fails.  *)
Close(ns) == table' = [n \in Numbers |-> IF n \in ns THEN "free" ELSE table[n]]
Erase(fs) == conns' = [f \in DOMAIN conns \ fs |-> conns[f]]
FilesOf(fs) == {conns[f] : f \in fs \cap DOMAIN conns} \ {None}

(* The loop closes the sockets fs, and the files ns with them.              *)
Drop(fs, ns) == Close(fs \cup ns) /\ Erase(fs) /\ shut' = shut \cup fs

Handle(e) == loop.pc = "events" /\ e \in batch /\ batch' = batch \ {e}

-----------------------------------------------------------------------------
Reported == {S \in SUBSET ({"in", "err", "out"} \X Of("sock")) :
                \A a, b \in S : a[2] = b[2] => a = b}
EpollWait ==
    /\ loop.pc = "events" /\ batch = {}
    /\ \E S \in Reported, K \in SUBSET {"listen", "timer", "wakeup"} :
          /\ batch' = S \cup (K \X {None})
          /\ Cardinality(batch') <= MaxEvents
    /\ shut' = {}
    /\ UNCHANGED <<table, theirs, conns, loop, struck>>

(* The loops of handleAccept and processPendingWrites.                      *)
Begin == /\ \/ Handle(<<"listen", None>>) /\ loop' = At("accept", None)
            \/ Handle(<<"wakeup", None>>) /\ loop' = At("deliver", None)
         /\ UNCHANGED <<table, theirs, conns, shut, struck>>
End == /\ loop.pc \in {"accept", "deliver"} /\ loop' = At("events", None)
       /\ UNCHANGED <<table, theirs, conns, batch, shut, struck>>

Accept == /\ loop.pc = "accept" /\ Of("free") # {}
          /\ table' = [table EXCEPT ![Lowest] = "sock"]
          /\ conns' = [f \in DOMAIN conns \cup {Lowest} |->
                          IF f = Lowest THEN None ELSE conns[f]]
          /\ UNCHANGED <<theirs, batch, loop, shut, struck>>

(* Any of the connections may have timed out.                               *)
CleanupTimeouts == /\ Handle(<<"timer", None>>)
                   /\ \E fs \in SUBSET DOMAIN conns : Drop(fs, FilesOf(fs))
                   /\ UNCHANGED <<theirs, loop, struck>>

(* The number of a stale event belongs to somebody who is not the loop's.   *)
Strikes(f) == struck' = (struck \/ (f \in shut /\ table[f] \in {"file", "other"}))

(* EPOLLERR or EPOLLHUP: the number is closed whether or not it is known.   *)
HandleError(f) == /\ Handle(<<"err", f>>)
                  /\ Drop({f}, FilesOf({f})) /\ Strikes(f)
                  /\ UNCHANGED <<theirs, loop>>

(* read() until EAGAIN, which a socket or a number of another thread may    *)
(* give; a file comes to its end, and a free number is an error.            *)
HandleRead(f) == /\ Handle(<<"in", f>>)
                 /\ \/ loop' = At("close", f)
                    \/ table[f] \in {"sock", "other"} /\ UNCHANGED loop
                 /\ UNCHANGED <<table, theirs, conns, shut, struck>>
(* After which the number is closed: by now another thread may have it.     *)
CloseRead == /\ loop.pc = "close" /\ loop' = At("events", None)
             /\ Drop({loop.fd}, {}) /\ Strikes(loop.fd)
             /\ UNCHANGED <<theirs, batch>>

(* Mutant: fileFd keeps the number of the file just closed.                 *)
EndFileKeeps(f, n) == Close({n}) /\ UNCHANGED <<conns, shut>>
(* The file n of f has been sent: its number is forgotten.                  *)
EndFile(f, n) == /\ Close({n}) /\ conns' = [conns EXCEPT ![f] = None]
                 /\ UNCHANGED shut

(* handleWrite, with or without a file: some of it, all, or an error.       *)
HandleWrite(f) ==
    /\ Handle(<<"out", f>>)
    /\ \/ UNCHANGED <<table, conns, shut>>
       \/ f \in DOMAIN conns /\ conns[f] # None /\ EndFile(f, conns[f])
       \/ f \in DOMAIN conns /\ Drop({f}, FilesOf({f}))
    /\ UNCHANGED <<theirs, loop, struck>>

(* A file response: the file opens, and the number it gets replaces the one *)
(* the connection may have; it is sent in part, whole, or the socket fails. *)
StreamFile(f) ==
    /\ loop.pc = "deliver" /\ f \in DOMAIN conns /\ Of("free") # {}
    /\ \/ /\ table' = [table EXCEPT ![Lowest] = "file"]
          /\ conns' = [conns EXCEPT ![f] = Lowest] /\ UNCHANGED shut
       \/ EndFile(f, Lowest)
       \/ Drop({f}, {})
    /\ UNCHANGED <<theirs, batch, loop, struck>>

(* The file does not open: the connection is closed, its own file is not.   *)
OpenFails(f) == /\ loop.pc = "deliver" /\ f \in DOMAIN conns
                /\ Drop({f}, {})
                /\ UNCHANGED <<theirs, batch, loop, struck>>

(* The other threads, at any time: they know their numbers as little.       *)
OtherOpen == /\ Of("free") # {}
             /\ table' = [table EXCEPT ![Lowest] = "other"]
             /\ theirs' = theirs \cup {Lowest}
             /\ UNCHANGED <<conns, batch, loop, shut, struck>>
OtherClose(n) == /\ n \in theirs
                 /\ Close({n}) /\ theirs' = theirs \ {n}
                 /\ UNCHANGED <<conns, batch, loop, shut, struck>>

TableNext == \/ EpollWait \/ Begin \/ End \/ Accept \/ CleanupTimeouts \/ CloseRead
        \/ OtherOpen
        \/ \E f \in Numbers : \/ HandleError(f) \/ HandleRead(f) \/ HandleWrite(f)
                              \/ StreamFile(f) \/ OpenFails(f) \/ OtherClose(f)
TableSpec == TableInit /\ [][TableNext]_tableVars

-----------------------------------------------------------------------------
TableTypeOK ==
    /\ table \in [Numbers -> {"free", "sock", "file", "other"}]
    /\ theirs \subseteq Numbers /\ shut \subseteq Numbers
    /\ DOMAIN conns \subseteq Numbers
    /\ \A f \in DOMAIN conns : conns[f] \in Numbers \cup {None}
    /\ batch \subseteq {"in", "err", "out", "listen", "timer", "wakeup"}
                            \X (Numbers \cup {None})
    /\ loop \in [pc : {"events", "accept", "deliver"}, fd : {None}]
                 \cup [pc : {"close"}, fd : Numbers]
    /\ struck \in BOOLEAN

(* Everybody's numbers are what they take them for: connections_ knows the  *)
(* open sockets, each fileFd is an open file of that connection alone, and  *)
(* the other threads have what they opened.  This lasts until an event that *)
(* names a socket closed earlier in its batch (by cleanupTimeouts or        *)
(* processPendingWrites) closes the number (epoll_server.cpp:163, 226, 236) *)
(* when a file, or another thread, has been given it: nothing else a loop   *)
(* that closes by number does, in any order of events, takes a number from  *)
(* who holds it.                                                            *)
HoldersMatch ==
    ~struck => /\ DOMAIN conns = Of("sock")
               /\ theirs = Of("other")
               /\ \A f \in DOMAIN conns : conns[f] # None =>
                     /\ table[conns[f]] = "file"
                     /\ \A g \in DOMAIN conns : conns[g] = conns[f] => g = f
=============================================================================

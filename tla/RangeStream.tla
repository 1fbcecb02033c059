------------------------------ MODULE RangeStream -----------------------------
(***************************************************************************)
(* How a music file gets to a player over one connection: the Range header  *)
(* (src/infrastructure/streaming/stream_sender.cpp), the headers of the     *)
(* answer (src/core/http/response.cpp) and the sending in chunks            *)
(* (src/core/epoll_server.cpp).  What EpollServer leaves out is counted     *)
(* here: which bytes are asked, announced and sent.                         *)
(*                                                                         *)
(* A byte is its offset in the file.  A header that the pattern             *)
(* bytes=first-last does not match, and the download request, which passes  *)
(* an empty one, are NoRange; a number no long long can hold is Largest+1.  *)
(* The file may be removed at any time; one that is open can be read on.    *)
(***************************************************************************)
EXTENDS Integers, Sequences, SequencesExt, FiniteSetsExt

CONSTANTS Size,      \* of the file, in bytes
          Largest,   \* largest long long
          Chunk,     \* FILE_CHUNK_SIZE
          SndCap,    \* bytes the socket send buffer holds
          Requests,  \* bound: requests of the player
          NoRange

Closed == -1         \* fileFd of a connection that streams no file
Open   == -1         \* the range has no last byte

ASSUME SizesAssumption == /\ {Size, Chunk, SndCap} \subseteq Nat \ {0}
                          /\ Requests \in Nat /\ Largest \in Nat /\ Largest >= Size

Number == 0 .. Largest + 1
Header == {NoRange} \cup [first : Number, last : Number \cup {Open}]

VARIABLES exists,   \* the file is there
          asked,    \* Range header of the current request
          pc,       \* where that request is
          info,     \* FileStreamInfo: [isPartial, start, end]
          reply,    \* headers the player got: [status, start, end, length]
          fd,       \* position of fileFd, or Closed
          offset,   \* fileOffset
          snd, got, \* bytes of the answer in the socket, and with the player
          n         \* requests so far

server == <<info, reply, fd, offset>>
vars == <<exists, asked, pc, server, snd, got, n>>

NoInfo  == [isPartial |-> FALSE, start |-> 0, end |-> -1]
NoReply == [status |-> 0, start |-> 0, end |-> 0, length |-> 0]

Init == /\ exists = TRUE /\ asked = NoRange /\ pc = "idle"
        /\ info = NoInfo /\ reply = NoReply
        /\ fd = Closed /\ offset = 0
        /\ snd = <<>> /\ got = <<>> /\ n = 0

-----------------------------------------------------------------------------
(* parseRangeHeader; Whole is what resolveStreamInfo sets before the call.  *)
Whole == [isPartial |-> FALSE, start |-> 0, end |-> Size - 1]
TooBig(number) == number > Largest

(* A number stoll cannot hold leaves start or end as it was.  A range that  *)
(* begins beyond the file is not clamped.                                   *)
ParseRange(h) ==
    CASE h = NoRange -> Whole
      [] h # NoRange /\ TooBig(h.first) -> Whole
      [] h # NoRange /\ ~TooBig(h.first) ->
            LET last   == IF h.last = Open \/ TooBig(h.last) THEN Size - 1 ELSE h.last
                beyond == h.first >= Size
                end    == IF beyond THEN last ELSE Min({last, Size - 1})
            IN  [isPartial |-> ~TooBig(h.last) /\ ~beyond /\ h.first <= end,
                 start |-> h.first, end |-> end]

(* Mutant: the length without the last byte.                                *)
LengthOffByOne(i) == i.end - i.start
ContentLength(i) == i.end - i.start + 1

(* streamFile and serializeHeaders; Content-Range only when partial.        *)
Headers(i) == [status |-> IF i.isPartial THEN 206 ELSE 200,
               start  |-> IF i.isPartial THEN i.start ELSE 0,
               end    |-> IF i.isPartial THEN i.end ELSE Size - 1,
               length |-> ContentLength(i)]

-----------------------------------------------------------------------------
(* The player: one request at a time on the connection, another connection  *)
(* when that is closed.                                                     *)
Ask(h) == /\ pc \in {"idle", "closed"} /\ n < Requests
          /\ asked' = h /\ pc' = "asked" /\ n' = n + 1
          /\ snd' = <<>> /\ got' = <<>>
          /\ info' = NoInfo /\ reply' = NoReply /\ offset' = 0
          /\ UNCHANGED <<exists, fd>>

Read == /\ snd # <<>> /\ pc # "closed"
        /\ got' = Append(got, Head(snd)) /\ snd' = Tail(snd)
        /\ UNCHANGED <<exists, asked, pc, server, n>>

(* The announced length has arrived; or it is negative and the player       *)
(* gives the connection up.                                                 *)
Complete == /\ pc = "sent" /\ reply.length <= Len(got)
            /\ pc' = IF reply.length = Len(got) THEN "idle" ELSE "closed"
            /\ UNCHANGED <<exists, asked, server, snd, got, n>>

(* The cleanup removes the file.                                            *)
RemoveFile == /\ exists /\ exists' = FALSE
              /\ UNCHANGED <<asked, pc, server, snd, got, n>>

-----------------------------------------------------------------------------
(* A worker: DownloadController::stream and downloadFile, which answer 404  *)
(* when getFileSize finds no file.                                          *)
Resolve == /\ pc = "asked"
           /\ IF exists THEN info' = ParseRange(asked) /\ pc' = "resolved" /\ UNCHANGED reply
                        ELSE reply' = [NoReply EXCEPT !.status = 404]
                             /\ pc' = "idle" /\ UNCHANGED info
           /\ UNCHANGED <<exists, asked, fd, offset, snd, got, n>>

(* Mutant: the file is read from its beginning.                             *)
NoSeek == 0
Seek == IF info.start > 0 THEN info.start ELSE 0

(* The loop: processPendingWrites sends the headers, then opens the file.   *)
Begin == /\ pc = "resolved"
         /\ reply' = Headers(info)
         /\ IF exists THEN fd' = Seek /\ offset' = info.start /\ pc' = "sending"
                      ELSE pc' = "closed" /\ UNCHANGED <<fd, offset>>
         /\ UNCHANGED <<exists, asked, info, snd, got, n>>

(* sendFileChunked.  One call of sendfile sends what it likes, at most      *)
(* toSend bytes, nothing at the end of the file.                            *)
Room == SndCap - Len(snd)
ToSend == Min({Chunk, info.end - offset + 1})

Send == /\ pc = "sending" /\ offset <= info.end
        /\ \E k \in 1 .. Min({ToSend, Room, Size - fd}) :
              /\ snd' = snd \o [i \in 1 .. k |-> fd + i - 1]
              /\ offset' = offset + k /\ fd' = fd + k
        /\ UNCHANGED <<exists, asked, pc, info, reply, got, n>>

(* Mutant: a full buffer is taken for the end of the file.                  *)
FullIsTheEnd == /\ pc = "sending" /\ offset <= info.end /\ fd < Size /\ Room = 0
                /\ fd' = Closed /\ pc' = "sent"
                /\ UNCHANGED <<exists, asked, info, reply, offset, snd, got, n>>
Block == /\ pc = "sending" /\ offset <= info.end /\ fd < Size /\ Room = 0
         /\ pc' = "blocked"
         /\ UNCHANGED <<exists, asked, server, snd, got, n>>

(* EPOLLOUT: handleWrite.                                                   *)
Resume == /\ pc = "blocked" /\ Room > 0
          /\ pc' = "sending"
          /\ UNCHANGED <<exists, asked, server, snd, got, n>>

Finish == /\ pc = "sending" /\ (offset > info.end \/ fd >= Size)
          /\ fd' = Closed /\ pc' = "sent"
          /\ UNCHANGED <<exists, asked, info, reply, offset, snd, got, n>>

(* cleanupTimeouts: the time counts from the last request, so that it may   *)
(* end a transfer as well as a connection nothing is asked on.              *)
CloseIdle == /\ pc \in {"sending", "blocked", "sent", "idle"} /\ n > 0
             /\ fd' = Closed /\ pc' = "closed"
             /\ UNCHANGED <<exists, asked, info, reply, offset, snd, got, n>>

Server == Resolve \/ Begin \/ Send \/ Block \/ Resume \/ Finish
Player == Read \/ Complete
Next == Server \/ Player \/ RemoveFile \/ CloseIdle \/ \E h \in Header : Ask(h)

Fairness == WF_vars(Server) /\ WF_vars(Read) /\ WF_vars(Complete)
Spec == Init /\ [][Next]_vars /\ Fairness

-----------------------------------------------------------------------------
(* What was asked, as HTTP has it; a header the server cannot read may be   *)
(* ignored.                                                                 *)
Readable(h) == h # NoRange /\ ~TooBig(h.first)
Satisfiable(h) == Readable(h) /\ h.first < Size /\ (h.last = Open \/ h.first <= h.last)
Wanted(h) == CASE ~Readable(h) -> 0 .. Size - 1
               [] Satisfiable(h) /\ h.last # Open -> h.first .. Min({h.last, Size - 1})
               [] Satisfiable(h) /\ h.last = Open -> h.first .. Size - 1
               [] OTHER -> {}

TypeOK == /\ exists \in BOOLEAN /\ asked \in Header /\ n \in 0 .. Requests
          /\ pc \in {"idle", "asked", "resolved", "sending", "blocked", "sent", "closed"}
          /\ info \in [isPartial : BOOLEAN, start : 0 .. Largest, end : Number \cup {-1}]
          /\ reply.status \in {0, 200, 206, 404}
          /\ fd \in Number \cup {Closed} /\ offset \in Number
          /\ {snd, got} \subseteq Seq(0 .. Size - 1) /\ Len(snd) <= SndCap

(* The player gets the bytes it asked for, in the order of the file and     *)
(* none besides, however the sending is cut into chunks and resumed; all of *)
(* them when the server has finished.  A range outside the file gets none.  *)
OnlyWhatWasAsked ==
    LET bytes  == got \o snd
        wanted == Wanted(asked)
    IN  /\ \A i \in DOMAIN bytes : bytes[i] \in wanted /\ bytes[i] = Min(wanted) + i - 1
        /\ pc = "sent" => Len(bytes) = Cardinality(wanted)

(* The headers tell of what is sent: the status and the range that it is,   *)
(* and the length when the range lies in the file.  A last byte that is too *)
(* big for a long long is left out: its range is sent as if it were all.    *)
HeadersAreTrue ==
    (pc \in {"sending", "blocked", "sent"}
        /\ (Satisfiable(asked) => ~TooBig(asked.last)) /\ Wanted(asked) # {})
    => /\ reply.status = IF Satisfiable(asked) THEN 206 ELSE 200
       /\ reply.start .. reply.end = Wanted(asked)
       /\ reply.length = Cardinality(Wanted(asked))

(* A request for bytes of the file is answered in full, or the connection   *)
(* is closed: a transfer that met a full socket buffer is taken up again.   *)
RequestEnds == (pc = "asked" /\ Wanted(asked) # {}) ~> (pc \in {"idle", "closed"})
===============================================================================

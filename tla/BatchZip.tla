------------------------------- MODULE BatchZip -------------------------------
(***************************************************************************)
(* Downloading several songs as one archive: batchDownload of               *)
(* src/presentation/controllers/library_controller.cpp packs them on a      *)
(* worker into a temporary file named by the second, and the loop sends     *)
(* that file and unlinks it (src/core/epoll_server.cpp).                    *)
(*                                                                         *)
(* An archive is the sequence of its entries, and an entry is known by the  *)
(* download that wrote it.  Opening a path for writing truncates the file   *)
(* that has it; whoever has that file open keeps his place in it.           *)
(***************************************************************************)
EXTENDS Integers, Sequences, SequencesExt, FiniteSetsExt

CONSTANTS Downloads,  \* requests for an archive
          Songs,      \* songs of each
          MaxSecond,  \* bound: last second explored
          NoFile, Hole

ASSUME ZipAssumption == /\ Songs \in Nat /\ MaxSecond \in Nat
                        /\ NoFile \notin Downloads /\ Hole \notin Downloads

VARIABLES second,  \* the wall clock
          tmp,     \* [second -> file]: the paths in /tmp
          data,    \* content of a file; a file is known by who created it
          zip,     \* [Downloads -> [pc, name, file, at, size]]
          received,  \* what the peer got
          mixed    \* history: downloads that shared their second with another

zipVars == <<second, tmp, data, zip, received, mixed>>

Nothing == [pc |-> "idle", name |-> 0, file |-> NoFile, at |-> 0, size |-> 0]

ZipInit == /\ second = 0 /\ tmp = [s \in 0 .. MaxSecond |-> NoFile]
           /\ data = [d \in Downloads |-> <<>>]
           /\ zip = [d \in Downloads |-> Nothing]
           /\ received = [d \in Downloads |-> <<>>]
           /\ mixed = {}

Working == {"named", "packing", "packed", "queued", "sending"}
Forsaken == {"cut", "threw"}   \* ended without the unlink
Name(d) == zip[d].name
File(d) == zip[d].file

Goto(d, pc)  == zip' = [zip EXCEPT ![d].pc = pc]
UnlinkTmp(d) == tmp' = [tmp EXCEPT ![Name(d)] = NoFile]

-----------------------------------------------------------------------------
(* A worker: the name, the file, the songs one by one, and its size.        *)
NameArchive(d) ==
    /\ zip[d].pc = "idle"
    /\ zip' = [zip EXCEPT ![d].pc = "named", ![d].name = second]
    /\ LET others == {o \in Downloads : zip[o].pc \in Working /\ Name(o) = second}
       IN  mixed' = IF others = {} THEN mixed ELSE mixed \cup others \cup {d}
    /\ UNCHANGED <<second, tmp, data, received>>

OpenArchive(d) ==
    /\ zip[d].pc = "named"
    /\ LET f == IF tmp[Name(d)] = NoFile THEN d ELSE tmp[Name(d)]
       IN  /\ tmp' = [tmp EXCEPT ![Name(d)] = f]
           /\ data' = [data EXCEPT ![f] = <<>>]
           /\ zip' = [zip EXCEPT ![d].pc = "packing", ![d].file = f]
    /\ UNCHANGED <<second, received, mixed>>

WriteAt(s, k, x) == [i \in 1 .. Max({Len(s), k}) |->
                        CASE i = k -> x [] i # k /\ i \in DOMAIN s -> s[i] [] OTHER -> Hole]

PackSong(d) ==
    /\ zip[d].pc = "packing" /\ zip[d].at < Songs
    /\ data' = [data EXCEPT ![File(d)] = WriteAt(@, zip[d].at + 1, d)]
    /\ zip' = [zip EXCEPT ![d].at = @ + 1]
    /\ UNCHANGED <<second, tmp, received, mixed>>

CloseArchive(d) ==
    /\ zip[d].pc = "packing" /\ zip[d].at = Songs
    /\ Goto(d, "packed")
    /\ UNCHANGED <<second, tmp, data, received, mixed>>

(* Mutant: what was packed so far stays.                                    *)
GiveUpPacking(d) ==
    /\ zip[d].pc \in {"named", "packing"} /\ Goto(d, "refused")
    /\ UNCHANGED <<second, tmp, data, received, mixed>>
(* The file cannot be opened or written, or a song is gone.                 *)
PackingFails(d) ==
    /\ zip[d].pc \in {"named", "packing"}
    /\ UnlinkTmp(d) /\ Goto(d, "refused")
    /\ UNCHANGED <<second, data, received, mixed>>

(* An exception, of the memory for a song or of the answer, passes by the   *)
(* unlink: the handler answers 400.                                         *)
PackingThrows(d) ==
    /\ zip[d].pc \in {"named", "packing", "packed"} /\ Goto(d, "threw")
    /\ UNCHANGED <<second, tmp, data, received, mixed>>

StatArchive(d) ==
    /\ zip[d].pc = "packed"
    /\ LET f == tmp[Name(d)]
       IN  zip' = IF f = NoFile THEN [zip EXCEPT ![d].pc = "refused"]
                  ELSE [zip EXCEPT ![d].pc = "queued", ![d].size = Len(data[f])]
    /\ UNCHANGED <<second, tmp, data, received, mixed>>

-----------------------------------------------------------------------------
(* The loop: the file is opened by its path.                                *)
BeginSending(d) ==
    /\ zip[d].pc = "queued"
    /\ zip' = IF tmp[Name(d)] = NoFile THEN [zip EXCEPT ![d].pc = "cut"]
              ELSE [zip EXCEPT ![d].pc = "sending", ![d].at = 0, ![d].file = tmp[Name(d)]]
    /\ UNCHANGED <<second, tmp, data, received, mixed>>

(* Mutant: the last one is left out.                                        *)
LeftButOne(d) == zip[d].at < zip[d].size - 1 /\ zip[d].at < Len(data[File(d)])
Left(d) == zip[d].at < zip[d].size /\ zip[d].at < Len(data[File(d)])

SendEntry(d) ==
    /\ zip[d].pc = "sending" /\ Left(d)
    /\ received' = [received EXCEPT ![d] = Append(@, data[File(d)][zip[d].at + 1])]
    /\ zip' = [zip EXCEPT ![d].at = @ + 1]
    /\ UNCHANGED <<second, tmp, data, mixed>>

FinishSending(d) ==
    /\ zip[d].pc = "sending" /\ ~Left(d)
    /\ UnlinkTmp(d) /\ Goto(d, "done")
    /\ UNCHANGED <<second, data, received, mixed>>

(* sendfile fails: the peer has reset the connection.                       *)
SendingFails(d) ==
    /\ zip[d].pc = "sending"
    /\ UnlinkTmp(d) /\ Goto(d, "reset")
    /\ UNCHANGED <<second, data, received, mixed>>

(* The connection is closed for any other reason, the end of the peer's     *)
(* stream, an error event or a timeout: cleanupPath is forgotten.           *)
ConnectionCloses(d) ==
    /\ zip[d].pc \in {"queued", "sending"}
    /\ Goto(d, "cut")
    /\ UNCHANGED <<second, tmp, data, received, mixed>>

NextSecond == /\ second < MaxSecond /\ second' = second + 1
              /\ UNCHANGED <<tmp, data, zip, received, mixed>>

ZipNext == \/ \E d \in Downloads :
                \/ NameArchive(d) \/ OpenArchive(d) \/ PackSong(d) \/ CloseArchive(d)
                \/ PackingFails(d) \/ PackingThrows(d) \/ StatArchive(d)
                \/ BeginSending(d) \/ SendEntry(d) \/ FinishSending(d)
                \/ SendingFails(d) \/ ConnectionCloses(d)
           \/ NextSecond

ZipSpec == ZipInit /\ [][ZipNext]_zipVars
-----------------------------------------------------------------------------
ZipTypeOK ==
    /\ second \in 0 .. MaxSecond
    /\ tmp \in [0 .. MaxSecond -> Downloads \cup {NoFile}]
    /\ data \in [Downloads -> Seq(Downloads \cup {Hole})]
    /\ zip \in [Downloads -> [pc : Working \cup Forsaken \cup {"idle", "refused", "done", "reset"},
                              name : 0 .. MaxSecond, file : Downloads \cup {NoFile},
                              at : Nat, size : Nat]]
    /\ received \in [Downloads -> Seq(Downloads \cup {Hole})]
    /\ mixed \subseteq Downloads

(* A download that came to its end got its own songs, all of them, unless   *)
(* another was under way in the second it took its name from.               *)
ArchiveIsOwn ==
    \A d \in Downloads : zip[d].pc = "done" /\ d \notin mixed
                            => received[d] = [i \in 1 .. Songs |-> d]

(* A temporary file belongs to a download that is under way, to one whose   *)
(* connection was closed before the end, or to one whose packing threw      *)
(* (library_controller.cpp:159-162).                                        *)
NoStrayArchive ==
    \A s \in DOMAIN tmp : tmp[s] # NoFile =>
        \E d \in Downloads : Name(d) = s /\ zip[d].pc \in Working \cup Forsaken
=============================================================================

---------------------------- MODULE MusicLibrary -----------------------------
(***************************************************************************)
(* The music library: the music_files table of                              *)
(* sqlite_music_library_repository.cpp and the files on disk its rows name. *)
(* Nothing ties the two together: each call of the repository holds the     *)
(* database mutex and is a step, each file operation is another, and four   *)
(* kinds of actors interleave them:                                         *)
(*   downloads that register or replace a song (download_service.cpp),      *)
(*   delete requests and the cleanup thread (remove, removeExpired), and    *)
(*   players (streaming_service.cpp, getFilesPaths of library_service.cpp). *)
(*                                                                         *)
(* A key stands for (song, artist, platform, delay); NoKey for metadata     *)
(* without artist, which is never looked up.  A song whose file comes from  *)
(* download d is at PathOf[d].  Time is not counted: any songs may be those *)
(* that were last used more than max_age ago when the cleanup looks.        *)
(*                                                                         *)
(* The process may crash between any two steps.  The table and the disk     *)
(* stay; what the actors were at is lost, and no one takes it up.           *)
(***************************************************************************)
EXTENDS Integers, FiniteSets

CONSTANTS Downloads, Deleters, Players,
          Cleaner,          \* the cleanup thread
          Paths, Keys,
          KeyOf,            \* [Downloads -> Keys or NoKey]
          PathOf,           \* [Downloads -> Paths]
          Expiring,         \* download.max_age > 0
          MaxId,            \* bound: last row id explored
          MaxCrashes,       \* bound: crashes of the process
          NoKey, NoRow

Removers == Deleters \cup {Cleaner}
Row == [key : Keys \cup {NoKey}, path : Paths, inUse : BOOLEAN]

ASSUME ActorsAssumption == Cleaner \notin Deleters
ASSUME SongsAssumption == /\ KeyOf \in [Downloads -> Keys \cup {NoKey}]
                          /\ PathOf \in [Downloads -> Paths]
                          /\ Paths # {}
                          /\ NoKey \notin Keys
ASSUME ExpiringAssumption == Expiring \in BOOLEAN
ASSUME BoundAssumption == MaxId \in Nat /\ MaxCrashes \in Nat
ASSUME NoRowAssumption == NoRow \notin Row

(* createTask puts the title and the millisecond in the name: the paths of  *)
(* two downloads differ unless both agree.                                  *)
UniquePaths == \A d, e \in Downloads : PathOf[d] = PathOf[e] => d = e

VARIABLES rows,      \* [Nat -> Row or NoRow]: music_files, by id
          nextId,    \* the AUTOINCREMENT sequence
          files,     \* paths that exist
          reg,       \* [Downloads -> [pc, id, path]]
          rem,       \* [Removers -> [pc, id, key, path, count]]
          expired,   \* ids the cleanup thread has still to remove
          play,      \* [Players -> [pc, id, path]]
          removed,   \* history: keys some remover has looked up
          crashes,   \* of the process so far
          cut        \* history: ids whose row an actor had still to delete or
                     \* rewrite when the process crashed

vars == <<rows, nextId, files, reg, rem, expired, play, removed, crashes, cut>>

Ids == 1 .. MaxId
AnyPath == CHOOSE p \in Paths : TRUE
NewReg == [pc |-> "transfer", id |-> 0, path |-> AnyPath]
NoRem  == [pc |-> "idle", id |-> 0, key |-> NoKey, path |-> AnyPath, count |-> 0]
NoPlay == [pc |-> "idle", id |-> 0, path |-> AnyPath]

Init == /\ nextId = 1
        /\ rows = [i \in Ids |-> NoRow] /\ files = {}
        /\ reg = [d \in Downloads |-> NewReg]
        /\ rem = [r \in Removers |-> NoRem] /\ expired = {}
        /\ play = [p \in Players |-> NoPlay]
        /\ removed = {} /\ crashes = 0 /\ cut = {}

Registered(d) == reg' = [reg EXCEPT ![d] = [NewReg EXCEPT !.pc = "done"]]

Live == {i \in Ids : rows[i] # NoRow}

-----------------------------------------------------------------------------
(* Registration, at the end of executeDownload.                             *)
Downloaded(d) == /\ reg[d].pc = "transfer"
                 /\ files' = files \cup {PathOf[d]}
                 /\ reg' = [reg EXCEPT ![d].pc = "find"]
                 /\ UNCHANGED <<rows, nextId, rem, expired, play, removed, crashes, cut>>

(* Mutant: the query leaves the artist out.                                 *)
AnySong(d) == {i \in Live : KeyOf[d] # NoKey}
(* Rows findBySongArtistPlatformDelay may return: the latest download of    *)
(* the key, here any, since several rows of a key are rare.                 *)
Existing(d) == {i \in Live : KeyOf[d] # NoKey /\ rows[i].key = KeyOf[d]}

FindExisting(d) ==
    /\ reg[d].pc = "find"
    /\ \/ \E i \in Existing(d) :
             reg' = [reg EXCEPT ![d] =
                       [pc |-> IF rows[i].path = PathOf[d] THEN "update" ELSE "replace",
                        id |-> i, path |-> rows[i].path]]
       \/ /\ Existing(d) = {}
          /\ reg' = [reg EXCEPT ![d].pc = "insert"]
    /\ UNCHANGED <<rows, nextId, files, rem, expired, play, removed, crashes, cut>>

(* fs::remove, which may fail and is not retried.                           *)
Unlink(path) == files' = files \ {path} \/ files' = files

(* Mutant: the file just downloaded is taken for the old one.               *)
RemoveNewFile(d) == /\ reg[d].pc = "replace"
                    /\ Unlink(PathOf[d])
                    /\ reg' = [reg EXCEPT ![d].pc = "update"]
                    /\ UNCHANGED <<rows, nextId, rem, expired, play, removed, crashes, cut>>
RemoveOldFile(d) == /\ reg[d].pc = "replace"
                    /\ Unlink(reg[d].path)
                    /\ reg' = [reg EXCEPT ![d].pc = "update"]
                    /\ UNCHANGED <<rows, nextId, rem, expired, play, removed, crashes, cut>>

Entry(d) == [key |-> KeyOf[d], path |-> PathOf[d], inUse |-> FALSE]

(* UPDATE ... WHERE id: of no effect when the row has been deleted.         *)
UpdateRow(d) == /\ reg[d].pc = "update"
                /\ rows' = IF rows[reg[d].id] = NoRow THEN rows
                           ELSE [rows EXCEPT ![reg[d].id] = Entry(d)]
                /\ Registered(d)
                /\ cut' = cut \ {reg[d].id}
                /\ UNCHANGED <<nextId, files, rem, expired, play, removed, crashes>>

(* Mutant: INTEGER PRIMARY KEY without AUTOINCREMENT reuses the ids that    *)
(* deleted rows leave free.                                                 *)
InsertRowFreeId(d) ==
    /\ reg[d].pc = "insert" /\ Live # Ids
    /\ LET i == CHOOSE j \in Ids : j \notin Live /\ \A k \in Ids \ Live : j <= k
       IN  rows' = [rows EXCEPT ![i] = Entry(d)]
    /\ Registered(d)
    /\ UNCHANGED <<nextId, files, rem, expired, play, removed, crashes, cut>>
InsertRow(d) == /\ reg[d].pc = "insert" /\ nextId \in Ids
                /\ rows' = [rows EXCEPT ![nextId] = Entry(d)]
                /\ nextId' = nextId + 1
                /\ Registered(d)
                /\ UNCHANGED <<files, rem, expired, play, removed, crashes, cut>>

-----------------------------------------------------------------------------
(* remove(id): findById, countByFilePath, fs::remove, DELETE.               *)
LookUp(r, i) == /\ rem[r].pc = "idle"
                /\ IF i \notin Live THEN UNCHANGED <<rem, removed>>
                   ELSE /\ rem' = [rem EXCEPT ![r] = [pc |-> "count", id |-> i,
                                      key |-> rows[i].key, path |-> rows[i].path, count |-> 0]]
                        /\ removed' = removed \cup {rows[i].key}
                /\ UNCHANGED <<rows, nextId, files, reg, play, crashes, cut>>

Request(r) == r \in Deleters /\ (\E i \in Ids : LookUp(r, i)) /\ UNCHANGED expired

CountPath(r) == /\ rem[r].pc = "count"
                /\ rem' = [rem EXCEPT ![r].pc = "unlink",
                              ![r].count = Cardinality({i \in Live : rows[i].path = rem[r].path})]
                /\ UNCHANGED <<rows, nextId, files, reg, expired, play, removed, crashes, cut>>

UnlinkFile(r) == /\ rem[r].pc = "unlink"
                 /\ IF rem[r].count <= 1 THEN Unlink(rem[r].path) ELSE UNCHANGED files
                 /\ rem' = [rem EXCEPT ![r].pc = "delete"]
                 /\ UNCHANGED <<rows, nextId, reg, expired, play, removed, crashes, cut>>

DeleteRow(r) == /\ rem[r].pc = "delete"
                /\ rows' = [rows EXCEPT ![rem[r].id] = NoRow]
                /\ rem' = [rem EXCEPT ![r] = NoRem]
                /\ UNCHANGED <<nextId, files, reg, expired, play, removed, crashes, cut>>

(* removeExpired: the list is read once and then worked off.                *)
FindExpired == /\ Expiring
               /\ expired = {} /\ rem[Cleaner].pc = "idle"
               /\ \E old \in SUBSET Live : expired' = {i \in old : ~rows[i].inUse}
               /\ UNCHANGED <<rows, nextId, files, reg, rem, play, removed, crashes, cut>>

RemoveExpired(i) == /\ i \in expired
                    /\ LookUp(Cleaner, i) /\ expired' = expired \ {i}

-----------------------------------------------------------------------------
(* getFilePath: a finished task's file is played as it is; a song found by  *)
(* its name is marked used in a second step.  Nothing clears the mark when  *)
(* playing ends.                                                            *)
PlayTask(p, d) == /\ play[p].pc = "idle"
                  /\ reg[d].pc = "done" /\ PathOf[d] \in files
                  /\ play' = [play EXCEPT ![p] = [pc |-> "on", id |-> 0, path |-> PathOf[d]]]
                  /\ UNCHANGED <<rows, nextId, files, reg, rem, expired, removed, crashes, cut>>

PlaySong(p, i) == /\ play[p].pc = "idle" /\ i \in Live
                  /\ play' = [play EXCEPT ![p] = [pc |-> "mark", id |-> i, path |-> rows[i].path]]
                  /\ UNCHANGED <<rows, nextId, files, reg, rem, expired, removed, crashes, cut>>

(* UPDATE in_use; a file that is gone is not played.          *)
MarkUsed(p) ==
    /\ play[p].pc = "mark"
    /\ rows' = IF rows[play[p].id] = NoRow THEN rows
               ELSE [rows EXCEPT ![play[p].id].inUse = TRUE]
    /\ play' = IF play[p].path \in files THEN [play EXCEPT ![p].pc = "on", ![p].id = 0]
               ELSE [play EXCEPT ![p] = NoPlay]
    /\ UNCHANGED <<nextId, files, reg, rem, expired, removed, crashes, cut>>

StopPlaying(p) == /\ play[p].pc = "on"
                  /\ play' = [play EXCEPT ![p] = NoPlay]
                  /\ UNCHANGED <<rows, nextId, files, reg, rem, expired, removed, crashes, cut>>

(* A crash and the restart.  What is finished stays so: the tasks are in    *)
(* the database too; a transfer that was lost is one not begun.             *)
Underway(d) == reg[d].pc \in {"find", "replace", "update", "insert"}
Crash == /\ crashes < MaxCrashes /\ crashes' = crashes + 1
         /\ reg' = [d \in Downloads |-> IF Underway(d) THEN [NewReg EXCEPT !.pc = "lost"]
                                                      ELSE reg[d]]
         /\ rem' = [r \in Removers |-> NoRem] /\ expired' = {}
         /\ play' = [p \in Players |-> NoPlay]
         /\ cut' = cut \cup {rem[r].id : r \in {q \in Removers : rem[q].pc = "delete"}}
                       \cup {reg[d].id : d \in {e \in Downloads : reg[e].pc = "update"}}
         /\ UNCHANGED <<rows, nextId, files, removed>>

Register(d) == \/ Downloaded(d) \/ FindExisting(d) \/ RemoveOldFile(d)
               \/ UpdateRow(d) \/ InsertRow(d)
Remove(r)   == Request(r) \/ CountPath(r) \/ UnlinkFile(r) \/ DeleteRow(r)
Clean       == FindExpired \/ \E i \in Ids : RemoveExpired(i)
Play(p)     == \/ \E d \in Downloads : PlayTask(p, d)
               \/ \E i \in Ids : PlaySong(p, i)
               \/ MarkUsed(p) \/ StopPlaying(p)

Next == \/ \E d \in Downloads : Register(d)
        \/ \E r \in Removers : Remove(r)
        \/ Clean
        \/ \E p \in Players : Play(p)
        \/ Crash

Spec == Init /\ [][Next]_vars

-----------------------------------------------------------------------------
RegType  == [pc : {"transfer", "find", "replace", "update", "insert", "done", "lost"},
             id : Ids \cup {0}, path : Paths]
RemType  == [pc : {"idle", "count", "unlink", "delete"}, id : Ids \cup {0},
             key : Keys \cup {NoKey}, path : Paths, count : Nat]
PlayType == [pc : {"idle", "mark", "on"}, id : Ids \cup {0}, path : Paths]

TypeOK == /\ rows \in [Ids -> Row \cup {NoRow}]
          /\ nextId \in 1 .. MaxId + 1
          /\ files \subseteq Paths
          /\ reg \in [Downloads -> RegType] /\ rem \in [Removers -> RemType]
          /\ expired \subseteq Ids /\ play \in [Players -> PlayType]
          /\ removed \subseteq Keys \cup {NoKey} /\ cut \subseteq Ids \cup {0}
          /\ crashes \in 0 .. MaxCrashes

(* A row names a file that exists, except while the actor that removed the  *)
(* file has still to delete or rewrite that row: when nobody is at work, no *)
(* song of the list is missing on disk, however replacements, deletions and *)
(* the cleanup interleaved.  A crash leaves at most the rows behind that    *)
(* such an actor was at, until one is replaced.  Two downloads must not     *)
(* share a path.                                                            *)
NoDanglingRow ==
    UniquePaths => \A i \in Live :
        \/ rows[i].path \in files \/ i \in cut
        \/ \E r \in Removers : rem[r].pc = "delete" /\ rem[r].id = i
        \/ \E d \in Downloads : /\ reg[d].pc = "update" /\ reg[d].id = i
                                /\ reg[d].path = rows[i].path

(* An id names one song for ever: who has looked a row up, and deletes or   *)
(* rewrites the row of that id steps later, meets the same song or none.    *)
(* Ids are not reused (AUTOINCREMENT), and a replacement keeps the key.     *)
IdNamesOneSong ==
    \A i \in Live :
        /\ \A r \in Removers : rem[r].pc # "idle" /\ rem[r].id = i => rows[i].key = rem[r].key
        /\ \A d \in Downloads : reg[d].pc \in {"replace", "update"} /\ reg[d].id = i
                                    => rows[i].key = KeyOf[d]

(* A song that was downloaded, and that no delete request and no cleanup    *)
(* has looked up, is in the library: downloads of the same or other songs   *)
(* that register at the same time do not lose it.                           *)
NoSongLost == \A d \in Downloads : reg[d].pc = "done" /\ KeyOf[d] \notin removed
                  => \E i \in Live : rows[i].key = KeyOf[d]

(* The cleanup does not remove a file that is being played: what task.h:47  *)
(* says the mark of use is for.                                             *)
PlayedIsKept ==
    [][UnlinkFile(Cleaner) =>
          \A p \in Players : play[p].pc = "on" /\ play[p].path \in files
                              => play[p].path \in files']_vars
=============================================================================

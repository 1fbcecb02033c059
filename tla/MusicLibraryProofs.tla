-------------------------- MODULE MusicLibraryProofs --------------------------
(***************************************************************************)
(* Proofs about MusicLibrary, for any number of downloads, delete requests  *)
(* and players: ids name one song, songs are not lost, and, when no two     *)
(* downloads share a path, no row is left without its file.                 *)
(***************************************************************************)
EXTENDS MusicLibrary, FiniteSetTheorems, TLAPS

Holding(d) == reg[d].pc \in {"replace", "update"}
Busy(r)    == rem[r].pc # "idle"
Used       == {PathOf[d] : d \in {e \in Downloads : reg[e].pc = "done"}}

(* Ids in the table or in somebody's hands have been given out.             *)
IdsGiven ==
    /\ \A i \in Live : i < nextId
    /\ \A r \in Removers : Busy(r) => rem[r].id \in Ids /\ rem[r].id < nextId
    /\ \A d \in Downloads : Holding(d) => reg[d].id \in Ids /\ reg[d].id < nextId

(* Only a key that was looked up can lose a row: a download that holds an   *)
(* id still finds the row, unless somebody looked its song up to remove it. *)
KeysHeld ==
    /\ \A r \in Removers : Busy(r) => rem[r].key \in removed
    /\ \A d \in Downloads : Holding(d) /\ KeyOf[d] \notin removed => reg[d].id \in Live

Songs == IdsGiven /\ IdNamesOneSong /\ KeysHeld /\ NoSongLost

(* Paths in the table or in somebody's hands are of registered downloads;   *)
(* so the file of a download that is still registering is nobody else's.    *)
PathsUsed ==
    /\ \A i \in Live : rows[i].path \in Used
    /\ \A r \in Removers : Busy(r) => rem[r].path \in Used
    /\ \A d \in Downloads : Holding(d) => reg[d].path \in Used

(* No two rows share a path, and who holds a path holds the id of its row.  *)
PathsApart ==
    /\ \A i, j \in Live : rows[i].path = rows[j].path => i = j
    /\ \A i \in Live, r \in Removers : Busy(r) /\ rows[i].path = rem[r].path => i = rem[r].id
    /\ \A i \in Live, d \in Downloads :
          Holding(d) /\ rows[i].path = reg[d].path => i = reg[d].id

FilesWait == \A d \in Downloads : reg[d].pc \in {"find", "replace", "update", "insert"}
                                    => PathOf[d] \in files

Disk == PathsUsed /\ PathsApart /\ FilesWait /\ NoDanglingRow

IInv == TypeOK /\ Songs /\ (UniquePaths => Disk)

-----------------------------------------------------------------------------
(* Types.                                                                   *)
LEMMA Constants == /\ AnyPath \in Paths /\ MaxId \in Nat /\ Ids \subseteq Nat /\ 0 \notin Ids
                   /\ \A d \in Downloads : KeyOf[d] \in Keys \cup {NoKey} /\ PathOf[d] \in Paths
                   /\ NoKey \notin Keys /\ NoRow \notin Row
                   /\ Cleaner \in Removers /\ Deleters \subseteq Removers
<1>1. AnyPath \in Paths
  BY SongsAssumption DEF AnyPath
<1>2. MaxId \in Nat /\ Ids \subseteq Nat /\ 0 \notin Ids
  BY BoundAssumption DEF Ids
<1>3. QED
  BY <1>1, <1>2, SongsAssumption, NoRowAssumption DEF Removers

(* The tests of the model are those of the table.                           *)
LEMMA Counted ==
    ASSUME TypeOK, NEW p PROVE Cardinality({i \in Live : rows[i].path = p}) \in Nat
<1>1. IsFiniteSet(Ids)
  BY FS_Interval, BoundAssumption DEF Ids
<1>2. {i \in Live : rows[i].path = p} \subseteq Ids
  BY DEF Live
<1>3. QED
  BY <1>1, <1>2, FS_Subset, FS_CardinalityType

LEMMA InitTyped == Init => TypeOK
<1> SUFFICES ASSUME Init PROVE TypeOK
  OBVIOUS
<1>1. rows \in [Ids -> Row \cup {NoRow}] /\ nextId \in 1 .. MaxId + 1 /\ files \subseteq Paths
  BY Constants DEF Init
<1>2. reg \in [Downloads -> RegType] /\ rem \in [Removers -> RemType]
  BY Constants DEF Init, RegType, RemType, NewReg, NoRem
<1>3. expired \subseteq Ids /\ play \in [Players -> PlayType] /\ removed \subseteq Keys \cup {NoKey}
  BY Constants DEF Init, PlayType, NoPlay
<1>4. QED
  BY <1>1, <1>2, <1>3, BoundAssumption DEF TypeOK, Init

LEMMA RegisterTyped == ASSUME TypeOK, NEW d \in Downloads, Register(d) PROVE TypeOK'
<1> USE Constants
<1>1. ASSUME Downloaded(d) PROVE TypeOK'
  BY <1>1 DEF Downloaded, TypeOK, RegType
<1>2. ASSUME FindExisting(d) PROVE TypeOK'
  <2>1. reg' \in [Downloads -> RegType]
    BY <1>2 DEF FindExisting, TypeOK, RegType, Existing, Live, Row
  <2>2. QED
    BY <1>2, <2>1 DEF FindExisting, TypeOK
<1>3. ASSUME RemoveOldFile(d) PROVE TypeOK'
  BY <1>3 DEF RemoveOldFile, Unlink, TypeOK, RegType
<1>4. Entry(d) \in Row
  BY DEF Entry, Row
<1>5. ASSUME Registered(d) PROVE reg' \in [Downloads -> RegType]
  BY <1>5 DEF Registered, NewReg, TypeOK, RegType
<1>6. ASSUME UpdateRow(d) PROVE TypeOK'
  BY <1>4, <1>5, <1>6 DEF UpdateRow, TypeOK
<1>7. ASSUME InsertRow(d) PROVE TypeOK'
  BY <1>4, <1>5, <1>7 DEF InsertRow, TypeOK, Ids
<1>8. QED
  BY <1>1, <1>2, <1>3, <1>6, <1>7 DEF Register

LEMMA LookUpTyped ==
    ASSUME TypeOK, NEW r \in Removers, NEW i \in Ids, LookUp(r, i), expired' \subseteq Ids
    PROVE  TypeOK'
BY Constants DEF LookUp, TypeOK, RemType, Live, Row

LEMMA RemoveTyped == ASSUME TypeOK, NEW r \in Removers, Remove(r) PROVE TypeOK'
<1>1. ASSUME Request(r) PROVE TypeOK'
  BY <1>1, LookUpTyped DEF Request, TypeOK
<1>2. ASSUME CountPath(r) PROVE TypeOK'
  <2> DEFINE n == Cardinality({i \in Live : rows[i].path = rem[r].path})
  <2>1. n \in Nat
    BY Counted
  <2> HIDE DEF n
  <2>2. [rem[r] EXCEPT !.pc = "unlink", !.count = n] \in RemType
    BY <2>1 DEF TypeOK, RemType
  <2>3. rem' = [rem EXCEPT ![r] = [rem[r] EXCEPT !.pc = "unlink", !.count = n]]
    BY <1>2 DEF CountPath, n
  <2>4. rem' \in [Removers -> RemType]
    BY <2>2, <2>3 DEF TypeOK
  <2>5. QED
    BY <1>2, <2>4 DEF CountPath, TypeOK
<1>3. ASSUME UnlinkFile(r) PROVE TypeOK'
  <2>1. [rem[r] EXCEPT !.pc = "delete"] \in RemType
    BY DEF TypeOK, RemType
  <2>2. rem' \in [Removers -> RemType]
    BY <1>3, <2>1 DEF UnlinkFile, TypeOK
  <2>3. files' \subseteq Paths
    BY <1>3 DEF UnlinkFile, Unlink, TypeOK
  <2>4. QED
    BY <1>3, <2>2, <2>3 DEF UnlinkFile, TypeOK
<1>4. ASSUME DeleteRow(r) PROVE TypeOK'
  BY <1>4, Constants DEF DeleteRow, TypeOK, RemType, NoRem
<1>5. QED
  BY <1>1, <1>2, <1>3, <1>4 DEF Remove

LEMMA CleanTyped == ASSUME TypeOK, Clean PROVE TypeOK'
<1>1. ASSUME FindExpired PROVE TypeOK'
  BY <1>1 DEF FindExpired, TypeOK, Live
<1>2. ASSUME NEW i \in Ids, RemoveExpired(i) PROVE TypeOK'
  <2>1. expired' \subseteq Ids
    BY <1>2 DEF RemoveExpired, TypeOK
  <2>2. QED
    BY <1>2, <2>1, LookUpTyped, Constants DEF RemoveExpired
<1>3. QED
  BY <1>1, <1>2 DEF Clean

LEMMA PlayTyped == ASSUME TypeOK, NEW p \in Players, Play(p) PROVE TypeOK'
<1> USE Constants
<1>1. ASSUME NEW d \in Downloads, PlayTask(p, d) PROVE TypeOK'
  BY <1>1 DEF PlayTask, TypeOK, PlayType
<1>2. ASSUME NEW i \in Ids, PlaySong(p, i) PROVE TypeOK'
  BY <1>2 DEF PlaySong, TypeOK, PlayType, Live, Row
<1>3. ASSUME MarkUsed(p) PROVE TypeOK'
  <2>1. rows' \in [Ids -> Row \cup {NoRow}]
    <3>1. CASE rows' = rows
      BY <3>1 DEF TypeOK
    <3>2. CASE rows[play[p].id] # NoRow
               /\ rows' = [rows EXCEPT ![play[p].id].inUse = TRUE]
      <4>1. [rows[play[p].id] EXCEPT !.inUse = TRUE] \in Row
            \/ play[p].id \notin Ids
        BY <3>2 DEF TypeOK, Row
      <4>2. QED
        BY <3>2, <4>1 DEF TypeOK
    <3>3. QED
      BY <1>3, <3>1, <3>2 DEF MarkUsed
  <2>2. play' \in [Players -> PlayType]
    <3>1. NoPlay \in PlayType
      BY Constants DEF NoPlay, PlayType
    <3>2. [play[p] EXCEPT !.pc = "on", !.id = 0] \in PlayType
      BY DEF TypeOK, PlayType
    <3>3. play' = [play EXCEPT ![p] = [play[p] EXCEPT !.pc = "on", !.id = 0]]
          \/ play' = [play EXCEPT ![p] = NoPlay]
      BY <1>3 DEF MarkUsed
    <3>4. ASSUME NEW x \in PlayType, play' = [play EXCEPT ![p] = x]
          PROVE  play' \in [Players -> PlayType]
      BY <3>4 DEF TypeOK
    <3>5. QED
      BY <3>1, <3>2, <3>3, <3>4
  <2>3. QED
    BY <1>3, <2>1, <2>2 DEF MarkUsed, TypeOK
<1>4. ASSUME StopPlaying(p) PROVE TypeOK'
  BY <1>4 DEF StopPlaying, TypeOK, PlayType, NoPlay
<1>5. QED
  BY <1>1, <1>2, <1>3, <1>4 DEF Play

LEMMA NextTyped == TypeOK /\ [Next]_vars => TypeOK'
<1> SUFFICES ASSUME TypeOK, [Next]_vars PROVE TypeOK'
  OBVIOUS
<1>1. CASE Crash
  <2>1. reg' \in [Downloads -> RegType]
    BY <1>1, Constants DEF Crash, TypeOK, RegType, NewReg
  <2>2. rem' \in [Removers -> RemType] /\ play' \in [Players -> PlayType]
    BY <1>1, Constants DEF Crash, RemType, NoRem, PlayType, NoPlay
  <2>3. cut' \subseteq Ids \cup {0} /\ crashes' \in 0 .. MaxCrashes
    BY <1>1, BoundAssumption DEF Crash, TypeOK, RemType, RegType
  <2>4. QED
    BY <1>1, <2>1, <2>2, <2>3 DEF Crash, TypeOK
<1>2. CASE UNCHANGED vars
  BY <1>2 DEF vars, TypeOK
<1>3. QED
  BY <1>1, <1>2, RegisterTyped, RemoveTyped, CleanTyped, PlayTyped DEF Next

-----------------------------------------------------------------------------
(* What the steps do, in the terms of the invariant.  A step that leaves    *)
(* the songs alone changes no row's existence, key or path.                 *)
SameSongs == /\ Live' = Live
             /\ \A i \in Live : rows'[i].key = rows[i].key /\ rows'[i].path = rows[i].path
             /\ nextId' = nextId

LEMMA Unchanged == ASSUME UNCHANGED <<rows, nextId>> PROVE SameSongs
BY DEF SameSongs, Live

LEMMA Marked ==
    ASSUME TypeOK, NEW i \in Live, NEW row \in Row, rows' = [rows EXCEPT ![i] = row],
           row.key = rows[i].key, row.path = rows[i].path, nextId' = nextId
    PROVE  SameSongs
BY Constants DEF SameSongs, Live, TypeOK

(* A step with the songs, the removers and the registrations as they were.  *)
LEMMA AsideSongs ==
    ASSUME Songs, SameSongs, UNCHANGED <<reg, rem, removed>>
    PROVE  Songs'
<1>1. IdsGiven'
  BY DEF Songs, SameSongs, IdsGiven, Busy, Holding
<1>2. IdNamesOneSong'
  BY DEF Songs, SameSongs, IdNamesOneSong
<1>3. KeysHeld'
  BY DEF Songs, SameSongs, KeysHeld, Busy, Holding
<1>4. NoSongLost'
  BY DEF Songs, SameSongs, NoSongLost
<1>5. QED
  BY <1>1, <1>2, <1>3, <1>4 DEF Songs

(* A registration goes on, with the songs as they were, and lets no id go   *)
(* that it needs.                                                           *)
LEMMA RegisteringSongs ==
    ASSUME TypeOK, Songs, SameSongs, UNCHANGED <<rem, removed>>, NEW d \in Downloads,
           \A e \in Downloads \ {d} : reg'[e] = reg[e],
           reg'[d].pc # "done",
           Holding(d)' => \/ Holding(d) /\ reg'[d].id = reg[d].id
                          \/ reg'[d].id \in Live /\ rows[reg'[d].id].key = KeyOf[d]
    PROVE  Songs'
<1>1. IdsGiven'
  BY Constants DEF Songs, SameSongs, IdsGiven, Busy, Holding, Live
<1>2. IdNamesOneSong'
  BY DEF Songs, SameSongs, IdNamesOneSong, Holding
<1>3. KeysHeld'
  BY DEF Songs, SameSongs, KeysHeld, Busy, Holding
<1>4. NoSongLost'
  BY DEF Songs, SameSongs, NoSongLost
<1>5. QED
  BY <1>1, <1>2, <1>3, <1>4 DEF Songs

(* A removal goes on, with the songs as they were.                          *)
LEMMA RemovingSongs ==
    ASSUME TypeOK, Songs, SameSongs, UNCHANGED reg, NEW r \in Removers,
           \A q \in Removers \ {r} : rem'[q] = rem[q],
           removed \subseteq removed',
           Busy(r)' => \/ Busy(r) /\ rem'[r].id = rem[r].id /\ rem'[r].key = rem[r].key
                       \/ /\ rem'[r].id \in Live /\ rem'[r].key = rows[rem'[r].id].key
                          /\ rem'[r].key \in removed'
    PROVE  Songs'
<1>1. IdsGiven'
  BY Constants DEF Songs, SameSongs, IdsGiven, Busy, Holding, Live
<1>2. IdNamesOneSong'
  BY DEF Songs, SameSongs, IdNamesOneSong, Busy
<1>3. KeysHeld'
  BY DEF Songs, SameSongs, KeysHeld, Busy, Holding
<1>4. NoSongLost'
  BY DEF Songs, SameSongs, NoSongLost
<1>5. QED
  BY <1>1, <1>2, <1>3, <1>4 DEF Songs

(* The row of an id is rewritten, or inserted, by a download that ends.     *)
LEMMA DoneSongs ==
    ASSUME TypeOK, Songs, NEW d \in Downloads, UNCHANGED <<rem, removed>>,
           reg'[d].pc = "done", \A e \in Downloads \ {d} : reg'[e] = reg[e],
           NEW i \in Ids, rows' = [rows EXCEPT ![i] = Entry(d)],
           nextId \in Nat, nextId' \in Nat, nextId <= nextId', i < nextId',
           \/ Holding(d) /\ i = reg[d].id /\ i \in Live
           \/ i = nextId
    PROVE  Songs'
<1>1. /\ Live' = Live \cup {i} /\ rows'[i].key = KeyOf[d]
      /\ \A j \in Live \ {i} : rows'[j] = rows[j]
      /\ i \in Live => rows[i].key = KeyOf[d]
  <2>1. Entry(d) \in Row /\ Entry(d).key = KeyOf[d]
    BY Constants DEF Entry, Row
  <2>2. Entry(d) # NoRow
    BY <2>1, Constants
  <2>3. rows'[i] = Entry(d) /\ \A j \in Ids \ {i} : rows'[j] = rows[j]
    BY DEF TypeOK
  <2>4. i \in Live => Holding(d) /\ i = reg[d].id
    BY Constants DEF Songs, IdsGiven
  <2>5. i \in Live => rows[i].key = KeyOf[d]
    BY <2>4 DEF Songs, IdNamesOneSong, Holding
  <2>6. QED
    BY <2>1, <2>2, <2>3, <2>5 DEF Live
<1>2. IdsGiven'
  <2>1. ASSUME NEW n \in Nat, n < nextId PROVE n < nextId'
    BY <2>1
  <2>2. \A j \in Live' : j < nextId'
    BY <1>1, <2>1, Constants DEF Songs, IdsGiven, Live
  <2>3. \A r \in Removers : Busy(r)' => rem'[r].id \in Ids /\ rem'[r].id < nextId'
    BY <2>1, Constants DEF Songs, IdsGiven, Busy
  <2>4. \A e \in Downloads : Holding(e)' => reg'[e].id \in Ids /\ reg'[e].id < nextId'
    BY <2>1, Constants DEF Songs, IdsGiven, Holding
  <2>5. QED
    BY <2>2, <2>3, <2>4 DEF IdsGiven
<1>3. IdNamesOneSong'
  <2>1. ASSUME NEW r \in Removers, Busy(r), rem[r].id = i PROVE i \in Live \/ i < nextId
    BY <2>1 DEF Songs, IdsGiven
  <2>2. ASSUME NEW e \in Downloads, Holding(e), reg[e].id = i PROVE i < nextId
    BY <2>2 DEF Songs, IdsGiven
  <2>3. i = nextId => /\ \A r \in Removers : Busy(r) => rem[r].id # i
                      /\ \A e \in Downloads : Holding(e) => reg[e].id # i
    BY Constants DEF Songs, IdsGiven
  <2>4. QED
    BY <1>1, <2>3 DEF Songs, IdNamesOneSong, Busy, Holding
<1>4. KeysHeld'
  BY <1>1 DEF Songs, KeysHeld, Busy, Holding
<1>5. NoSongLost'
  BY <1>1 DEF Songs, NoSongLost
<1>6. QED
  BY <1>2, <1>3, <1>4, <1>5 DEF Songs

LEMMA RegisterSongs == ASSUME TypeOK, Songs, NEW d \in Downloads, Register(d) PROVE Songs'
<1>1. ASSUME Downloaded(d) PROVE Songs'
  BY <1>1, Unchanged, RegisteringSongs DEF Downloaded, TypeOK, RegType, Holding
<1>2. ASSUME FindExisting(d) PROVE Songs'
  <2>1. CASE Existing(d) = {} /\ reg' = [reg EXCEPT ![d].pc = "insert"]
    BY <1>2, <2>1, Unchanged, RegisteringSongs DEF FindExisting, TypeOK, RegType, Holding
  <2>2. ASSUME NEW i \in Existing(d),
               reg' = [reg EXCEPT ![d] =
                         [pc |-> IF rows[i].path = PathOf[d] THEN "update" ELSE "replace",
                          id |-> i, path |-> rows[i].path]]
        PROVE  Songs'
    <3>1. reg'[d].id \in Live /\ rows[reg'[d].id].key = KeyOf[d] /\ reg'[d].pc # "done"
      BY <2>2 DEF Existing, TypeOK
    <3>2. QED
      BY <1>2, <2>2, <3>1, Unchanged, RegisteringSongs DEF FindExisting, TypeOK
  <2>3. QED
    BY <1>2, <2>1, <2>2 DEF FindExisting
<1>3. ASSUME RemoveOldFile(d) PROVE Songs'
  BY <1>3, Unchanged, RegisteringSongs DEF RemoveOldFile, TypeOK, RegType, Holding
<1>4. ASSUME UpdateRow(d) PROVE Songs'
  <2>1. /\ reg'[d].pc = "done" /\ \A e \in Downloads \ {d} : reg'[e] = reg[e]
        /\ Holding(d) /\ reg[d].id \in Ids /\ reg[d].id < nextId /\ nextId \in Nat
    BY <1>4, Constants DEF UpdateRow, Registered, NewReg, TypeOK, Holding, Songs, IdsGiven
  <2>2. CASE rows[reg[d].id] = NoRow
    <3>1. KeyOf[d] \in removed
      BY <2>1, <2>2 DEF Songs, KeysHeld, Live
    <3>2. SameSongs
      BY <1>4, <2>2, Unchanged DEF UpdateRow
    <3>3. IdsGiven' /\ IdNamesOneSong' /\ KeysHeld'
      BY <1>4, <2>1, <3>2
         DEF UpdateRow, Songs, SameSongs, IdsGiven, IdNamesOneSong, KeysHeld, Busy, Holding
    <3>4. NoSongLost'
      BY <1>4, <2>1, <3>1, <3>2 DEF UpdateRow, Songs, SameSongs, NoSongLost
    <3>5. QED
      BY <3>3, <3>4 DEF Songs
  <2>3. CASE rows[reg[d].id] # NoRow
    <3> DEFINE i == reg[d].id
    <3>1. /\ rows' = [rows EXCEPT ![i] = Entry(d)] /\ UNCHANGED <<rem, removed, nextId>>
          /\ i \in Ids /\ i \in Live
      BY <1>4, <2>1, <2>3 DEF UpdateRow, Live
    <3>2. nextId' \in Nat /\ nextId <= nextId' /\ i < nextId'
      BY <2>1, <3>1
    <3> HIDE DEF i
    <3>3. Holding(d) /\ i = reg[d].id
      BY <2>1 DEF i
    <3>4. QED
      BY <2>1, <3>1, <3>2, <3>3, DoneSongs
  <2>4. QED
    BY <2>2, <2>3
<1>5. ASSUME InsertRow(d) PROVE Songs'
  <2>1. /\ reg'[d].pc = "done" /\ \A e \in Downloads \ {d} : reg'[e] = reg[e]
        /\ nextId \in Ids /\ nextId \in Nat /\ nextId' = nextId + 1
    BY <1>5, Constants DEF InsertRow, Registered, NewReg, TypeOK
  <2>2. QED
    <3>1. rows' = [rows EXCEPT ![nextId] = Entry(d)] /\ UNCHANGED <<rem, removed>>
      BY <1>5 DEF InsertRow
    <3>2. nextId' \in Nat /\ nextId <= nextId' /\ nextId < nextId'
      BY <2>1
    <3>3. QED
      BY <2>1, <3>1, <3>2, DoneSongs
<1>6. QED
  BY <1>1, <1>2, <1>3, <1>4, <1>5 DEF Register

LEMMA LookUpSongs ==
    ASSUME TypeOK, Songs, NEW r \in Removers, NEW i \in Ids, LookUp(r, i) PROVE Songs'
<1>1. CASE i \notin Live
  BY <1>1, Unchanged, AsideSongs DEF LookUp
<1>2. CASE i \in Live
  <2>1. /\ rem'[r].id = i /\ rem'[r].key = rows[i].key /\ rows[i].key \in removed'
        /\ \A q \in Removers \ {r} : rem'[q] = rem[q]
        /\ removed \subseteq removed'
    BY <1>2 DEF LookUp, TypeOK
  <2>2. QED
    BY <1>2, <2>1, Unchanged, RemovingSongs DEF LookUp
<1>3. QED
  BY <1>1, <1>2

LEMMA RemoveSongs == ASSUME TypeOK, Songs, NEW r \in Removers, Remove(r) PROVE Songs'
<1>1. ASSUME Request(r) PROVE Songs'
  BY <1>1, LookUpSongs DEF Request
<1>2. ASSUME CountPath(r) PROVE Songs'
  BY <1>2, Unchanged, RemovingSongs DEF CountPath, TypeOK, RemType, Busy
<1>3. ASSUME UnlinkFile(r) PROVE Songs'
  BY <1>3, Unchanged, RemovingSongs DEF UnlinkFile, TypeOK, RemType, Busy
<1>4. ASSUME DeleteRow(r) PROVE Songs'
  <2> DEFINE i == rem[r].id
  <2>1. /\ rem'[r].pc = "idle" /\ \A q \in Removers \ {r} : rem'[q] = rem[q]
        /\ UNCHANGED <<nextId, reg, removed>> /\ Busy(r) /\ i \in Ids
    BY <1>4 DEF DeleteRow, TypeOK, NoRem, Busy, Songs, IdsGiven
  <2>2. Live' = Live \ {i} /\ \A j \in Live' : rows'[j] = rows[j]
    BY <1>4, <2>1 DEF DeleteRow, TypeOK, Live
  <2>3. i \in Live => rows[i].key \in removed
    BY <2>1 DEF Songs, IdNamesOneSong, KeysHeld, Busy
  <2> HIDE DEF i
  <2>4. IdsGiven' /\ IdNamesOneSong'
    BY <2>1, <2>2 DEF Songs, IdsGiven, IdNamesOneSong, Busy, Holding
  <2>5. KeysHeld'
    <3>1. \A d \in Downloads : Holding(d) /\ i \in Live /\ reg[d].id = i => KeyOf[d] \in removed
      BY <2>3 DEF Songs, IdNamesOneSong, Holding
    <3>2. QED
      BY <2>1, <2>2, <3>1 DEF Songs, KeysHeld, Busy, Holding
  <2>6. NoSongLost'
    BY <2>1, <2>2, <2>3 DEF Songs, NoSongLost
  <2>7. QED
    BY <2>4, <2>5, <2>6 DEF Songs
<1>5. QED
  BY <1>1, <1>2, <1>3, <1>4 DEF Remove

(* A crash: nobody is at work afterwards.                                   *)
LEMMA Crashed ==
    ASSUME TypeOK, Crash
    PROVE  /\ SameSongs /\ UNCHANGED <<removed, files>>
           /\ \A r \in Removers : ~Busy(r)'
           /\ \A d \in Downloads : /\ reg'[d].pc \in {"transfer", "done", "lost"}
                                   /\ reg'[d].pc = "done" <=> reg[d].pc = "done"
BY Unchanged DEF Crash, Underway, NewReg, NoRem, TypeOK, RegType, Busy

LEMMA CrashSongs == ASSUME TypeOK, Songs, Crash PROVE Songs'
<1> USE Crashed
<1>1. \A d \in Downloads : ~Holding(d)'
  BY DEF Holding
<1>2. IdsGiven' /\ KeysHeld'
  BY <1>1 DEF Songs, SameSongs, IdsGiven, KeysHeld
<1>3. IdNamesOneSong'
  BY <1>1 DEF IdNamesOneSong, Busy, Holding
<1>4. NoSongLost'
  BY DEF Songs, SameSongs, NoSongLost
<1>5. QED
  BY <1>2, <1>3, <1>4 DEF Songs

(* Players and the making of a list change no more than marks.              *)
LEMMA PlaySame ==
    ASSUME TypeOK, (\E p \in Players : Play(p)) \/ FindExpired \/ UNCHANGED vars
    PROVE  SameSongs /\ UNCHANGED <<reg, rem, removed, cut, files>>
<1>1. ASSUME NEW p \in Players, Play(p)
      PROVE  SameSongs /\ UNCHANGED <<reg, rem, removed, cut, files>>
  <2>1. CASE (\E d \in Downloads : PlayTask(p, d)) \/ (\E i \in Ids : PlaySong(p, i))
             \/ StopPlaying(p)
    BY <2>1, Unchanged DEF PlayTask, PlaySong, StopPlaying
  <2>2. CASE MarkUsed(p)
    <3> DEFINE i == play[p].id
               row == [rows[i] EXCEPT !.inUse = TRUE]
    <3>1. UNCHANGED <<reg, rem, removed, cut, files, nextId>>
      BY <2>2 DEF MarkUsed
    <3>2. CASE i \in Live
      <4>1. row \in Row /\ row.key = rows[i].key /\ row.path = rows[i].path
        BY <3>2 DEF Live, TypeOK, Row
      <4>2. rows' = [rows EXCEPT ![i] = row]
        BY <2>2, <3>2 DEF MarkUsed, Live
      <4>3. QED
        BY <3>1, <3>2, <4>1, <4>2, Marked
    <3>3. CASE i \notin Live
      <4>1. rows' = rows
        BY <2>2, <3>3 DEF MarkUsed, Live, TypeOK
      <4>2. QED
        BY <3>1, <4>1, Unchanged
    <3>4. QED
      BY <3>2, <3>3
  <2>3. QED
    BY <1>1, <2>1, <2>2 DEF Play
<1>2. CASE FindExpired \/ UNCHANGED vars
  BY <1>2, Unchanged DEF FindExpired, vars
<1>3. QED
  BY <1>1, <1>2

LEMMA NextSongs == TypeOK /\ Songs /\ [Next]_vars => Songs'
<1> SUFFICES ASSUME TypeOK, Songs, [Next]_vars PROVE Songs'
  OBVIOUS
<1>1. ASSUME NEW i \in Ids, RemoveExpired(i) PROVE Songs'
  BY <1>1, LookUpSongs, Constants DEF RemoveExpired
<1>2. ASSUME (\E p \in Players : Play(p)) \/ FindExpired \/ UNCHANGED vars
      PROVE  Songs'
  BY <1>2, PlaySame, AsideSongs
<1>3. QED
  BY <1>1, <1>2, RegisterSongs, RemoveSongs, CrashSongs DEF Next, Clean

LEMMA InitSongs == Init => Songs
<1> SUFFICES ASSUME Init PROVE Songs
  OBVIOUS
<1>1. /\ Live = {} /\ \A r \in Removers : ~Busy(r)
      /\ \A d \in Downloads : ~Holding(d) /\ reg[d].pc # "done"
  BY DEF Init, Live, Busy, Holding, NewReg, NoRem
<1>2. QED
  BY <1>1 DEF Songs, IdsGiven, IdNamesOneSong, KeysHeld, NoSongLost, Busy, Holding

-----------------------------------------------------------------------------
(* Rows and files, when no two downloads share a path.                      *)
Paired == PathsUsed /\ PathsApart

LEMMA NotUsed == ASSUME UniquePaths, NEW d \in Downloads, reg[d].pc # "done"
                 PROVE  PathOf[d] \notin Used
BY DEF Used, UniquePaths

LEMMA AsideDisk ==
    ASSUME UniquePaths, Disk, SameSongs, UNCHANGED <<reg, rem, files, cut>> PROVE Disk'
<1>1. Used' = Used
  BY DEF Used
<1>2. PathsUsed'
  BY <1>1 DEF Disk, SameSongs, PathsUsed, Busy, Holding
<1>3. PathsApart'
  BY DEF Disk, SameSongs, PathsApart, Busy, Holding
<1>4. FilesWait'
  BY DEF Disk, FilesWait
<1>5. NoDanglingRow'
  BY DEF Disk, SameSongs, NoDanglingRow
<1>6. QED
  BY <1>2, <1>3, <1>4, <1>5 DEF Disk

LEMMA RegisteringPaired ==
    ASSUME Paired, SameSongs, UNCHANGED rem, NEW d \in Downloads,
           \A e \in Downloads \ {d} : reg'[e] = reg[e],
           reg[d].pc # "done", reg'[d].pc # "done",
           Holding(d)' => \/ /\ Holding(d)
                             /\ reg'[d].id = reg[d].id /\ reg'[d].path = reg[d].path
                          \/ /\ reg'[d].id \in Live
                             /\ reg'[d].path = rows[reg'[d].id].path
    PROVE  Paired'
<1>1. Used' = Used
  BY DEF Used
<1>2. PathsUsed'
  BY <1>1 DEF Paired, SameSongs, PathsUsed, Busy, Holding
<1>3. PathsApart'
  BY DEF Paired, SameSongs, PathsApart, Busy, Holding
<1>4. QED
  BY <1>2, <1>3 DEF Paired

LEMMA RemovingPaired ==
    ASSUME Paired, SameSongs, UNCHANGED reg, NEW r \in Removers,
           \A q \in Removers \ {r} : rem'[q] = rem[q],
           Busy(r)' => \/ /\ Busy(r)
                          /\ rem'[r].id = rem[r].id /\ rem'[r].path = rem[r].path
                       \/ /\ rem'[r].id \in Live
                          /\ rem'[r].path = rows[rem'[r].id].path
    PROVE  Paired'
<1>1. Used' = Used
  BY DEF Used
<1>2. PathsUsed'
  BY <1>1 DEF Paired, SameSongs, PathsUsed, Busy, Holding
<1>3. PathsApart'
  BY DEF Paired, SameSongs, PathsApart, Busy, Holding
<1>4. QED
  BY <1>2, <1>3 DEF Paired

(* Files that are unlinked are nobody's who waits, and leave without a file *)
(* only the row of the id that goes with the path.                          *)
LEMMA Unlinked ==
    ASSUME UniquePaths, Disk, NEW path \in Used, NEW id, Unlink(path),
           \A i \in Live : rows[i].path = path => i = id
    PROVE  /\ \A d \in Downloads : reg[d].pc # "done" /\ PathOf[d] \in files
                                    => PathOf[d] \in files'
           /\ \A i \in Live \ {id} : rows[i].path \in files => rows[i].path \in files'
BY NotUsed DEF Unlink

(* The row of an id is rewritten, or inserted, by a download that ends.     *)
LEMMA DoneDisk ==
    ASSUME TypeOK, UniquePaths, Disk, NEW d \in Downloads, UNCHANGED <<rem, files>>,
           reg[d].pc \in {"insert", "update"},
           reg'[d].pc = "done", \A e \in Downloads \ {d} : reg'[e] = reg[e],
           NEW i \in Ids, rows' = [rows EXCEPT ![i] = Entry(d)],
           reg[d].pc = "update" => i = reg[d].id,
           cut \ {i} \subseteq cut'
    PROVE  Disk'
<1>1. Live' = Live \cup {i} /\ rows'[i].path = PathOf[d] /\ \A j \in Live \ {i} : rows'[j] = rows[j]
  <2>1. Entry(d) \in Row /\ Entry(d).path = PathOf[d]
    BY Constants DEF Entry, Row
  <2>2. Entry(d) # NoRow
    BY <2>1, Constants
  <2>3. QED
    BY <2>1, <2>2 DEF TypeOK, Live
<1>2. Used' = Used \cup {PathOf[d]} /\ PathOf[d] \notin Used
  BY NotUsed DEF Used
<1>3. PathsUsed'
  BY <1>1, <1>2 DEF Disk, PathsUsed, Busy, Holding
<1>4. PathsApart'
  BY <1>1, <1>2 DEF Disk, PathsUsed, PathsApart, Busy, Holding
<1>5. FilesWait'
  BY DEF Disk, FilesWait
<1>6. NoDanglingRow'
  <2>1. rows'[i].path \in files'
    BY <1>1 DEF Disk, FilesWait
  <2>2. ASSUME NEW j \in Live \ {i}
        PROVE  \/ rows[j].path \in files \/ j \in cut
               \/ \E r \in Removers : rem[r].pc = "delete" /\ rem[r].id = j
               \/ \E e \in Downloads \ {d} : /\ reg[e].pc = "update" /\ reg[e].id = j
                                             /\ reg[e].path = rows[j].path
    BY <2>2 DEF Disk, NoDanglingRow
  <2>3. QED
    BY <1>1, <2>1, <2>2 DEF NoDanglingRow
<1>7. QED
  BY <1>3, <1>4, <1>5, <1>6 DEF Disk

LEMMA RegisterDisk ==
    ASSUME TypeOK, Songs, UniquePaths, Disk, NEW d \in Downloads, Register(d) PROVE Disk'
<1>1. ASSUME Downloaded(d) PROVE Disk'
  <2>1. /\ reg'[d].pc = "find" /\ reg[d].pc = "transfer" /\ UNCHANGED <<rows, rem, nextId, cut>>
        /\ \A e \in Downloads \ {d} : reg'[e] = reg[e]
        /\ files' = files \cup {PathOf[d]}
    BY <1>1 DEF Downloaded, TypeOK, RegType
  <2>2. Paired'
    BY <2>1, Unchanged, RegisteringPaired DEF Disk, Paired, Holding
  <2>3. FilesWait' /\ NoDanglingRow'
    BY <2>1 DEF Disk, FilesWait, NoDanglingRow, Live
  <2>4. QED
    BY <2>2, <2>3 DEF Disk, Paired
<1>2. ASSUME FindExisting(d) PROVE Disk'
  <2>1. /\ reg[d].pc = "find" /\ UNCHANGED <<rows, rem, nextId, files, cut>>
        /\ \A e \in Downloads \ {d} : reg'[e] = reg[e]
    BY <1>2 DEF FindExisting, TypeOK, RegType
  <2>2. /\ reg'[d].pc \in {"insert", "replace"}
        /\ reg'[d].pc = "replace" => /\ reg'[d].id \in Live
                                     /\ reg'[d].path = rows[reg'[d].id].path
    <3>1. CASE Existing(d) = {} /\ reg' = [reg EXCEPT ![d].pc = "insert"]
      BY <3>1 DEF TypeOK, RegType
    <3>2. ASSUME NEW i \in Existing(d),
                 reg' = [reg EXCEPT ![d] =
                           [pc |-> IF rows[i].path = PathOf[d] THEN "update" ELSE "replace",
                            id |-> i, path |-> rows[i].path]]
          PROVE  reg'[d].pc = "replace" /\ reg'[d].id \in Live /\ reg'[d].path = rows[reg'[d].id].path
      <4>1. i \in Live /\ rows[i].path # PathOf[d]
        BY <2>1, NotUsed DEF Existing, Disk, PathsUsed
      <4>2. QED
        BY <3>2, <4>1 DEF TypeOK
    <3>3. QED
      BY <1>2, <3>1, <3>2 DEF FindExisting
  <2>3. Paired'
    BY <2>1, <2>2, Unchanged, RegisteringPaired DEF Disk, Paired, Holding
  <2>4. FilesWait'
    BY <2>1, <2>2 DEF Disk, FilesWait
  <2>5. NoDanglingRow'
    BY <2>1, <2>2 DEF Disk, NoDanglingRow, Live
  <2>6. QED
    BY <2>3, <2>4, <2>5 DEF Disk, Paired
<1>3. ASSUME RemoveOldFile(d) PROVE Disk'
  <2>1. /\ reg[d].pc = "replace" /\ reg'[d].pc = "update"
        /\ reg'[d].id = reg[d].id /\ reg'[d].path = reg[d].path
        /\ UNCHANGED <<rows, rem, nextId, cut>> /\ Unlink(reg[d].path)
        /\ \A e \in Downloads \ {d} : reg'[e] = reg[e]
    BY <1>3 DEF RemoveOldFile, TypeOK, RegType
  <2>2. Paired'
    BY <2>1, Unchanged, RegisteringPaired DEF Disk, Paired, Holding
  <2>3. /\ reg[d].path \in Used
        /\ \A i \in Live : rows[i].path = reg[d].path => i = reg[d].id
    BY <2>1 DEF Disk, PathsUsed, PathsApart, Holding
  <2>4. FilesWait'
    BY <2>1, <2>3, Unlinked DEF Disk, FilesWait
  <2>5. NoDanglingRow'
    <3>1. ASSUME NEW i \in Live, rows[i].path \notin files',
                 rows[i].path \in files
          PROVE  rows[i].path = reg[d].path /\ i = reg[d].id
      BY <2>1, <2>3, <3>1 DEF Unlink
    <3>2. ASSUME NEW i \in Live, rows[i].path \notin files
          PROVE  \/ i \in cut
                 \/ \E r \in Removers : rem[r].pc = "delete" /\ rem[r].id = i
                 \/ \E e \in Downloads \ {d} : /\ reg[e].pc = "update" /\ reg[e].id = i
                                               /\ reg[e].path = rows[i].path
      BY <2>1, <3>2 DEF Disk, NoDanglingRow
    <3>3. QED
      BY <2>1, <3>1, <3>2 DEF NoDanglingRow, Live
  <2>6. QED
    BY <2>2, <2>4, <2>5 DEF Disk, Paired
<1>4. ASSUME UpdateRow(d) PROVE Disk'
  <2>1. /\ reg[d].pc = "update" /\ reg'[d].pc = "done" /\ reg[d].id \in Ids
        /\ \A e \in Downloads \ {d} : reg'[e] = reg[e]
        /\ UNCHANGED <<rem, nextId, files>> /\ cut' = cut \ {reg[d].id}
    BY <1>4 DEF UpdateRow, Registered, NewReg, TypeOK, Holding, Songs, IdsGiven
  <2>2. CASE rows[reg[d].id] = NoRow
    <3>1. rows' = rows /\ Live' = Live /\ reg[d].id \notin Live
      BY <1>4, <2>2 DEF UpdateRow, Live
    <3>2. Used \subseteq Used'
      BY <2>1 DEF Used
    <3>3. PathsUsed'
      BY <2>1, <3>1, <3>2 DEF Disk, PathsUsed, Busy, Holding
    <3>4. PathsApart'
      BY <2>1, <3>1 DEF Disk, PathsApart, Busy, Holding
    <3>5. FilesWait'
      BY <2>1 DEF Disk, FilesWait
    <3>6. ASSUME NEW i \in Live
          PROVE  \/ rows[i].path \in files \/ i \in cut
                 \/ \E r \in Removers : rem[r].pc = "delete" /\ rem[r].id = i
                 \/ \E e \in Downloads \ {d} : /\ reg[e].pc = "update" /\ reg[e].id = i
                                               /\ reg[e].path = rows[i].path
      BY <3>1 DEF Disk, NoDanglingRow
    <3>7. NoDanglingRow'
      BY <2>1, <3>1, <3>6 DEF NoDanglingRow
    <3>8. QED
      BY <3>3, <3>4, <3>5, <3>7 DEF Disk
  <2>3. CASE rows[reg[d].id] # NoRow
    <3>1. rows' = [rows EXCEPT ![reg[d].id] = Entry(d)]
      BY <1>4, <2>3 DEF UpdateRow
    <3>2. QED
      BY <2>1, <3>1, DoneDisk
  <2>4. QED
    BY <2>2, <2>3
<1>5. ASSUME InsertRow(d) PROVE Disk'
  <2>1. /\ reg[d].pc = "insert" /\ reg'[d].pc = "done"
        /\ \A e \in Downloads \ {d} : reg'[e] = reg[e]
        /\ UNCHANGED <<rem, files, cut>>
        /\ nextId \in Ids /\ rows' = [rows EXCEPT ![nextId] = Entry(d)]
    BY <1>5 DEF InsertRow, Registered, NewReg, TypeOK
  <2>2. QED
    BY <2>1, DoneDisk
<1>6. QED
  BY <1>1, <1>2, <1>3, <1>4, <1>5 DEF Register

LEMMA LookUpDisk ==
    ASSUME TypeOK, UniquePaths, Disk, NEW r \in Removers, NEW i \in Ids, LookUp(r, i)
    PROVE  Disk'
<1>1. CASE i \notin Live
  BY <1>1, Unchanged, AsideDisk DEF LookUp
<1>2. CASE i \in Live
  <2>1. /\ rem[r].pc = "idle" /\ rem'[r].pc = "count"
        /\ rem'[r].id = i /\ rem'[r].path = rows[i].path
        /\ \A q \in Removers \ {r} : rem'[q] = rem[q]
        /\ UNCHANGED <<rows, nextId, reg, files, cut>>
    BY <1>2 DEF LookUp, TypeOK
  <2>2. Paired'
    BY <1>2, <2>1, Unchanged, RemovingPaired DEF Disk, Paired
  <2>3. FilesWait'
    BY <2>1 DEF Disk, FilesWait
  <2>4. NoDanglingRow'
    BY <2>1 DEF Disk, NoDanglingRow, Live
  <2>5. QED
    BY <2>2, <2>3, <2>4 DEF Disk, Paired
<1>3. QED
  BY <1>1, <1>2

LEMMA RemoveDisk ==
    ASSUME TypeOK, Songs, UniquePaths, Disk, NEW r \in Removers, Remove(r) PROVE Disk'
<1>1. ASSUME Request(r) PROVE Disk'
  BY <1>1, LookUpDisk DEF Request
<1>2. ASSUME CountPath(r) PROVE Disk'
  <2>1. /\ rem[r].pc = "count" /\ rem'[r].pc = "unlink"
        /\ rem'[r].id = rem[r].id /\ rem'[r].path = rem[r].path
        /\ \A q \in Removers \ {r} : rem'[q] = rem[q]
        /\ UNCHANGED <<rows, nextId, reg, files, cut>>
    BY <1>2 DEF CountPath, TypeOK, RemType
  <2>2. Paired'
    BY <2>1, Unchanged, RemovingPaired DEF Disk, Paired, Busy
  <2>3. FilesWait' /\ NoDanglingRow'
    BY <2>1 DEF Disk, FilesWait, NoDanglingRow, Live
  <2>4. QED
    BY <2>2, <2>3 DEF Disk, Paired
<1>3. ASSUME UnlinkFile(r) PROVE Disk'
  <2>1. /\ rem[r].pc = "unlink" /\ rem'[r].pc = "delete"
        /\ rem'[r].id = rem[r].id /\ rem'[r].path = rem[r].path
        /\ \A q \in Removers \ {r} : rem'[q] = rem[q]
        /\ UNCHANGED <<rows, nextId, reg, cut>> /\ Unlink(rem[r].path)
    BY <1>3 DEF UnlinkFile, Unlink, TypeOK, RemType
  <2>2. Paired'
    BY <2>1, Unchanged, RemovingPaired DEF Disk, Paired, Busy
  <2>3. /\ rem[r].path \in Used
        /\ \A i \in Live : rows[i].path = rem[r].path => i = rem[r].id
    BY <2>1 DEF Disk, PathsUsed, PathsApart, Busy
  <2>4. FilesWait'
    BY <2>1, <2>3, Unlinked DEF Disk, FilesWait
  <2>5. NoDanglingRow'
    <3>1. ASSUME NEW i \in Live, rows[i].path \notin files', rows[i].path \in files
          PROVE  i = rem[r].id
      BY <2>1, <2>3, <3>1 DEF Unlink
    <3>2. ASSUME NEW i \in Live, rows[i].path \notin files
          PROVE  \/ i \in cut
                 \/ \E q \in Removers \ {r} : rem[q].pc = "delete" /\ rem[q].id = i
                 \/ \E e \in Downloads : /\ reg[e].pc = "update" /\ reg[e].id = i
                                         /\ reg[e].path = rows[i].path
      BY <2>1, <3>2 DEF Disk, NoDanglingRow
    <3>3. QED
      BY <2>1, <3>1, <3>2 DEF NoDanglingRow, Live
  <2>6. QED
    BY <2>2, <2>4, <2>5 DEF Disk, Paired
<1>4. ASSUME DeleteRow(r) PROVE Disk'
  <2> DEFINE k == rem[r].id
  <2>1. /\ rem'[r].pc = "idle" /\ \A q \in Removers \ {r} : rem'[q] = rem[q]
        /\ UNCHANGED <<files, reg, cut>> /\ k \in Ids
    BY <1>4 DEF DeleteRow, TypeOK, NoRem, Busy, Songs, IdsGiven
  <2>2. Live' = Live \ {k} /\ \A j \in Live' : rows'[j] = rows[j]
    BY <1>4, <2>1 DEF DeleteRow, TypeOK, Live
  <2>3. PathsUsed' /\ PathsApart'
    <3>1. Used' = Used
      BY <2>1 DEF Used
    <3>2. QED
      BY <2>1, <2>2, <3>1 DEF Disk, PathsUsed, PathsApart, Busy, Holding
  <2>4. FilesWait'
    BY <2>1 DEF Disk, FilesWait
  <2>5. NoDanglingRow'
    <3>1. ASSUME NEW i \in Live \ {k}
          PROVE  \/ rows[i].path \in files \/ i \in cut
                 \/ \E q \in Removers \ {r} : rem[q].pc = "delete" /\ rem[q].id = i
                 \/ \E e \in Downloads : /\ reg[e].pc = "update" /\ reg[e].id = i
                                         /\ reg[e].path = rows[i].path
      BY <3>1 DEF Disk, NoDanglingRow
    <3>2. QED
      BY <2>1, <2>2, <3>1 DEF NoDanglingRow
  <2>6. QED
    BY <2>3, <2>4, <2>5 DEF Disk
<1>5. QED
  BY <1>1, <1>2, <1>3, <1>4 DEF Remove

LEMMA CrashDisk == ASSUME TypeOK, Disk, Crash PROVE Disk'
<1> USE Crashed
<1>1. Used' = Used /\ \A d \in Downloads : ~Holding(d)'
  BY DEF Used, Holding
<1>2. PathsUsed' /\ PathsApart'
  BY <1>1 DEF Disk, SameSongs, PathsUsed, PathsApart
<1>3. FilesWait'
  BY DEF FilesWait
<1>4. NoDanglingRow'
  <2>1. cut \subseteq cut'
    BY DEF Crash
  <2>2. \A r \in Removers : rem[r].pc = "delete" => rem[r].id \in cut'
    BY DEF Crash
  <2>3. \A d \in Downloads : reg[d].pc = "update" => reg[d].id \in cut'
    BY DEF Crash
  <2>4. QED
    BY <2>1, <2>2, <2>3 DEF Disk, SameSongs, NoDanglingRow
<1>5. QED
  BY <1>2, <1>3, <1>4 DEF Disk

LEMMA NextDisk == TypeOK /\ Songs /\ UniquePaths /\ Disk /\ [Next]_vars => Disk'
<1> SUFFICES ASSUME TypeOK, Songs, UniquePaths, Disk, [Next]_vars PROVE Disk'
  OBVIOUS
<1>1. ASSUME NEW i \in Ids, RemoveExpired(i) PROVE Disk'
  BY <1>1, LookUpDisk, Constants DEF RemoveExpired
<1>2. ASSUME (\E p \in Players : Play(p)) \/ FindExpired \/ UNCHANGED vars
      PROVE  Disk'
  BY <1>2, PlaySame, AsideDisk
<1>3. QED
  BY <1>1, <1>2, RegisterDisk, RemoveDisk, CrashDisk DEF Next, Clean

LEMMA InitDisk == Init => Disk
<1> SUFFICES ASSUME Init PROVE Disk
  OBVIOUS
<1>1. /\ Live = {} /\ \A r \in Removers : ~Busy(r)
      /\ \A d \in Downloads : ~Holding(d) /\ reg[d].pc = "transfer"
  BY DEF Init, Live, Busy, Holding, NewReg, NoRem
<1>2. QED
  BY <1>1 DEF Disk, PathsUsed, PathsApart, FilesWait, NoDanglingRow

-----------------------------------------------------------------------------
(* The inductive invariant: the songs above hold in any case, rows and files *)
(* go together when paths are unique.                                       *)
THEOREM Inductive == Spec => []IInv
<1>1. Init => IInv
  BY InitTyped, InitSongs, InitDisk DEF IInv
<1>2. IInv /\ [Next]_vars => IInv'
  <2> SUFFICES ASSUME IInv, [Next]_vars PROVE IInv'
    OBVIOUS
  <2>1. TypeOK' /\ Songs'
    BY NextTyped, NextSongs DEF IInv
  <2>2. UniquePaths' => UniquePaths
    BY DEF UniquePaths
  <2>3. UniquePaths' => Disk'
    BY <2>2, NextDisk DEF IInv
  <2>4. QED
    BY <2>1, <2>3 DEF IInv
<1>3. QED
  BY <1>1, <1>2, PTL DEF Spec

(* Rows, registrations and removals stay well formed.                       *)
THEOREM Typing == Spec => []TypeOK
<1>1. IInv => TypeOK
  BY DEF IInv
<1>2. QED
  BY <1>1, Inductive, PTL

(* Whoever has looked a row up, and deletes or rewrites it steps later,     *)
(* meets the same song under its id, or none.                               *)
THEOREM SameSongOrNone == Spec => []IdNamesOneSong
<1>1. IInv => IdNamesOneSong
  BY DEF IInv, Songs
<1>2. QED
  BY <1>1, Inductive, PTL

(* A song that was downloaded is in the library unless a delete request or  *)
(* the cleanup looked up a row of that song.                                *)
THEOREM SongsAreKept == Spec => []NoSongLost
<1>1. IInv => NoSongLost
  BY DEF IInv, Songs
<1>2. QED
  BY <1>1, Inductive, PTL

(* When no two downloads share a path, a row without its file is one that   *)
(* the actor which removed the file still has to delete or to rewrite, or   *)
(* had when the process crashed.                                            *)
THEOREM RowsHaveFiles == Spec => []NoDanglingRow
<1>1. IInv => NoDanglingRow
  BY DEF IInv, Disk, NoDanglingRow
<1>2. QED
  BY <1>1, Inductive, PTL
=============================================================================

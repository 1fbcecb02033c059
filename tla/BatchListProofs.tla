---------------------------- MODULE BatchListProofs ----------------------------
(* The playlist shows a song as downloaded only when it was, and asks for   *)
(* every task it waits for, for any number of songs, tasks and requests, in *)
(* front of any service that keeps TaskPromise.                             *)
EXTENDS BatchList, SequenceTheorems, FiniteSetTheorems, TLAPS

Truth(song) == \E t \in Ids : /\ made[t] = song /\ phase[t] = "over"
                              /\ shown[t] \in {"Finished", "none"}

(* What a row tells is true: its task, and that it was downloaded.          *)
Honest(row) == /\ row.task # NoId => /\ phase[row.task] # "new"
                                     /\ row.strayed \/ made[row.task] = row.song
               /\ row.status = "downloaded" /\ ~row.strayed => Truth(row.song)
Distinct(l) == \A i, j \in DOMAIN l : l[i].task = l[j].task /\ l[i].task # NoId => i = j
Sheet(l)    == Distinct(l) /\ \A i \in DOMAIN l : Honest(l[i])

(* A task that was created for a row that is to learn of it: it is of the   *)
(* row's song, and in no row yet.                                           *)
Fresh(t, song) == /\ phase[t] # "new" /\ made[t] = song
                  /\ \A j \in DOMAIN list : list[j].task # t
                  /\ \A j \in DOMAIN stored : stored[j].task # t
Requests == \A s \in 1 .. MaxPosts :
    /\ DOMAIN posts[s].song = DOMAIN posts[s].task
    /\ posts[s].attempt = 0 => DOMAIN posts[s].task = {}
    /\ \A i \in DOMAIN posts[s].task :
          /\ ~posts[s].moved => i \in DOMAIN list /\ posts[s].song[i] = list[i].song
          /\ posts[s].task[i] \in Ids => Fresh(posts[s].task[i], posts[s].song[i])
OneEach == \A s, u \in 1 .. MaxPosts :
    \A i \in DOMAIN posts[s].task, j \in DOMAIN posts[u].task :
        posts[s].task[i] \in Ids /\ posts[s].task[i] = posts[u].task[j] => s = u /\ i = j

(* A poller that has not moved knows the rows of its tasks.                 *)
PollerOK(p) == /\ p.pending \subseteq DOMAIN p.row /\ DOMAIN p.answer = p.pending
               /\ \A t \in p.pending :
                     /\ phase[t] # "new"
                     /\ ~p.moved => /\ p.row[t] \in DOMAIN list
                                    /\ \/ list[p.row[t]].strayed
                                       \/ made[t] = list[p.row[t]].song
                     /\ p.answer[t] = "Finished" => /\ phase[t] = "over"
                                                    /\ shown[t] \in {"Finished", "none"}
Asked == \A p \in pollers : PollerOK(p)

Served == Service!TypeOK /\ Service!ResultIsLast

IInv == /\ Served /\ ListTypeOK
        /\ Sheet(list) /\ Sheet(stored) /\ Requests /\ OneEach /\ Asked
        /\ WaitingIsFollowed

-----------------------------------------------------------------------------
Facts == /\ phase \in [Ids -> {"new", "accepted", "over"}]
         /\ shown \in [Ids -> {"none", "Pending", "Downloading", "Finished", "Failed"}]
         /\ \A t \in Ids : shown[t] \in Result => phase[t] = "over"

(* What the promise says of its state, spelled out.                         *)
LEMMA ServedFacts == Served <=> Facts
  BY DEF Served, Facts, Service!TypeOK, Service!ResultIsLast, Service!Shown, Service!Final,
         Result

(* The two results.                                                         *)
LEMMA ResultIs == Result = {"Finished", "Failed"}
  BY DEF Result, Service!Final

(* What is known of a task stays: its song, and that it succeeded.          *)
Later == \A t \in Ids : phase[t] # "new" =>
            /\ phase'[t] # "new" /\ made'[t] = made[t]
            /\ phase[t] = "over" => phase'[t] = "over" /\ shown'[t] \in {shown[t], "none"}

(* A step of the service alone keeps its promise and forgets nothing.       *)
LEMMA ServiceStep == ASSUME Served, Service!Next, UNCHANGED made PROVE Served' /\ Later
<1> USE ServedFacts, ResultIs
<1>0. Facts
  OBVIOUS
<1>1. ASSUME NEW t \in Ids, Service!Accept(t) PROVE Facts' /\ Later
  BY <1>0, <1>1 DEF Facts, Later, Service!Accept, Service!Show
<1>2. ASSUME NEW t \in Ids, Service!Work(t) PROVE Facts' /\ Later
  BY <1>0, <1>2 DEF Facts, Later, Service!Work, Service!Show
<1>3. ASSUME NEW t \in Ids, Service!Conclude(t) PROVE Facts' /\ Later
  BY <1>0, <1>3 DEF Facts, Later, Service!Conclude, Service!Show, Service!Final
<1>4. ASSUME NEW ts \in SUBSET Ids, Service!Abandon(ts) PROVE Facts' /\ Later
  BY <1>0, <1>4 DEF Facts, Later, Service!Abandon
<1>5. ASSUME NEW ts \in SUBSET Ids, Service!Expire(ts) PROVE Facts' /\ Later
  BY <1>0, <1>5 DEF Facts, Later, Service!Expire
<1>6. (\E t \in Ids : Service!Accept(t) \/ Service!Work(t) \/ Service!Conclude(t))
      \/ (\E ts \in SUBSET Ids : Service!Abandon(ts) \/ Service!Expire(ts))
  BY DEF Service!Next
<1>7. Facts' /\ Later
  BY <1>1, <1>2, <1>3, <1>4, <1>5, <1>6
<1>8. Facts' => Served'
  BY DEF Served, Facts, Service!TypeOK, Service!ResultIsLast, Service!Shown, Service!Final,
         Result
<1> QED BY <1>7, <1>8

(* The service at rest.                                                     *)
LEMMA Rests == ASSUME Served, UNCHANGED <<service, made>> PROVE Served' /\ Later
  BY DEF Served, Later, service, Service!TypeOK, Service!ResultIsLast

(* A row that tells the truth goes on to tell it.                           *)
LEMMA HonestStays == ASSUME Served, ListTypeOK, Later, NEW row \in RowType, Honest(row)
                     PROVE Honest(row)'
<1>0. Facts /\ row.task \in Ids \cup {NoId}
  BY ServedFacts DEF RowType
<1>1. Truth(row.song) => Truth(row.song)'
  BY <1>0 DEF Truth, Later, Facts
<1> QED BY <1>0, <1>1 DEF Honest, Later

-----------------------------------------------------------------------------
(* What settling a row and giving it its task does to the fields.           *)
LEMMA SettledRow == ASSUME NEW row \in RowType, NEW moved \in BOOLEAN,
                           NEW status \in {"downloading", "downloaded", "failed"}
                    PROVE  /\ Settled(row, status, moved) \in RowType
                           /\ Settled(row, status, moved).song = row.song
                           /\ Settled(row, status, moved).task = row.task
                           /\ Settled(row, status, moved).status = status
                           /\ row.strayed => Settled(row, status, moved).strayed
                           /\ Settled(row, status, moved).strayed = (row.strayed \/ moved)
  BY DEF Settled, Stray, RowType

LEMMA StrayRow == ASSUME NEW row \in RowType, NEW moved \in BOOLEAN
                  PROVE  /\ Stray(row, moved) \in RowType
                         /\ Stray(row, moved).song = row.song
                         /\ Stray(row, moved).task = row.task
                         /\ Stray(row, moved).status = row.status
                         /\ Stray(row, moved).strayed = (row.strayed \/ moved)
  BY DEF Stray, RowType

LEMMA SubmittedRow == ASSUME NEW row \in RowType, NEW moved \in BOOLEAN,
                             NEW t \in Ids \cup {NoId}
                      PROVE  /\ Submitted(row, t, moved) \in RowType
                             /\ Submitted(row, t, moved).song = row.song
                             /\ Submitted(row, t, moved).task = IF t \in Ids THEN t ELSE row.task
                             /\ Submitted(row, t, moved).status
                                   = IF t \in Ids THEN "downloading" ELSE "failed"
                             /\ Submitted(row, t, moved).strayed = (row.strayed \/ moved)
  BY DEF Submitted, Settled, Stray, RowType

(* A list whose rows are changed, or made, in place.                        *)
LEMMA Mapped == ASSUME NEW S, NEW l \in Seq(S), NEW m, m = [i \in DOMAIN l |-> m[i]],
                       \A i \in DOMAIN l : m[i] \in RowType
                PROVE  m \in Seq(RowType) /\ DOMAIN m = DOMAIN l
<1>1. Len(l) \in Nat /\ DOMAIN l = 1 .. Len(l)
  OBVIOUS
<1>2. m = [i \in 1 .. Len(l) |-> m[i]]
  BY <1>1
<1>3. m \in [1 .. Len(l) -> RowType]
  BY <1>1, <1>2
<1>4. DOMAIN m = 1 .. Len(l)
  BY <1>2
<1> QED BY <1>1, <1>3, <1>4

(* A new row waits for nothing and tells nothing.                           *)
LEMMA FreshRow == ASSUME NEW song \in Wanted, NEW status \in {"found", "notfound"}
                  PROVE  /\ NewRow(song, status) \in RowType
                         /\ NewRow(song, status).task = NoId
                         /\ NewRow(song, status).status \notin {"downloading", "downloaded"}
  BY DEF NewRow, RowType

(* A list of new rows.                                                      *)
LEMMA FreshRows == ASSUME NEW l \in Seq(Wanted), NEW m, m = [i \in DOMAIN l |-> m[i]],
                          \A i \in DOMAIN l : \E status \in {"found", "notfound"} :
                                               m[i] = NewRow(l[i], status)
                   PROVE  /\ m \in Seq(RowType) /\ DOMAIN m = DOMAIN l
                          /\ \A i \in DOMAIN m :
                                m[i].task = NoId /\ m[i].status \notin {"downloading", "downloaded"}
<1>1. ASSUME NEW i \in DOMAIN l
      PROVE  /\ m[i] \in RowType /\ m[i].task = NoId
             /\ m[i].status \notin {"downloading", "downloaded"}
  <2>1. l[i] \in Wanted
    OBVIOUS
  <2>2. PICK status \in {"found", "notfound"} : m[i] = NewRow(l[i], status)
    OBVIOUS
  <2> QED BY <2>1, <2>2, FreshRow
<1>2. m \in Seq(RowType) /\ DOMAIN m = DOMAIN l
  BY <1>1, Mapped
<1> QED BY <1>1, <1>2

(* The rows keep their places, their songs and their flags.                 *)
Aligned == \A i \in DOMAIN list : /\ i \in DOMAIN list' /\ list'[i].song = list[i].song
                                  /\ list[i].strayed => list'[i].strayed

(* No row learns a task of a request that is still out.                     *)
Untold(s) == \A i \in DOMAIN posts[s].task :
    posts[s].task[i] \in Ids => /\ \A j \in DOMAIN list' : list'[j].task # posts[s].task[i]
                                /\ \A j \in DOMAIN stored' : stored'[j].task # posts[s].task[i]

(* Requests stay as they are, or are over.                                  *)
LEMMA RequestsStay == ASSUME IInv, Later, Aligned, posts' \in [1 .. MaxPosts -> PostType],
                             \A s \in 1 .. MaxPosts : \/ posts'[s] = NoRequest
                                                      \/ posts'[s] = posts[s] /\ Untold(s)
                      PROVE  Requests' /\ OneEach'
<1>1. \A s \in 1 .. MaxPosts : posts'[s] = NoRequest
        => DOMAIN posts'[s].song = {} /\ DOMAIN posts'[s].task = {}
  BY DEF NoRequest
<1>2. OneEach'
  BY <1>1 DEF IInv, OneEach
<1>3. ASSUME NEW s \in 1 .. MaxPosts, posts'[s] = posts[s], Untold(s),
             NEW i \in DOMAIN posts[s].task
      PROVE  /\ ~posts[s].moved => i \in DOMAIN list' /\ posts[s].song[i] = list'[i].song
             /\ posts[s].task[i] \in Ids => Fresh(posts[s].task[i], posts[s].song[i])'
  <2>1. ~posts[s].moved => i \in DOMAIN list' /\ posts[s].song[i] = list'[i].song
    BY <1>3 DEF IInv, Requests, Aligned
  <2>2. ASSUME posts[s].task[i] \in Ids PROVE Fresh(posts[s].task[i], posts[s].song[i])'
    <3>1. phase[posts[s].task[i]] # "new" /\ made[posts[s].task[i]] = posts[s].song[i]
      BY <2>2, <1>3 DEF IInv, Requests, Fresh
    <3>2. phase'[posts[s].task[i]] # "new" /\ made'[posts[s].task[i]] = posts[s].song[i]
      BY <2>2, <3>1 DEF Later
    <3> QED BY <2>2, <1>3, <3>2 DEF Fresh, Untold
  <2> QED BY <2>1, <2>2
<1>4. ASSUME NEW s \in 1 .. MaxPosts
      PROVE  /\ DOMAIN posts'[s].song = DOMAIN posts'[s].task
             /\ posts'[s].attempt = 0 => DOMAIN posts'[s].task = {}
             /\ \A i \in DOMAIN posts'[s].task :
                   /\ ~posts'[s].moved => i \in DOMAIN list' /\ posts'[s].song[i] = list'[i].song
                   /\ posts'[s].task[i] \in Ids
                         => Fresh(posts[s].task[i], posts[s].song[i])'
  <2>1. CASE posts'[s] = NoRequest
    BY <1>1, <2>1
  <2>2. CASE posts'[s] = posts[s] /\ Untold(s)
    BY <1>3, <2>2 DEF IInv, Requests
  <2> QED BY <2>1, <2>2
<1>5. Requests'
  BY <1>4 DEF Requests
<1> QED BY <1>2, <1>5

(* A poller that stays as it is goes on to know its rows.                   *)
LEMMA PollerStays == ASSUME IInv, Later, Aligned, NEW p \in pollers PROVE PollerOK(p)'
<1>1. PollerOK(p) /\ p \in PollerType
  BY DEF IInv, Asked, ListTypeOK
<1>2. p.pending \subseteq Ids
  BY <1>1 DEF PollerType
<1>3. ASSUME NEW t \in p.pending
      PROVE  /\ phase'[t] # "new"
             /\ ~p.moved => /\ p.row[t] \in DOMAIN list'
                            /\ \/ list'[p.row[t]].strayed
                               \/ made'[t] = list'[p.row[t]].song
             /\ p.answer[t] = "Finished" => /\ phase'[t] = "over"
                                            /\ shown'[t] \in {"Finished", "none"}
  BY <1>1, <1>2 DEF PollerOK, Later, Aligned
<1> QED BY <1>1, <1>3 DEF PollerOK
-----------------------------------------------------------------------------
Old(task) == \/ task = NoId
             \/ \E j \in DOMAIN list : list[j].task = task
             \/ \E j \in DOMAIN stored : stored[j].task = task

(* Rows were removed or replaced: whatever is out has moved.                *)
LEMMA MoveStep == ASSUME IInv, UNCHANGED <<service, made>>, Move,
                         list' \in Seq(RowType), stored' \in Seq(RowType),
                         awaiting' \in Seq(Wanted), Sheet(list)', Sheet(stored)',
                         \A j \in DOMAIN list' : Old(list'[j].task),
                         \A j \in DOMAIN stored' : Old(stored'[j].task),
                         WaitingIsFollowed'
                  PROVE  IInv'
<1> USE DEF IInv
<1>0. Served' /\ UNCHANGED <<phase, shown, made>>
  BY Rests DEF service
<1>1. DOMAIN posts = 1 .. MaxPosts /\ \A s \in 1 .. MaxPosts : posts[s] \in PostType
  BY DEF ListTypeOK
<1>2. ASSUME NEW s \in 1 .. MaxPosts
      PROVE  /\ posts'[s] \in PostType
             /\ posts'[s].moved \/ DOMAIN posts'[s].task = {}
             /\ DOMAIN posts'[s].task = {} \/ posts'[s].attempt # 0
             /\ DOMAIN posts'[s].song = DOMAIN posts'[s].task
             /\ \A i \in DOMAIN posts'[s].task :
                   /\ i \in DOMAIN posts[s].task /\ posts'[s].task[i] = posts[s].task[i]
                   /\ posts'[s].song[i] = posts[s].song[i]
  <2>1. CASE posts[s].attempt = 0
    <3>1. posts'[s] = NoRequest
      BY <1>1, <2>1 DEF Move
    <3>2. NoRequest \in PostType
      <4>1. {} \in SUBSET Places
        OBVIOUS
      <4>2. [i \in {} |-> NoId] \in [{} -> Wanted]
        OBVIOUS
      <4>3. [i \in {} |-> NoId] \in [{} -> Ids \cup {NoId, Unserved}]
        OBVIOUS
      <4>4. /\ [i \in {} |-> NoId] \in Partial(Places, Wanted)
            /\ [i \in {} |-> NoId] \in Partial(Places, Ids \cup {NoId, Unserved})
        BY <4>1, <4>2, <4>3 DEF Partial
      <4> QED BY <4>4 DEF NoRequest, PostType
    <3> QED BY <3>1, <3>2 DEF NoRequest
  <2>2. CASE posts[s].attempt # 0
    <3>1. posts'[s] = [posts[s] EXCEPT !.moved = TRUE]
      BY <1>1, <2>2 DEF Move
    <3> QED BY <1>1, <3>1, <2>2 DEF PostType, Requests
  <2> QED BY <2>1, <2>2
<1>3. posts' \in [1 .. MaxPosts -> PostType]
  BY <1>1, <1>2 DEF Move
<1>4. pollers' \subseteq PollerType
  BY DEF Move, ListTypeOK, PollerType
<1>5. ListTypeOK'
  BY <1>0, <1>3, <1>4 DEF ListTypeOK
<1>6. ASSUME NEW t \in Ids, NEW song, Fresh(t, song)
      PROVE  /\ phase'[t] # "new" /\ made'[t] = song
             /\ \A j \in DOMAIN list' : list'[j].task # t
             /\ \A j \in DOMAIN stored' : stored'[j].task # t
  <2>1. phase'[t] # "new" /\ made'[t] = song
    BY <1>0, <1>6 DEF Fresh
  <2>2. ~Old(t)
    BY <1>6, NoIdAssumption DEF Fresh, Old
  <2> QED BY <2>1, <2>2
<1>7. Requests'
  <2>1. ASSUME NEW s \in 1 .. MaxPosts, NEW i \in DOMAIN posts'[s].task,
               posts'[s].task[i] \in Ids
        PROVE  Fresh(posts[s].task[i], posts[s].song[i])'
    <3> DEFINE t == posts[s].task[i]
               song == posts[s].song[i]
    <3>1. Fresh(t, song) /\ posts'[s].task[i] = t /\ posts'[s].song[i] = song
      BY <1>2, <2>1 DEF Requests
    <3>2. /\ phase'[t] # "new" /\ made'[t] = song
          /\ \A j \in DOMAIN list' : list'[j].task # t
          /\ \A j \in DOMAIN stored' : stored'[j].task # t
      BY <1>6, <2>1, <3>1
    <3> QED BY <3>1, <3>2 DEF Fresh
  <2> QED BY <1>2, <2>1 DEF Requests
<1>8. OneEach'
  <2>1. ASSUME NEW s \in 1 .. MaxPosts, NEW u \in 1 .. MaxPosts,
               NEW i \in DOMAIN posts'[s].task, NEW j \in DOMAIN posts'[u].task,
               posts'[s].task[i] \in Ids, posts'[s].task[i] = posts'[u].task[j]
        PROVE  s = u /\ i = j
    <3>1. i \in DOMAIN posts[s].task /\ posts'[s].task[i] = posts[s].task[i]
      BY <1>2
    <3>2. j \in DOMAIN posts[u].task /\ posts'[u].task[j] = posts[u].task[j]
      BY <1>2
    <3>3. posts[s].task[i] \in Ids /\ posts[s].task[i] = posts[u].task[j]
      BY <2>1, <3>1, <3>2
    <3> QED BY <3>1, <3>2, <3>3 DEF OneEach
  <2> QED BY <2>1 DEF OneEach
<1>9. Asked'
  <2>1. ASSUME NEW p \in pollers PROVE PollerOK([p EXCEPT !.moved = TRUE])'
    <3>1. PollerOK(p) /\ p \in PollerType
      BY DEF Asked, ListTypeOK
    <3> DEFINE q == [p EXCEPT !.moved = TRUE]
    <3>2. /\ q.moved = TRUE /\ q.pending = p.pending /\ q.row = p.row
          /\ q.answer = p.answer
      BY <3>1 DEF PollerType
    <3> HIDE DEF q
    <3>3. PollerOK(q)'
      BY <1>0, <3>1, <3>2 DEF PollerOK
    <3> QED BY <3>3 DEF q
  <2> QED BY <2>1 DEF Move, Asked
<1> QED BY <1>0, <1>5, <1>7, <1>8, <1>9

LEMMA ParseStep == ASSUME IInv, NEW text \in Texts, NEW k \in 0 .. Len(text),
                          Parse(SubSeq(text, 1, k), SubSeq(text, k + 1, Len(text)))
                   PROVE  IInv'
<1> DEFINE linked == SubSeq(text, 1, k)
           searched == SubSeq(text, k + 1, Len(text))
<1>0. text \in Seq(Wanted) /\ Len(text) \in Nat /\ k \in Nat
  BY TextsAssumption
<1>1. \A i \in 1 .. Len(text) : text[i] \in Wanted
  BY <1>0
<1>2. linked \in Seq(Wanted)
  BY <1>0, <1>1, SubSeqProperties
<1>3. searched \in Seq(Wanted)
  BY <1>0, <1>1, SubSeqProperties
<1> HIDE DEF linked, searched
<1>4. Parse(linked, searched)
  BY DEF linked, searched
<1>5. list' = [i \in DOMAIN linked |-> NewRow(linked[i], "found")]
  BY <1>4 DEF Parse
<1>6. /\ list' \in Seq(RowType)
      /\ \A i \in DOMAIN list' : /\ list'[i].task = NoId
                                /\ list'[i].status \notin {"downloading", "downloaded"}
  <2>1. list' = [i \in DOMAIN linked |-> list'[i]]
    BY <1>5
  <2>2. \A i \in DOMAIN linked : \E status \in {"found", "notfound"} :
            list'[i] = NewRow(linked[i], status)
    BY <1>5
  <2> QED BY <1>2, <2>1, <2>2, FreshRows
<1>7. Sheet(list)'
  BY <1>6 DEF Sheet, Distinct, Honest
<1>8. stored' \in {stored, list'} /\ UNCHANGED <<service, made>> /\ Move /\ awaiting' = searched
  BY <1>4 DEF Parse
<1>9. WaitingIsFollowed'
  BY <1>6 DEF WaitingIsFollowed
<1>10. \A j \in DOMAIN list' : Old(list'[j].task)
  BY <1>6 DEF Old
<1>11. \A j \in DOMAIN stored' : Old(stored'[j].task)
  BY <1>8, <1>10 DEF Old
<1>12. stored' \in Seq(RowType) /\ Sheet(stored)'
  <2>1. CASE stored' = list'
    BY <1>6, <1>7, <2>1 DEF Sheet
  <2>2. CASE stored' = stored
    BY <1>8, <2>2 DEF IInv, ListTypeOK, Sheet, Distinct, Honest, Truth, service
  <2> QED BY <1>8, <2>1, <2>2
<1> QED BY <1>3, <1>6, <1>7, <1>8, <1>9, <1>10, <1>11, <1>12, MoveStep

LEMMA ClearStep == ASSUME IInv, Clear PROVE IInv'
<1>1. list' = <<>> /\ stored' = <<>> /\ Move /\ UNCHANGED <<service, made, awaiting>>
  BY DEF Clear
<1>2. DOMAIN list' = {} /\ DOMAIN stored' = {} /\ <<>> \in Seq(RowType)
  BY <1>1
<1>3. Sheet(list)' /\ Sheet(stored)' /\ WaitingIsFollowed'
  BY <1>2 DEF Sheet, Distinct, WaitingIsFollowed
<1>4. awaiting' \in Seq(Wanted)
  BY <1>1 DEF IInv, ListTypeOK
<1> QED BY <1>1, <1>2, <1>3, <1>4, MoveStep

LEMMA DeleteStep == ASSUME IInv, NEW gone \in SUBSET DOMAIN list, DeleteRows(gone)
                    PROVE  IInv'
<1> DEFINE left == DOMAIN list \ gone
           n == Cardinality(left)
<1>0. list \in Seq(RowType) /\ DOMAIN list = 1 .. Len(list) /\ Len(list) \in Nat
  BY DEF IInv, ListTypeOK
<1>1. PICK from \in [1 .. n -> left] :
        /\ \A i, j \in DOMAIN from : i < j => from[i] < from[j]
        /\ list' = [i \in DOMAIN from |-> Stray(list[from[i]], Out)]
  BY DEF DeleteRows
<1>2. stored' = list' /\ Move /\ UNCHANGED <<service, made, awaiting>>
  BY DEF DeleteRows
<1>3. n \in Nat
  <2>1. IsFiniteSet(DOMAIN list)
    BY <1>0, FS_Interval
  <2> QED BY <2>1, FS_Subset, FS_CardinalityType
<1>a. DOMAIN from = 1 .. n /\ \A i \in 1 .. n : from[i] \in DOMAIN list
  OBVIOUS
<1> HIDE DEF n, left
<1>4. ASSUME NEW i \in 1 .. n
      PROVE  /\ from[i] \in DOMAIN list
             /\ list[from[i]] \in RowType /\ list'[i] \in RowType
             /\ list'[i].task = list[from[i]].task /\ list'[i].song = list[from[i]].song
             /\ list'[i].status = list[from[i]].status
             /\ list'[i].strayed = (list[from[i]].strayed \/ Out)
  <2>1. from[i] \in DOMAIN list /\ list[from[i]] \in RowType
    BY <1>a, <1>0
  <2>2. Out \in BOOLEAN
    BY DEF Out
  <2>3. list'[i] = Stray(list[from[i]], Out)
    BY <1>1, <1>a
  <2> QED BY <2>1, <2>2, <2>3, StrayRow
<1>5. list' \in Seq(RowType) /\ DOMAIN list' = 1 .. n
  <2>1. DOMAIN list' = 1 .. n
    BY <1>1, <1>a
  <2>2. list' = [i \in 1 .. n |-> list'[i]]
    BY <1>1, <1>a
  <2>3. list' \in [1 .. n -> RowType]
    BY <1>4, <2>2
  <2> QED BY <1>3, <2>1, <2>3
<1>6. ASSUME NEW i \in 1 .. n, NEW j \in 1 .. n, from[i] = from[j] PROVE i = j
  <2>1. from[i] \in Nat /\ from[j] \in Nat
    BY <1>0, <1>a
  <2>2. ~(i < j) /\ ~(j < i)
    BY <1>1, <1>a, <1>6, <2>1
  <2> QED BY <1>3, <2>2
<1>7. Distinct(list)'
  <2>1. ASSUME NEW i \in 1 .. n, NEW j \in 1 .. n,
               list'[i].task = list'[j].task, list'[i].task # NoId
        PROVE  i = j
    <3>1. from[i] = from[j]
      BY <1>4, <2>1 DEF IInv, Sheet, Distinct
    <3> QED BY <1>6, <3>1
  <2> QED BY <1>5, <2>1 DEF Distinct
<1>8. ASSUME NEW i \in DOMAIN list' PROVE Honest(list[i])'
  <2>1. Honest(list[from[i]]) /\ UNCHANGED <<phase, shown, made>>
    BY <1>2, <1>4, <1>5 DEF IInv, Sheet, service
  <2>2. \A song : Truth(song) => \E t \in Ids : /\ made'[t] = song /\ phase'[t] = "over"
                                                 /\ shown'[t] \in {"Finished", "none"}
    BY <2>1 DEF Truth
  <2>3. list'[i].task # NoId => /\ phase'[list'[i].task] # "new"
                                /\ list'[i].strayed \/ made'[list'[i].task] = list'[i].song
    BY <1>4, <1>5, <2>1 DEF Honest
  <2>4. list'[i].status = "downloaded" /\ ~list'[i].strayed => Truth(list[from[i]].song)
    BY <1>4, <1>5, <2>1 DEF Honest
  <2>5. list'[i].song = list[from[i]].song
    BY <1>4, <1>5
  <2> QED BY <2>2, <2>3, <2>4, <2>5 DEF Honest, Truth
<1>9. Sheet(list)' /\ Sheet(stored)'
  BY <1>2, <1>7, <1>8 DEF Sheet
<1>10. \A j \in DOMAIN list' : Old(list'[j].task)
  BY <1>4, <1>5 DEF Old
<1>11. WaitingIsFollowed'
  <2>1. ASSUME NEW i \in DOMAIN list', list'[i].status = "downloading",
               list'[i].task # NoId, ~list'[i].strayed
        PROVE FALSE
    <3>1. /\ list[from[i]].status = "downloading" /\ list[from[i]].task # NoId
          /\ ~list[from[i]].strayed /\ ~Out /\ from[i] \in DOMAIN list
      BY <1>4, <1>5, <2>1
    <3>2. \/ \E s \in DOMAIN posts : from[i] \in DOMAIN posts[s].task
          \/ pollers # {}
      BY <3>1 DEF IInv, WaitingIsFollowed
    <3>3. \A s \in DOMAIN posts : DOMAIN posts[s].task # {} => posts[s].attempt > 0
      BY DEF IInv, Requests, ListTypeOK, PostType
    <3> QED BY <3>1, <3>2, <3>3 DEF Out
  <2> QED BY <2>1 DEF WaitingIsFollowed
<1>12. awaiting' \in Seq(Wanted)
  BY <1>2 DEF IInv, ListTypeOK
<1> QED BY <1>2, <1>5, <1>9, <1>10, <1>11, <1>12, MoveStep

-----------------------------------------------------------------------------
(* Rows that stay in place, with their tasks, and tell nothing untrue.      *)
LEMMA RowsStay == ASSUME IInv, Later, list' \in Seq(RowType), DOMAIN list' = DOMAIN list,
                         \A i \in DOMAIN list :
                            /\ list'[i].song = list[i].song /\ list'[i].task = list[i].task
                            /\ list[i].strayed => list'[i].strayed
                            /\ list'[i].status = "downloaded" /\ ~list'[i].strayed
                                  => \/ list[i].status = "downloaded" /\ ~list[i].strayed
                                     \/ Truth(list[i].song),
                         stored' \in {stored, list'}
                  PROVE  /\ Aligned /\ Sheet(list)' /\ Sheet(stored)'
                         /\ \A s \in 1 .. MaxPosts : Untold(s)
<1>0. /\ list \in Seq(RowType) /\ stored \in Seq(RowType)
      /\ Served /\ ListTypeOK /\ Sheet(list) /\ Sheet(stored)
  BY DEF IInv, ListTypeOK
<1>1. Aligned
  BY DEF Aligned
<1>2. Distinct(list)'
  BY <1>0 DEF Sheet, Distinct
<1>3. \A song : Truth(song) => \E t \in Ids : /\ made'[t] = song /\ phase'[t] = "over"
                                              /\ shown'[t] \in {"Finished", "none"}
  BY DEF Truth, Later
<1>4. ASSUME NEW i \in DOMAIN list PROVE Honest(list[i])'
  <2>1. Honest(list[i]) /\ list[i] \in RowType
    BY <1>0 DEF Sheet
  <2>2. list[i].task \in Ids \cup {NoId}
    BY <2>1 DEF RowType
  <2>3. list'[i].task # NoId => /\ phase'[list'[i].task] # "new"
                                /\ list'[i].strayed \/ made'[list'[i].task] = list'[i].song
    BY <2>1, <2>2 DEF Honest, Later
  <2>4. list'[i].status = "downloaded" /\ ~list'[i].strayed => Truth(list[i].song)
    BY <2>1 DEF Honest
  <2>5. list'[i].song = list[i].song
    OBVIOUS
  <2>6. list'[i].status = "downloaded" /\ ~list'[i].strayed =>
            \E t \in Ids : /\ made'[t] = list'[i].song /\ phase'[t] = "over"
                           /\ shown'[t] \in {"Finished", "none"}
    BY <1>3, <2>4, <2>5
  <2> QED BY <2>3, <2>6 DEF Honest, Truth
<1>5. Sheet(list)'
  BY <1>2, <1>4 DEF Sheet
<1>6. Sheet(stored)'
  <2>1. CASE stored' = list'
    BY <1>5, <2>1 DEF Sheet, Distinct
  <2>2. CASE stored' = stored
    <3>1. ASSUME NEW i \in DOMAIN stored PROVE Honest(stored[i])'
      <4>1. PICK row \in RowType : row = stored[i]
        BY <1>0
      <4>2. Honest(row)
        BY <1>0, <4>1 DEF Sheet
      <4>3. Honest(row)'
        BY <1>0, <4>2, HonestStays
      <4>4. row = stored'[i]
        BY <2>2, <4>1
      <4> QED BY <4>3, <4>4 DEF Honest, Truth
    <3>2. Distinct(stored)'
      BY <1>0, <2>2 DEF Sheet, Distinct
    <3> QED BY <2>2, <3>1, <3>2 DEF Sheet
  <2> QED BY <2>1, <2>2
<1>7. ASSUME NEW s \in 1 .. MaxPosts PROVE Untold(s)
  <2>1. \A i \in DOMAIN posts[s].task : posts[s].task[i] \in Ids =>
            Fresh(posts[s].task[i], posts[s].song[i])
    BY DEF IInv, Requests
  <2> QED BY <2>1 DEF Untold, Fresh
<1> QED BY <1>1, <1>5, <1>6, <1>7

(* Requests that stay or are over, and pollers that know their rows.        *)
LEMMA QuietStep == ASSUME IInv, Served', Later, Aligned, ListTypeOK', Sheet(list)',
                          Sheet(stored)',
                          \A s \in 1 .. MaxPosts : \/ posts'[s] = NoRequest
                                                   \/ posts'[s] = posts[s] /\ Untold(s),
                          \A p \in pollers' : p \in pollers \/ PollerOK(p)',
                          WaitingIsFollowed'
                   PROVE  IInv'
<1>1. posts' \in [1 .. MaxPosts -> PostType]
  BY DEF ListTypeOK
<1>2. Requests' /\ OneEach'
  BY <1>1, RequestsStay
<1>3. Asked'
  BY PollerStays DEF Asked
<1> QED BY <1>2, <1>3 DEF IInv

(* Who waits goes on to be followed: whoever forgets a row has settled it.  *)
LEMMA FollowedStays == ASSUME IInv, DOMAIN posts' = DOMAIN posts,
                              \A i \in DOMAIN list' :
                                 list'[i].status = "downloading" /\ list'[i].task # NoId
                                    /\ ~list'[i].strayed
                                 => /\ i \in DOMAIN list /\ list[i].status = "downloading"
                                    /\ list[i].task = list'[i].task /\ ~list[i].strayed,
                              \A s \in DOMAIN posts :
                                 \/ posts'[s] = posts[s] \/ posts[s].moved
                                 \/ \A i \in DOMAIN posts[s].task :
                                       i \in DOMAIN list' => list'[i].status # "downloading",
                              \A p \in pollers : ~p.moved => \A t \in p.pending :
                                 \/ \E q \in pollers' : ~q.moved /\ q.row = p.row /\ t \in q.pending
                                 \/ p.row[t] \in DOMAIN list'
                                       => list'[p.row[t]].status # "downloading"
                       PROVE  WaitingIsFollowed'
<1>1. ASSUME NEW i \in DOMAIN list', list'[i].status = "downloading",
             list'[i].task # NoId, ~list'[i].strayed
      PROVE  \/ \E s \in DOMAIN posts' : i \in DOMAIN posts'[s].task /\ ~posts'[s].moved
             \/ \E p \in pollers' : /\ list'[i].task \in p.pending /\ ~p.moved
                                    /\ p.row[list'[i].task] = i
  <2>1. /\ i \in DOMAIN list /\ list[i].status = "downloading"
        /\ list[i].task = list'[i].task /\ ~list[i].strayed
    BY <1>1
  <2>2. \/ \E s \in DOMAIN posts : i \in DOMAIN posts[s].task /\ ~posts[s].moved
        \/ \E p \in pollers : /\ list[i].task \in p.pending /\ ~p.moved
                              /\ p.row[list[i].task] = i
    BY <1>1, <2>1 DEF IInv, WaitingIsFollowed
  <2>3. CASE \E s \in DOMAIN posts : i \in DOMAIN posts[s].task /\ ~posts[s].moved
    <3>1. PICK s \in DOMAIN posts : i \in DOMAIN posts[s].task /\ ~posts[s].moved
      BY <2>3
    <3>2. posts'[s] = posts[s]
      BY <1>1, <3>1
    <3> QED BY <3>1, <3>2
  <2>4. CASE \E p \in pollers : /\ list[i].task \in p.pending /\ ~p.moved
                                /\ p.row[list[i].task] = i
    <3>1. PICK p \in pollers : /\ list[i].task \in p.pending /\ ~p.moved
                               /\ p.row[list[i].task] = i
      BY <2>4
    <3>2. \E q \in pollers' : ~q.moved /\ q.row = p.row /\ list[i].task \in q.pending
      BY <1>1, <3>1
    <3> QED BY <2>1, <3>1, <3>2
  <2> QED BY <2>2, <2>3, <2>4
<1> QED BY <1>1 DEF WaitingIsFollowed

LEMMA SearchStep == ASSUME IInv, NEW found \in SUBSET DOMAIN awaiting, SearchEnds(found)
                    PROVE  IInv'
<1> DEFINE m == [i \in DOMAIN awaiting |->
                    NewRow(awaiting[i], IF i \in found THEN "found" ELSE "notfound")]
<1>0. /\ list \in Seq(RowType) /\ awaiting \in Seq(Wanted)
      /\ Served /\ ListTypeOK /\ Sheet(list) /\ Sheet(stored)
  BY DEF IInv, ListTypeOK
<1>1. /\ list' = list \o m /\ stored' = list' /\ awaiting' = <<>> /\ posts' = posts
      /\ pollers' = pollers /\ UNCHANGED <<service, made>>
  BY DEF SearchEnds
<1>2. /\ m \in Seq(RowType)
      /\ \A i \in DOMAIN m : /\ m[i].task = NoId
                             /\ m[i].status \notin {"downloading", "downloaded"}
  <2>1. \A i \in DOMAIN awaiting : \E status \in {"found", "notfound"} :
            m[i] = NewRow(awaiting[i], status)
    OBVIOUS
  <2>2. m = [i \in DOMAIN awaiting |-> m[i]]
    OBVIOUS
  <2> HIDE DEF m
  <2> QED BY <1>0, <2>1, <2>2, FreshRows
<1> HIDE DEF m
<1>3. Served' /\ Later
  BY <1>0, <1>1, Rests
<1>4. list' \in Seq(RowType)
  BY <1>0, <1>1, <1>2
<1>5. /\ \A i \in DOMAIN list : i \in DOMAIN list' /\ list'[i] = list[i]
      /\ \A i \in DOMAIN list' :
            \/ i \in DOMAIN list
            \/ /\ list'[i].task = NoId
               /\ list'[i].status \notin {"downloading", "downloaded"}
  <2>1. /\ Len(list) \in Nat /\ Len(m) \in Nat
        /\ DOMAIN list = 1 .. Len(list) /\ DOMAIN m = 1 .. Len(m)
    BY <1>0, <1>2
  <2>2. DOMAIN list' = 1 .. (Len(list) + Len(m))
    BY <1>0, <1>1, <1>2, <2>1
  <2>3. \A i \in 1 .. Len(list) : list'[i] = list[i]
    BY <1>0, <1>1, <1>2, <2>1
  <2>4. ASSUME NEW i \in DOMAIN list', i \notin DOMAIN list
        PROVE  i - Len(list) \in DOMAIN m /\ list'[i] = m[i - Len(list)]
    BY <1>0, <1>1, <1>2, <2>1, <2>2, <2>4
  <2> QED BY <1>2, <2>1, <2>2, <2>3, <2>4
<1>6. Aligned
  BY <1>5 DEF Aligned
<1>7. Sheet(list)'
  <2>1. Distinct(list)'
    <3>1. ASSUME NEW i \in DOMAIN list', NEW j \in DOMAIN list',
                 list'[i].task = list'[j].task, list'[i].task # NoId
          PROVE  i = j
      <4>1. i \in DOMAIN list /\ j \in DOMAIN list
        BY <1>5, <3>1
      <4>2. list[i].task = list[j].task /\ list[i].task # NoId
        BY <1>5, <3>1, <4>1
      <4> QED BY <1>0, <4>1, <4>2 DEF Sheet, Distinct
    <3> QED BY <3>1 DEF Distinct
  <2>2. ASSUME NEW i \in DOMAIN list' PROVE Honest(list[i])'
    <3>1. CASE i \in DOMAIN list
      <4>1. PICK row \in RowType : row = list[i]
        BY <1>0, <3>1
      <4>2. Honest(row)
        BY <1>0, <3>1, <4>1 DEF Sheet
      <4>3. Honest(row)'
        BY <1>0, <1>3, <4>2, HonestStays
      <4>4. row = list'[i]
        BY <1>5, <3>1, <4>1
      <4> QED BY <4>3, <4>4 DEF Honest, Truth
    <3>2. CASE i \notin DOMAIN list
      BY <1>5, <3>2 DEF Honest
    <3> QED BY <3>1, <3>2
  <2> QED BY <2>1, <2>2 DEF Sheet
<1>8. Sheet(stored)'
  BY <1>1, <1>7 DEF Sheet, Distinct
<1>9. ASSUME NEW s \in 1 .. MaxPosts PROVE Untold(s)
  <2>1. \A i \in DOMAIN posts[s].task : posts[s].task[i] \in Ids =>
            \A j \in DOMAIN list : list[j].task # posts[s].task[i]
    BY DEF IInv, Requests, Fresh
  <2> QED BY <1>1, <1>5, <2>1, NoIdAssumption DEF Untold
<1>10. WaitingIsFollowed'
  <2>1. \A i \in DOMAIN list' : list'[i].status = "downloading" =>
            i \in DOMAIN list /\ list'[i] = list[i]
    BY <1>5
  <2> QED BY <1>1, <2>1, FollowedStays
<1>11. ListTypeOK'
  BY <1>0, <1>1, <1>4 DEF ListTypeOK
<1> QED BY <1>1, <1>3, <1>6, <1>7, <1>8, <1>9, <1>10, <1>11, QuietStep

LEMMA SelectStep == ASSUME IInv, Select PROVE IInv'
<1>1. UNCHANGED <<service, made, list, awaiting, posts, pollers>> /\ stored' = list'
  BY DEF Select
<1>2. Served' /\ Later /\ ListTypeOK /\ list' \in Seq(RowType)
  BY <1>1, Rests DEF IInv, ListTypeOK
<1>3. ListTypeOK'
  BY <1>1, <1>2 DEF ListTypeOK
<1>4. WaitingIsFollowed'
  BY <1>1, FollowedStays
<1>5. /\ Aligned /\ Sheet(list)' /\ Sheet(stored)'
      /\ \A s \in 1 .. MaxPosts : Untold(s)
  BY <1>1, <1>2, RowsStay
<1> QED BY <1>1, <1>2, <1>3, <1>4, <1>5, QuietStep

(* A step of the service: the sheet is at rest.                             *)
LEMMA ServiceRuns == ASSUME IInv, Service!Next, UNCHANGED listVars PROVE IInv'
<1>1. UNCHANGED <<made, list, stored, awaiting, posts, pollers>>
  BY DEF listVars
<1>2. Served' /\ Later /\ ListTypeOK /\ list' \in Seq(RowType)
  BY <1>1, ServiceStep DEF IInv, ListTypeOK
<1>3. ListTypeOK'
  BY <1>1, <1>2 DEF ListTypeOK
<1>4. WaitingIsFollowed'
  BY <1>1, FollowedStays
<1>5. /\ Aligned /\ Sheet(list)' /\ Sheet(stored)'
      /\ \A s \in 1 .. MaxPosts : Untold(s)
  BY <1>1, <1>2, RowsStay
<1> QED BY <1>1, <1>2, <1>3, <1>4, <1>5, QuietStep

-----------------------------------------------------------------------------
(* A poller that goes on with the tasks it had, or some of them.            *)
LEMMA KnowsStill == ASSUME IInv, Later, Aligned, NEW p \in pollers, NEW q,
                           q.row = p.row, q.moved = p.moved, q.pending \subseteq p.pending,
                           DOMAIN q.answer = q.pending,
                           \A t \in q.pending : q.answer[t] = "Finished" =>
                              phase'[t] = "over" /\ shown'[t] \in {"Finished", "none"}
                    PROVE  PollerOK(q)'
<1>1. PollerOK(p)'
  BY PollerStays
<1>2. /\ p.pending \subseteq DOMAIN p.row
      /\ \A t \in p.pending : /\ phase'[t] # "new"
                              /\ ~p.moved => /\ p.row[t] \in DOMAIN list'
                                             /\ \/ list'[p.row[t]].strayed
                                                \/ made'[t] = list'[p.row[t]].song
  BY <1>1 DEF PollerOK
<1> QED BY <1>2 DEF PollerOK

(* A poller that is to ask again for the tasks that are left.               *)
AskAgain(p, left, errors) ==
    [p EXCEPT !.asked = FALSE, !.pending = left, !.errors = errors,
              !.answer = [t \in left |-> Waiting]]

LEMMA AskingAgain == ASSUME NEW p \in PollerType, NEW left \in SUBSET p.pending,
                            NEW errors \in Nat
                     PROVE  /\ AskAgain(p, left, errors) \in PollerType
                            /\ AskAgain(p, left, errors).row = p.row
                            /\ AskAgain(p, left, errors).moved = p.moved
                            /\ AskAgain(p, left, errors).pending = left
                            /\ AskAgain(p, left, errors).answer = [t \in left |-> Waiting]
<1>1. left \in SUBSET Ids
  BY DEF PollerType
<1>2. [t \in left |-> Waiting] \in [left -> Answers \cup {Waiting}]
  OBVIOUS
<1>3. [t \in left |-> Waiting] \in Partial(Ids, Answers \cup {Waiting})
  BY <1>1, <1>2 DEF Partial
<1> QED BY <1>1, <1>3 DEF AskAgain, PollerType

(* Whoever asks again has heard nothing yet.                                *)
LEMMA AskingKnows == ASSUME IInv, Later, Aligned, NEW p \in pollers, NEW q,
                            q.row = p.row, q.moved = p.moved, q.pending \subseteq p.pending,
                            q.answer = [t \in q.pending |-> Waiting]
                     PROVE  PollerOK(q)'
<1>1. Waiting # "Finished"
  BY DEF Waiting
<1> QED BY <1>1, KnowsStill

LEMMA PollStep == ASSUME IInv, NEW p \in pollers, Poll(p) PROVE IInv'
<1> DEFINE q == [p EXCEPT !.asked = TRUE, !.answer = [t \in p.pending |-> Waiting]]
<1>0. p \in PollerType
  BY DEF IInv, ListTypeOK
<1>1. /\ pollers' = (pollers \ {p}) \cup {q}
      /\ UNCHANGED <<service, made, list, stored, awaiting, posts>>
  BY DEF Poll
<1>2. Served' /\ Later /\ ListTypeOK /\ list' \in Seq(RowType)
  BY <1>1, Rests DEF IInv, ListTypeOK
<1>3. /\ Aligned /\ Sheet(list)' /\ Sheet(stored)'
      /\ \A s \in 1 .. MaxPosts : Untold(s)
  BY <1>1, <1>2, RowsStay
<1>4. /\ q.row = p.row /\ q.moved = p.moved /\ q.pending = p.pending
      /\ q.answer = [t \in q.pending |-> Waiting]
  BY <1>0 DEF PollerType
<1>5. q \in PollerType
  <2>1. p.pending \in SUBSET Ids
    BY <1>0 DEF PollerType
  <2>2. [t \in p.pending |-> Waiting] \in [p.pending -> Answers \cup {Waiting}]
    OBVIOUS
  <2>3. [t \in p.pending |-> Waiting] \in Partial(Ids, Answers \cup {Waiting})
    BY <2>1, <2>2 DEF Partial
  <2> QED BY <1>0, <2>3 DEF PollerType
<1> HIDE DEF q
<1>6. PollerOK(q)'
  BY <1>2, <1>3, <1>4, AskingKnows
<1>7. ListTypeOK'
  BY <1>1, <1>2, <1>5 DEF ListTypeOK
<1>8. WaitingIsFollowed'
  BY <1>1, <1>4, FollowedStays
<1>9. \A r \in pollers' : r \in pollers \/ PollerOK(r)'
  BY <1>1, <1>6
<1> QED BY <1>1, <1>2, <1>3, <1>7, <1>8, <1>9, QuietStep

LEMMA ReadStep == ASSUME IInv, NEW p \in pollers, NEW t \in p.pending, ReadStatus(p, t)
                  PROVE  IInv'
<1>0. p \in PollerType /\ PollerOK(p) /\ t \in Ids /\ Facts
  BY ServedFacts DEF IInv, ListTypeOK, PollerType, Asked
<1>1. PICK a \in Answers : a = StatusOf(t)
  BY <1>0, ResultIs DEF Answers, StatusOf, Facts
<1> DEFINE q == [p EXCEPT !.answer[t] = a]
<1>2. /\ pollers' = (pollers \ {p}) \cup {q}
      /\ UNCHANGED <<service, made, list, stored, awaiting, posts>>
  BY <1>1 DEF ReadStatus
<1>3. Served' /\ Later /\ ListTypeOK /\ list' \in Seq(RowType)
  BY <1>2, Rests DEF IInv, ListTypeOK
<1>4. /\ Aligned /\ Sheet(list)' /\ Sheet(stored)'
      /\ \A s \in 1 .. MaxPosts : Untold(s)
  BY <1>2, <1>3, RowsStay
<1>5. /\ q.row = p.row /\ q.moved = p.moved /\ q.pending = p.pending
      /\ q.asked = p.asked /\ q.errors = p.errors
      /\ q.answer = [p.answer EXCEPT ![t] = a] /\ DOMAIN q.answer = DOMAIN p.answer
  BY <1>0 DEF PollerType
<1>6. q \in PollerType
  <2>1. p.answer \in [p.pending -> Answers \cup {Waiting}]
    <3>1. PICK D \in SUBSET Ids : p.answer \in [D -> Answers \cup {Waiting}]
      BY <1>0 DEF PollerType, Partial
    <3> QED BY <1>0, <3>1 DEF PollerOK
  <2>2. q.answer \in [p.pending -> Answers \cup {Waiting}]
    BY <1>5, <2>1
  <2>3. q.answer \in Partial(Ids, Answers \cup {Waiting})
    BY <1>0, <2>2 DEF Partial, PollerType
  <2> QED BY <1>0, <2>3 DEF PollerType
<1>7. PollerOK(q)'
  <2>1. DOMAIN p.answer = p.pending
    BY <1>0 DEF PollerOK
  <2>2. a = "Finished" => shown[t] = "Finished"
    BY <1>1 DEF StatusOf
  <2>3. shown[t] = "Finished" => phase[t] = "over"
    BY <1>0, ResultIs DEF Facts
  <2>4. \A u \in p.pending : p.answer[u] = "Finished" =>
            phase[u] = "over" /\ shown[u] \in {"Finished", "none"}
    BY <1>0 DEF PollerOK
  <2>5. phase' = phase /\ shown' = shown
    BY <1>2 DEF service
  <2>6. \A u \in q.pending : q.answer[u] = "Finished" =>
            phase'[u] = "over" /\ shown'[u] \in {"Finished", "none"}
    BY <1>5, <2>1, <2>2, <2>3, <2>4, <2>5
  <2> HIDE DEF q
  <2> QED BY <1>3, <1>4, <1>5, <2>1, <2>6, KnowsStill
<1> HIDE DEF q
<1>8. ListTypeOK'
  BY <1>2, <1>3, <1>6 DEF ListTypeOK
<1>9. WaitingIsFollowed'
  BY <1>2, <1>5, FollowedStays
<1>10. \A r \in pollers' : r \in pollers \/ PollerOK(r)'
  BY <1>2, <1>7
<1> QED BY <1>2, <1>3, <1>4, <1>8, <1>9, <1>10, QuietStep

(* The pollers after one of them went on with the tasks that are left.      *)
LEMMA GoingOn == ASSUME IInv, Later, Aligned, NEW p \in pollers, NEW left \in SUBSET p.pending,
                        NEW errors \in Nat, GoOn(p, left, errors)
                 PROVE  /\ pollers' \subseteq PollerType
                        /\ \A q \in pollers' : q \in pollers \/ PollerOK(q)'
                        /\ \A r \in pollers \ {p} : r \in pollers'
                        /\ \A t \in left : \E q \in pollers' :
                              /\ q.moved = p.moved /\ q.row = p.row /\ t \in q.pending
<1> DEFINE q == AskAgain(p, left, errors)
<1>1. pollers' = (pollers \ {p}) \cup (IF left = {} THEN {} ELSE {q})
  BY DEF GoOn, AskAgain
<1>2. p \in PollerType /\ pollers \subseteq PollerType
  BY DEF IInv, ListTypeOK
<1>3. /\ q \in PollerType /\ q.row = p.row /\ q.moved = p.moved /\ q.pending = left
      /\ q.answer = [t \in left |-> Waiting]
  BY <1>2, AskingAgain
<1> HIDE DEF q
<1>4. PollerOK(q)'
  BY <1>3, AskingKnows
<1> QED BY <1>1, <1>2, <1>3, <1>4

LEMMA FailStep == ASSUME IInv, NEW p \in pollers, StatusFails(p) PROVE IInv'
<1>a. p \in PollerType /\ list \in Seq(RowType)
  BY DEF IInv, ListTypeOK
<1>b. p.errors \in Nat /\ p.moved \in BOOLEAN
  BY <1>a DEF PollerType
<1>0. /\ p \in PollerType /\ p.errors \in Nat /\ p.pending \in SUBSET p.pending
      /\ p.moved \in BOOLEAN /\ p.errors + 1 \in Nat /\ list \in Seq(RowType)
  BY <1>a, <1>b
<1>1. UNCHANGED <<service, made, awaiting, posts>>
  BY DEF StatusFails
<1>2. Served' /\ Later /\ ListTypeOK
  BY <1>1, Rests DEF IInv
<1>3. CASE p.errors + 1 < MaxErrors
  <2>1. GoOn(p, p.pending, p.errors + 1) /\ UNCHANGED <<list, stored>>
    BY <1>3 DEF StatusFails
  <2>2. /\ Aligned /\ Sheet(list)' /\ Sheet(stored)'
        /\ \A s \in 1 .. MaxPosts : Untold(s)
    BY <1>0, <1>2, <2>1, RowsStay
  <2>3. /\ pollers' \subseteq PollerType
        /\ \A q \in pollers' : q \in pollers \/ PollerOK(q)'
        /\ \A r \in pollers \ {p} : r \in pollers'
        /\ \A t \in p.pending : \E q \in pollers' :
              /\ q.moved = p.moved /\ q.row = p.row /\ t \in q.pending
    BY <1>0, <1>2, <2>1, <2>2, GoingOn
  <2>4. ListTypeOK'
    BY <1>1, <1>2, <2>1, <2>3 DEF ListTypeOK
  <2>5. WaitingIsFollowed'
    <3>1. \A r \in pollers : \A t \in r.pending :
             \E q \in pollers' : q.moved = r.moved /\ q.row = r.row /\ t \in q.pending
      BY <2>3
    <3> QED BY <1>1, <2>1, <3>1, FollowedStays
  <2> QED BY <1>1, <1>2, <2>2, <2>3, <2>4, <2>5, QuietStep
<1>4. CASE ~(p.errors + 1 < MaxErrors)
  <2>1. /\ list' = [i \in DOMAIN list |->
                       IF \E t \in p.pending : p.row[t] = i
                       THEN Settled(list[i], "failed", p.moved) ELSE list[i]]
        /\ stored' = list' /\ pollers' = pollers \ {p}
    BY <1>4 DEF StatusFails
  <2>2. ASSUME NEW i \in DOMAIN list
        PROVE  /\ list'[i] \in RowType
               /\ list'[i].song = list[i].song /\ list'[i].task = list[i].task
               /\ list[i].strayed => list'[i].strayed
               /\ \/ list'[i] = list[i] /\ \A t \in p.pending : p.row[t] # i
                  \/ list'[i].status = "failed"
    <3>1. list[i] \in RowType
      BY <1>0
    <3>2. CASE \E t \in p.pending : p.row[t] = i
      <4>1. list'[i] = Settled(list[i], "failed", p.moved)
        BY <2>1, <3>2
      <4>2. list'[i] \in RowType /\ list'[i].status = "failed"
        BY <1>b, <3>1, <4>1 DEF Settled, Stray, RowType
      <4>3. /\ list'[i].song = list[i].song /\ list'[i].task = list[i].task
            /\ list[i].strayed => list'[i].strayed
        BY <1>b, <3>1, <4>1 DEF Settled, Stray, RowType
      <4> QED BY <4>2, <4>3
    <3>3. CASE ~\E t \in p.pending : p.row[t] = i
      BY <2>1, <3>1, <3>3
    <3> QED BY <3>2, <3>3
  <2>3. list' \in Seq(RowType) /\ DOMAIN list' = DOMAIN list
    <3>1. list' = [i \in DOMAIN list |-> list'[i]]
      BY <2>1
    <3> QED BY <1>0, <2>2, <3>1, Mapped
  <2>4. /\ Aligned /\ Sheet(list)' /\ Sheet(stored)'
        /\ \A s \in 1 .. MaxPosts : Untold(s)
    <3>1. \A i \in DOMAIN list : list'[i].status = "downloaded" /\ ~list'[i].strayed
                                    => list[i].status = "downloaded" /\ ~list[i].strayed
      BY <2>2
    <3> QED BY <1>2, <2>1, <2>2, <2>3, <3>1, RowsStay
  <2>5. ListTypeOK'
    BY <1>1, <1>2, <2>1, <2>3 DEF ListTypeOK
  <2>6. WaitingIsFollowed'
    <3>1. \A i \in DOMAIN list' : list'[i].status = "downloading" => list'[i] = list[i]
      BY <2>2, <2>3
    <3>2. \A t \in p.pending : p.row[t] \in DOMAIN list'
                                  => list'[p.row[t]].status # "downloading"
      BY <2>2, <2>3
    <3>3. \A r \in pollers \ {p} : r \in pollers'
      BY <2>1
    <3> QED BY <1>1, <2>3, <3>1, <3>2, <3>3, FollowedStays
  <2> QED BY <1>1, <1>2, <2>1, <2>4, <2>5, <2>6, QuietStep
<1> QED BY <1>3, <1>4

LEMMA ArriveStep == ASSUME IInv, NEW p \in pollers, StatusArrives(p) PROVE IInv'
<1> DEFINE over == {t \in p.pending : p.answer[t] \in Ended}
           At(i) == {t \in over : p.row[t] = i}
           left == p.pending \ over
<1>0. /\ p \in PollerType /\ p.moved \in BOOLEAN /\ list \in Seq(RowType)
      /\ left \in SUBSET p.pending /\ 0 \in Nat /\ PollerOK(p)
      /\ p.pending \subseteq Ids
  BY DEF IInv, ListTypeOK, PollerType, Asked
<1>1. /\ list' = [i \in DOMAIN list |->
                     IF At(i) = {} THEN list[i]
                     ELSE Settled(list[i], Verdict(p.answer[CHOOSE t \in At(i) : TRUE]),
                                  p.moved)]
      /\ stored' \in {stored, list'} /\ GoOn(p, left, 0)
      /\ UNCHANGED <<service, made, awaiting, posts>>
  BY DEF StatusArrives
<1>2. Served' /\ Later /\ ListTypeOK
  BY <1>1, Rests DEF IInv
<1>3. ASSUME NEW i \in DOMAIN list
      PROVE  /\ list'[i] \in RowType
             /\ list'[i].song = list[i].song /\ list'[i].task = list[i].task
             /\ list[i].strayed => list'[i].strayed
             /\ \/ list'[i] = list[i] /\ At(i) = {}
                \/ /\ list'[i].status \in {"downloaded", "failed"}
                   /\ list'[i].status = "downloaded" /\ ~list'[i].strayed
                         => Truth(list[i].song)
  <2>1. list[i] \in RowType
    BY <1>0
  <2>2. CASE At(i) # {}
    <3>1. PICK t \in At(i) : t = CHOOSE u \in At(i) : TRUE
      BY <2>2
    <3>2. t \in p.pending /\ p.row[t] = i
      BY <3>1
    <3>3. PICK status \in {"downloaded", "failed"} :
              /\ status = Verdict(p.answer[t])
              /\ status = "downloaded" => p.answer[t] = "Finished"
      BY DEF Verdict
    <3>4. list'[i] = Settled(list[i], status, p.moved)
      BY <1>1, <2>2, <3>1, <3>3
    <3> HIDE DEF At, over
    <3>5. /\ list'[i] \in RowType /\ list'[i].song = list[i].song
          /\ list'[i].task = list[i].task /\ list'[i].status = status
          /\ list[i].strayed => list'[i].strayed
          /\ list'[i].strayed = (list[i].strayed \/ p.moved)
      BY <1>0, <2>1, <3>4, SettledRow
    <3>6. ASSUME status = "downloaded", ~list'[i].strayed PROVE Truth(list[i].song)
      <4>1. ~p.moved /\ ~list[i].strayed
        BY <3>5, <3>6
      <4>2. phase[t] = "over" /\ shown[t] \in {"Finished", "none"}
        BY <1>0, <3>2, <3>3, <3>6 DEF PollerOK
      <4>3. made[t] = list[i].song
        BY <1>0, <3>2, <4>1 DEF PollerOK
      <4> QED BY <1>0, <3>2, <4>2, <4>3 DEF Truth
    <3> QED BY <3>5, <3>6
  <2>3. CASE At(i) = {}
    <3>1. list'[i] = list[i]
      BY <1>1, <2>3
    <3> QED BY <2>1, <2>3, <3>1
  <2> QED BY <2>2, <2>3
<1>4. list' \in Seq(RowType) /\ DOMAIN list' = DOMAIN list
  <2>1. list' = [i \in DOMAIN list |-> list'[i]]
    BY <1>1
  <2> QED BY <1>0, <1>3, <2>1, Mapped
<1>5. /\ Aligned /\ Sheet(list)' /\ Sheet(stored)'
      /\ \A s \in 1 .. MaxPosts : Untold(s)
  <2>1. \A i \in DOMAIN list : list'[i].status = "downloaded" /\ ~list'[i].strayed
                                  => \/ list[i].status = "downloaded" /\ ~list[i].strayed
                                     \/ Truth(list[i].song)
    BY <1>3
  <2> QED BY <1>1, <1>2, <1>3, <1>4, <2>1, RowsStay
<1>6. /\ pollers' \subseteq PollerType
      /\ \A q \in pollers' : q \in pollers \/ PollerOK(q)'
      /\ \A r \in pollers \ {p} : r \in pollers'
      /\ \A t \in left : \E q \in pollers' :
            /\ q.moved = p.moved /\ q.row = p.row /\ t \in q.pending
  <2> HIDE DEF left
  <2> QED BY <1>0, <1>1, <1>2, <1>5, GoingOn
<1>7. ListTypeOK'
  BY <1>1, <1>2, <1>4, <1>6 DEF ListTypeOK
<1>8. WaitingIsFollowed'
  <2>1. \A i \in DOMAIN list' : list'[i].status = "downloading" => list'[i] = list[i]
    BY <1>3, <1>4
  <2>2. \A t \in over : p.row[t] \in DOMAIN list'
                           => list'[p.row[t]].status # "downloading"
    BY <1>3, <1>4
  <2>3. \A r \in pollers : ~r.moved => \A t \in r.pending :
           \/ \E q \in pollers' : ~q.moved /\ q.row = r.row /\ t \in q.pending
           \/ r.row[t] \in DOMAIN list' => list'[r.row[t]].status # "downloading"
    BY <1>6, <2>2
  <2> QED BY <1>1, <1>4, <2>1, <2>3, FollowedStays
<1> QED BY <1>1, <1>2, <1>5, <1>6, <1>7, <1>8, QuietStep

-----------------------------------------------------------------------------
LEMMA NoRequestType == NoRequest \in PostType
<1>1. {} \in SUBSET Places
  OBVIOUS
<1>2. [i \in {} |-> NoId] \in [{} -> Wanted]
  OBVIOUS
<1>3. [i \in {} |-> NoId] \in [{} -> Ids \cup {NoId, Unserved}]
  OBVIOUS
<1>4. /\ [i \in {} |-> NoId] \in Partial(Places, Wanted)
      /\ [i \in {} |-> NoId] \in Partial(Places, Ids \cup {NoId, Unserved})
  BY <1>1, <1>2, <1>3 DEF Partial
<1> QED BY <1>4 DEF NoRequest, PostType

(* What is known of a request that is out.                                  *)
LEMMA RequestFacts == ASSUME IInv, NEW s \in DOMAIN posts
                      PROVE  /\ DOMAIN posts = 1 .. MaxPosts /\ posts[s].moved \in BOOLEAN
                             /\ DOMAIN posts[s].task \subseteq Places
                             /\ DOMAIN posts[s].song = DOMAIN posts[s].task
                             /\ \A i \in DOMAIN posts[s].task :
                                   /\ posts[s].task[i] \in Ids \cup {NoId, Unserved}
                                   /\ posts[s].song[i] \in Wanted
<1>1. DOMAIN posts = 1 .. MaxPosts /\ posts[s] \in PostType
  BY DEF IInv, ListTypeOK
<1>2. DOMAIN posts[s].song = DOMAIN posts[s].task
  BY <1>1 DEF IInv, Requests
<1>3. PICK D \in SUBSET Places : posts[s].task \in [D -> Ids \cup {NoId, Unserved}]
  BY <1>1 DEF PostType, Partial
<1>4. PICK E \in SUBSET Places : posts[s].song \in [E -> Wanted]
  BY <1>1 DEF PostType, Partial
<1>5. posts[s].moved \in BOOLEAN
  BY <1>1 DEF PostType
<1> QED BY <1>1, <1>2, <1>3, <1>4, <1>5

(* A request is over.                                                       *)
LEMMA RequestOver == ASSUME IInv, NEW s \in DOMAIN posts,
                            posts' = [posts EXCEPT ![s] = NoRequest]
                     PROVE  /\ posts' \in [1 .. MaxPosts -> PostType]
                            /\ posts'[s] = NoRequest /\ DOMAIN posts' = DOMAIN posts
                            /\ \A u \in DOMAIN posts \ {s} : posts'[u] = posts[u]
  BY NoRequestType DEF IInv, ListTypeOK

LEMMA PostFailsStep == ASSUME IInv, NEW s \in DOMAIN posts, PostFails(s) PROVE IInv'
<1> DEFINE rows == DOMAIN posts[s].task
           kept == rows \subseteq DOMAIN list
           moved == posts[s].moved
<1>0. list \in Seq(RowType) /\ moved \in BOOLEAN /\ s \in 1 .. MaxPosts
  BY RequestFacts DEF IInv, ListTypeOK
<1>1. PICK done \in SUBSET (rows \cap DOMAIN list) :
        /\ kept => done = rows
        /\ list' = [i \in DOMAIN list |->
                       IF i \in done THEN Settled(list[i], "failed", moved) ELSE list[i]]
        /\ stored' = IF kept THEN list' ELSE stored
  BY DEF PostFails
<1>2. /\ posts' = [posts EXCEPT ![s] = NoRequest]
      /\ UNCHANGED <<service, made, awaiting, pollers>>
  BY DEF PostFails
<1>3. /\ Served' /\ Later /\ ListTypeOK /\ posts' \in [1 .. MaxPosts -> PostType]
      /\ posts'[s] = NoRequest /\ DOMAIN posts' = DOMAIN posts
      /\ \A u \in DOMAIN posts \ {s} : posts'[u] = posts[u]
  BY <1>2, Rests, RequestOver DEF IInv
<1>4. ~moved => kept
  BY <1>0 DEF IInv, Requests
<1> HIDE DEF rows, kept, moved
<1>5. ASSUME NEW i \in DOMAIN list
      PROVE  /\ list'[i] \in RowType
             /\ list'[i].song = list[i].song /\ list'[i].task = list[i].task
             /\ list[i].strayed => list'[i].strayed
             /\ \/ list'[i] = list[i] /\ i \notin done
                \/ list'[i].status = "failed"
  <2>1. list[i] \in RowType
    BY <1>0
  <2>2. CASE i \in done
    <3>1. list'[i] = Settled(list[i], "failed", moved)
      BY <1>1, <2>2
    <3> QED BY <1>0, <2>1, <3>1, SettledRow
  <2>3. CASE i \notin done
    BY <1>1, <2>1, <2>3
  <2> QED BY <2>2, <2>3
<1>6. list' \in Seq(RowType) /\ DOMAIN list' = DOMAIN list
  <2>1. list' = [i \in DOMAIN list |-> list'[i]]
    BY <1>1
  <2> QED BY <1>0, <1>5, <2>1, Mapped
<1>7. /\ Aligned /\ Sheet(list)' /\ Sheet(stored)'
      /\ \A u \in 1 .. MaxPosts : Untold(u)
  <2>1. \A i \in DOMAIN list : list'[i].status = "downloaded" /\ ~list'[i].strayed
                                  => list[i].status = "downloaded" /\ ~list[i].strayed
    BY <1>5
  <2>2. stored' \in {stored, list'}
    BY <1>1
  <2> QED BY <1>3, <1>5, <1>6, <2>1, <2>2, RowsStay
<1>8. ListTypeOK'
  <2>1. stored' \in Seq(RowType)
    BY <1>1, <1>3, <1>6 DEF ListTypeOK
  <2> QED BY <1>2, <1>3, <1>6, <2>1 DEF ListTypeOK
<1>9. WaitingIsFollowed'
  <2>1. \A i \in DOMAIN list' : list'[i].status = "downloading" => list'[i] = list[i]
    BY <1>5, <1>6
  <2>2. posts[s].moved \/ \A i \in DOMAIN posts[s].task :
                             i \in DOMAIN list' => list'[i].status # "downloading"
    BY <1>1, <1>4, <1>5, <1>6 DEF moved, rows
  <2>3. \A u \in DOMAIN posts : \/ posts'[u] = posts[u] \/ posts[u].moved
                                \/ \A i \in DOMAIN posts[u].task :
                                      i \in DOMAIN list' => list'[i].status # "downloading"
    BY <1>3, <2>2
  <2>4. pollers' = pollers
    BY <1>2
  <2> QED BY <1>3, <1>6, <2>1, <2>3, <2>4, FollowedStays
<1>10. \A u \in 1 .. MaxPosts : \/ posts'[u] = NoRequest
                                \/ posts'[u] = posts[u] /\ Untold(u)
  BY <1>3, <1>7
<1> QED BY <1>2, <1>3, <1>7, <1>8, <1>9, <1>10, QuietStep

(* Rows that learn the tasks of a request that is over.                     *)
LEMMA RowsLearn == ASSUME IInv, UNCHANGED <<service, made>>, NEW s \in 1 .. MaxPosts,
                          list' \in Seq(RowType), DOMAIN list' = DOMAIN list,
                          \A i \in DOMAIN list :
                             /\ list'[i].song = list[i].song
                             /\ list[i].strayed => list'[i].strayed
                             /\ \/ list'[i].task = list[i].task
                                \/ /\ i \in DOMAIN posts[s].task /\ posts[s].task[i] \in Ids
                                   /\ list'[i].task = posts[s].task[i]
                                   /\ list'[i].strayed \/ ~posts[s].moved
                             /\ list'[i].status = "downloaded" /\ ~list'[i].strayed
                                   => list[i].status = "downloaded" /\ ~list[i].strayed,
                          stored' \in {stored, list'}
                   PROVE  /\ Aligned /\ Sheet(list)' /\ Sheet(stored)'
                          /\ \A u \in (1 .. MaxPosts) \ {s} : Untold(u)
<1>0. /\ list \in Seq(RowType) /\ stored \in Seq(RowType) /\ UNCHANGED <<phase, shown, made>>
      /\ Sheet(list) /\ Sheet(stored)
  BY DEF IInv, ListTypeOK, service
<1>1. Aligned
  BY DEF Aligned
<1>2. \A u \in 1 .. MaxPosts : \A i \in DOMAIN posts[u].task : posts[u].task[i] \in Ids =>
          /\ phase[posts[u].task[i]] # "new" /\ made[posts[u].task[i]] = posts[u].song[i]
          /\ \A j \in DOMAIN list : list[j].task # posts[u].task[i]
          /\ \A j \in DOMAIN stored : stored[j].task # posts[u].task[i]
  BY DEF IInv, Requests, Fresh
<1>3. ASSUME NEW i \in DOMAIN list
      PROVE  \/ list'[i].task = list[i].task
             \/ /\ i \in DOMAIN posts[s].task /\ posts[s].task[i] \in Ids
                /\ list'[i].task = posts[s].task[i]
                /\ phase[list'[i].task] # "new"
                /\ list'[i].strayed \/ made[list'[i].task] = list'[i].song
  <2>1. CASE ~(list'[i].task = list[i].task)
    <3>1. /\ i \in DOMAIN posts[s].task /\ posts[s].task[i] \in Ids
          /\ list'[i].task = posts[s].task[i]
          /\ list'[i].strayed \/ ~posts[s].moved
      BY <2>1
    <3>2. ~posts[s].moved => posts[s].song[i] = list[i].song
      BY <3>1 DEF IInv, Requests
    <3> QED BY <1>2, <3>1, <3>2
  <2> QED BY <2>1
<1>4. Distinct(list)'
  <2>1. ASSUME NEW i \in DOMAIN list, NEW j \in DOMAIN list,
               list'[i].task = list'[j].task, list'[i].task # NoId
        PROVE  i = j
    <3>1. CASE list'[i].task = list[i].task /\ list'[j].task = list[j].task
      BY <1>0, <2>1, <3>1 DEF Sheet, Distinct
    <3>2. CASE list'[i].task = list[i].task /\ list'[j].task # list[j].task
      <4>1. /\ j \in DOMAIN posts[s].task /\ posts[s].task[j] \in Ids
            /\ list'[j].task = posts[s].task[j]
        BY <1>3, <3>2
      <4>2. list[i].task # posts[s].task[j]
        BY <1>2, <4>1
      <4> QED BY <2>1, <3>2, <4>1, <4>2
    <3>3. CASE list'[i].task # list[i].task /\ list'[j].task = list[j].task
      BY <1>2, <1>3, <2>1, <3>3
    <3>4. CASE list'[i].task # list[i].task /\ list'[j].task # list[j].task
      BY <1>3, <2>1, <3>4 DEF IInv, OneEach
    <3> QED BY <3>1, <3>2, <3>3, <3>4
  <2> QED BY <2>1 DEF Distinct
<1>5. ASSUME NEW i \in DOMAIN list PROVE Honest(list[i])'
  <2>1. Honest(list[i])
    BY <1>0 DEF Sheet
  <2>2. list'[i].task # NoId => /\ phase'[list'[i].task] # "new"
                                /\ list'[i].strayed \/ made'[list'[i].task] = list'[i].song
    BY <1>0, <1>3, <2>1 DEF Honest
  <2>3. list'[i].status = "downloaded" /\ ~list'[i].strayed =>
            \E t \in Ids : /\ made'[t] = list'[i].song /\ phase'[t] = "over"
                           /\ shown'[t] \in {"Finished", "none"}
    BY <1>0, <2>1 DEF Honest, Truth
  <2> QED BY <2>2, <2>3 DEF Honest, Truth
<1>6. Sheet(list)'
  BY <1>4, <1>5 DEF Sheet
<1>7. Sheet(stored)'
  <2>1. CASE stored' = list'
    BY <1>6, <2>1 DEF Sheet, Distinct
  <2>2. CASE stored' = stored
    BY <1>0, <2>2 DEF Sheet, Distinct, Honest, Truth
  <2> QED BY <2>1, <2>2
<1>8. ASSUME NEW u \in 1 .. MaxPosts, u # s, NEW i \in DOMAIN posts[u].task,
             posts[u].task[i] \in Ids
      PROVE  \A j \in DOMAIN list' : list'[j].task # posts[u].task[i]
  <2>1. ASSUME NEW j \in DOMAIN list, list'[j].task = posts[u].task[i] PROVE FALSE
    <3>1. list'[j].task # list[j].task
      BY <1>2, <1>8, <2>1
    <3>2. j \in DOMAIN posts[s].task /\ list'[j].task = posts[s].task[j]
      BY <1>3, <3>1
    <3> QED BY <1>8, <2>1, <3>2 DEF IInv, OneEach
  <2> QED BY <2>1
<1>9. \A u \in (1 .. MaxPosts) \ {s} : Untold(u)
  BY <1>2, <1>8 DEF Untold
<1> QED BY <1>1, <1>6, <1>7, <1>9

LEMMA PostStraysStep == ASSUME IInv, NEW s \in DOMAIN posts, PostStrays(s) PROVE IInv'
<1> DEFINE task == posts[s].task
<1>0. /\ list \in Seq(RowType) /\ s \in 1 .. MaxPosts
      /\ \A i \in DOMAIN task : task[i] \in Ids \cup {NoId}
  <2>1. \A i \in DOMAIN task : task[i] # Unserved
    BY DEF PostStrays
  <2> QED BY <2>1, RequestFacts DEF IInv, ListTypeOK
<1>1. PICK done \in SUBSET (DOMAIN task \cap DOMAIN list) :
        list' = [i \in DOMAIN list |->
                    IF i \in done
                    THEN Settled(Submitted(list[i], task[i], TRUE), "failed", TRUE)
                    ELSE list[i]]
  BY DEF PostStrays
<1>2. /\ posts' = [posts EXCEPT ![s] = NoRequest] /\ ~(DOMAIN task \subseteq DOMAIN list)
      /\ UNCHANGED <<service, made, awaiting, pollers, stored>>
  BY DEF PostStrays
<1>3. /\ Served' /\ Later /\ ListTypeOK /\ posts' \in [1 .. MaxPosts -> PostType]
      /\ posts'[s] = NoRequest /\ DOMAIN posts' = DOMAIN posts
      /\ \A u \in DOMAIN posts \ {s} : posts'[u] = posts[u]
  BY <1>2, Rests, RequestOver DEF IInv
<1>4. posts[s].moved
  BY <1>0, <1>2 DEF IInv, Requests
<1> HIDE DEF task
<1>5. ASSUME NEW i \in DOMAIN list
      PROVE  /\ list'[i] \in RowType
             /\ list'[i].song = list[i].song
             /\ list[i].strayed => list'[i].strayed
             /\ \/ list'[i] = list[i]
                \/ /\ list'[i].status = "failed"
                   /\ \/ list'[i].task = list[i].task
                      \/ /\ i \in DOMAIN task /\ task[i] \in Ids
                         /\ list'[i].task = task[i] /\ list'[i].strayed
  <2>1. list[i] \in RowType
    BY <1>0
  <2>2. CASE i \in done
    <3> DEFINE row == Submitted(list[i], task[i], TRUE)
    <3>1. list'[i] = Settled(row, "failed", TRUE)
      BY <1>1, <2>2
    <3>2. row \in RowType
      BY <1>0, <2>1, <2>2, SubmittedRow
    <3>3. row.song = list[i].song
      BY <1>0, <2>1, <2>2, SubmittedRow
    <3>4. row.task = IF task[i] \in Ids THEN task[i] ELSE list[i].task
      BY <1>0, <2>1, <2>2, SubmittedRow
    <3> HIDE DEF row
    <3>5. /\ list'[i] \in RowType /\ list'[i].song = row.song
          /\ list'[i].task = row.task /\ list'[i].status = "failed"
      BY <3>1, <3>2 DEF Settled, Stray, RowType
    <3>6. list'[i].strayed
      BY <3>1, <3>2 DEF Settled, Stray, RowType
    <3> QED BY <2>2, <3>3, <3>4, <3>5, <3>6
  <2>3. CASE i \notin done
    BY <1>1, <2>1, <2>3
  <2> QED BY <2>2, <2>3
<1>6. list' \in Seq(RowType) /\ DOMAIN list' = DOMAIN list
  <2>1. list' = [i \in DOMAIN list |-> list'[i]]
    BY <1>1
  <2> QED BY <1>0, <1>5, <2>1, Mapped
<1>7. /\ Aligned /\ Sheet(list)' /\ Sheet(stored)'
      /\ \A u \in (1 .. MaxPosts) \ {s} : Untold(u)
  <2>1. \A i \in DOMAIN list : list'[i].status = "downloaded" /\ ~list'[i].strayed
                                  => list[i].status = "downloaded" /\ ~list[i].strayed
    BY <1>5
  <2>2. \A i \in DOMAIN list :
           \/ list'[i].task = list[i].task
           \/ /\ i \in DOMAIN posts[s].task /\ posts[s].task[i] \in Ids
              /\ list'[i].task = posts[s].task[i]
              /\ list'[i].strayed \/ ~posts[s].moved
    BY <1>5 DEF task
  <2>3. \A i \in DOMAIN list :
           /\ list'[i].song = list[i].song
           /\ list[i].strayed => list'[i].strayed
    BY <1>5
  <2>4. stored' \in {stored, list'} /\ UNCHANGED <<service, made>>
    BY <1>2
  <2> QED BY <1>0, <1>6, <2>1, <2>2, <2>3, <2>4, RowsLearn
<1>8. ListTypeOK'
  BY <1>2, <1>3, <1>6 DEF ListTypeOK
<1>9. WaitingIsFollowed'
  <2>1. \A i \in DOMAIN list' : list'[i].status = "downloading" => list'[i] = list[i]
    BY <1>5, <1>6
  <2>2. pollers' = pollers
    BY <1>2
  <2> QED BY <1>3, <1>4, <1>6, <2>1, <2>2, FollowedStays
<1>10. \A u \in 1 .. MaxPosts : \/ posts'[u] = NoRequest
                                \/ posts'[u] = posts[u] /\ Untold(u)
  <2>1. DOMAIN posts = 1 .. MaxPosts
    BY DEF IInv, ListTypeOK
  <2> QED BY <1>3, <1>7, <2>1
<1> QED BY <1>2, <1>3, <1>7, <1>8, <1>9, <1>10, QuietStep

(* A poller that starts, for rows that have not moved or have.              *)
LEMMA NewPoller == ASSUME NEW row \in Partial(Ids, Places)
                   PROVE  /\ Poller(row) \in PollerType
                          /\ Poller(row).row = row /\ Poller(row).moved = FALSE
                          /\ Poller(row).pending = DOMAIN row
                          /\ Poller(row).answer = [t \in DOMAIN row |-> Waiting]
<1>1. PICK D \in SUBSET Ids : row \in [D -> Places]
  BY DEF Partial
<1>2. DOMAIN row = D
  BY <1>1
<1>3. [t \in D |-> Waiting] \in [D -> Answers \cup {Waiting}]
  OBVIOUS
<1>4. [t \in D |-> Waiting] \in Partial(Ids, Answers \cup {Waiting})
  BY <1>1, <1>3 DEF Partial
<1> QED BY <1>1, <1>2, <1>4 DEF Poller, PollerType

LEMMA MovedPoller == ASSUME NEW p \in PollerType, NEW moved \in BOOLEAN
                     PROVE  /\ [p EXCEPT !.moved = moved] \in PollerType
                            /\ [p EXCEPT !.moved = moved].row = p.row
                            /\ [p EXCEPT !.moved = moved].moved = moved
                            /\ [p EXCEPT !.moved = moved].pending = p.pending
                            /\ [p EXCEPT !.moved = moved].answer = p.answer
  BY DEF PollerType

LEMMA PostAnsweredStep == ASSUME IInv, NEW s \in DOMAIN posts, PostAnswered(s) PROVE IInv'
<1> DEFINE task == posts[s].task
           moved == posts[s].moved
           new == {i \in DOMAIN task : task[i] \in Ids}
           row == [t \in {task[i] : i \in new} |-> CHOOSE i \in new : task[i] = t]
<1>0. /\ list \in Seq(RowType) /\ s \in 1 .. MaxPosts /\ DOMAIN posts = 1 .. MaxPosts
      /\ moved \in BOOLEAN /\ DOMAIN task \subseteq Places
      /\ \A i \in DOMAIN task : task[i] \in Ids \cup {NoId}
  <2>1. \A i \in DOMAIN task : task[i] # Unserved
    BY DEF PostAnswered
  <2> QED BY <2>1, RequestFacts DEF IInv, ListTypeOK
<1>1. /\ DOMAIN task \subseteq DOMAIN list /\ stored' = list'
      /\ list' = [i \in DOMAIN list |-> IF i \in DOMAIN task
                                        THEN Submitted(list[i], task[i], moved) ELSE list[i]]
      /\ pollers' = IF new = {} THEN pollers
                    ELSE pollers \cup {[Poller(row) EXCEPT !.moved = moved]}
      /\ posts' = [posts EXCEPT ![s] = NoRequest]
      /\ UNCHANGED <<service, made, awaiting>>
  BY DEF PostAnswered
<1>2. /\ Served' /\ Later /\ ListTypeOK /\ posts' \in [1 .. MaxPosts -> PostType]
      /\ posts'[s] = NoRequest /\ DOMAIN posts' = DOMAIN posts
      /\ \A u \in DOMAIN posts \ {s} : posts'[u] = posts[u]
  BY <1>1, Rests, RequestOver DEF IInv
<1>3. /\ \A i \in new : /\ phase[task[i]] # "new" /\ task[i] \in Ids
                        /\ i \in DOMAIN task /\ i \in DOMAIN list
                        /\ ~moved => made[task[i]] = list[i].song
      /\ \A i, j \in new : task[i] = task[j] => i = j
  <2>1. ASSUME NEW i \in new
        PROVE  /\ phase[task[i]] # "new" /\ task[i] \in Ids
               /\ i \in DOMAIN task /\ i \in DOMAIN list
               /\ ~moved => made[task[i]] = list[i].song
    BY <1>0, <1>1 DEF IInv, Requests, Fresh
  <2>2. ASSUME NEW i \in new, NEW j \in new, task[i] = task[j] PROVE i = j
    <3>1. /\ i \in DOMAIN posts[s].task /\ j \in DOMAIN posts[s].task
          /\ posts[s].task[i] \in Ids /\ posts[s].task[i] = posts[s].task[j]
      BY <2>2
    <3> HIDE DEF new, task
    <3> QED BY <1>0, <3>1 DEF IInv, OneEach
  <2> QED BY <2>1, <2>2
<1>4. /\ DOMAIN row = {task[i] : i \in new}
      /\ \A i \in new : row[task[i]] = i
      /\ row \in Partial(Ids, Places)
  <2>1. \A i \in new : task[i] \in DOMAIN row /\ row[task[i]] = i
    BY <1>3
  <2>2. \A t \in {task[i] : i \in new} : (CHOOSE i \in new : task[i] = t) \in Places
    BY <1>0
  <2>3. row \in [{task[i] : i \in new} -> Places]
    BY <2>2
  <2>4. {task[i] : i \in new} \in SUBSET Ids
    OBVIOUS
  <2> QED BY <2>1, <2>3, <2>4 DEF Partial
<1> HIDE DEF row
<1>5. PICK q : q = [Poller(row) EXCEPT !.moved = moved]
  OBVIOUS
<1>6. /\ q \in PollerType /\ q.row = row /\ q.moved = moved /\ q.pending = DOMAIN row
      /\ q.answer = [t \in DOMAIN row |-> Waiting]
  <2> DEFINE p == Poller(row)
  <2>1. /\ p \in PollerType /\ p.row = row /\ p.pending = DOMAIN row
        /\ p.answer = [t \in DOMAIN row |-> Waiting]
    BY <1>4, NewPoller
  <2>2. q = [p EXCEPT !.moved = moved]
    BY <1>5
  <2> HIDE DEF p, task, moved
  <2>3. /\ q \in PollerType /\ q.row = p.row /\ q.moved = moved
        /\ q.pending = p.pending /\ q.answer = p.answer
    BY <1>0, <2>1, <2>2, MovedPoller
  <2> QED BY <2>1, <2>3
<1> HIDE DEF task, moved
<1>7. ASSUME NEW i \in DOMAIN list
      PROVE  /\ list'[i] \in RowType
             /\ list'[i].song = list[i].song
             /\ list[i].strayed => list'[i].strayed
             /\ \/ list'[i] = list[i] /\ i \notin DOMAIN task
                \/ /\ i \in new /\ list'[i].task = task[i] /\ list'[i].status = "downloading"
                   /\ list'[i].strayed \/ ~moved
                   /\ ~list'[i].strayed => ~moved
                \/ list'[i].task = list[i].task /\ list'[i].status = "failed"
  <2>1. list[i] \in RowType
    BY <1>0
  <2>2. CASE i \in DOMAIN task
    <3>1. list'[i] = Submitted(list[i], task[i], moved)
      BY <1>1, <2>2
    <3>2. /\ list'[i] \in RowType
          /\ list'[i].song = list[i].song
          /\ list'[i].task = IF task[i] \in Ids THEN task[i] ELSE list[i].task
          /\ list'[i].status = IF task[i] \in Ids THEN "downloading" ELSE "failed"
          /\ list'[i].strayed = (list[i].strayed \/ moved)
      BY <1>0, <2>1, <2>2, <3>1, SubmittedRow
    <3> QED BY <2>2, <3>2
  <2>3. CASE i \notin DOMAIN task
    BY <1>1, <2>1, <2>3
  <2> QED BY <2>2, <2>3
<1>8. list' \in Seq(RowType) /\ DOMAIN list' = DOMAIN list
  <2>1. list' = [i \in DOMAIN list |-> list'[i]]
    BY <1>1
  <2> QED BY <1>0, <1>7, <2>1, Mapped
<1>9. /\ Aligned /\ Sheet(list)' /\ Sheet(stored)'
      /\ \A u \in (1 .. MaxPosts) \ {s} : Untold(u)
  <2>1. \A i \in DOMAIN list :
           /\ list'[i].song = list[i].song
           /\ list[i].strayed => list'[i].strayed
           /\ list'[i].status = "downloaded" /\ ~list'[i].strayed
                 => list[i].status = "downloaded" /\ ~list[i].strayed
    BY <1>7
  <2>2. \A i \in DOMAIN list :
           \/ list'[i].task = list[i].task
           \/ /\ i \in DOMAIN posts[s].task /\ posts[s].task[i] \in Ids
              /\ list'[i].task = posts[s].task[i]
              /\ list'[i].strayed \/ ~posts[s].moved
    BY <1>7 DEF task, moved
  <2>3. stored' \in {stored, list'} /\ UNCHANGED <<service, made>>
    BY <1>1
  <2> QED BY <1>0, <1>8, <2>1, <2>2, <2>3, RowsLearn
<1>10. ListTypeOK'
  <2>1. pollers' \subseteq PollerType
    BY <1>1, <1>2, <1>5, <1>6 DEF ListTypeOK
  <2> QED BY <1>1, <1>2, <1>8, <2>1 DEF ListTypeOK
<1>11. PollerOK(q)'
  <2>1. ASSUME NEW t \in q.pending
        PROVE  /\ phase'[t] # "new" /\ q.answer[t] # "Finished"
               /\ ~q.moved => /\ q.row[t] \in DOMAIN list'
                              /\ \/ list'[q.row[t]].strayed
                                 \/ made'[t] = list'[q.row[t]].song
    <3>1. PICK i \in new : t = task[i] /\ q.row[t] = i
      BY <1>4, <1>6
    <3>2. UNCHANGED <<phase, made>> /\ i \in DOMAIN list' /\ list'[i].song = list[i].song
      BY <1>1, <1>3, <1>7, <1>8 DEF service
    <3>3. q.answer[t] # "Finished"
      BY <1>6 DEF Waiting
    <3> QED BY <1>3, <1>6, <3>1, <3>2, <3>3
  <2>2. q.pending \subseteq DOMAIN q.row /\ DOMAIN q.answer = q.pending
    BY <1>6
  <2> QED BY <2>1, <2>2 DEF PollerOK
<1>12. \A p \in pollers' : p \in pollers \/ PollerOK(p)'
  BY <1>1, <1>5, <1>11
<1>13. WaitingIsFollowed'
  <2>1. ASSUME NEW i \in DOMAIN list', list'[i].status = "downloading",
               list'[i].task # NoId, ~list'[i].strayed
        PROVE  \/ \E u \in DOMAIN posts' : i \in DOMAIN posts'[u].task /\ ~posts'[u].moved
               \/ \E p \in pollers' : /\ list'[i].task \in p.pending /\ ~p.moved
                                      /\ p.row[list'[i].task] = i
    <3>1. CASE i \in new /\ list'[i].task = task[i]
      <4>1. ~moved
        BY <1>7, <1>8, <2>1, <3>1, <1>3
      <4>2. q \in pollers'
        BY <1>1, <1>5, <3>1
      <4>3. task[i] \in q.pending /\ q.row[task[i]] = i /\ ~q.moved
        BY <1>4, <1>6, <3>1, <4>1
      <4> QED BY <3>1, <4>2, <4>3
    <3>2. CASE list'[i] = list[i] /\ i \notin DOMAIN task
      <4>1. \/ \E u \in DOMAIN posts : i \in DOMAIN posts[u].task /\ ~posts[u].moved
            \/ \E p \in pollers : /\ list[i].task \in p.pending /\ ~p.moved
                                  /\ p.row[list[i].task] = i
        BY <1>8, <2>1, <3>2 DEF IInv, WaitingIsFollowed
      <4>2. \A u \in DOMAIN posts : i \in DOMAIN posts[u].task => posts'[u] = posts[u]
        BY <1>2, <3>2 DEF task
      <4>3. pollers \subseteq pollers'
        BY <1>1
      <4> QED BY <1>2, <3>2, <4>1, <4>2, <4>3
    <3> QED BY <1>7, <1>8, <2>1, <3>1, <3>2
  <2> QED BY <2>1 DEF WaitingIsFollowed
<1>14. \A u \in 1 .. MaxPosts : \/ posts'[u] = NoRequest
                                \/ posts'[u] = posts[u] /\ Untold(u)
  BY <1>0, <1>2, <1>9
<1> QED BY <1>1, <1>2, <1>9, <1>10, <1>12, <1>13, <1>14, QuietStep

-----------------------------------------------------------------------------
(* The task of a request, after a step: one it had, or a new one.           *)
Kept(s, i)  == /\ i \in DOMAIN posts[s].task
               /\ posts'[s].task[i] = posts[s].task[i]
               /\ posts'[s].song[i] = posts[s].song[i]
Given(s, i) == /\ phase[posts'[s].task[i]] = "new" /\ phase'[posts'[s].task[i]] # "new"
               /\ made'[posts'[s].task[i]] = posts'[s].song[i]
               /\ \A j \in DOMAIN posts'[s].task : posts'[s].task[j] = posts'[s].task[i] => j = i

(* A request is changed in place.                                           *)
LEMMA EditStep == ASSUME IInv, Served', Later, Aligned, ListTypeOK', Sheet(list)',
                         Sheet(stored)', WaitingIsFollowed', \A u \in 1 .. MaxPosts : Untold(u),
                         pollers' = pollers, stored' = stored, DOMAIN list' = DOMAIN list,
                         \A i \in DOMAIN list : list'[i].task = list[i].task,
                         NEW s \in 1 .. MaxPosts,
                         \A u \in (1 .. MaxPosts) \ {s} : posts'[u] = posts[u],
                         posts'[s].attempt # 0, DOMAIN posts'[s].song = DOMAIN posts'[s].task,
                         \A i \in DOMAIN posts'[s].task : ~posts'[s].moved =>
                            i \in DOMAIN list' /\ posts'[s].song[i] = list'[i].song,
                         \A i \in DOMAIN posts'[s].task : posts'[s].task[i] \in Ids =>
                            Kept(s, i) \/ Given(s, i)
                  PROVE  IInv'
<1>1. \A u \in 1 .. MaxPosts : \A i \in DOMAIN posts[u].task : posts[u].task[i] \in Ids =>
          phase[posts[u].task[i]] # "new" /\ made[posts[u].task[i]] = posts[u].song[i]
  BY DEF IInv, Requests, Fresh
<1>2. /\ \A j \in DOMAIN list : list[j].task # NoId => phase[list[j].task] # "new"
      /\ \A j \in DOMAIN stored : stored[j].task # NoId => phase[stored[j].task] # "new"
  BY DEF IInv, Sheet, Honest
<1>3. \A u \in 1 .. MaxPosts : \A i \in DOMAIN posts'[u].task : posts'[u].task[i] \in Ids =>
          Kept(u, i) \/ (u = s /\ Given(s, i))
  BY DEF Kept
<1>4. ASSUME NEW u \in 1 .. MaxPosts, NEW i \in DOMAIN posts'[u].task,
             posts'[u].task[i] \in Ids
      PROVE  /\ phase'[posts'[u].task[i]] # "new"
             /\ made'[posts'[u].task[i]] = posts'[u].song[i]
             /\ \A j \in DOMAIN list' : list'[j].task # posts'[u].task[i]
             /\ \A j \in DOMAIN stored' : stored'[j].task # posts'[u].task[i]
  <2>1. CASE Kept(u, i)
    <3>1. phase[posts[u].task[i]] # "new" /\ made[posts[u].task[i]] = posts[u].song[i]
      BY <1>1, <1>4, <2>1 DEF Kept
    <3>2. phase'[posts'[u].task[i]] # "new" /\ made'[posts'[u].task[i]] = posts'[u].song[i]
      BY <1>4, <2>1, <3>1 DEF Kept, Later
    <3> QED BY <1>4, <2>1, <3>2 DEF Kept, Untold
  <2>2. CASE u = s /\ Given(s, i)
    BY <1>2, <1>4, <2>2, NoIdAssumption DEF Given
  <2> QED BY <1>3, <1>4, <2>1, <2>2
<1>5. ASSUME NEW u \in 1 .. MaxPosts
      PROVE  /\ DOMAIN posts'[u].song = DOMAIN posts'[u].task
             /\ posts'[u].attempt = 0 => DOMAIN posts'[u].task = {}
             /\ \A i \in DOMAIN posts'[u].task :
                   ~posts'[u].moved => i \in DOMAIN list' /\ posts'[u].song[i] = list'[i].song
  <2>1. CASE u # s
    <3>1. posts'[u] = posts[u]
      BY <2>1
    <3> QED BY <3>1 DEF IInv, Requests, Aligned
  <2>2. CASE u = s
    BY <2>2
  <2> QED BY <2>1, <2>2
<1>6. Requests'
  BY <1>4, <1>5 DEF Requests, Fresh
<1>7. ASSUME NEW u \in 1 .. MaxPosts, NEW v \in 1 .. MaxPosts,
             NEW i \in DOMAIN posts'[u].task, NEW j \in DOMAIN posts'[v].task,
             posts'[u].task[i] \in Ids, posts'[u].task[i] = posts'[v].task[j]
      PROVE  u = v /\ i = j
  <2>1. CASE Kept(u, i) /\ Kept(v, j)
    <3>1. /\ i \in DOMAIN posts[u].task /\ j \in DOMAIN posts[v].task
          /\ posts[u].task[i] \in Ids /\ posts[u].task[i] = posts[v].task[j]
      BY <1>7, <2>1 DEF Kept
    <3> QED BY <3>1 DEF IInv, OneEach
  <2>2. ASSUME Kept(u, i), v = s, Given(s, j) PROVE FALSE
    <3>1. i \in DOMAIN posts[u].task /\ posts[u].task[i] \in Ids
      BY <1>7, <2>2 DEF Kept
    <3>2. phase[posts[u].task[i]] # "new"
      BY <1>1, <3>1
    <3>3. posts[u].task[i] = posts'[s].task[j]
      BY <1>7, <2>2 DEF Kept
    <3> QED BY <2>2, <3>2, <3>3 DEF Given
  <2>3. ASSUME u = s, Given(s, i), Kept(v, j) PROVE FALSE
    <3>1. j \in DOMAIN posts[v].task /\ posts[v].task[j] \in Ids
      BY <1>7, <2>3 DEF Kept
    <3>2. phase[posts[v].task[j]] # "new"
      BY <1>1, <3>1
    <3>3. posts[v].task[j] = posts'[s].task[i]
      BY <1>7, <2>3 DEF Kept
    <3> QED BY <2>3, <3>2, <3>3 DEF Given
  <2>4. CASE u = s /\ v = s /\ Given(s, i)
    BY <1>7, <2>4 DEF Given
  <2> QED BY <1>3, <1>7, <2>1, <2>2, <2>3, <2>4
<1>8. OneEach'
  BY <1>7 DEF OneEach
<1>9. Asked'
  BY PollerStays DEF Asked
<1> QED BY <1>6, <1>8, <1>9 DEF IInv

(* The requests keep their rows.                                            *)
LEMMA FollowedByRequests == ASSUME IInv, UNCHANGED <<list, pollers>>,
                                   DOMAIN posts' = DOMAIN posts,
                                   \A u \in DOMAIN posts :
                                      /\ DOMAIN posts'[u].task = DOMAIN posts[u].task
                                      /\ posts'[u].moved = posts[u].moved
                            PROVE  WaitingIsFollowed'
  BY DEF IInv, WaitingIsFollowed

LEMMA ResendStep == ASSUME IInv, NEW s \in DOMAIN posts, ResendPost(s) PROVE IInv'
<1> DEFINE task == [i \in DOMAIN posts[s].task |-> Unserved]
<1>0. /\ DOMAIN posts = 1 .. MaxPosts /\ s \in 1 .. MaxPosts /\ posts[s] \in PostType
      /\ DOMAIN posts[s].task \subseteq Places
      /\ DOMAIN posts[s].song = DOMAIN posts[s].task
  BY RequestFacts DEF IInv, ListTypeOK
<1>1. /\ posts' = [posts EXCEPT ![s] = [posts[s] EXCEPT !.attempt = 2, !.task = task]]
      /\ UNCHANGED <<service, made, list, stored, awaiting, pollers>>
  BY <1>0 DEF ResendPost, PostType
<1>2. /\ \A i \in DOMAIN task : task[i] \notin Ids
      /\ DOMAIN task = DOMAIN posts[s].task
      /\ task \in Partial(Places, Ids \cup {NoId, Unserved})
  <2>1. task \in [DOMAIN posts[s].task -> Ids \cup {NoId, Unserved}]
    OBVIOUS
  <2> QED BY <1>0, <2>1, IdsAssumption DEF Partial
<1> HIDE DEF task
<1>3. /\ posts'[s] \in PostType /\ posts'[s].attempt = 2 /\ posts'[s].task = task
      /\ posts'[s].song = posts[s].song /\ posts'[s].moved = posts[s].moved
      /\ \A u \in (1 .. MaxPosts) \ {s} : posts'[u] = posts[u]
      /\ DOMAIN posts' = DOMAIN posts
  <2>1. posts'[s] = [posts[s] EXCEPT !.attempt = 2, !.task = task]
    BY <1>0, <1>1
  <2>2. DOMAIN posts' = DOMAIN posts /\ \A u \in (1 .. MaxPosts) \ {s} : posts'[u] = posts[u]
    BY <1>0, <1>1
  <2>3. /\ posts'[s].attempt = 2 /\ posts'[s].task = task
        /\ posts'[s].song = posts[s].song /\ posts'[s].moved = posts[s].moved
    BY <1>0, <2>1 DEF PostType
  <2>4. 2 \in 0 .. 2
    OBVIOUS
  <2>5. posts'[s] \in PostType
    BY <1>0, <1>2, <2>1, <2>4 DEF PostType
  <2> QED BY <2>2, <2>3, <2>5
<1>4. posts' \in [1 .. MaxPosts -> PostType]
  BY <1>0, <1>1, <1>3 DEF IInv, ListTypeOK
<1>5. Served' /\ Later /\ ListTypeOK /\ list' \in Seq(RowType)
  BY <1>1, Rests DEF IInv, ListTypeOK
<1>6. ListTypeOK'
  BY <1>1, <1>4, <1>5 DEF ListTypeOK
<1>7. /\ Aligned /\ Sheet(list)' /\ Sheet(stored)'
      /\ \A u \in 1 .. MaxPosts : Untold(u)
  BY <1>1, <1>5, RowsStay
<1>8. WaitingIsFollowed'
  BY <1>0, <1>1, <1>2, <1>3, FollowedByRequests
<1>9. \A i \in DOMAIN posts'[s].task : ~posts'[s].moved =>
          i \in DOMAIN list' /\ posts'[s].song[i] = list'[i].song
  BY <1>0, <1>1, <1>2, <1>3 DEF IInv, Requests
<1>10. /\ posts'[s].attempt # 0 /\ DOMAIN posts'[s].song = DOMAIN posts'[s].task
       /\ \A i \in DOMAIN posts'[s].task : posts'[s].task[i] \in Ids =>
             Kept(s, i) \/ Given(s, i)
  BY <1>0, <1>2, <1>3
<1> QED BY <1>0, <1>1, <1>3, <1>5, <1>6, <1>7, <1>8, <1>9, <1>10, EditStep

LEMMA SubmitStep == ASSUME IInv, NEW rows \in SUBSET DOMAIN list, NEW s \in DOMAIN posts,
                           Submit(s, rows)
                    PROVE  IInv'
<1> DEFINE request == [attempt |-> 1, moved |-> FALSE,
                       song |-> [i \in rows |-> list[i].song],
                       task |-> [i \in rows |-> Unserved]]
<1>0. /\ DOMAIN posts = 1 .. MaxPosts /\ s \in 1 .. MaxPosts /\ list \in Seq(RowType)
      /\ rows \subseteq Places
  <2>1. list \in Seq(RowType) /\ DOMAIN list = 1 .. Len(list) /\ Len(list) \in Nat
    BY DEF IInv, ListTypeOK
  <2>2. rows \subseteq Places
    BY <2>1 DEF Places
  <2>3. DOMAIN posts = 1 .. MaxPosts
    BY DEF IInv, ListTypeOK
  <2> QED BY <2>1, <2>2, <2>3
<1>1. /\ list' = [i \in DOMAIN list |->
                     IF i \in rows THEN [list[i] EXCEPT !.status = "downloading"]
                     ELSE list[i]]
      /\ posts[s].attempt = 0 /\ posts' = [posts EXCEPT ![s] = request]
      /\ UNCHANGED <<service, made, stored, awaiting, pollers>>
  BY DEF Submit
<1>2. ASSUME NEW i \in DOMAIN list
      PROVE  /\ list'[i] \in RowType
             /\ list'[i].song = list[i].song /\ list'[i].task = list[i].task
             /\ list'[i].strayed = list[i].strayed
             /\ list'[i] = list[i] \/ (i \in rows /\ list'[i].status = "downloading")
  <2>1. list[i] \in RowType
    BY <1>0
  <2>2. CASE i \in rows
    <3>1. list'[i] = [list[i] EXCEPT !.status = "downloading"]
      BY <1>1, <2>2
    <3> QED BY <2>1, <2>2, <3>1 DEF RowType
  <2>3. CASE i \notin rows
    BY <1>1, <2>1, <2>3
  <2> QED BY <2>2, <2>3
<1>3. list' \in Seq(RowType) /\ DOMAIN list' = DOMAIN list
  <2>1. list' = [i \in DOMAIN list |-> list'[i]]
    BY <1>1
  <2> QED BY <1>0, <1>2, <2>1, Mapped
<1>4. /\ request \in PostType /\ request.attempt = 1 /\ request.moved = FALSE
      /\ DOMAIN request.song = rows /\ DOMAIN request.task = rows
      /\ \A i \in rows : request.task[i] \notin Ids /\ request.song[i] = list[i].song
  <2>1. ASSUME NEW i \in rows PROVE list[i].song \in Wanted
    <3>1. list[i] \in RowType
      BY <1>0
    <3> QED BY <3>1 DEF RowType
  <2>2. /\ [i \in rows |-> list[i].song] \in [rows -> Wanted]
        /\ [i \in rows |-> Unserved] \in [rows -> Ids \cup {NoId, Unserved}]
    BY <2>1
  <2>3. /\ [i \in rows |-> list[i].song] \in Partial(Places, Wanted)
        /\ [i \in rows |-> Unserved] \in Partial(Places, Ids \cup {NoId, Unserved})
    BY <1>0, <2>2 DEF Partial
  <2> QED BY <2>3, IdsAssumption DEF PostType
<1> HIDE DEF request
<1>5. /\ posts'[s] = request /\ DOMAIN posts' = DOMAIN posts
      /\ posts' \in [1 .. MaxPosts -> PostType]
      /\ \A u \in (1 .. MaxPosts) \ {s} : posts'[u] = posts[u]
  BY <1>0, <1>1, <1>4 DEF IInv, ListTypeOK
<1>6. Served' /\ Later /\ ListTypeOK
  BY <1>1, Rests DEF IInv, ListTypeOK
<1>7. ListTypeOK'
  BY <1>1, <1>3, <1>5, <1>6 DEF ListTypeOK
<1>8. /\ Aligned /\ Sheet(list)' /\ Sheet(stored)'
      /\ \A u \in 1 .. MaxPosts : Untold(u)
  <2>1. \A i \in DOMAIN list : list'[i].status = "downloaded" /\ ~list'[i].strayed
                                  => list[i].status = "downloaded" /\ ~list[i].strayed
    BY <1>2
  <2>2. stored' \in {stored, list'}
    BY <1>1
  <2> QED BY <1>2, <1>3, <1>6, <2>1, <2>2, RowsStay
<1>9. WaitingIsFollowed'
  <2>1. ASSUME NEW i \in DOMAIN list', list'[i].status = "downloading",
               list'[i].task # NoId, ~list'[i].strayed
        PROVE  \/ \E u \in DOMAIN posts' : i \in DOMAIN posts'[u].task /\ ~posts'[u].moved
               \/ \E p \in pollers' : /\ list'[i].task \in p.pending /\ ~p.moved
                                      /\ p.row[list'[i].task] = i
    <3>1. CASE i \in rows
      BY <1>4, <1>5, <3>1
    <3>2. CASE list'[i] = list[i]
      <4>1. \/ \E u \in DOMAIN posts : i \in DOMAIN posts[u].task /\ ~posts[u].moved
            \/ \E p \in pollers : /\ list[i].task \in p.pending /\ ~p.moved
                                  /\ p.row[list[i].task] = i
        BY <1>3, <2>1, <3>2 DEF IInv, WaitingIsFollowed
      <4>2. DOMAIN posts[s].task = {}
        BY <1>0, <1>1 DEF IInv, Requests
      <4> QED BY <1>0, <1>1, <1>5, <3>2, <4>1, <4>2
    <3> QED BY <1>2, <1>3, <3>1, <3>2
  <2> QED BY <2>1 DEF WaitingIsFollowed
<1>10. \A i \in DOMAIN posts'[s].task : ~posts'[s].moved =>
          i \in DOMAIN list' /\ posts'[s].song[i] = list'[i].song
  BY <1>2, <1>3, <1>4, <1>5
<1> QED BY <1>0, <1>1, <1>2, <1>3, <1>4, <1>5, <1>6, <1>7, <1>8, <1>9, <1>10, EditStep

(* A task is created: it was new.                                           *)
LEMMA AcceptStep == ASSUME IInv, NEW t \in Ids, NEW song \in Wanted, AcceptTask(t),
                           made' = [made EXCEPT ![t] = song]
                    PROVE  /\ Served' /\ Later /\ phase[t] = "new" /\ phase'[t] # "new"
                           /\ made' \in [Ids -> Wanted \cup {NoId}] /\ made'[t] = song
<1>1. Facts /\ made \in [Ids -> Wanted \cup {NoId}]
  BY ServedFacts DEF IInv, ListTypeOK
<1>2. /\ phase[t] = "new" /\ phase' = [phase EXCEPT ![t] = "accepted"]
      /\ shown' = [shown EXCEPT ![t] = "Pending"]
  BY DEF AcceptTask, Service!Accept, Service!Show
<1>3. Facts' /\ Later
  BY <1>1, <1>2, ResultIs DEF Facts, Later
<1>4. Facts' => Served'
  BY DEF Served, Facts, Service!TypeOK, Service!ResultIsLast, Service!Shown, Service!Final,
         Result
<1>5. phase'[t] # "new"
  BY <1>1, <1>2 DEF Facts
<1>6. made' \in [Ids -> Wanted \cup {NoId}] /\ made'[t] = song
  BY <1>1
<1> QED BY <1>2, <1>3, <1>4, <1>5, <1>6

(* One row of a request gets its task, or none.                             *)
LEMMA GiveStep == ASSUME IInv, NEW s \in DOMAIN posts, posts[s].attempt > 0,
                         NEW i \in DOMAIN posts[s].task, NEW t \in Ids \cup {NoId},
                         posts' = [posts EXCEPT ![s].task[i] = t],
                         Served', Later, made' \in [Ids -> Wanted \cup {NoId}],
                         t \in Ids => /\ phase[t] = "new" /\ phase'[t] # "new"
                                      /\ made'[t] = posts[s].song[i],
                         UNCHANGED <<list, stored, awaiting, pollers>>
                  PROVE  IInv'
<1> DEFINE task == [posts[s].task EXCEPT ![i] = t]
<1>0. /\ DOMAIN posts = 1 .. MaxPosts /\ s \in 1 .. MaxPosts /\ posts[s] \in PostType
      /\ DOMAIN posts[s].task \subseteq Places
      /\ DOMAIN posts[s].song = DOMAIN posts[s].task
      /\ \A j \in DOMAIN posts[s].task : posts[s].task[j] \in Ids \cup {NoId, Unserved}
  BY RequestFacts DEF IInv, ListTypeOK
<1>1. posts' = [posts EXCEPT ![s] = [posts[s] EXCEPT !.task = task]]
  BY <1>0
<1>2. /\ DOMAIN task = DOMAIN posts[s].task /\ task[i] = t
      /\ \A j \in DOMAIN posts[s].task \ {i} : task[j] = posts[s].task[j]
      /\ task \in Partial(Places, Ids \cup {NoId, Unserved})
  <2>1. PICK D \in SUBSET Places : posts[s].task \in [D -> Ids \cup {NoId, Unserved}]
    BY <1>0 DEF PostType, Partial
  <2>2. task \in [D -> Ids \cup {NoId, Unserved}]
    BY <2>1
  <2>3. task \in Partial(Places, Ids \cup {NoId, Unserved})
    BY <2>1, <2>2 DEF Partial
  <2> QED BY <2>1, <2>3
<1> HIDE DEF task
<1>3. /\ posts'[s] \in PostType /\ posts'[s].attempt # 0 /\ posts'[s].task = task
      /\ posts'[s].song = posts[s].song /\ posts'[s].moved = posts[s].moved
      /\ \A u \in (1 .. MaxPosts) \ {s} : posts'[u] = posts[u]
      /\ DOMAIN posts' = DOMAIN posts
  <2>1. posts'[s] = [posts[s] EXCEPT !.task = task]
    BY <1>0, <1>1
  <2>2. DOMAIN posts' = DOMAIN posts /\ \A u \in (1 .. MaxPosts) \ {s} : posts'[u] = posts[u]
    BY <1>0, <1>1
  <2>3. posts[s].attempt # 0
    BY <1>0 DEF PostType
  <2> QED BY <1>0, <1>2, <2>1, <2>2, <2>3 DEF PostType
<1>4. posts' \in [1 .. MaxPosts -> PostType]
  BY <1>0, <1>1, <1>3 DEF IInv, ListTypeOK
<1>5. ListTypeOK /\ list' \in Seq(RowType)
  BY DEF IInv, ListTypeOK
<1>6. ListTypeOK'
  BY <1>4, <1>5 DEF ListTypeOK
<1>7. /\ Aligned /\ Sheet(list)' /\ Sheet(stored)'
      /\ \A u \in 1 .. MaxPosts : Untold(u)
  BY <1>5, RowsStay
<1>8. WaitingIsFollowed'
  BY <1>0, <1>2, <1>3, FollowedByRequests
<1>9. \A j \in DOMAIN posts'[s].task : ~posts'[s].moved =>
          j \in DOMAIN list' /\ posts'[s].song[j] = list'[j].song
  BY <1>0, <1>2, <1>3 DEF IInv, Requests
<1>10. \A j \in DOMAIN posts[s].task : posts[s].task[j] \in Ids => phase[posts[s].task[j]] # "new"
  BY <1>0 DEF IInv, Requests, Fresh
<1>11. ASSUME NEW j \in DOMAIN posts'[s].task, posts'[s].task[j] \in Ids
       PROVE  Kept(s, j) \/ Given(s, j)
  <2>1. CASE j # i
    BY <1>2, <1>3, <2>1 DEF Kept
  <2>2. CASE j = i
    <3>1. \A k \in DOMAIN posts'[s].task : posts'[s].task[k] = t => k = i
      BY <1>2, <1>3, <1>10, <1>11, <2>2
    <3> QED BY <1>2, <1>3, <1>11, <2>2, <3>1 DEF Given
  <2> QED BY <2>1, <2>2
<1> QED BY <1>0, <1>2, <1>3, <1>6, <1>7, <1>8, <1>9, <1>11, EditStep

LEMMA ServeStep == ASSUME IInv, NEW s \in DOMAIN posts, NEW i \in DOMAIN posts[s].task,
                          ServeRow(s, i)
                   PROVE  IInv'
<1>1. posts[s].attempt > 0 /\ UNCHANGED <<list, stored, awaiting, pollers>>
  BY DEF ServeRow
<1>2. ASSUME NEW t \in Ids, AcceptTask(t), posts' = [posts EXCEPT ![s].task[i] = t],
             made' = [made EXCEPT ![t] = posts[s].song[i]]
      PROVE  IInv'
  <2>1. posts[s].song[i] \in Wanted
    BY RequestFacts
  <2>2. PICK song \in Wanted : song = posts[s].song[i]
    BY <2>1
  <2>3. made' = [made EXCEPT ![t] = song]
    BY <1>2, <2>2
  <2>4. /\ Served' /\ Later /\ phase[t] = "new" /\ phase'[t] # "new"
        /\ made' \in [Ids -> Wanted \cup {NoId}] /\ made'[t] = song
    BY <1>2, <2>3, AcceptStep
  <2>5. t \in Ids \cup {NoId}
    OBVIOUS
  <2> QED BY <1>1, <1>2, <2>2, <2>4, <2>5, GiveStep
<1>3. ASSUME posts' = [posts EXCEPT ![s].task[i] = NoId], UNCHANGED <<service, made>>
      PROVE  IInv'
  <2>1. /\ Served' /\ Later /\ made' \in [Ids -> Wanted \cup {NoId}]
        /\ NoId \in Ids \cup {NoId}
    BY <1>3, Rests DEF IInv, ListTypeOK
  <2> QED BY <1>1, <1>3, <2>1, NoIdAssumption, GiveStep
<1> QED BY <1>2, <1>3 DEF ServeRow

-----------------------------------------------------------------------------
LEMMA LoadStep == ASSUME IInv, LoadPage PROVE IInv'
<1> DEFINE on == {i \in DOMAIN stored : stored[i].status = "downloading"
                                        /\ stored[i].task # NoId}
           row == [t \in {stored[i].task : i \in on} |-> CHOOSE i \in on : stored[i].task = t]
<1>0. /\ stored \in Seq(RowType) /\ DOMAIN posts = 1 .. MaxPosts
      /\ Sheet(stored) /\ ListTypeOK /\ DOMAIN stored \subseteq Places
  <2>1. stored \in Seq(RowType) /\ DOMAIN stored = 1 .. Len(stored) /\ Len(stored) \in Nat
    BY DEF IInv, ListTypeOK
  <2>2. DOMAIN stored \subseteq Places
    BY <2>1 DEF Places
  <2> QED BY <2>1, <2>2 DEF IInv, ListTypeOK
<1>1. /\ list' = stored /\ awaiting' = <<>> /\ stored' = stored
      /\ posts' = [s \in DOMAIN posts |-> NoRequest]
      /\ pollers' = IF on = {} THEN {} ELSE {Poller(row)}
      /\ UNCHANGED <<service, made>>
  BY DEF LoadPage
<1>2. Served' /\ UNCHANGED <<phase, shown, made>>
  BY <1>1, Rests DEF IInv, service
<1>3. /\ \A i \in on : /\ stored[i].task \in Ids /\ i \in DOMAIN stored
                       /\ phase[stored[i].task] # "new"
                       /\ stored[i].strayed \/ made[stored[i].task] = stored[i].song
      /\ \A i, j \in on : stored[i].task = stored[j].task => i = j
  <2>1. ASSUME NEW i \in on
        PROVE  /\ stored[i].task \in Ids /\ i \in DOMAIN stored
               /\ phase[stored[i].task] # "new"
               /\ stored[i].strayed \/ made[stored[i].task] = stored[i].song
    <3>1. stored[i] \in RowType /\ Honest(stored[i]) /\ stored[i].task # NoId
      BY <1>0 DEF Sheet
    <3>2. stored[i].task \in Ids
      BY <3>1 DEF RowType
    <3> QED BY <3>1, <3>2 DEF Honest
  <2>2. \A i, j \in on : stored[i].task = stored[j].task => i = j
    BY <1>0 DEF Sheet, Distinct
  <2> QED BY <2>1, <2>2
<1>4. /\ DOMAIN row = {stored[i].task : i \in on}
      /\ \A i \in on : row[stored[i].task] = i
      /\ row \in Partial(Ids, Places)
  <2>1. ASSUME NEW i \in on PROVE stored[i].task \in DOMAIN row /\ row[stored[i].task] = i
    <3>1. (CHOOSE j \in on : stored[j].task = stored[i].task) = i
      BY <1>3
    <3> QED BY <3>1
  <2>2. ASSUME NEW t \in {stored[i].task : i \in on}
        PROVE  (CHOOSE i \in on : stored[i].task = t) \in Places
    <3>1. PICK i \in on : stored[i].task = t
      OBVIOUS
    <3>2. (CHOOSE j \in on : stored[j].task = t) \in on
      BY <3>1
    <3> QED BY <1>0, <3>2
  <2>3. row \in [{stored[i].task : i \in on} -> Places]
    BY <2>2
  <2>4. {stored[i].task : i \in on} \in SUBSET Ids
    BY <1>3
  <2>5. DOMAIN row = {stored[i].task : i \in on}
    OBVIOUS
  <2> HIDE DEF row
  <2>6. row \in Partial(Ids, Places)
    BY <2>3, <2>4 DEF Partial
  <2> QED BY <2>1, <2>5, <2>6
<1> HIDE DEF row
<1>5. PICK q : q = Poller(row)
  OBVIOUS
<1>6. /\ q \in PollerType /\ q.row = row /\ q.moved = FALSE /\ q.pending = DOMAIN row
      /\ q.answer = [t \in DOMAIN row |-> Waiting]
  BY <1>4, <1>5, NewPoller
<1>7. \A s \in DOMAIN posts' : /\ posts'[s] = NoRequest /\ DOMAIN posts'[s].task = {}
                               /\ DOMAIN posts'[s].song = {}
  BY <1>1 DEF NoRequest
<1>8. posts' \in [1 .. MaxPosts -> PostType]
  BY <1>0, <1>1, NoRequestType
<1>9. ListTypeOK'
  <2>1. awaiting' \in Seq(Wanted)
    BY <1>1
  <2> QED BY <1>0, <1>1, <1>2, <1>5, <1>6, <1>8, <2>1 DEF ListTypeOK
<1>10. Sheet(list)' /\ Sheet(stored)'
  BY <1>0, <1>1, <1>2 DEF Sheet, Distinct, Honest, Truth
<1>11. Requests' /\ OneEach'
  BY <1>7, <1>8 DEF Requests, OneEach
<1>12. PollerOK(q)'
  <2>1. ASSUME NEW t \in q.pending
        PROVE  /\ phase'[t] # "new" /\ q.answer[t] # "Finished"
               /\ q.row[t] \in DOMAIN list'
               /\ list'[q.row[t]].strayed \/ made'[t] = list'[q.row[t]].song
    <3>1. PICK i \in on : t = stored[i].task /\ q.row[t] = i
      BY <1>4, <1>6
    <3>2. q.answer[t] # "Finished"
      BY <1>6 DEF Waiting
    <3> QED BY <1>1, <1>2, <1>3, <3>1, <3>2
  <2>2. q.pending \subseteq DOMAIN q.row /\ DOMAIN q.answer = q.pending
    BY <1>6
  <2> QED BY <2>1, <2>2 DEF PollerOK
<1>13. Asked'
  BY <1>1, <1>5, <1>12 DEF Asked
<1>14. WaitingIsFollowed'
  <2>1. ASSUME NEW i \in DOMAIN list', list'[i].status = "downloading", list'[i].task # NoId
        PROVE  \E p \in pollers' : /\ list'[i].task \in p.pending /\ ~p.moved
                                   /\ p.row[list'[i].task] = i
    <3>1. i \in on /\ list'[i].task = stored[i].task
      BY <1>1, <2>1
    <3>2. q \in pollers'
      BY <1>1, <1>5, <3>1
    <3>3. stored[i].task \in q.pending /\ q.row[stored[i].task] = i /\ ~q.moved
      BY <1>4, <1>6, <3>1
    <3> QED BY <3>1, <3>2, <3>3
  <2> QED BY <2>1 DEF WaitingIsFollowed
<1> QED BY <1>2, <1>9, <1>10, <1>11, <1>13, <1>14 DEF IInv

LEMMA InitHolds == ListInit => IInv
<1> SUFFICES ASSUME ListInit PROVE IInv
  OBVIOUS
<1>1. /\ list = <<>> /\ stored = <<>> /\ awaiting = <<>>
      /\ posts = [s \in 1 .. MaxPosts |-> NoRequest] /\ pollers = {}
      /\ made = [t \in Ids |-> NoId] /\ Service!Init
  BY DEF ListInit
<1>2. Served
  <2>1. Facts
    BY <1>1, ResultIs DEF Facts, Service!Init
  <2> QED BY <2>1, ServedFacts
<1>3. posts \in [1 .. MaxPosts -> PostType]
  BY <1>1, NoRequestType
<1>4. DOMAIN list = {} /\ DOMAIN stored = {} /\ <<>> \in Seq(RowType) /\ <<>> \in Seq(Wanted)
  BY <1>1
<1>5. ListTypeOK
  BY <1>1, <1>3, <1>4 DEF ListTypeOK
<1>6. \A s \in 1 .. MaxPosts : DOMAIN posts[s].task = {} /\ DOMAIN posts[s].song = {}
  BY <1>1 DEF NoRequest
<1>7. Requests /\ OneEach
  BY <1>6 DEF Requests, OneEach
<1>8. Sheet(list) /\ Sheet(stored) /\ Asked /\ WaitingIsFollowed
  BY <1>1, <1>4 DEF Sheet, Distinct, Asked, WaitingIsFollowed
<1> QED BY <1>2, <1>5, <1>7, <1>8 DEF IInv

(* Every step keeps the invariant.                                          *)
LEMMA NextKeeps == ASSUME IInv, [ListNext]_sheet PROVE IInv'
<1>1. CASE UNCHANGED sheet
  BY <1>1 DEF sheet, listVars, service, IInv, Served, Service!TypeOK, Service!ResultIsLast,
              ListTypeOK, Sheet, Distinct, Honest, Truth, Requests, Fresh, OneEach, Asked,
              PollerOK, WaitingIsFollowed
<1>2. CASE Service!Next /\ UNCHANGED listVars
  BY <1>2, ServiceRuns
<1>3. CASE List
  <2>1. DOMAIN posts = 1 .. MaxPosts
    BY DEF IInv, ListTypeOK
  <2>2. ASSUME NEW s \in DOMAIN posts, Post(s) PROVE IInv'
    BY <2>2, ResendStep, PostAnsweredStep, PostFailsStep, PostStraysStep DEF Post
  <2>3. ASSUME NEW p \in pollers, Asking(p) PROVE IInv'
    BY <2>3, PollStep, ArriveStep, FailStep DEF Asking
  <2> QED BY <1>3, <2>2, <2>3, ParseStep, SearchStep, ClearStep, SelectStep, LoadStep,
             DeleteStep, SubmitStep, ServeStep, ReadStep DEF List
<1> QED BY <1>1, <1>2, <1>3 DEF ListNext

(* What is in the list, in storage, asked and answered goes together.       *)
THEOREM Inductive == ListSpec => []IInv
  BY InitHolds, NextKeeps, PTL DEF ListSpec

(* A row shown as downloaded is true: a task for its song came to that end, *)
(* unless something that had lost its rows wrote it.                        *)
THEOREM DownloadsAreTrue == ListSpec => []DownloadedIsTrue
<1>1. IInv => DownloadedIsTrue
  BY DEF IInv, Sheet, Honest, Truth, DownloadedIsTrue
<1> QED BY <1>1, Inductive, PTL

(* A row that waits for its task is waited for by its request or a poller.  *)
THEOREM WaitingFollowed == ListSpec => []WaitingIsFollowed
<1>1. IInv => WaitingIsFollowed
  BY DEF IInv
<1> QED BY <1>1, Inductive, PTL
=============================================================================

------------------------------- MODULE BatchList -------------------------------
(***************************************************************************)
(* The playlist of the web client (src/web/app/modules/batch.js): a text is *)
(* parsed into rows, rows are sent to the server to be downloaded, and a    *)
(* poller per request asks for the tasks until each has ended.              *)
(*                                                                         *)
(* A handler runs up to its next await as one step.  Requests and pollers   *)
(* name rows by position: those that were out when rows were removed or     *)
(* replaced have moved, and what they write, or no longer write, has        *)
(* strayed.  A selection is made when it is used.  What the server does for *)
(* a request that was given up is not followed.                             *)
(***************************************************************************)
EXTENDS DownloadController, Integers, Sequences, FiniteSets

CONSTANTS Wanted,    \* songs
          Texts,     \* what may be pasted: sequences of songs
          MaxParses, \* bound: texts parsed
          MaxLoads,  \* bound: loads of the page after the first
          MaxPosts,  \* bound: download requests outstanding
          MaxErrors  \* MAX_ERRORS (5)

ASSUME TextsAssumption == Texts \subseteq Seq(Wanted)

VARIABLES list,      \* batchResults
          stored,    \* batchResults in sessionStorage
          awaiting,  \* songs whose search is under way: batchIsParsing
          posts,     \* [1 .. MaxPosts -> request]: the POSTs of batchDownload
          pollers,   \* those of pollBatchDownloadStatus
          parses, loads,
          made       \* history: the song of each task

listVars == <<list, stored, awaiting, posts, pollers, parses, loads, made>>
sheet    == <<service, listVars>>

NewRow(song, status) == [song |-> song, found |-> status = "found", status |-> status,
                         task |-> NoId, strayed |-> FALSE]
Stray(row, moved)    == [row EXCEPT !.strayed = @ \/ moved]

Unserved  == "not served yet"
Waiting   == "not answered yet"
NoRequest == [attempt |-> 0, moved |-> FALSE, song |-> [i \in {} |-> NoId],
              task |-> [i \in {} |-> NoId]]

ASSUME IdsAssumption == Unserved \notin Ids

ListInit == /\ Service!Init
            /\ list = <<>> /\ stored = <<>> /\ awaiting = <<>>
            /\ posts = [s \in 1 .. MaxPosts |-> NoRequest] /\ pollers = {}
            /\ parses = 0 /\ loads = 0 /\ made = [t \in Ids |-> NoId]

Out == pollers # {} \/ \E s \in DOMAIN posts : posts[s].attempt > 0

(* Whatever is out has lost its rows.                                       *)
Move == /\ pollers' = {[p EXCEPT !.moved = TRUE] : p \in pollers}
        /\ posts' = [s \in DOMAIN posts |-> IF posts[s].attempt = 0 THEN NoRequest
                                            ELSE [posts[s] EXCEPT !.moved = TRUE]]

-----------------------------------------------------------------------------
(* parseBatchPlaylist.  Lines that carry a link are rows at once, the       *)
(* others when the search has answered.                                     *)
Parse(linked, searched) ==
    /\ awaiting = <<>> /\ parses < MaxParses
    /\ list' = [i \in DOMAIN linked |-> NewRow(linked[i], "found")]
    /\ awaiting' = searched
    /\ stored' = IF searched = <<>> THEN list' ELSE stored
    /\ parses' = parses + 1 /\ Move
    /\ UNCHANGED <<service, loads, made>>

(* A search that fails finds nothing.                                       *)
SearchEnds(found) ==
    /\ awaiting # <<>> /\ awaiting' = <<>>
    /\ list' = list \o [i \in DOMAIN awaiting |->
                    NewRow(awaiting[i], IF i \in found THEN "found" ELSE "notfound")]
    /\ stored' = list'
    /\ UNCHANGED <<service, posts, pollers, parses, loads, made>>

Clear == /\ list' = <<>> /\ stored' = <<>> /\ Move
         /\ UNCHANGED <<service, awaiting, parses, loads, made>>

(* One row, or those that are selected.                                     *)
DeleteRows(gone) ==
    /\ awaiting = <<>> /\ gone # {}
    /\ LET left == DOMAIN list \ gone
       IN  \E from \in [1 .. Cardinality(left) -> left] :
              /\ \A i, j \in DOMAIN from : i < j => from[i] < from[j]
              /\ list' = [i \in DOMAIN from |-> Stray(list[from[i]], Out)]
    /\ stored' = list' /\ Move
    /\ UNCHANGED <<service, awaiting, parses, loads, made>>

(* A box is ticked: the state of the list is saved with the selection.      *)
Select == /\ awaiting = <<>> /\ list # <<>> /\ stored' = list
          /\ UNCHANGED <<service, list, awaiting, posts, pollers, parses, loads, made>>

-----------------------------------------------------------------------------
(* batchDownloadToServer.  The button is enabled again by the rendering     *)
(* that follows, while the request is out.                                  *)
Submit(s, rows) ==
    /\ awaiting = <<>> /\ posts[s].attempt = 0
    /\ rows # {} /\ \A i \in rows : list[i].found
    /\ list' = [i \in DOMAIN list |->
                   IF i \in rows THEN [list[i] EXCEPT !.status = "downloading"]
                   ELSE list[i]]
    /\ posts' = [posts EXCEPT ![s] =
                    [attempt |-> 1, moved |-> FALSE,
                     song |-> [i \in rows |-> list[i].song],
                     task |-> [i \in rows |-> Unserved]]]
    /\ UNCHANGED <<service, stored, awaiting, pollers, parses, loads, made>>

(* The handler batchCreateTasks creates them one by one; one may be refused.*)
ServeRow(s, i) ==
    /\ posts[s].attempt > 0 /\ i \in DOMAIN posts[s].task
    /\ posts[s].task[i] = Unserved
    /\ \/ \E t \in Ids : /\ AcceptTask(t)
                         /\ posts' = [posts EXCEPT ![s].task[i] = t]
                         /\ made' = [made EXCEPT ![t] = posts[s].song[i]]
       \/ posts' = [posts EXCEPT ![s].task[i] = NoId] /\ UNCHANGED <<service, made>>
    /\ UNCHANGED <<list, stored, awaiting, pollers, parses, loads>>

(* A timeout or a network error: the same request is sent once more.        *)
ResendPost(s) ==
    /\ posts[s].attempt = 1
    /\ posts' = [posts EXCEPT ![s].attempt = 2,
                              ![s].task = [i \in DOMAIN @ |-> Unserved]]
    /\ UNCHANGED <<service, list, stored, awaiting, pollers, parses, loads, made>>

Poller(rows) == [row |-> rows, pending |-> DOMAIN rows, errors |-> 0, moved |-> FALSE,
                 asked |-> TRUE, answer |-> [t \in DOMAIN rows |-> Waiting]]

Settled(row, status, moved) == [Stray(row, moved) EXCEPT !.status = status]
Submitted(row, t, moved) ==
    IF t \in Ids THEN [Settled(row, "downloading", moved) EXCEPT !.task = t]
                 ELSE Settled(row, "failed", moved)

(* The rows are all there still: they get their tasks, and a poller starts. *)
PostAnswered(s) ==
    /\ posts[s].attempt > 0
    /\ LET task == posts[s].task IN
       /\ \A i \in DOMAIN task : task[i] # Unserved
       /\ DOMAIN task \subseteq DOMAIN list
       /\ list' = [i \in DOMAIN list |->
                      IF i \in DOMAIN task THEN Submitted(list[i], task[i], posts[s].moved)
                      ELSE list[i]]
       /\ LET new == {i \in DOMAIN task : task[i] \in Ids}
              row == [t \in {task[i] : i \in new} |-> CHOOSE i \in new : task[i] = t]
          IN  pollers' = IF new = {} THEN pollers
                         ELSE pollers \cup {[Poller(row) EXCEPT !.moved = posts[s].moved]}
    /\ stored' = list'
    /\ posts' = [posts EXCEPT ![s] = NoRequest]
    /\ UNCHANGED <<service, awaiting, parses, loads, made>>

(* The request failed: its rows are failed, up to one that is gone.         *)
PostFails(s) ==
    /\ posts[s].attempt > 0
    /\ LET rows == DOMAIN posts[s].task
           kept == rows \subseteq DOMAIN list
       IN  \E done \in SUBSET (rows \cap DOMAIN list) :
              /\ kept => done = rows
              /\ list' = [i \in DOMAIN list |->
                             IF i \in done THEN Settled(list[i], "failed", posts[s].moved)
                             ELSE list[i]]
              /\ stored' = IF kept THEN list' ELSE stored
    /\ posts' = [posts EXCEPT ![s] = NoRequest]
    /\ UNCHANGED <<service, awaiting, pollers, parses, loads, made>>

(* The answer came, and a row it is for is gone: writing to it throws, and  *)
(* so does marking the rows as failed, each in the order of the selection.  *)
PostStrays(s) ==
    /\ posts[s].attempt > 0
    /\ LET task == posts[s].task IN
       /\ \A i \in DOMAIN task : task[i] # Unserved
       /\ ~(DOMAIN task \subseteq DOMAIN list)
       /\ \E done \in SUBSET (DOMAIN task \cap DOMAIN list) :
             list' = [i \in DOMAIN list |->
                         IF i \in done
                         THEN Settled(Submitted(list[i], task[i], TRUE), "failed", TRUE)
                         ELSE list[i]]
    /\ posts' = [posts EXCEPT ![s] = NoRequest]
    /\ UNCHANGED <<service, stored, awaiting, pollers, parses, loads, made>>

-----------------------------------------------------------------------------
(* pollBatchDownloadStatus.  The timer of a poller fires.                   *)
Poll(p) ==
    /\ ~p.asked
    /\ pollers' = (pollers \ {p}) \cup
                  {[p EXCEPT !.asked = TRUE, !.answer = [t \in p.pending |-> Waiting]]}
    /\ UNCHANGED <<service, list, stored, awaiting, posts, parses, loads, made>>

(* The handler batchGetStatus reads the tasks one by one.                   *)
ReadStatus(p, t) ==
    /\ p.asked /\ t \in p.pending /\ p.answer[t] = Waiting
    /\ pollers' = (pollers \ {p}) \cup {[p EXCEPT !.answer[t] = StatusOf(t)]}
    /\ UNCHANGED <<service, list, stored, awaiting, posts, parses, loads, made>>

Ended == Result \cup {"task_not_found"}

(* Mutant: is_finished is taken for success.                                *)
AnyEnd(answer) == IF answer \in Ended THEN "downloaded" ELSE "failed"

(* What an end is in the list.                                              *)
Verdict(answer) == IF answer = "Finished" THEN "downloaded" ELSE "failed"

(* Mutant: who learns nothing new does not go on.                           *)
GoOnIfNews(p, left, errors) ==
    pollers' = (pollers \ {p}) \cup
               (IF left = {} \/ left = p.pending THEN {}
                ELSE {[p EXCEPT !.asked = FALSE, !.pending = left, !.errors = errors,
                                !.answer = [t \in left |-> Waiting]]})

(* Who goes on asks again in a second.                                      *)
GoOn(p, left, errors) ==
    pollers' = (pollers \ {p}) \cup
               (IF left = {} THEN {}
                ELSE {[p EXCEPT !.asked = FALSE, !.pending = left, !.errors = errors,
                                !.answer = [t \in left |-> Waiting]]})

StatusArrives(p) ==
    /\ p.asked /\ \A t \in p.pending : p.answer[t] # Waiting
    /\ LET over == {t \in p.pending : p.answer[t] \in Ended}
           At(i) == {t \in over : p.row[t] = i}
       IN  /\ list' = [i \in DOMAIN list |->
                          IF At(i) = {} THEN list[i]
                          ELSE Settled(list[i], Verdict(p.answer[CHOOSE t \in At(i) : TRUE]),
                                       p.moved)]
           /\ stored' = IF \/ \E i \in DOMAIN list : list'[i].status # list[i].status
                           \/ \E t \in over : /\ p.answer[t] = "task_not_found"
                                              /\ p.row[t] \in DOMAIN list
                        THEN list' ELSE stored
           /\ GoOn(p, p.pending \ over, 0)
    /\ UNCHANGED <<service, awaiting, posts, parses, loads, made>>

(* A timeout, a network error or an error of the server.                    *)
StatusFails(p) ==
    /\ p.asked
    /\ IF p.errors + 1 < MaxErrors
       THEN GoOn(p, p.pending, p.errors + 1) /\ UNCHANGED <<list, stored>>
       ELSE /\ list' = [i \in DOMAIN list |->
                           IF \E t \in p.pending : p.row[t] = i
                           THEN Settled(list[i], "failed", p.moved) ELSE list[i]]
            /\ stored' = list' /\ pollers' = pollers \ {p}
    /\ UNCHANGED <<service, awaiting, posts, parses, loads, made>>

-----------------------------------------------------------------------------
(* initBatch: the list is restored, and rows with a task are followed.      *)
LoadPage ==
    /\ loads < MaxLoads /\ loads' = loads + 1
    /\ list' = stored /\ awaiting' = <<>>
    /\ posts' = [s \in DOMAIN posts |-> NoRequest]
    /\ LET on  == {i \in DOMAIN stored : /\ stored[i].status = "downloading"
                                         /\ stored[i].task # NoId}
           row == [t \in {stored[i].task : i \in on} |->
                      CHOOSE i \in on : stored[i].task = t]
       IN  pollers' = IF on = {} THEN {} ELSE {Poller(row)}
    /\ UNCHANGED <<service, stored, parses, made>>

Post(s) == ResendPost(s) \/ PostAnswered(s) \/ PostFails(s) \/ PostStrays(s)
Asking(p) == Poll(p) \/ StatusArrives(p) \/ StatusFails(p)
List == \/ \E text \in Texts : \E k \in 0 .. Len(text) :
              Parse(SubSeq(text, 1, k), SubSeq(text, k + 1, Len(text)))
        \/ \E found \in SUBSET DOMAIN awaiting : SearchEnds(found)
        \/ Clear \/ Select \/ LoadPage
        \/ \E rows \in SUBSET DOMAIN list :
              DeleteRows(rows) \/ \E s \in DOMAIN posts : Submit(s, rows)
        \/ \E s \in DOMAIN posts : Post(s) \/ \E i \in DOMAIN posts[s].task : ServeRow(s, i)
        \/ \E p \in pollers : Asking(p) \/ \E t \in p.pending : ReadStatus(p, t)

ListNext == List \/ (Service!Next /\ UNCHANGED listVars)

ListSpec == ListInit /\ [][ListNext]_sheet

-----------------------------------------------------------------------------
Places == Nat \ {0}
Partial(S, T) == UNION {[D -> T] : D \in SUBSET S}
RowType    == [song : Wanted, found : BOOLEAN, task : Ids \cup {NoId}, strayed : BOOLEAN,
               status : {"found", "notfound", "downloading", "downloaded", "failed"}]
PostType   == [attempt : 0 .. 2, moved : BOOLEAN, song : Partial(Places, Wanted),
               task : Partial(Places, Ids \cup {NoId, Unserved})]
PollerType == [row : Partial(Ids, Places), pending : SUBSET Ids, errors : Nat,
               moved : BOOLEAN, asked : BOOLEAN, answer : Partial(Ids, Answers \cup {Waiting})]

ListTypeOK == /\ list \in Seq(RowType) /\ stored \in Seq(RowType)
              /\ awaiting \in Seq(Wanted)
              /\ posts \in [1 .. MaxPosts -> PostType]
              /\ pollers \subseteq PollerType
              /\ made \in [Ids -> Wanted \cup {NoId}]

(* A row shown as downloaded is true: a task for its song came to that end, *)
(* through double submissions, requests sent again, answers that cross and  *)
(* loads of the page; unless something that had lost its rows wrote it.     *)
DownloadedIsTrue ==
    \A i \in DOMAIN list : list[i].status = "downloaded" /\ ~list[i].strayed =>
        \E t \in Ids : /\ made[t] = list[i].song /\ phase[t] = "over"
                       /\ shown[t] \in {"Finished", "none"}

(* A row that waits for its task is waited for: the request that submits it *)
(* is out, or a poller asks for the task and knows the row, through failing *)
(* polls and loads of the page; unless rows were removed under a request.   *)
WaitingIsFollowed ==
    \A i \in DOMAIN list :
        list[i].status = "downloading" /\ list[i].task # NoId /\ ~list[i].strayed =>
            \/ \E s \in DOMAIN posts : i \in DOMAIN posts[s].task /\ ~posts[s].moved
            \/ \E p \in pollers : /\ list[i].task \in p.pending /\ ~p.moved
                                   /\ p.row[list[i].task] = i
================================================================================

---------------------------- MODULE DownloadTasks ----------------------------
(***************************************************************************)
(* Download tasks: createTask and executeDownload of                        *)
(* src/application/download_service.cpp on the five threads of              *)
(* downloadPool_, the tasks table of sqlite_task_repository.cpp, and the    *)
(* cleanup thread of main.cpp.                                              *)
(*                                                                         *)
(* A call of the repository holds the database mutex and is one step.  A    *)
(* running task keeps its own copy of the row, read once, and every update  *)
(* writes the whole copy back with INSERT OR REPLACE.  The queue of the     *)
(* pool, a priority queue of equal priorities, is a set.  What the network  *)
(* does during a transfer is a choice.  A task in Hung meets one that never *)
(* ends: the file's, or a cover's that fetchBest waits for; neither has a   *)
(* timeout (curl_client.cpp:153-219).                                       *)
(*                                                                         *)
(* in_use is left out: nothing sets it in the tasks table.                  *)
(***************************************************************************)
EXTENDS Integers, FiniteSets

CONSTANTS Tasks,     \* the task ids createTask will hand out
          Hung,      \* those with a transfer that never ends
          Workers,   \* threads of downloadPool_
          MaxAge,    \* download.max_age; 0 disables the cleanup
          MaxClock,  \* bound: last second explored
          NoTask, NoRow

Status == {"Pending", "Downloading", "Finished", "Failed"}
Row    == [status : Status, createdAt : Nat]

ASSUME TasksAssumption == Hung \subseteq Tasks /\ NoTask \notin Tasks
ASSUME AgesAssumption  == MaxAge \in Nat /\ MaxClock \in Nat
ASSUME NoRowAssumption == NoRow \notin Row

VARIABLES clock,   \* seconds
          table,   \* [Tasks -> Row or NoRow]: the tasks table, on disk
          queue,   \* tasks detached to the pool and not started
          worker,  \* [Workers -> [pc, task, createdAt]]: task is the copy's id
          born     \* history: [Tasks -> second of createTask, or -1]

vars == <<clock, table, queue, worker, born>>

Idle == [pc |-> "idle", task |-> NoTask, createdAt |-> 0]

Init == /\ clock = 0
        /\ table = [t \in Tasks |-> NoRow]
        /\ queue = {}
        /\ worker = [w \in Workers |-> Idle]
        /\ born = [t \in Tasks |-> -1]

-----------------------------------------------------------------------------
(* save and update: INSERT OR REPLACE, whether or not the row is there.     *)
Save(t, status, createdAt) ==
    table' = [table EXCEPT ![t] = [status |-> status, createdAt |-> createdAt]]

(* Mutant: an id may be handed out twice.                                   *)
CreateTaskAgain(t) ==
    /\ born' = [born EXCEPT ![t] = clock]
    /\ Save(t, "Pending", clock)
    /\ queue' = queue \cup {t}
    /\ UNCHANGED <<clock, worker>>

(* The id is the time in milliseconds and a counter: it is new.             *)
CreateTask(t) ==
    /\ born[t] = -1
    /\ born' = [born EXCEPT ![t] = clock]
    /\ Save(t, "Pending", clock)
    /\ queue' = queue \cup {t}
    /\ UNCHANGED <<clock, worker>>

Goto(w, pc) == worker' = [worker EXCEPT ![w].pc = pc]
Release(w)  == worker' = [worker EXCEPT ![w] = Idle]

(* The copy findById makes: its createdAt is not read from the row but set  *)
(* by Task's constructor.                                                   *)
FoundTask(t) == [pc |-> "mark", task |-> t, createdAt |-> clock]

(* A task whose row is gone is dropped.                                     *)
Begin(w, t) ==
    /\ worker[w].pc = "idle" /\ t \in queue
    /\ queue' = queue \ {t}
    /\ worker' = IF table[t] = NoRow THEN worker
                 ELSE [worker EXCEPT ![w] = FoundTask(t)]
    /\ UNCHANGED <<clock, table, born>>

Update(w, status) == /\ Save(worker[w].task, status, worker[w].createdAt)
                     /\ UNCHANGED <<clock, queue, born>>

MarkDownloading(w) == /\ worker[w].pc = "mark"
                      /\ Update(w, "Downloading") /\ Goto(w, "transfer")

(* The progress callback writes the row at most every two seconds.          *)
Progress(w) == /\ worker[w].pc = "transfer"
               /\ Update(w, "Downloading") /\ UNCHANGED worker

(* download() returns, and the last progress is written.                    *)
TransferEnds(w) ==
    /\ worker[w].pc = "transfer"
    /\ Update(w, "Downloading")
    /\ \E pc \in {"failed", "register"} : Goto(w, pc)

(* It throws: the pool swallows the exception, and the row stays as it is.  *)
TransferThrows(w) ==
    /\ worker[w].pc = "transfer"
    /\ Release(w)
    /\ UNCHANGED <<clock, table, queue, born>>

(* Mutant: no return after the failure is recorded.                         *)
FailAndGoOn(w) == /\ worker[w].pc = "failed"
                  /\ Update(w, "Failed") /\ Goto(w, "register")
(* Mutant: a failed task is tried again, for ever.                          *)
FailAndRetry(w) == /\ worker[w].pc = "failed"
                   /\ Update(w, "Pending") /\ Goto(w, "mark")
Fail(w) == /\ worker[w].pc = "failed"
           /\ Update(w, "Failed") /\ Release(w)

(* Lyrics, tags and the library row come first: they leave the task alone.  *)
Finish(w) == /\ worker[w].pc = "register" /\ worker[w].task \notin Hung
             /\ Update(w, "Finished") /\ Release(w)

Expired(row) == row.createdAt < clock - MaxAge

(* removeOlderThan(max_age), by the cleanup thread.                         *)
Cleanup ==
    /\ MaxAge > 0
    /\ table' = [t \in Tasks |-> IF table[t] # NoRow /\ Expired(table[t])
                                 THEN NoRow ELSE table[t]]
    /\ UNCHANGED <<clock, queue, worker, born>>

(* The process stops and starts again: the table is all that is left, and   *)
(* nothing takes up the tasks found in it.                                  *)
Restart == /\ queue' = {} /\ worker' = [w \in Workers |-> Idle]
           /\ UNCHANGED <<clock, table, born>>

Tick == /\ clock < MaxClock /\ clock' = clock + 1
        /\ UNCHANGED <<table, queue, worker, born>>

Step(w) == \/ \E t \in Tasks : Begin(w, t)
           \/ MarkDownloading(w) \/ Fail(w) \/ Finish(w)

Transfer(w) == TransferEnds(w) \/ TransferThrows(w)

Next == \/ \E t \in Tasks : CreateTask(t)
        \/ \E w \in Workers : Step(w) \/ Transfer(w) \/ Progress(w)
        \/ Cleanup \/ Restart \/ Tick

(* Every thread of the pool runs, and a transfer that is not hung ends.     *)
Fairness == \A w \in Workers :
                WF_vars(Step(w) \/ (worker[w].task \notin Hung /\ Transfer(w)))

Spec == Init /\ [][Next]_vars /\ Fairness

-----------------------------------------------------------------------------
At(t) == {w \in Workers : worker[w].task = t}
Phase(t) == IF born[t] = -1 THEN "new"
            ELSE IF t \in queue \/ At(t) # {} THEN "accepted"
            ELSE "over"

TypeOK == /\ clock \in 0 .. MaxClock
          /\ table \in [Tasks -> Row \cup {NoRow}]
          /\ queue \subseteq Tasks
          /\ worker \in [Workers ->
                 [pc : {"mark", "transfer", "failed", "register"},
                  task : Tasks, createdAt : Nat] \cup {Idle}]
          /\ born \in [Tasks -> Nat \cup {-1}]

(* A task is in one place: the pool's queue or one of its threads, and not  *)
(* before it was created.  Two threads on one task would overwrite each     *)
(* other's status, each from its own copy.                                  *)
OnePlace == \A t \in Tasks :
                /\ t \in queue => born[t] # -1 /\ At(t) = {}
                /\ \A v, w \in At(t) : v = w /\ born[t] # -1

(* The service keeps TaskPromise: through races of the cleanup thread with  *)
(* the updates that bring deleted rows back, exceptions and restarts, no    *)
(* status is shown that the phase of the task does not allow.               *)
Promise == INSTANCE TaskPromise
             WITH phase <- [t \in Tasks |-> Phase(t)],
                  shown <- [t \in Tasks |-> IF table[t] = NoRow THEN "none"
                                            ELSE table[t].status]
KeepsPromise == Promise!Spec

(* A row that shows a result never shows anything else, and once the        *)
(* cleanup has removed it, it does not come back                            *)
(* (download_service.cpp:89-94, 173-174).                                   *)
ResultIsFinal ==
    [][\A t \in Tasks :
          /\ table[t] # NoRow /\ table[t].status \in Promise!Final
                => table'[t] \in {table[t], NoRow}
          /\ Phase(t) = "over" /\ table[t] = NoRow => table'[t] = NoRow]_vars

(* A task without a hung transfer is worked on until it is over, as long    *)
(* as the hung ones leave the pool a thread.                                *)
EveryTaskEnds ==
    Cardinality(Hung) < Cardinality(Workers) =>
        \A t \in Tasks \ Hung : Phase(t) = "accepted" ~> Phase(t) = "over"

(* download.max_age is the longest a task lives (README.md:99): a row whose *)
(* task was created longer ago is due for the next cleanup.                 *)
MaxAgeBoundsLife ==
    MaxAge > 0 => \A t \in Tasks :
        table[t] # NoRow /\ clock - born[t] > MaxAge => Expired(table[t])
=============================================================================

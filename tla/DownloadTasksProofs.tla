------------------------- MODULE DownloadTasksProofs -------------------------
(***************************************************************************)
(* The download service keeps TaskPromise, for any tasks, threads and       *)
(* maximal age: types, then the single place of a task, then that a row     *)
(* with a result belongs to a task nobody works on, then the refinement.    *)
(*                                                                         *)
(* The second part is about the metadata a download fetches for its song    *)
(* (LyricsSelection), which shares no state with the tasks: for any         *)
(* platforms and any preference, the result misses nothing that some        *)
(* platform answered, and its translation is that of its lyrics if one is.  *)
(***************************************************************************)
EXTENDS DownloadTasks, LyricsSelection, FiniteSetTheorems, SequenceTheorems, TLAPS

Busy == [pc : {"mark", "transfer", "failed", "register"}, task : Tasks, createdAt : Nat]

(* A row belongs to a task that was created, and one that shows a result to *)
(* a task that is neither queued nor held by a thread.                      *)
ResultOver ==
    \A t \in Tasks : table[t] # NoRow =>
        /\ born[t] # -1
        /\ table[t].status \in {"Finished", "Failed"} =>
              t \notin queue /\ \A w \in Workers : worker[w].task # t

(* OnePlace, with the set At written out.                                   *)
Alone ==
    \A t \in Tasks :
        /\ t \in queue => born[t] # -1 /\ \A w \in Workers : worker[w].task # t
        /\ \A v, w \in Workers : worker[v].task = t /\ worker[w].task = t =>
                                    v = w /\ born[t] # -1

IInv == TypeOK /\ Alone /\ ResultOver

LEMMA AloneIsOnePlace == Alone <=> OnePlace
  BY DEF Alone, OnePlace, At

(* A thread away from "idle" holds a task.                                  *)
LEMMA BusyWorker == ASSUME TypeOK, NEW w \in Workers, worker[w].pc # "idle"
                    PROVE  worker[w] \in Busy
  BY DEF TypeOK, Busy, Idle

LEMMA IdleWorker == ASSUME TypeOK, NEW w \in Workers, worker[w].pc = "idle"
                    PROVE  worker[w] = Idle
<1>1. CASE worker[w] = Idle
  BY <1>1
<1>2. CASE worker[w] \in Busy
  BY <1>2 DEF Busy
<1>3. QED
  BY <1>1, <1>2 DEF TypeOK, Busy

-----------------------------------------------------------------------------
LEMMA InitTypeOK == Init => TypeOK
<1>1. 0 \in 0 .. MaxClock
  BY AgesAssumption
<1>2. QED
  BY <1>1 DEF Init, TypeOK

(* Writing a row and moving a thread keep the types.                        *)
LEMMA SaveType == ASSUME TypeOK, NEW t \in Tasks, NEW s \in Status, NEW n \in Nat,
                         Save(t, s, n)
                  PROVE  table' \in [Tasks -> Row \cup {NoRow}]
<1>1. [status |-> s, createdAt |-> n] \in Row
  BY DEF Row
<1>2. QED
  BY <1>1 DEF TypeOK, Save

LEMMA GotoType == ASSUME TypeOK, NEW w \in Workers, worker[w].pc # "idle",
                         NEW pc \in {"mark", "transfer", "failed", "register"}, Goto(w, pc)
                  PROVE  /\ worker' \in [Workers -> Busy \cup {Idle}]
                         /\ \A x \in Workers : worker'[x].task = worker[x].task
<1> DEFINE new == [worker[w] EXCEPT !.pc = pc]
<1>1. worker[w] \in Busy
  BY BusyWorker
<1>2. new \in Busy /\ new.task = worker[w].task
  BY <1>1 DEF Busy
<1>3. worker \in [Workers -> Busy \cup {Idle}]
  BY DEF TypeOK, Busy
<1>4. worker' = [worker EXCEPT ![w] = new]
  BY DEF Goto
<1> HIDE DEF new
<1>5. QED
  BY <1>2, <1>3, <1>4

LEMMA ReleaseType == ASSUME TypeOK, NEW w \in Workers, Release(w)
                     PROVE  /\ worker' \in [Workers -> Busy \cup {Idle}]
                            /\ worker'[w].task = NoTask
                            /\ \A x \in Workers \ {w} : worker'[x] = worker[x]
<1>1. worker \in [Workers -> Busy \cup {Idle}]
  BY DEF TypeOK, Busy
<1>2. worker' = [worker EXCEPT ![w] = Idle]
  BY DEF Release
<1>3. Idle.task = NoTask
  BY DEF Idle
<1>4. QED
  BY <1>1, <1>2, <1>3

(* What an update of a thread writes.                                       *)
LEMMA UpdateType == ASSUME TypeOK, NEW w \in Workers, worker[w].pc # "idle",
                           NEW s \in Status, Update(w, s)
                    PROVE  /\ worker[w].task \in Tasks
                           /\ table' \in [Tasks -> Row \cup {NoRow}]
                           /\ table'[worker[w].task].status = s
                           /\ table'[worker[w].task] \in Row
                           /\ \A t \in Tasks : t # worker[w].task => table'[t] = table[t]
                           /\ UNCHANGED <<clock, queue, born>>
<1>1. worker[w] \in Busy
  BY BusyWorker
<1>2. worker[w].task \in Tasks /\ worker[w].createdAt \in Nat
  BY <1>1 DEF Busy
<1>3. [status |-> s, createdAt |-> worker[w].createdAt] \in Row
  BY <1>2 DEF Row
<1>4. table' = [table EXCEPT ![worker[w].task] =
                   [status |-> s, createdAt |-> worker[w].createdAt]]
  BY DEF Update, Save
<1>5. table \in [Tasks -> Row \cup {NoRow}]
  BY DEF TypeOK
<1>6. table' \in [Tasks -> Row \cup {NoRow}]
  BY <1>2, <1>3, <1>4, <1>5
<1>7. table'[worker[w].task] = [status |-> s, createdAt |-> worker[w].createdAt]
  BY <1>2, <1>4, <1>5
<1>8. QED
  BY <1>2, <1>3, <1>4, <1>5, <1>6, <1>7 DEF Update

-----------------------------------------------------------------------------
(* The steps preserve the invariant.  First a thread that writes a status   *)
(* that is no result and stays on its task.                                 *)
LEMMA KeepStep ==
    ASSUME IInv, NEW w \in Workers, worker[w].pc # "idle",
           NEW s \in {"Pending", "Downloading"}, Update(w, s),
           worker' \in [Workers -> Busy \cup {Idle}],
           \A x \in Workers : worker'[x].task = worker[x].task
    PROVE  IInv'
<1> DEFINE t0 == worker[w].task
<1>1. /\ t0 \in Tasks /\ table' \in [Tasks -> Row \cup {NoRow}] /\ table'[t0].status = s
      /\ \A t \in Tasks : t # t0 => table'[t] = table[t]
      /\ UNCHANGED <<clock, queue, born>>
  BY UpdateType DEF IInv, Status
<1>2. TypeOK'
  BY <1>1 DEF IInv, TypeOK, Busy
<1>3. Alone'
  BY <1>1 DEF IInv, Alone
<1>4. born[t0] # -1
  BY <1>1 DEF IInv, Alone
<1> HIDE DEF t0
<1>5. ResultOver'
  BY <1>1, <1>4 DEF IInv, ResultOver
<1>6. QED
  BY <1>2, <1>3, <1>5 DEF IInv

(* A thread that writes the result and lets go of the task.                 *)
LEMMA ResultStep ==
    ASSUME IInv, NEW w \in Workers, worker[w].pc # "idle",
           NEW s \in {"Finished", "Failed"}, Update(w, s), Release(w)
    PROVE  IInv'
<1> DEFINE t0 == worker[w].task
<1>1. /\ t0 \in Tasks /\ table' \in [Tasks -> Row \cup {NoRow}]
      /\ \A t \in Tasks : t # t0 => table'[t] = table[t]
      /\ UNCHANGED <<clock, queue, born>>
  BY UpdateType DEF IInv, Status
<1>2. /\ worker' \in [Workers -> Busy \cup {Idle}]
      /\ worker'[w].task = NoTask
      /\ \A x \in Workers \ {w} : worker'[x] = worker[x]
  BY ReleaseType DEF IInv
<1>3. TypeOK'
  BY <1>1, <1>2 DEF IInv, TypeOK, Busy
<1>4. \A t \in Tasks, x \in Workers : worker'[x].task = t => x # w /\ worker[x].task = t
  BY <1>2, TasksAssumption
<1>5. Alone'
  BY <1>1, <1>4 DEF IInv, Alone
<1>6. born[t0] # -1 /\ t0 \notin queue /\ \A x \in Workers \ {w} : worker[x].task # t0
  BY <1>1 DEF IInv, Alone
<1> HIDE DEF t0
<1>7. ResultOver'
  BY <1>1, <1>4, <1>6 DEF IInv, ResultOver
<1>8. QED
  BY <1>3, <1>5, <1>7 DEF IInv

LEMMA CreateStep == ASSUME IInv, NEW t \in Tasks, CreateTask(t) PROVE IInv'
<1>1. /\ clock \in Nat /\ "Pending" \in Status
      /\ born \in [Tasks -> Nat \cup {-1}] /\ born' = [born EXCEPT ![t] = clock]
      /\ born[t] = -1 /\ queue' = queue \cup {t} /\ UNCHANGED <<clock, worker>>
  BY DEF IInv, TypeOK, CreateTask, Status
<1>2. table' \in [Tasks -> Row \cup {NoRow}]
  BY <1>1, SaveType DEF IInv, CreateTask
<1>3. TypeOK'
  BY <1>1, <1>2 DEF IInv, TypeOK
<1>4. born'[t] # -1 /\ \A u \in Tasks : u # t => born'[u] = born[u]
  BY <1>1
<1>5. \A w \in Workers : worker[w].task # t
  BY <1>1 DEF IInv, Alone
<1>6. Alone'
  BY <1>1, <1>4, <1>5 DEF IInv, Alone
<1>7. /\ table'[t] = [status |-> "Pending", createdAt |-> clock]
      /\ \A u \in Tasks : u # t => table'[u] = table[u]
  BY DEF IInv, TypeOK, CreateTask, Save
<1>8. ResultOver'
  BY <1>1, <1>4, <1>7 DEF IInv, ResultOver
<1>9. QED
  BY <1>3, <1>6, <1>8 DEF IInv

LEMMA BeginStep == ASSUME IInv, NEW w \in Workers, NEW t \in Tasks, Begin(w, t) PROVE IInv'
<1>1. /\ t \in queue /\ queue' = queue \ {t} /\ UNCHANGED <<clock, table, born>>
      /\ born[t] # -1 /\ \A x \in Workers : worker[x].task # t
  BY DEF IInv, Alone, Begin, FoundTask
<1>2. CASE worker' = worker
  <2>1. TypeOK' /\ Alone' /\ ResultOver'
    BY <1>1, <1>2 DEF IInv, TypeOK, Alone, ResultOver
  <2>2. QED
    BY <2>1 DEF IInv
<1>3. CASE worker' # worker
  <2> DEFINE new == [pc |-> "mark", task |-> t, createdAt |-> clock]
  <2>1. worker' = [worker EXCEPT ![w] = new] /\ table[t] # NoRow
    BY <1>3 DEF Begin, FoundTask
  <2>2. new \in Busy /\ new.task = t
    BY DEF Busy, IInv, TypeOK
  <2>3. worker \in [Workers -> Busy \cup {Idle}]
    BY DEF IInv, TypeOK, Busy
  <2> HIDE DEF new
  <2>4. /\ worker' \in [Workers -> Busy \cup {Idle}] /\ worker'[w].task = t
        /\ \A x \in Workers : x # w => worker'[x] = worker[x]
    BY <2>1, <2>2, <2>3
  <2>5. TypeOK'
    BY <1>1, <2>4 DEF IInv, TypeOK, Busy
  <2>6. Alone'
    BY <1>1, <2>4 DEF IInv, Alone
  <2>7. table[t].status \notin {"Finished", "Failed"}
    BY <1>1, <2>1 DEF IInv, ResultOver
  <2>8. ResultOver'
    BY <1>1, <2>4, <2>7 DEF IInv, ResultOver
  <2>9. QED
    BY <2>5, <2>6, <2>8 DEF IInv
<1>4. QED
  BY <1>2, <1>3

LEMMA ThrowStep == ASSUME IInv, NEW w \in Workers, TransferThrows(w) PROVE IInv'
<1>1. UNCHANGED <<clock, table, queue, born>> /\ Release(w)
  BY DEF TransferThrows
<1>2. /\ worker' \in [Workers -> Busy \cup {Idle}]
      /\ worker'[w].task = NoTask
      /\ \A x \in Workers \ {w} : worker'[x] = worker[x]
  BY <1>1, ReleaseType DEF IInv
<1>3. \A t \in Tasks, x \in Workers : worker'[x].task = t => worker[x].task = t
  BY <1>2, TasksAssumption
<1>4. TypeOK'
  BY <1>1, <1>2 DEF IInv, TypeOK, Busy
<1>5. Alone' /\ ResultOver'
  BY <1>1, <1>3 DEF IInv, Alone, ResultOver
<1>6. QED
  BY <1>4, <1>5 DEF IInv

LEMMA CleanupStep == ASSUME IInv, Cleanup PROVE IInv'
<1>1. /\ table' \in [Tasks -> Row \cup {NoRow}]
      /\ \A t \in Tasks : table'[t] \in {table[t], NoRow}
  BY DEF IInv, TypeOK, Cleanup
<1>2. TypeOK'
  BY <1>1 DEF IInv, TypeOK, Cleanup
<1>3. Alone' /\ ResultOver'
  BY <1>1 DEF IInv, Alone, ResultOver, Cleanup
<1>4. QED
  BY <1>2, <1>3 DEF IInv

LEMMA RestartStep == ASSUME IInv, Restart PROVE IInv'
<1>1. \A w \in Workers : worker'[w] = Idle /\ worker'[w].task = NoTask
  BY DEF Restart, Idle
<1>2. TypeOK'
  BY DEF IInv, TypeOK, Restart
<1>3. Alone' /\ ResultOver'
  BY <1>1, TasksAssumption DEF IInv, Alone, ResultOver, Restart
<1>4. QED
  BY <1>2, <1>3 DEF IInv

LEMMA TickStep == ASSUME IInv, Tick PROVE IInv'
<1>1. clock' \in 0 .. MaxClock
  BY AgesAssumption DEF IInv, TypeOK, Tick
<1>2. TypeOK' /\ Alone' /\ ResultOver'
  BY <1>1 DEF IInv, TypeOK, Alone, ResultOver, Tick
<1>3. QED
  BY <1>2 DEF IInv

-----------------------------------------------------------------------------
(* The types of every variable, and one place for every task.               *)
LEMMA MarkStep == ASSUME IInv, NEW w \in Workers, MarkDownloading(w) PROVE IInv'
<1>1. worker[w].pc # "idle" /\ Update(w, "Downloading") /\ Goto(w, "transfer")
  BY DEF MarkDownloading
<1>2. QED
  BY <1>1, GotoType, KeepStep DEF IInv

LEMMA ProgressStep == ASSUME IInv, NEW w \in Workers, Progress(w) PROVE IInv'
<1>1. worker[w].pc # "idle" /\ Update(w, "Downloading") /\ UNCHANGED worker
  BY DEF Progress
<1>2. worker \in [Workers -> Busy \cup {Idle}]
  BY DEF IInv, TypeOK, Busy
<1>3. QED
  BY <1>1, <1>2, KeepStep

LEMMA EndStep == ASSUME IInv, NEW w \in Workers, TransferEnds(w) PROVE IInv'
<1>1. PICK pc \in {"failed", "register"} : Goto(w, pc)
  BY DEF TransferEnds
<1>2. worker[w].pc # "idle" /\ Update(w, "Downloading")
  BY DEF TransferEnds
<1>3. QED
  BY <1>1, <1>2, GotoType, KeepStep DEF IInv

LEMMA FailStep == ASSUME IInv, NEW w \in Workers, Fail(w) PROVE IInv'
  BY ResultStep DEF Fail

LEMMA FinishStep == ASSUME IInv, NEW w \in Workers, Finish(w) PROVE IInv'
  BY ResultStep DEF Finish

LEMMA InitIInv == Init => IInv
<1>1. ASSUME Init PROVE Alone /\ ResultOver
  BY <1>1, TasksAssumption DEF Init, Alone, ResultOver, Idle
<1>2. QED
  BY <1>1, InitTypeOK DEF IInv

LEMMA NextIInv == IInv /\ [Next]_vars => IInv'
<1> SUFFICES ASSUME IInv, [Next]_vars PROVE IInv'
  OBVIOUS
<1>1. ASSUME NEW t \in Tasks, CreateTask(t) PROVE IInv'
  BY <1>1, CreateStep
<1>2. ASSUME NEW w \in Workers, Step(w) \/ Transfer(w) \/ Progress(w) PROVE IInv'
  BY <1>2, BeginStep, MarkStep, EndStep, ThrowStep, FailStep, FinishStep, ProgressStep
     DEF Step, Transfer
<1>3. CASE Cleanup \/ Restart \/ Tick
  BY <1>3, CleanupStep, RestartStep, TickStep
<1>4. CASE UNCHANGED vars
  BY <1>4 DEF vars, IInv, TypeOK, Alone, ResultOver
<1>5. QED
  BY <1>1, <1>2, <1>3, <1>4 DEF Next

(* The types of every variable, restarts included.                          *)
THEOREM Typing == Spec => []TypeOK
<1>1. IInv => TypeOK
  BY DEF IInv
<1>2. QED
  BY <1>1, InitIInv, NextIInv, PTL DEF Spec

(* No task is ever queued twice, held by two threads or held while queued:  *)
(* each row has one writer.                                                 *)
THEOREM SinglePlace == Spec => []OnePlace
<1>1. IInv => OnePlace
  BY AloneIsOnePlace DEF IInv
<1>2. QED
  BY <1>1, InitIInv, NextIInv, PTL DEF Spec

-----------------------------------------------------------------------------
(* The refinement.  The status shown and the phase, as the mapping has them. *)
ShownOf == [t \in Tasks |-> IF table[t] = NoRow THEN "none" ELSE table[t].status]
PhaseOf == [t \in Tasks |-> Phase(t)]

LEMMA PhaseUnfolds ==
    ASSUME NEW t \in Tasks
    PROVE  /\ PhaseOf[t] = "new" <=> born[t] = -1
           /\ PhaseOf[t] = "accepted" <=>
                 born[t] # -1 /\ (t \in queue \/ \E w \in Workers : worker[w].task = t)
           /\ PhaseOf[t] = "over" <=>
                 born[t] # -1 /\ t \notin queue /\ \A w \in Workers : worker[w].task # t
           /\ PhaseOf[t] \in {"new", "accepted", "over"}
  BY DEF PhaseOf, Phase, At

LEMMA PhaseUnfoldsNext ==
    ASSUME NEW t \in Tasks
    PROVE  /\ PhaseOf'[t] = "new" <=> born'[t] = -1
           /\ PhaseOf'[t] = "accepted" <=>
                 born'[t] # -1 /\ (t \in queue' \/ \E w \in Workers : worker'[w].task = t)
           /\ PhaseOf'[t] = "over" <=>
                 born'[t] # -1 /\ t \notin queue' /\ \A w \in Workers : worker'[w].task # t
           /\ PhaseOf'[t] \in {"new", "accepted", "over"}
  BY DEF PhaseOf, Phase, At

(* A step that leaves the places of all tasks alone leaves every phase.     *)
LEMMA SamePhase ==
    ASSUME UNCHANGED <<queue, born>>, \A w \in Workers : worker'[w].task = worker[w].task
    PROVE  PhaseOf' = PhaseOf
  BY DEF PhaseOf, Phase, At

LEMMA MapInit == Init => Promise!Init
<1> SUFFICES ASSUME Init PROVE Promise!Init
  OBVIOUS
<1>1. \A t \in Tasks : table[t] = NoRow /\ born[t] = -1
  BY DEF Init
<1>2. QED
  BY <1>1 DEF Promise!Init, Phase

(* A thread that writes "Downloading" and stays: Work.                      *)
LEMMA MapKeep ==
    ASSUME IInv, NEW w \in Workers, worker[w].pc # "idle", Update(w, "Downloading"),
           \A x \in Workers : worker'[x].task = worker[x].task
    PROVE  \E t \in Tasks : Promise!Work(t)
<1> DEFINE t0 == worker[w].task
<1>1. /\ t0 \in Tasks /\ table'[t0] \in Row /\ table'[t0].status = "Downloading"
      /\ \A t \in Tasks : t # t0 => table'[t] = table[t]
      /\ UNCHANGED <<clock, queue, born>>
  BY UpdateType DEF IInv, Status
<1>2. PhaseOf' = PhaseOf
  BY <1>1, SamePhase
<1>3. PhaseOf[t0] = "accepted"
  BY <1>1, PhaseUnfolds DEF IInv, Alone
<1>4. ShownOf' = [ShownOf EXCEPT ![t0] = "Downloading"]
  BY <1>1, NoRowAssumption DEF ShownOf
<1> HIDE DEF t0
<1>5. Promise!Work(t0)
  BY <1>2, <1>3, <1>4 DEF Promise!Work, Promise!Show, PhaseOf, ShownOf
<1>6. QED
  BY <1>1, <1>5 DEF Promise!Work

(* A thread that writes the result and lets go: Conclude.                   *)
LEMMA MapResult ==
    ASSUME IInv, NEW w \in Workers, worker[w].pc # "idle",
           NEW s \in {"Finished", "Failed"}, Update(w, s), Release(w)
    PROVE  \E t \in Tasks : Promise!Conclude(t)
<1> DEFINE t0 == worker[w].task
<1>1. /\ t0 \in Tasks /\ table'[t0] \in Row /\ table'[t0].status = s
      /\ \A t \in Tasks : t # t0 => table'[t] = table[t]
      /\ UNCHANGED <<clock, queue, born>>
  BY UpdateType DEF IInv, Status
<1>2. /\ worker'[w].task = NoTask
      /\ \A x \in Workers \ {w} : worker'[x] = worker[x]
  BY ReleaseType DEF IInv
<1>3. PhaseOf[t0] = "accepted" /\ born[t0] # -1 /\ t0 \notin queue
      /\ \A x \in Workers \ {w} : worker[x].task # t0
  BY <1>1, PhaseUnfolds DEF IInv, Alone
<1>4. PhaseOf'[t0] = "over"
  BY <1>1, <1>2, <1>3, TasksAssumption, PhaseUnfoldsNext
<1>5. ASSUME NEW t \in Tasks, t # t0 PROVE PhaseOf'[t] = PhaseOf[t]
  <2>1. \A x \in Workers : worker'[x].task = t <=> worker[x].task = t
    BY <1>2, <1>5, TasksAssumption
  <2>2. QED
    BY <1>1, <2>1, PhaseUnfolds, PhaseUnfoldsNext
<1> HIDE DEF t0
<1>6. PhaseOf' = [PhaseOf EXCEPT ![t0] = "over"]
  BY <1>1, <1>4, <1>5 DEF PhaseOf
<1>7. ShownOf' = [ShownOf EXCEPT ![t0] = s]
  BY <1>1, NoRowAssumption DEF ShownOf
<1>8. Promise!Conclude(t0)
  BY <1>3, <1>6, <1>7 DEF Promise!Conclude, Promise!Show, Promise!Final, PhaseOf, ShownOf
<1>9. QED
  BY <1>1, <1>8

LEMMA MapCreate == ASSUME IInv, NEW t \in Tasks, CreateTask(t) PROVE Promise!Accept(t)
<1>1. /\ born' = [born EXCEPT ![t] = clock] /\ born[t] = -1 /\ clock \in Nat
      /\ born \in [Tasks -> Nat \cup {-1}] /\ table \in [Tasks -> Row \cup {NoRow}]
      /\ queue' = queue \cup {t} /\ worker' = worker
      /\ table' = [table EXCEPT ![t] = [status |-> "Pending", createdAt |-> clock]]
  BY DEF IInv, TypeOK, CreateTask, Save
<1>2. born'[t] # -1 /\ \A u \in Tasks : u # t => born'[u] = born[u]
  BY <1>1
<1>3. PhaseOf[t] = "new" /\ PhaseOf'[t] = "accepted"
  BY <1>1, <1>2, PhaseUnfolds, PhaseUnfoldsNext
<1>4. ASSUME NEW u \in Tasks, u # t PROVE PhaseOf'[u] = PhaseOf[u]
  BY <1>1, <1>2, <1>4, PhaseUnfolds, PhaseUnfoldsNext
<1>5. PhaseOf' = [PhaseOf EXCEPT ![t] = "accepted"]
  BY <1>3, <1>4 DEF PhaseOf
<1>6. [status |-> "Pending", createdAt |-> clock] \in Row
  BY <1>1 DEF Row, Status
<1>7. ShownOf' = [ShownOf EXCEPT ![t] = "Pending"]
  BY <1>1, <1>6, NoRowAssumption DEF ShownOf
<1>8. QED
  BY <1>3, <1>5, <1>7 DEF Promise!Accept, Promise!Show, PhaseOf, ShownOf

(* Tasks that lose their place, and have no result: Abandon.                *)
LEMMA MapAbandon ==
    ASSUME NEW ts \in SUBSET Tasks, UNCHANGED <<table, born>>,
           \A t \in ts : /\ PhaseOf[t] = "accepted"
                         /\ t \notin queue' /\ \A w \in Workers : worker'[w].task # t,
           \A t \in Tasks \ ts : PhaseOf'[t] = PhaseOf[t]
    PROVE  \E us \in SUBSET Tasks : Promise!Abandon(us)
<1>1. \A t \in ts : PhaseOf'[t] = "over"
  BY PhaseUnfolds, PhaseUnfoldsNext
<1>2. PhaseOf' = [t \in Tasks |-> IF t \in ts THEN "over" ELSE PhaseOf[t]]
  BY <1>1 DEF PhaseOf
<1>3. ShownOf' = ShownOf
  BY DEF ShownOf
<1>4. Promise!Abandon(ts)
  BY <1>2, <1>3 DEF Promise!Abandon, PhaseOf, ShownOf
<1>5. QED
  BY <1>4 DEF Promise!Abandon

LEMMA MapBegin ==
    ASSUME IInv, NEW w \in Workers, NEW t \in Tasks, Begin(w, t)
    PROVE  (\E us \in SUBSET Tasks : Promise!Abandon(us)) \/ UNCHANGED Promise!vars
<1>1. /\ t \in queue /\ queue' = queue \ {t} /\ UNCHANGED <<table, born>>
      /\ born[t] # -1 /\ \A x \in Workers : worker[x].task # t
      /\ worker[w].task = NoTask
  BY IdleWorker DEF IInv, Alone, Begin, FoundTask, Idle
<1>2. CASE table[t] = NoRow
  <2>1. worker' = worker
    BY <1>2 DEF Begin, FoundTask
  <2>2. PhaseOf[t] = "accepted"
    BY <1>1, PhaseUnfolds
  <2>3. \A u \in Tasks \ {t} : PhaseOf'[u] = PhaseOf[u]
    BY <1>1, <2>1, PhaseUnfolds, PhaseUnfoldsNext
  <2>4. /\ {t} \in SUBSET Tasks /\ UNCHANGED <<table, born>>
        /\ \A u \in {t} : /\ PhaseOf[u] = "accepted"
                          /\ u \notin queue' /\ \A x \in Workers : worker'[x].task # u
    BY <1>1, <2>1, <2>2
  <2>5. QED
    BY <2>3, <2>4, MapAbandon
<1>3. CASE table[t] # NoRow
  <2>1. worker'[w].task = t /\ \A x \in Workers : x # w => worker'[x] = worker[x]
    BY <1>3 DEF Begin, FoundTask, IInv, TypeOK
  <2>2. ASSUME NEW u \in Tasks PROVE PhaseOf'[u] = PhaseOf[u]
    <3>1. CASE u = t
      BY <1>1, <2>1, <3>1, PhaseUnfolds, PhaseUnfoldsNext
    <3>2. CASE u # t
      <4>1. \A x \in Workers : worker'[x].task = u <=> worker[x].task = u
        BY <1>1, <2>1, <3>2, TasksAssumption
      <4>2. QED
        BY <1>1, <3>2, <4>1, PhaseUnfolds, PhaseUnfoldsNext
    <3>3. QED
      BY <3>1, <3>2
  <2>3. PhaseOf' = PhaseOf
    BY <2>2 DEF PhaseOf
  <2>4. ShownOf' = ShownOf
    BY <1>1 DEF ShownOf
  <2>5. QED
    BY <2>3, <2>4 DEF Promise!vars, PhaseOf, ShownOf
<1>4. QED
  BY <1>2, <1>3

LEMMA MapThrow ==
    ASSUME IInv, NEW w \in Workers, TransferThrows(w)
    PROVE  \E us \in SUBSET Tasks : Promise!Abandon(us)
<1> DEFINE t0 == worker[w].task
<1>1. UNCHANGED <<table, queue, born>> /\ Release(w) /\ worker[w].pc # "idle"
  BY DEF TransferThrows
<1>2. t0 \in Tasks
  BY <1>1, BusyWorker DEF IInv, Busy
<1>3. /\ worker'[w].task = NoTask
      /\ \A x \in Workers \ {w} : worker'[x] = worker[x]
  BY <1>1, ReleaseType DEF IInv
<1>4. /\ PhaseOf[t0] = "accepted" /\ t0 \notin queue
      /\ \A x \in Workers \ {w} : worker[x].task # t0
  BY <1>2, PhaseUnfolds DEF IInv, Alone
<1>5. t0 \notin queue' /\ \A x \in Workers : worker'[x].task # t0
  BY <1>1, <1>2, <1>3, <1>4, TasksAssumption
<1>6. ASSUME NEW t \in Tasks \ {t0} PROVE PhaseOf'[t] = PhaseOf[t]
  <2>1. \A x \in Workers : worker'[x].task = t <=> worker[x].task = t
    BY <1>3, <1>6, TasksAssumption
  <2>2. QED
    BY <1>1, <2>1, PhaseUnfolds, PhaseUnfoldsNext
<1> HIDE DEF t0
<1>7. /\ {t0} \in SUBSET Tasks /\ UNCHANGED <<table, born>>
      /\ \A t \in {t0} : /\ PhaseOf[t] = "accepted"
                         /\ t \notin queue' /\ \A x \in Workers : worker'[x].task # t
  BY <1>1, <1>2, <1>4, <1>5
<1>8. QED
  BY <1>6, <1>7, MapAbandon

LEMMA MapRestart ==
    ASSUME IInv, Restart
    PROVE  \E us \in SUBSET Tasks : Promise!Abandon(us)
<1> DEFINE ts == {t \in Tasks : PhaseOf[t] = "accepted"}
<1>1. UNCHANGED <<table, born>> /\ queue' = {} /\ \A w \in Workers : worker'[w].task = NoTask
  BY DEF Restart, Idle
<1>2. \A t \in ts : t \notin queue' /\ \A w \in Workers : worker'[w].task # t
  BY <1>1, TasksAssumption
<1>3. \A t \in Tasks \ ts : PhaseOf'[t] = PhaseOf[t]
  BY <1>1, TasksAssumption, PhaseUnfolds, PhaseUnfoldsNext
<1>4. QED
  BY <1>1, <1>2, <1>3, MapAbandon

LEMMA MapCleanup ==
    ASSUME IInv, Cleanup
    PROVE  \E us \in SUBSET Tasks : Promise!Expire(us)
<1> DEFINE ts == {t \in Tasks : table[t] # NoRow /\ Expired(table[t])}
<1>1. UNCHANGED <<queue, worker, born>>
      /\ table' = [t \in Tasks |-> IF t \in ts THEN NoRow ELSE table[t]]
  BY DEF Cleanup
<1>2. PhaseOf' = PhaseOf
  BY <1>1, SamePhase
<1> HIDE DEF ts
<1>3. ShownOf' = [t \in Tasks |-> IF t \in ts THEN "none" ELSE ShownOf[t]]
  BY <1>1 DEF ShownOf
<1>4. Promise!Expire(ts) /\ ts \in SUBSET Tasks
  BY <1>2, <1>3 DEF Promise!Expire, PhaseOf, ShownOf, ts
<1>5. QED
  BY <1>4 DEF Promise!Expire

LEMMA MapNext == IInv /\ [Next]_vars => [Promise!Next]_(Promise!vars)
<1> SUFFICES ASSUME IInv, [Next]_vars PROVE Promise!Next \/ UNCHANGED Promise!vars
  OBVIOUS
<1>1. ASSUME NEW t \in Tasks, CreateTask(t) PROVE Promise!Next
  BY <1>1, MapCreate DEF Promise!Next
<1>2. ASSUME NEW w \in Workers, NEW t \in Tasks, Begin(w, t)
      PROVE  Promise!Next \/ UNCHANGED Promise!vars
  BY <1>2, MapBegin DEF Promise!Next
<1>3. ASSUME NEW w \in Workers, MarkDownloading(w) \/ Progress(w) \/ TransferEnds(w)
      PROVE  Promise!Next
  <2>1. worker[w].pc # "idle" /\ Update(w, "Downloading")
    BY <1>3 DEF MarkDownloading, Progress, TransferEnds
  <2>2. \A x \in Workers : worker'[x].task = worker[x].task
    BY <1>3, <2>1, GotoType DEF IInv, MarkDownloading, Progress, TransferEnds
  <2>3. QED
    BY <2>1, <2>2, MapKeep DEF Promise!Next
<1>4. ASSUME NEW w \in Workers, TransferThrows(w) PROVE Promise!Next
  BY <1>4, MapThrow DEF Promise!Next
<1>5. ASSUME NEW w \in Workers, Fail(w) \/ Finish(w) PROVE Promise!Next
  <2>1. \E t \in Tasks : Promise!Conclude(t)
    BY <1>5, MapResult DEF Fail, Finish
  <2>2. QED
    BY <2>1 DEF Promise!Next
<1>6. CASE Cleanup
  BY <1>6, MapCleanup DEF Promise!Next
<1>7. CASE Restart
  BY <1>7, MapRestart DEF Promise!Next
<1>8. CASE Tick \/ UNCHANGED vars
  <2>1. UNCHANGED <<table, queue, worker, born>>
    BY <1>8 DEF Tick, vars
  <2>2. PhaseOf' = PhaseOf /\ ShownOf' = ShownOf
    BY <2>1, SamePhase DEF ShownOf
  <2>3. QED
    BY <2>2 DEF Promise!vars, PhaseOf, ShownOf
<1>9. QED
  BY <1>1, <1>2, <1>3, <1>4, <1>5, <1>6, <1>7, <1>8 DEF Next, Step, Transfer

(* download_service.cpp implements TaskPromise.                             *)
THEOREM Refinement == Spec => KeepsPromise
<1>1. QED
  BY InitIInv, NextIInv, MapInit, MapNext, PTL DEF Spec, KeepsPromise, Promise!Spec

-----------------------------------------------------------------------------
(* Only createTask and the thread that holds the task write its row.        *)
LEMMA Writers ==
    ASSUME IInv, Next, NEW t \in Tasks, born[t] # -1, \A w \in Workers : worker[w].task # t
    PROVE  table'[t] \in {table[t], NoRow}
<1>1. ASSUME NEW u \in Tasks, CreateTask(u) PROVE table'[t] = table[t]
  BY <1>1 DEF CreateTask, Save, IInv, TypeOK
<1>2. ASSUME NEW w \in Workers, NEW s \in Status, worker[w].pc # "idle", Update(w, s)
      PROVE  table'[t] = table[t]
  BY <1>2, UpdateType DEF IInv
<1>3. ASSUME NEW w \in Workers, Step(w) \/ Transfer(w) \/ Progress(w)
      PROVE  table'[t] = table[t]
  BY <1>2, <1>3 DEF Step, Transfer, Progress, Begin, MarkDownloading, TransferEnds, TransferThrows,
                    Fail, Finish, Status
<1>4. CASE Cleanup
  BY <1>4 DEF Cleanup
<1>5. CASE Restart \/ Tick
  BY <1>5 DEF Restart, Tick
<1>6. QED
  BY <1>1, <1>3, <1>4, <1>5 DEF Next

(* A result, once shown, never changes, and never comes back.               *)
THEOREM FinalResults == Spec => ResultIsFinal
<1> DEFINE Kept(t) == /\ table[t] # NoRow /\ table[t].status \in Promise!Final
                           => table'[t] \in {table[t], NoRow}
                      /\ Phase(t) = "over" /\ table[t] = NoRow => table'[t] = NoRow
<1>1. IInv /\ [Next]_vars => [\A t \in Tasks : Kept(t)]_vars
  <2> SUFFICES ASSUME IInv, Next, NEW t \in Tasks PROVE Kept(t)
    BY DEF vars
  <2>1. CASE table[t] # NoRow /\ table[t].status \in Promise!Final
    <3>1. born[t] # -1 /\ \A w \in Workers : worker[w].task # t
      BY <2>1 DEF IInv, ResultOver, Promise!Final
    <3>2. QED
      BY <2>1, <3>1, Writers
  <2>2. CASE Phase(t) = "over" /\ table[t] = NoRow
    <3>1. born[t] # -1 /\ \A w \in Workers : worker[w].task # t
      BY <2>2 DEF Phase, At
    <3>2. QED
      BY <2>2, <3>1, Writers
  <2>3. QED
    BY <2>1, <2>2
<1>2. QED
  BY <1>1, InitIInv, NextIInv, PTL DEF Spec, ResultIsFinal

-----------------------------------------------------------------------------
(* The metadata of a song, of LyricsSelection: what fetchBest returns.      *)

(* What a platform may leave behind: a field is its own, or is missing.     *)
Own(p) == [lyrics : {p, None}, chinese : BOOLEAN, trans : {p, None},
           cover : {p, None}, album : {p, None}, artist : {p, None}]

(* Answers are the platforms' own, and the result is made of all of them.   *)
LyricsIInv ==
    /\ preferred \in Preferences
    /\ answer \in [Enabled -> Metadata \cup {NoAnswer}]
    /\ \A p \in Enabled : answer[p] # NoAnswer => answer[p] \in Own(p)
    /\ best # NoAnswer =>
          /\ \A p \in Enabled : answer[p] # NoAnswer
          /\ best = SupplementMissing(answer[Primary])

(* A set of natural numbers that is not empty has a least element, which is *)
(* the one Min chooses.                                                     *)
LEMMA LeastExists ==
  ASSUME NEW S, S \subseteq Nat, S # {}
  PROVE  Min(S) \in S /\ \A n \in S : Min(S) <= n
<1>1. PICK least \in S : \A n \in S : <<n, least>> \notin OpToRel(<, Nat)
  BY NatLessThanWellFounded, WFMin, Zenon
<1>2. ASSUME NEW n \in S, n < least PROVE FALSE
  <2>1. n \in Nat /\ least \in Nat
    OBVIOUS
  <2>2. <<n, least>> \in {pair \in Nat \X Nat : pair[1] < pair[2]}
    BY <1>2, <2>1
  <2>3. QED
    BY <1>1, <2>2, Zenon DEF OpToRel
<1>3. \A n \in S : least <= n
  BY <1>2
<1>4. QED
  BY <1>3 DEF Min

(* The first platform of an order that covers a set is in the set, if       *)
(* anything is.                                                             *)
LEMMA FirstOfSet ==
  ASSUME NEW order, order \in Seq(Platforms), NEW set,
         set \subseteq {order[i] : i \in DOMAIN order}
  PROVE  /\ set = {} => First(order, set) = None
         /\ set # {} => First(order, set) \in set
<1>1. CASE set = {}
  BY <1>1 DEF First
<1>2. CASE set # {}
  <2>1. PICK places : places = {i \in DOMAIN order : order[i] \in set}
    OBVIOUS
  <2>2. places # {} /\ places \subseteq Nat
    BY <1>2, <2>1
  <2>3. Min(places) \in places
    BY <2>2, LeastExists
  <2>4. First(order, set) = order[Min(places)]
    BY <2>1, <2>2 DEF First
  <2>5. QED
    BY <1>2, <2>1, <2>3, <2>4
<1>3. QED
  BY <1>1, <1>2

LEMMA OrderOfProviders ==
  /\ Providers \in Seq(Platforms)
  /\ Enabled = {Providers[i] : i \in DOMAIN Providers}
  /\ Enabled \subseteq Platforms
  /\ Enabled # {}
  BY ProvidersAssumption DEF Enabled

LEMMA DefaultCovers ==
  /\ DefaultOrder \in Seq(Platforms)
  /\ \A p \in Platforms : \E i \in 1 .. Len(DefaultOrder) : DefaultOrder[i] = p
<1>1. DefaultOrder \in Seq(Platforms)
  BY DEF DefaultOrder, Platforms
<1>2. DOMAIN DefaultOrder = 1 .. Len(DefaultOrder)
  BY DEF DefaultOrder
<1>3. QED
  BY <1>1, <1>2 DEF Platforms

(* An order that covers a set covers it with one of its members in front.   *)
LEMMA InFront ==
  ASSUME NEW S, NEW x \in S, NEW order \in Seq(S)
  PROVE  /\ <<x>> \o order \in Seq(S)
         /\ \A i \in 1 .. Len(order) :
               i + 1 \in DOMAIN (<<x>> \o order) /\ (<<x>> \o order)[i + 1] = order[i]
<1>1. <<x>> \in Seq(S) /\ Len(<<x>>) = 1 /\ Len(order) \in Nat
  OBVIOUS
<1>2. /\ <<x>> \o order \in Seq(S)
      /\ Len(<<x>> \o order) = Len(<<x>>) + Len(order)
      /\ \A i \in 1 .. Len(<<x>>) + Len(order) :
            (<<x>> \o order)[i] = IF i <= Len(<<x>>) THEN <<x>>[i] ELSE order[i - Len(<<x>>)]
  BY <1>1, ConcatProperties, Zenon
<1>3. PICK all : all = <<x>> \o order
  OBVIOUS
<1>4. PICK one : one = <<x>>
  OBVIOUS
<1>5. /\ all \in Seq(S) /\ Len(all) = 1 + Len(order)
      /\ \A i \in 1 .. 1 + Len(order) : all[i] = IF i <= 1 THEN one[i] ELSE order[i - 1]
  BY <1>1, <1>2, <1>3, <1>4, Zenon
<1>6. \A i \in 1 .. Len(order) : i + 1 \in DOMAIN all /\ all[i + 1] = order[i]
  BY <1>1, <1>5
<1>7. QED
  BY <1>3, <1>5, <1>6, Zenon

LEMMA StillCovers ==
  ASSUME NEW S, NEW order \in Seq(S), NEW all \in Seq(S),
         \A i \in 1 .. Len(order) : i + 1 \in DOMAIN all /\ all[i + 1] = order[i],
         \A y \in S : \E i \in 1 .. Len(order) : order[i] = y
  PROVE  S = {all[i] : i \in DOMAIN all}
<1>1. \A i \in DOMAIN all : all[i] \in S
  OBVIOUS
<1>2. \A y \in S : \E i \in DOMAIN all : all[i] = y
  BY Zenon
<1>3. QED
  BY <1>1, <1>2, Zenon

(* Every platform is in the order of platforms, whichever is preferred.     *)
LEMMA OrderOfPlatforms ==
  ASSUME preferred \in Preferences
  PROVE  /\ PlatformOrder \in Seq(Platforms)
         /\ Platforms = {PlatformOrder[i] : i \in DOMAIN PlatformOrder}
<1>1. CASE preferred = NoPreference
  BY <1>1, DefaultCovers DEF PlatformOrder, Platforms
<1>2. CASE preferred # NoPreference
  <2>1. preferred \in Platforms
    BY <1>2, PreferencesAssumption
  <2>2. /\ <<preferred>> \o DefaultOrder \in Seq(Platforms)
        /\ \A i \in 1 .. Len(DefaultOrder) :
              /\ i + 1 \in DOMAIN (<<preferred>> \o DefaultOrder)
              /\ (<<preferred>> \o DefaultOrder)[i + 1] = DefaultOrder[i]
    <3>1. DefaultOrder \in Seq(Platforms)
      BY DefaultCovers
    <3>2. QED
      BY <2>1, <3>1, InFront
  <2>3. Platforms = {(<<preferred>> \o DefaultOrder)[i] :
                        i \in DOMAIN (<<preferred>> \o DefaultOrder)}
    BY <2>2, DefaultCovers, StillCovers, Zenon
  <2>4. QED
    BY <1>2, <2>2, <2>3, Zenon DEF PlatformOrder
<1>3. QED
  BY <1>1, <1>2

LEMMA HavingEnabled == \A field : Having(field) \subseteq Enabled
  BY DEF Having

LEMMA NoneIsNoPlatform == \A p \in Enabled : p # None
  BY OrderOfProviders, NoneAssumption

(* What a request leaves set or not, no provider writes another's name.     *)
LEMMA FilledIsOwn ==
  ASSUME NEW p, NEW fields, NEW text, NEW cover
  PROVE  Filled(p, fields, text, cover) \in Own(p)
  BY DEF Filled, Own

LEMMA AnswersAreOwn ==
  ASSUME NEW p \in Enabled, NEW d \in Answers[p]
  PROVE  d \in Own(p) /\ d \in Metadata
<1>1. d \in Own(p)
  <2>1. WithoutSong(p) \subseteq Own(p)
    BY FilledIsOwn DEF WithoutSong
  <2>2. \A s, t : Fetched(p, s, t) \subseteq Own(p)
    BY FilledIsOwn DEF Fetched
  <2>3. WithSong(p) \subseteq Own(p)
    BY <2>2 DEF WithSong
  <2>4. QED
    BY <2>1, <2>3 DEF Answers
<1>2. p \in Source
  BY OrderOfProviders DEF Source
<1>3. QED
  BY <1>1, <1>2 DEF Own, Metadata, Source

LEMMA InitLyrics == LyricsInit => LyricsIInv
  BY DEF LyricsInit, LyricsIInv

LEMMA AnswerStep ==
  ASSUME LyricsIInv, NEW p \in Enabled, Answer(p)
  PROVE  LyricsIInv'
<1>1. PICK d \in Answers[p] : answer' = [answer EXCEPT ![p] = d]
  BY DEF Answer
<1>2. d \in Own(p) /\ d \in Metadata
  BY AnswersAreOwn
<1>3. answer' \in [Enabled -> Metadata \cup {NoAnswer}]
  BY <1>1, <1>2 DEF LyricsIInv
<1>4. \A q \in Enabled : answer'[q] # NoAnswer => answer'[q] \in Own(q)
  BY <1>1, <1>2 DEF LyricsIInv
<1>5. best = NoAnswer /\ best' = best /\ preferred' = preferred
  BY DEF Answer, LyricsIInv
<1>6. QED
  BY <1>3, <1>4, <1>5 DEF LyricsIInv

(* What is chosen, and what is filled in, depends on the answers and the    *)
(* preference alone.                                                        *)
LEMMA SameChoice ==
  ASSUME UNCHANGED <<preferred, answer>>
  PROVE  SupplementMissing(answer[Primary])' = SupplementMissing(answer[Primary])
<1>1. PlatformOrder' = PlatformOrder
  BY Zenon DEF PlatformOrder
<1>2. \A field : Having(field)' = Having(field)
  BY Zenon DEF Having
<1>3. Core' = Core /\ Complete' = Complete
  BY <1>2, Zenon DEF Core, Complete
<1>4. \A p : Score(p)' = Score(p)
  BY Zenon DEF Score
<1>5. HighestScore' = HighestScore
  BY <1>4, Zenon DEF HighestScore
<1>6. Primary' = Primary
  BY <1>1, <1>3, <1>5, Zenon DEF Primary
<1>7. \A d, field : FillField(d, field)' = FillField(d, field)
  BY <1>2, Zenon DEF FillField
<1>8. \A d : FillLyrics(d)' = FillLyrics(d)
  BY <1>1, <1>2, Zenon DEF FillLyrics
<1>9. \A d : FillTranslation(d)' = FillTranslation(d)
  BY <1>1, <1>2, Zenon DEF FillTranslation
<1>10. \A d : SupplementMissing(d)' = SupplementMissing(d)
  BY <1>7, <1>8, <1>9, Zenon DEF SupplementMissing
<1>11. QED
  BY <1>6, <1>10, Zenon

LEMMA NextLyrics == LyricsIInv /\ [LyricsNext]_lyricsVars => LyricsIInv'
<1> SUFFICES ASSUME LyricsIInv, [LyricsNext]_lyricsVars PROVE LyricsIInv'
  OBVIOUS
<1>1. CASE \E p \in Enabled : Answer(p)
  BY <1>1, AnswerStep
<1>2. CASE FetchBest
  <2>1. best' = SupplementMissing(answer[Primary])
    BY <1>2 DEF FetchBest
  <2>2. UNCHANGED <<preferred, answer>> /\ \A p \in Enabled : answer[p] # NoAnswer
    BY <1>2 DEF FetchBest
  <2>3. SupplementMissing(answer[Primary])' = SupplementMissing(answer[Primary])
    BY <2>2, SameChoice
  <2>4. QED
    BY <2>1, <2>2, <2>3, Zenon DEF LyricsIInv
<1>3. CASE UNCHANGED lyricsVars
  <2>1. UNCHANGED <<preferred, answer>> /\ UNCHANGED best
    BY <1>3 DEF lyricsVars
  <2>2. SupplementMissing(answer[Primary])' = SupplementMissing(answer[Primary])
    BY <2>1, SameChoice
  <2>3. QED
    BY <2>1, <2>2, Zenon DEF LyricsIInv
<1>4. QED
  BY <1>1, <1>2, <1>3 DEF LyricsNext

-----------------------------------------------------------------------------
(* What supplementMissing returns, step by step.                            *)
LEMMA FirstHaving ==
  ASSUME NEW field
  PROVE  /\ First(Providers, Having(field)) \in Source
         /\ First(Providers, Having(field)) = None => Having(field) = {}
  BY FirstOfSet, OrderOfProviders, HavingEnabled, NoneIsNoPlatform DEF Source

LEMMA FirstInOrder ==
  ASSUME preferred \in Preferences, NEW set, set \subseteq Enabled
  PROVE  /\ First(PlatformOrder, set) \in Source
         /\ First(PlatformOrder, set) = None <=> set = {}
         /\ set # {} => First(PlatformOrder, set) \in set
<1>1. /\ set = {} => First(PlatformOrder, set) = None
      /\ set # {} => First(PlatformOrder, set) \in set
  BY OrderOfPlatforms, OrderOfProviders, FirstOfSet
<1>2. QED
  BY <1>1, OrderOfProviders, NoneIsNoPlatform DEF Source

LEMMA CoverFilled ==
  ASSUME NEW d \in Metadata, NEW r, r = FillField(d, "cover")
  PROVE  /\ r \in Metadata
         /\ r.lyrics = d.lyrics /\ r.chinese = d.chinese /\ r.trans = d.trans
         /\ r.cover = None => Having("cover") = {}
  BY FirstHaving DEF FillField, Metadata

LEMMA AlbumFilled ==
  ASSUME NEW d \in Metadata, NEW r, r = FillField(d, "album")
  PROVE  /\ r \in Metadata
         /\ r.lyrics = d.lyrics /\ r.chinese = d.chinese /\ r.trans = d.trans
         /\ r.cover = d.cover
         /\ r.album = None => Having("album") = {}
  BY FirstHaving DEF FillField, Metadata

LEMMA ArtistFilled ==
  ASSUME NEW d \in Metadata, NEW r, r = FillField(d, "artist")
  PROVE  /\ r \in Metadata
         /\ r.lyrics = d.lyrics /\ r.chinese = d.chinese /\ r.trans = d.trans
         /\ r.cover = d.cover /\ r.album = d.album
         /\ r.artist = None => Having("artist") = {}
  BY FirstHaving DEF FillField, Metadata

LEMMA LyricsFilled ==
  ASSUME LyricsIInv, \A p \in Enabled : answer[p] # NoAnswer,
         NEW d \in Metadata, NEW r, r = FillLyrics(d)
  PROVE  /\ r \in Metadata
         /\ r.cover = d.cover /\ r.album = d.album /\ r.artist = d.artist
         /\ r.lyrics = None => Having("lyrics") = {}
         /\ d.lyrics # None \/ Having("lyrics") = {} => r = d
<1>1. PICK p : p = First(PlatformOrder, Having("lyrics"))
  OBVIOUS
<1>2. /\ p \in Source
      /\ p = None <=> Having("lyrics") = {}
      /\ p # None => p \in Enabled
  BY <1>1, FirstInOrder, HavingEnabled DEF LyricsIInv
<1>3. CASE d.lyrics # None \/ p = None
  <2>1. r = d
    BY <1>1, <1>3 DEF FillLyrics
  <2>2. QED
    BY <1>2, <1>3, <2>1
<1>4. CASE d.lyrics = None /\ p # None
  <2>1. answer[p] \in Own(p)
    BY <1>2, <1>4 DEF LyricsIInv
  <2>2. PICK c \in BOOLEAN, t \in Source : 
           /\ c = answer[p].chinese
           /\ t = IF answer[p].trans # None THEN p ELSE d.trans
    BY <1>2, <2>1 DEF Own, Metadata
  <2>3. r = [d EXCEPT !.lyrics = p, !.chinese = c, !.trans = t]
    BY <1>1, <1>4, <2>2 DEF FillLyrics, Metadata
  <2>4. QED
    BY <1>2, <1>4, <2>2, <2>3 DEF Metadata
<1>5. QED
  BY <1>3, <1>4

LEMMA TranslationFilled ==
  ASSUME preferred \in Preferences,
         NEW d \in Metadata, NEW r, r = FillTranslation(d)
  PROVE  /\ r.lyrics = d.lyrics /\ r.chinese = d.chinese
         /\ r.cover = d.cover /\ r.album = d.album /\ r.artist = d.artist
         /\ d.trans # None \/ d.lyrics = None \/ d.chinese => r = d
         /\ r.lyrics # None /\ ~r.chinese /\ r.trans = None => Having("trans") = {}
<1>1. PICK p \in Source : /\ p = First(PlatformOrder, Having("trans"))
                          /\ p = None => Having("trans") = {}
  BY FirstInOrder, HavingEnabled
<1>2. CASE d.lyrics # None /\ d.trans = None /\ ~d.chinese
  <2>1. r = [d EXCEPT !.trans = p]
    BY <1>1, <1>2 DEF FillTranslation
  <2>2. QED
    BY <1>1, <1>2, <2>1 DEF Metadata
<1>3. CASE ~(d.lyrics # None /\ d.trans = None /\ ~d.chinese)
  <2>1. r = d
    BY <1>3 DEF FillTranslation
  <2>2. QED
    BY <1>3, <2>1
<1>4. QED
  BY <1>2, <1>3

LEMMA Supplemented ==
  ASSUME LyricsIInv, \A p \in Enabled : answer[p] # NoAnswer,
         NEW d \in Metadata, NEW b, b = SupplementMissing(d)
  PROVE  /\ b.lyrics = None => Having("lyrics") = {}
         /\ b.cover = None => Having("cover") = {}
         /\ b.album = None => Having("album") = {}
         /\ b.artist = None => Having("artist") = {}
         /\ b.lyrics # None /\ ~b.chinese /\ b.trans = None => Having("trans") = {}
         /\ Having("lyrics") = {} => b.lyrics = d.lyrics
         /\ d.lyrics # None =>
               /\ b.lyrics = d.lyrics
               /\ d.trans # None \/ d.chinese => b.trans = d.trans
<1>1. PICK c : c = FillField(d, "cover")
  OBVIOUS
<1>2. PICK l : l = FillField(c, "album")
  OBVIOUS
<1>3. PICK f : f = FillField(l, "artist")
  OBVIOUS
<1>4. PICK y : y = FillLyrics(f)
  OBVIOUS
<1>5. b = FillTranslation(y)
  BY <1>1, <1>2, <1>3, <1>4 DEF SupplementMissing
<1>6. /\ c \in Metadata
      /\ c.lyrics = d.lyrics /\ c.chinese = d.chinese /\ c.trans = d.trans
      /\ c.cover = None => Having("cover") = {}
  BY <1>1, CoverFilled
<1>7. /\ l \in Metadata
      /\ l.lyrics = d.lyrics /\ l.chinese = d.chinese /\ l.trans = d.trans
      /\ l.cover = c.cover
      /\ l.album = None => Having("album") = {}
  BY <1>2, <1>6, AlbumFilled
<1>8. /\ f \in Metadata
      /\ f.lyrics = d.lyrics /\ f.chinese = d.chinese /\ f.trans = d.trans
      /\ f.cover = c.cover /\ f.album = l.album
      /\ f.artist = None => Having("artist") = {}
  BY <1>3, <1>7, ArtistFilled
<1>9. /\ y \in Metadata
      /\ y.cover = c.cover /\ y.album = l.album /\ y.artist = f.artist
      /\ y.lyrics = None => Having("lyrics") = {}
      /\ f.lyrics # None \/ Having("lyrics") = {} => y = f
  BY <1>4, <1>8, LyricsFilled
<1>10. /\ b.lyrics = y.lyrics /\ b.chinese = y.chinese
       /\ b.cover = y.cover /\ b.album = y.album /\ b.artist = y.artist
       /\ y.trans # None \/ y.lyrics = None \/ y.chinese => b = y
       /\ b.lyrics # None /\ ~b.chinese /\ b.trans = None => Having("trans") = {}
  BY <1>5, <1>9, TranslationFilled DEF LyricsIInv
<1>11. d.lyrics # None => y.lyrics = d.lyrics /\ y.chinese = d.chinese /\ y.trans = d.trans
  BY <1>8, <1>9
<1>12. d.lyrics # None /\ (d.trans # None \/ d.chinese) => b.trans = d.trans
  BY <1>10, <1>11
<1>13. QED
  BY <1>6, <1>7, <1>8, <1>9, <1>10, <1>11, <1>12

-----------------------------------------------------------------------------
(* The chosen platform, and the scores.                                     *)
LEMMA Scores ==
  ASSUME NEW p \in Enabled, answer[p] \in Own(p)
  PROVE  /\ Score(p) \in 0 .. 211
         /\ Score(p) = 0 <=> p \notin Having("lyrics")
         /\ p \in Having("lyrics") /\ ~answer[p].chinese =>
               IF answer[p].trans # None THEN Score(p) >= 200 ELSE Score(p) <= 111
<1>1. PICK e, a, c : /\ e = If(answer[p].trans # None, IF answer[p].chinese THEN 50 ELSE 100)
                     /\ a = If(answer[p].album # None, 10)
                     /\ c = If(answer[p].cover # None, 1)
  OBVIOUS
<1>2. /\ e \in 0 .. 100 /\ a \in 0 .. 10 /\ c \in 0 .. 1
      /\ ~answer[p].chinese => e = IF answer[p].trans # None THEN 100 ELSE 0
  BY <1>1 DEF If
<1>3. Score(p) = IF answer[p].lyrics = None THEN 0 ELSE 100 + e + a + c
  BY <1>1 DEF Score
<1>4. p \in Having("lyrics") <=> answer[p].lyrics # None
  BY DEF Having
<1>5. QED
  BY <1>2, <1>3, <1>4

(* Some platform has the highest score.                                     *)
LEMMA SomeHighest ==
  ASSUME \A p \in Enabled : answer[p] \in Own(p)
  PROVE  HighestScore # {}
<1>1. \A p \in Enabled : Score(p) \in 0 .. 211
  BY Scores
<1>2. PICK short : short = {211 - Score(p) : p \in Enabled}
  OBVIOUS
<1>3. short \subseteq Nat /\ short # {}
  <2>1. \A p \in Enabled : 211 - Score(p) \in Nat
    BY <1>1
  <2>2. \A n \in short : n \in Nat
    BY <1>2, <2>1, Zenon
  <2>3. PICK p : p \in Enabled
    BY OrderOfProviders
  <2>4. 211 - Score(p) \in short
    BY <1>2, <2>3
  <2>5. QED
    BY <2>2, <2>4
<1>4. PICK least \in short : \A n \in short : least <= n
  BY <1>3, LeastExists
<1>5. PICK p \in Enabled : least = 211 - Score(p)
  BY <1>2
<1>6. \A q \in Enabled : Score(q) <= Score(p)
  <2>1. TAKE q \in Enabled
  <2>2. 211 - Score(q) \in short
    BY <1>2
  <2>3. 211 - Score(p) <= 211 - Score(q)
    BY <1>4, <1>5, <2>2
  <2>4. Score(p) \in Int /\ Score(q) \in Int
    BY <1>1
  <2>5. QED
    BY <2>3, <2>4
<1>7. QED
  BY <1>6 DEF HighestScore

(* The platform chosen has the core data, or no platform has more of it.    *)
LEMMA PrimaryChosen ==
  ASSUME LyricsIInv, \A p \in Enabled : answer[p] # NoAnswer
  PROVE  Primary \in Enabled /\ (Primary \in Core \/ Primary \in HighestScore)
<1>1. /\ Core \subseteq Enabled /\ Complete \subseteq Core
      /\ HighestScore \subseteq Enabled /\ HighestScore # {}
  BY HavingEnabled, SomeHighest DEF Core, Complete, HighestScore, LyricsIInv
<1>2. CASE preferred \in Core
  BY <1>1, <1>2 DEF Primary
<1>3. CASE preferred \notin Core /\ Complete # {}
  BY <1>1, <1>3, FirstInOrder DEF Primary, LyricsIInv
<1>4. CASE preferred \notin Core /\ Complete = {}
  BY <1>1, <1>4, FirstInOrder DEF Primary, LyricsIInv
<1>5. QED
  BY <1>2, <1>3, <1>4

(* The platform chosen has lyrics if any has; and foreign lyrics without a  *)
(* translation are chosen only when nobody has foreign lyrics with one.     *)
LEMMA PrimaryIsBest ==
  ASSUME LyricsIInv, \A p \in Enabled : answer[p] # NoAnswer
  PROVE  /\ answer[Primary].lyrics = None => Having("lyrics") = {}
         /\ answer[Primary].lyrics # None /\ ~answer[Primary].chinese
                                          /\ answer[Primary].trans = None =>
               \A p \in Having("lyrics") : answer[p].chinese \/ answer[p].trans = None
<1>1. PICK m : m = Primary
  OBVIOUS
<1>2. m \in Enabled /\ (m \in Core \/ m \in HighestScore)
  BY <1>1, PrimaryChosen
<1>3. \A p \in Enabled : answer[p] \in Own(p)
  BY DEF LyricsIInv
<1>4. Having("lyrics") = {p \in Enabled : answer[p].lyrics # None}
  BY DEF Having
<1>5. CASE m \in Core
  BY <1>1, <1>4, <1>5 DEF Core
<1>6. CASE m \in HighestScore
  <2>1. \A p \in Enabled : Score(p) <= Score(m)
    BY <1>6 DEF HighestScore
  <2>2. answer[m].lyrics = None => Having("lyrics") = {}
    <3>1. HAVE answer[m].lyrics = None
    <3>2. Score(m) = 0
      BY <1>2, <1>3, <1>4, <3>1, Scores
    <3>3. \A p \in Enabled : Score(p) = 0
      BY <1>3, <2>1, <3>2, Scores
    <3>4. QED
      BY <1>3, <3>3, Scores, HavingEnabled
  <2>3. ASSUME answer[m].lyrics # None, ~answer[m].chinese, answer[m].trans = None,
               NEW p \in Having("lyrics"), ~answer[p].chinese, answer[p].trans # None
        PROVE  FALSE
    <3>1. Score(m) <= 111 /\ Score(m) \in Int
      BY <1>2, <1>3, <1>4, <2>3, Scores
    <3>2. p \in Enabled /\ Score(p) >= 200 /\ Score(p) \in Int
      BY <1>3, <1>4, <2>3, Scores
    <3>3. QED
      BY <2>1, <3>1, <3>2
  <2>4. QED
    BY <1>1, <2>2, <2>3
<1>7. QED
  BY <1>2, <1>5, <1>6

LEMMA ResultIsBest == LyricsIInv => NoGap /\ TranslationBelongs
<1> SUFFICES ASSUME LyricsIInv, best # NoAnswer PROVE NoGap /\ TranslationBelongs
  BY DEF NoGap, TranslationBelongs
<1>1. PICK d : d = answer[Primary]
  OBVIOUS
<1>2. /\ \A p \in Enabled : answer[p] # NoAnswer
      /\ best = SupplementMissing(d)
  BY <1>1 DEF LyricsIInv
<1>3. d \in Own(Primary) /\ d \in Metadata
  BY <1>1, <1>2, PrimaryChosen DEF LyricsIInv
<1>4. /\ best.lyrics = None => Having("lyrics") = {}
      /\ best.cover = None => Having("cover") = {}
      /\ best.album = None => Having("album") = {}
      /\ best.artist = None => Having("artist") = {}
      /\ best.lyrics # None /\ ~best.chinese /\ best.trans = None => Having("trans") = {}
      /\ Having("lyrics") = {} => best.lyrics = d.lyrics
      /\ d.lyrics # None =>
            /\ best.lyrics = d.lyrics
            /\ d.trans # None \/ d.chinese => best.trans = d.trans
  BY <1>2, <1>3, Supplemented
<1>5. NoGap
  BY <1>4 DEF NoGap
<1>6. TranslationBelongs
  <2>1. SUFFICES ASSUME best.lyrics # None, best.trans \notin {None, best.lyrics}
                 PROVE  \A p \in Having("lyrics") : answer[p].chinese \/ answer[p].trans = None
    BY DEF TranslationBelongs
  <2>2. CASE d.lyrics = None
    BY <1>1, <1>2, <1>4, <2>2, PrimaryIsBest
  <2>3. CASE d.lyrics # None
    <3>1. d.trans = None /\ ~d.chinese
      BY <1>3, <1>4, <2>1, <2>3 DEF Own
    <3>2. QED
      BY <1>1, <1>2, <2>3, <3>1, PrimaryIsBest
  <2>4. QED
    BY <2>2, <2>3
<1>7. QED
  BY <1>5, <1>6

LEMMA LyricsInductive == LyricsSpec => []LyricsIInv
<1>1. LyricsInit => LyricsIInv
  BY InitLyrics
<1>2. LyricsIInv /\ [LyricsNext]_lyricsVars => LyricsIInv'
  BY NextLyrics
<1>3. QED
  BY <1>1, <1>2, PTL DEF LyricsSpec

(* What fetchBest returns misses nothing that a platform answered, wherever *)
(* the requests of the others failed, for any selection of the platforms    *)
(* and any preference.                                                      *)
THEOREM NothingMissing == LyricsSpec => []NoGap
  BY LyricsInductive, ResultIsBest, PTL

(* Lyrics and translation are of two platforms only when no platform has    *)
(* foreign lyrics with their translation: the scores of missingScore are    *)
(* far enough apart.                                                        *)
THEOREM OneSource == LyricsSpec => []TranslationBelongs
  BY LyricsInductive, ResultIsBest, PTL
=============================================================================

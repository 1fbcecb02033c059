------------------------------- MODULE Logger ---------------------------------
(***************************************************************************)
(* The log of src/core/logger.cpp: threads append lines to a queue, one     *)
(* writer thread takes them off and writes them to a file that is renamed   *)
(* to a backup when it grows too large, and main stops the writer before    *)
(* the process ends.                                                       *)
(*                                                                         *)
(* queueMutex_ is held within one step, except by the writer between its    *)
(* test of the condition and its wait, where shutdown(), which takes no     *)
(* lock, may come in.  A line is the thread that logged it and its number.  *)
(* Lines below the configured level and the console are left out; so is     *)
(* fileMutex_, which the writer alone takes after init().                   *)
(***************************************************************************)
EXTENDS Integers, Sequences, SequencesExt

CONSTANTS Threads,   \* threads that log
          Main,      \* the one that calls shutdown()
          Lines,     \* bound: lines logged by a thread
          MaxSize    \* max_size_mb, in lines

ASSUME ThreadsAssumption == Main \in Threads
ASSUME SizesAssumption == Lines \in Nat /\ MaxSize \in Nat

VARIABLES queue,     \* logQueue_
          thread,    \* [Threads -> [pc, n]]: step of log(), lines logged
          main,      \* the step of shutdown() main is at
          shutdown,  \* shutdown_
          writer,    \* the writer thread: [pc, msg]
          rest,      \* remaining, the lines swapped out at the end
          file, backup, isOpen,   \* the log file, the renamed one, file_.is_open()
          pushed, out, before     \* history: lines queued, lines handed to
                                  \* writeToFile, lines queued before shutdown()

disk    == <<file, backup, isOpen>>
history == <<pushed, out, before>>
vars    == <<queue, thread, main, shutdown, writer, rest, disk, history>>

Line == Threads \X (1 .. Lines)

Init == /\ queue = <<>> /\ rest = <<>>
        /\ thread = [t \in Threads |-> [pc |-> "idle", n |-> 0]]
        /\ main = "run" /\ shutdown = FALSE
        /\ writer = [pc |-> "lock", msg |-> <<>>]
        /\ file = <<>> /\ backup = <<>> /\ isOpen \in BOOLEAN
        /\ pushed = <<>> /\ out = <<>> /\ before = 0

WriterAt(pc) == writer' = [writer EXCEPT !.pc = pc]
MutexFree == writer.pc \notin {"test", "block"}

(* notify_one, notify_all: the writer is the only one that waits.           *)
Notify == IF writer.pc = "waiting" THEN WriterAt("lock") ELSE UNCHANGED writer

-----------------------------------------------------------------------------
(* log(): the line is queued under the lock, the writer notified after it.  *)
NewLine(t) == <<t, thread[t].n + 1>>
MayLog(t)  == /\ thread[t].pc = "idle" /\ thread[t].n < Lines
              /\ t = Main => main = "run"

Push(t) ==
    /\ MayLog(t) /\ MutexFree
    /\ queue' = Append(queue, NewLine(t)) /\ pushed' = Append(pushed, NewLine(t))
    /\ thread' = [thread EXCEPT ![t] = [pc |-> "notify", n |-> @.n + 1]]
    /\ UNCHANGED <<main, shutdown, writer, rest, disk, out, before>>

(* Mutant: the writer is not notified.                                      *)
NotifyNobody(t) == /\ thread[t].pc = "notify"
                   /\ thread' = [thread EXCEPT ![t].pc = "idle"]
                   /\ UNCHANGED <<queue, main, shutdown, writer, rest, disk, history>>
NotifyOne(t) == /\ thread[t].pc = "notify"
                /\ thread' = [thread EXCEPT ![t].pc = "idle"] /\ Notify
                /\ UNCHANGED <<queue, main, shutdown, rest, disk, history>>

-----------------------------------------------------------------------------
(* shutdown(), after main's own last line.                                  *)
SetFlag == /\ main = "run" /\ thread[Main] = [pc |-> "idle", n |-> Lines]
           /\ shutdown' = TRUE /\ main' = "notify"
           /\ before' = Len(pushed)
           /\ UNCHANGED <<queue, thread, writer, rest, disk, pushed, out>>

NotifyAll == /\ main = "notify" /\ main' = "join"
             /\ Notify
             /\ UNCHANGED <<queue, thread, shutdown, rest, disk, history>>

(* Mutant: shutdown() does not wait for the writer.                         *)
JoinNobody == /\ main = "join" /\ main' = "exit"
              /\ UNCHANGED <<queue, thread, shutdown, writer, rest, disk, history>>
Join == /\ main = "join" /\ writer.pc = "done"
        /\ main' = "exit"
        /\ UNCHANGED <<queue, thread, shutdown, writer, rest, disk, history>>

-----------------------------------------------------------------------------
(* writerThread().  The mutex is held at "test" and "block".                *)
Lock == /\ writer.pc = "lock" /\ WriterAt("test")
        /\ UNCHANGED <<queue, thread, main, shutdown, rest, disk, history>>

(* Mutant: only the queue ends the wait.                                    *)
TestQueue ==
    /\ writer.pc = "test"
    /\ \/ queue = <<>> /\ WriterAt("block") /\ UNCHANGED queue
       \/ /\ queue # <<>>
          /\ writer' = [pc |-> "write", msg |-> <<Head(queue)>>]
          /\ queue' = Tail(queue)
    /\ UNCHANGED <<thread, main, shutdown, rest, disk, history>>
(* The condition, and the test after wait() that ends the loop.             *)
Test ==
    /\ writer.pc = "test"
    /\ \/ /\ queue = <<>> /\ ~shutdown
          /\ WriterAt("block") /\ UNCHANGED queue
       \/ /\ queue = <<>> /\ shutdown
          /\ WriterAt("drain") /\ UNCHANGED queue
       \/ /\ queue # <<>>
          /\ writer' = [pc |-> "write", msg |-> <<Head(queue)>>]
          /\ queue' = Tail(queue)
    /\ UNCHANGED <<thread, main, shutdown, rest, disk, history>>

(* Waiting begins and the mutex is released at once.                        *)
Block == /\ writer.pc = "block" /\ WriterAt("waiting")
         /\ UNCHANGED <<queue, thread, main, shutdown, rest, disk, history>>

SpuriousWakeup == /\ writer.pc = "waiting" /\ WriterAt("lock")
                  /\ UNCHANGED <<queue, thread, main, shutdown, rest, disk, history>>

(* Mutant: a file that is too large is begun anew.                          *)
TruncateIfNeeded(f) == /\ IF Len(f) > MaxSize THEN file' = <<>> ELSE file' = f
                       /\ UNCHANGED <<backup, isOpen>>
(* rotateIfNeeded.  What throws is swallowed: file_size, and then the file  *)
(* goes on growing, or rename, and then it stays closed, as it does when it *)
(* cannot be opened again.                                                  *)
RotateIfNeeded(f) ==
    \/ file' = f /\ UNCHANGED <<backup, isOpen>>
    \/ /\ Len(f) > MaxSize
       /\ \/ file' = f /\ isOpen' = FALSE /\ UNCHANGED backup
          \/ file' = <<>> /\ backup' = f /\ isOpen' \in BOOLEAN

WriteToFile(line) == /\ out' = Append(out, line)
                     /\ IF isOpen THEN RotateIfNeeded(Append(file, line)) ELSE UNCHANGED disk

Write == /\ writer.pc = "write"
         /\ WriteToFile(Head(writer.msg))
         /\ writer' = [pc |-> "lock", msg |-> <<>>]
         /\ UNCHANGED <<queue, thread, main, shutdown, rest, pushed, before>>

(* Mutant: the lines that came in since the test are forgotten.             *)
DrainNothing == /\ writer.pc = "drain"
                /\ queue' = <<>>
                /\ WriterAt("flush")
                /\ UNCHANGED <<thread, main, shutdown, rest, disk, history>>
(* Lines that came in since the test are written before the thread ends.    *)
Drain == /\ writer.pc = "drain"
         /\ rest' = queue /\ queue' = <<>>
         /\ WriterAt("flush")
         /\ UNCHANGED <<thread, main, shutdown, disk, history>>

Flush == /\ writer.pc = "flush"
         /\ IF rest = <<>>
            THEN WriterAt("done") /\ UNCHANGED <<rest, disk, out>>
            ELSE WriteToFile(Head(rest)) /\ rest' = Tail(rest) /\ UNCHANGED writer
         /\ UNCHANGED <<queue, thread, main, shutdown, pushed, before>>

Writer == Lock \/ Test \/ Block \/ Write \/ Drain \/ Flush
Log(t) == Push(t) \/ NotifyOne(t)
Next == \/ \E t \in Threads : Log(t)
        \/ SetFlag \/ NotifyAll \/ Join
        \/ Writer \/ SpuriousWakeup

Fairness == WF_vars(Writer) /\ WF_vars(Join) /\ \A t \in Threads : WF_vars(NotifyOne(t))
Spec == Init /\ [][Next]_vars /\ Fairness

-----------------------------------------------------------------------------
TypeOK == /\ queue \in Seq(Line) /\ rest \in Seq(Line)
          /\ file \in Seq(Line) /\ backup \in Seq(Line) /\ isOpen \in BOOLEAN
          /\ pushed \in Seq(Line) /\ out \in Seq(Line) /\ before \in Nat
          /\ thread \in [Threads -> [pc : {"idle", "notify"}, n : 0 .. Lines]]
          /\ main \in {"run", "notify", "join", "exit"} /\ shutdown \in BOOLEAN
          /\ writer \in [pc : {"lock", "test", "block", "waiting", "write", "drain",
                              "flush", "done"}, msg : Seq(Line)]

(* The lines are written in the order they were queued, each once: whatever *)
(* the threads and the shutdown do, a queued line is written, in the        *)
(* writer's hands or still queued.                                          *)
InOrderOnce == pushed = out \o writer.msg \o rest \o queue

(* shutdown() returns when all that was logged before it has been written.  *)
ShutdownFlushes == main = "exit" => Len(out) >= before

(* While the file can be written, backup and file are the latest lines in   *)
(* order, without a gap at the rotation, and as many as one file holds.     *)
RecentOnDisk ==
    isOpen => /\ IsSuffix(backup \o file, out)
              /\ Len(backup \o file) >= Len(out) \/ Len(backup \o file) > MaxSize

(* A queued line is written in the end: its notification is not lost,       *)
(* whichever way it meets the writer.  Only lines queued when the writer    *)
(* has made its last swap are not, and no one takes them any more.          *)
EveryLineWritten ==
    \A l \in Line :
        (writer.pc \notin {"flush", "done"} /\ l \in ToSet(queue)) ~> l \in ToSet(out)

(* shutdown() returns: the writer does not miss that it is to end, unless   *)
(* it had tested the flag and was not waiting yet when it was notified.     *)
ShutdownReturns ==
    (main = "join" /\ writer.pc \notin {"block", "waiting"}) ~> main = "exit"
===============================================================================

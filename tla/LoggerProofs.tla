----------------------------- MODULE LoggerProofs -----------------------------
(* The log loses, doubles and reorders nothing, and shutdown() returns only *)
(* when what came before it is written, for any number of threads and lines *)
(* and any size of the file.                                               *)
EXTENDS Logger, SequenceTheorems, TLAPS

(* What the writer holds, by where it is.                                   *)
Hands == /\ writer.pc = "write" => Len(writer.msg) = 1
         /\ writer.pc # "write" => writer.msg = <<>>
         /\ writer.pc # "flush" => rest = <<>>

(* What is known of the shutdown: the writer ends only after it, and then   *)
(* has written what came before; lines of later may still be queued.        *)
Ending == /\ main = "run" => ~shutdown
          /\ shutdown => before <= Len(pushed)
          /\ writer.pc \in {"drain", "flush", "done"} => shutdown /\ before <= Len(out)
          /\ main = "exit" => writer.pc = "done"

IInv == TypeOK /\ Hands /\ InOrderOnce /\ Ending

(* A sequence is its head and its tail.                                     *)
LEMMA FirstAndRest ==
    ASSUME NEW S, NEW s \in Seq(S), s # <<>>
    PROVE  Head(s) \in S /\ Tail(s) \in Seq(S) /\ s = <<Head(s)>> \o Tail(s)
<1>1. Head(s) \in S /\ Tail(s) \in Seq(S) /\ Len(Tail(s)) = Len(s) - 1
      /\ \A i \in 1 .. Len(Tail(s)) : Tail(s)[i] = s[i + 1]
  BY HeadTailProperties
<1>2. <<Head(s)>> \in Seq(S) /\ Len(s) \in Nat \ {0} /\ Head(s) = s[1]
  BY <1>1, EmptySeq
<1>3. /\ <<Head(s)>> \o Tail(s) \in Seq(S) /\ Len(<<Head(s)>> \o Tail(s)) = Len(s)
      /\ \A i \in 1 .. Len(s) : (<<Head(s)>> \o Tail(s))[i] = s[i]
  BY <1>1, <1>2, ConcatProperties
<1> QED BY <1>1, <1>3, SeqEqual

(* The first line of one sequence passes to the end of another.             *)
LEMMA Passes ==
    ASSUME NEW a \in Seq(Line), NEW q \in Seq(Line), q # <<>>
    PROVE  /\ (a \o <<Head(q)>>) \o Tail(q) = a \o q
           /\ Append(a, Head(q)) = a \o <<Head(q)>> /\ a \o <<Head(q)>> \in Seq(Line)
           /\ Append(a, Head(q)) \in Seq(Line) /\ Len(Append(a, Head(q))) >= Len(a)
<1>1. /\ Head(q) \in Line /\ Tail(q) \in Seq(Line) /\ <<Head(q)>> \in Seq(Line)
      /\ q = <<Head(q)>> \o Tail(q)
  BY FirstAndRest
<1>2. (a \o <<Head(q)>>) \o Tail(q) = a \o (<<Head(q)>> \o Tail(q))
  BY <1>1, ConcatAssociative
<1>3. Append(a, Head(q)) = a \o <<Head(q)>> /\ Append(a, Head(q)) \in Seq(Line)
      /\ Len(Append(a, Head(q))) = Len(a) + 1
  BY <1>1, AppendIsConcat, AppendProperties
<1> QED BY <1>1, <1>2, <1>3, LenProperties

(* A line that is appended to the second of two is the last of both.        *)
LEMMA Arrives ==
    ASSUME NEW a \in Seq(Line), NEW q \in Seq(Line), NEW x \in Line
    PROVE  Append(a \o q, x) = a \o Append(q, x)
<1>1. <<x>> \in Seq(Line) /\ a \o q \in Seq(Line)
  BY ConcatProperties
<1>2. Append(q, x) = q \o <<x>> /\ Append(a \o q, x) = (a \o q) \o <<x>>
  BY <1>1, AppendIsConcat
<1> QED BY <1>1, <1>2, ConcatAssociative

LEMMA InitIInv == Init => IInv
<1> SUFFICES ASSUME Init PROVE IInv
  OBVIOUS
<1>1. TypeOK
  <2>1. [t \in Threads |-> [pc |-> "idle", n |-> 0]]
            \in [Threads -> [pc : {"idle", "notify"}, n : 0 .. Lines]]
    BY SizesAssumption
  <2>2. <<>> \in Seq(Line)
    OBVIOUS
  <2> QED BY <2>1, <2>2 DEF TypeOK, Init
<1>2. Hands /\ Ending
  BY DEF Init, Hands, Ending
<1>3. InOrderOnce
  BY ConcatEmptySeq, EmptySeq DEF Init, InOrderOnce
<1> QED BY <1>1, <1>2, <1>3 DEF IInv

(* writeToFile hands on one line and leaves a file and a backup of lines.   *)
LEMMA Written ==
    ASSUME file \in Seq(Line), backup \in Seq(Line), isOpen \in BOOLEAN,
           out \in Seq(Line), NEW line \in Line, WriteToFile(line)
    PROVE  /\ out' = Append(out, line)
           /\ file' \in Seq(Line) /\ backup' \in Seq(Line) /\ isOpen' \in BOOLEAN
<1>1. Append(file, line) \in Seq(Line) /\ <<>> \in Seq(Line)
  BY AppendProperties
<1>2. CASE ~isOpen
  BY <1>2 DEF WriteToFile, disk
<1>3. CASE isOpen /\ RotateIfNeeded(Append(file, line))
  BY <1>1, <1>3 DEF WriteToFile, RotateIfNeeded
<1> QED BY <1>2, <1>3 DEF WriteToFile

(* A notification moves the writer at most from its wait to the lock.       *)
LEMMA Notified ==
    ASSUME TypeOK, Notify
    PROVE  /\ writer' \in [pc : {"lock", "test", "block", "waiting", "write", "drain",
                                "flush", "done"}, msg : Seq(Line)]
           /\ writer'.msg = writer.msg
           /\ writer'.pc # writer.pc => writer.pc = "waiting" /\ writer'.pc = "lock"
  BY DEF Notify, WriterAt, TypeOK

(* A step of the writer.                                                    *)
LEMMA WriterStep == ASSUME IInv, Writer PROVE IInv'
<1> USE DEF IInv, WriterAt
<1>0. /\ queue \in Seq(Line) /\ rest \in Seq(Line) /\ file \in Seq(Line)
      /\ backup \in Seq(Line) /\ pushed \in Seq(Line) /\ out \in Seq(Line)
      /\ writer.msg \in Seq(Line) /\ isOpen \in BOOLEAN /\ before \in Nat
      /\ writer \in [pc : {"lock", "test", "block", "waiting", "write", "drain",
                           "flush", "done"}, msg : Seq(Line)]
  BY DEF TypeOK
<1>1. CASE Lock \/ Block
  <2>1. writer'.msg = writer.msg /\ writer'.pc \in {"test", "waiting"}
        /\ writer.pc \in {"lock", "block"}
        /\ writer' \in [pc : {"test", "waiting"}, msg : Seq(Line)]
        /\ UNCHANGED <<queue, thread, main, shutdown, rest, disk, history>>
    BY <1>0, <1>1 DEF Lock, Block
  <2> QED BY <2>1 DEF TypeOK, Hands, InOrderOnce, Ending, disk, history
<1>2. CASE Test
  <2>0. /\ writer.pc = "test" /\ writer.msg = <<>> /\ rest = <<>>
        /\ UNCHANGED <<thread, main, shutdown, rest, disk, history>>
    BY <1>2 DEF Test, Hands
  <2>1. out \o <<>> = out /\ (out \o <<>>) \o <<>> = out
    BY <1>0, ConcatEmptySeq
  <2>2. pushed = out \o queue
    BY <2>0, <2>1 DEF InOrderOnce
  <2>3. CASE queue = <<>>
    <3>1. out = pushed
      BY <2>1, <2>2, <2>3
    <3>2. /\ writer'.pc = IF shutdown THEN "drain" ELSE "block"
          /\ writer'.msg = <<>> /\ writer' \in [pc : {"drain", "block"}, msg : Seq(Line)]
          /\ queue' = queue
      BY <1>0, <1>2, <2>0, <2>3 DEF Test, TypeOK
    <3> QED BY <1>0, <2>0, <3>1, <3>2 DEF TypeOK, Hands, InOrderOnce, Ending, disk, history
  <2>4. CASE queue # <<>>
    <3>1. writer' = [pc |-> "write", msg |-> <<Head(queue)>>] /\ queue' = Tail(queue)
      BY <1>2, <2>4 DEF Test
    <3>2. /\ Head(queue) \in Line /\ Tail(queue) \in Seq(Line)
          /\ queue = <<Head(queue)>> \o Tail(queue)
      BY <1>0, <2>4, FirstAndRest
    <3>3. /\ (out \o <<Head(queue)>>) \o Tail(queue) = out \o queue
          /\ (out \o <<Head(queue)>>) \o <<>> = out \o <<Head(queue)>>
      <4>1. out \o <<Head(queue)>> \in Seq(Line)
        BY <1>0, <2>4, Passes
      <4>2. (out \o <<Head(queue)>>) \o <<>> = out \o <<Head(queue)>>
        BY <4>1, ConcatEmptySeq
      <4>3. (out \o <<Head(queue)>>) \o Tail(queue) = out \o queue
        BY <1>0, <2>4, Passes
      <4> QED BY <4>2, <4>3
    <3>4. InOrderOnce'
      BY <2>0, <2>2, <3>1, <3>3 DEF InOrderOnce, history
    <3> QED BY <1>0, <2>0, <3>1, <3>2, <3>4 DEF TypeOK, Hands, Ending, disk, history
  <2> QED BY <2>3, <2>4
<1>3. CASE Write
  <2>1. /\ writer.pc = "write" /\ writer' = [pc |-> "lock", msg |-> <<>>]
        /\ UNCHANGED <<queue, thread, main, shutdown, rest, pushed, before>>
        /\ WriteToFile(Head(writer.msg)) /\ rest = <<>>
    BY <1>3 DEF Write, Hands
  <2>2. Head(writer.msg) \in Line /\ writer.msg = <<Head(writer.msg)>>
    BY <1>0, <2>1 DEF Hands
  <2>3. /\ out' = Append(out, Head(writer.msg)) /\ out' \in Seq(Line)
        /\ Len(out') >= Len(out)
        /\ file' \in Seq(Line) /\ backup' \in Seq(Line) /\ isOpen' \in BOOLEAN
    <3>1. writer.msg # <<>>
      BY <2>2
    <3>2. /\ Append(out, Head(writer.msg)) \in Seq(Line)
          /\ Len(Append(out, Head(writer.msg))) >= Len(out)
      BY <1>0, <3>1, Passes
    <3>3. /\ out' = Append(out, Head(writer.msg))
          /\ file' \in Seq(Line) /\ backup' \in Seq(Line) /\ isOpen' \in BOOLEAN
      BY <1>0, <2>1, <2>2, Written
    <3> QED BY <3>2, <3>3
  <2>4. out' = out \o writer.msg /\ out' \o <<>> = out'
    <3>1. writer.msg # <<>>
      BY <2>2
    <3>2. Append(out, Head(writer.msg)) = out \o <<Head(writer.msg)>>
      BY <1>0, <3>1, Passes
    <3> QED BY <2>2, <2>3, <3>2, ConcatEmptySeq
  <2>5. InOrderOnce'
    BY <2>1, <2>4 DEF InOrderOnce
  <2> QED BY <1>0, <2>1, <2>3, <2>5 DEF TypeOK, Hands, Ending
<1>4. CASE Drain
  <2>1. /\ writer.pc = "drain" /\ writer'.pc = "flush" /\ writer'.msg = writer.msg
        /\ writer' \in [pc : {"flush"}, msg : Seq(Line)] /\ writer.msg = <<>>
        /\ rest = <<>> /\ rest' = queue /\ queue' = <<>>
        /\ UNCHANGED <<thread, main, shutdown, disk, history>>
    BY <1>0, <1>4 DEF Drain, Hands
  <2>2. /\ out \o <<>> = out /\ out \o queue \in Seq(Line)
        /\ (out \o queue) \o <<>> = out \o queue
    BY <1>0, ConcatProperties, ConcatEmptySeq
  <2>3. InOrderOnce'
    BY <2>1, <2>2 DEF InOrderOnce, history
  <2> QED BY <1>0, <2>1, <2>3 DEF TypeOK, Hands, Ending, disk, history
<1>5. CASE Flush
  <2>1. /\ writer.pc = "flush" /\ writer.msg = <<>>
        /\ UNCHANGED <<queue, thread, main, shutdown, pushed, before>>
    BY <1>5 DEF Flush, Hands
  <2>2. CASE rest = <<>>
    <3>1. /\ writer'.pc = "done" /\ writer'.msg = writer.msg
          /\ writer' \in [pc : {"done"}, msg : Seq(Line)]
          /\ UNCHANGED <<rest, disk, out>>
      BY <1>0, <1>5, <2>2 DEF Flush
    <3> QED BY <1>0, <2>1, <2>2, <3>1 DEF TypeOK, Hands, InOrderOnce, Ending, disk
  <2>3. CASE rest # <<>>
    <3>1. WriteToFile(Head(rest)) /\ rest' = Tail(rest) /\ UNCHANGED writer
      BY <1>5, <2>3 DEF Flush
    <3>2. /\ Head(rest) \in Line /\ Tail(rest) \in Seq(Line)
          /\ rest = <<Head(rest)>> \o Tail(rest)
      BY <1>0, <2>3, FirstAndRest
    <3>3. /\ out' = Append(out, Head(rest)) /\ out' \in Seq(Line)
          /\ Len(out') >= Len(out)
          /\ file' \in Seq(Line) /\ backup' \in Seq(Line) /\ isOpen' \in BOOLEAN
      <4>1. /\ Append(out, Head(rest)) \in Seq(Line)
            /\ Len(Append(out, Head(rest))) >= Len(out)
        BY <1>0, <2>3, Passes
      <4>2. /\ out' = Append(out, Head(rest))
            /\ file' \in Seq(Line) /\ backup' \in Seq(Line) /\ isOpen' \in BOOLEAN
        BY <1>0, <3>1, <3>2, Written
      <4> QED BY <4>1, <4>2
    <3>4. out' \o <<>> = out' /\ out' \o Tail(rest) = out \o rest /\ out \o <<>> = out
      <4>1. /\ (out \o <<Head(rest)>>) \o Tail(rest) = out \o rest
            /\ Append(out, Head(rest)) = out \o <<Head(rest)>>
        BY <1>0, <2>3, Passes
      <4> QED BY <1>0, <3>3, <4>1, ConcatEmptySeq
    <3>5. InOrderOnce'
      BY <2>1, <3>1, <3>4 DEF InOrderOnce
    <3>6. TypeOK'
      BY <2>1, <3>1, <3>2, <3>3 DEF TypeOK
    <3>7. Len(out) \in Nat /\ Len(out') \in Nat
      BY <1>0, <3>3
    <3>8. Hands'
      BY <2>1, <3>1 DEF Hands
    <3>9. Ending'
      BY <1>0, <2>1, <3>1, <3>3, <3>7 DEF Ending
    <3> QED BY <3>5, <3>6, <3>8, <3>9
  <2> QED BY <2>2, <2>3
<1> QED BY <1>1, <1>2, <1>3, <1>4, <1>5 DEF Writer

(* One that queues a line, or notifies the writer.                          *)
LEMMA LogStep == ASSUME IInv, NEW t \in Threads, Log(t) PROVE IInv'
<1> USE DEF IInv
<1>0. /\ queue \in Seq(Line) /\ rest \in Seq(Line) /\ pushed \in Seq(Line)
      /\ out \in Seq(Line) /\ writer.msg \in Seq(Line) /\ before \in Nat
      /\ thread \in [Threads -> [pc : {"idle", "notify"}, n : 0 .. Lines]]
  BY DEF TypeOK
<1>1. CASE Push(t)
  <2>2. /\ queue' = Append(queue, NewLine(t)) /\ pushed' = Append(pushed, NewLine(t))
        /\ thread' = [thread EXCEPT ![t] = [pc |-> "notify", n |-> @.n + 1]]
        /\ thread[t].n < Lines
        /\ UNCHANGED <<main, shutdown, writer, rest, disk, out, before>>
    BY <1>1 DEF Push, MayLog
  <2>3. NewLine(t) \in Line
    BY SizesAssumption, <1>0, <2>2 DEF NewLine, Line
  <2>4. queue' \in Seq(Line) /\ pushed' \in Seq(Line) /\ Len(pushed') >= Len(pushed)
    BY <1>0, <2>2, <2>3
  <2>5. thread' \in [Threads -> [pc : {"idle", "notify"}, n : 0 .. Lines]]
    BY SizesAssumption, <1>0, <2>2
  <2>6. (out \o writer.msg) \o rest \in Seq(Line)
    BY <1>0, ConcatProperties
  <2>7. InOrderOnce'
    <3>1. Append(((out \o writer.msg) \o rest) \o queue, NewLine(t))
              = ((out \o writer.msg) \o rest) \o Append(queue, NewLine(t))
      BY <1>0, <2>3, <2>6, Arrives
    <3> QED BY <2>2, <3>1 DEF InOrderOnce
  <2>8. TypeOK'
    BY <2>2, <2>4, <2>5 DEF TypeOK, disk
  <2>9. Hands' /\ Ending'
    BY <1>0, <2>2, <2>4 DEF Hands, Ending, disk
  <2> QED BY <2>7, <2>8, <2>9
<1>2. CASE NotifyOne(t)
  <2>1. thread' \in [Threads -> [pc : {"idle", "notify"}, n : 0 .. Lines]]
    BY <1>0, <1>2 DEF NotifyOne
  <2> QED BY <1>2, <2>1, Notified DEF NotifyOne, TypeOK, Hands, InOrderOnce, Ending, disk, history
<1> QED BY <1>1, <1>2 DEF Log

(* One of shutdown(), or a wakeup without a notification.                   *)
LEMMA OtherStep == ASSUME IInv, SetFlag \/ NotifyAll \/ Join \/ SpuriousWakeup PROVE IInv'
<1> USE DEF IInv
<1>1. CASE SetFlag
  <2>1. pushed \in Seq(Line)
    BY DEF TypeOK
  <2> QED BY <1>1, <2>1 DEF SetFlag, TypeOK, Hands, InOrderOnce, Ending, disk
<1>2. CASE NotifyAll
  BY <1>2, Notified DEF NotifyAll, TypeOK, Hands, InOrderOnce, Ending, disk, history
<1>3. CASE Join
  BY <1>3 DEF Join, TypeOK, Hands, InOrderOnce, Ending, disk, history
<1>4. CASE SpuriousWakeup
  BY <1>4 DEF SpuriousWakeup, WriterAt, TypeOK, Hands, InOrderOnce, Ending, disk, history
<1> QED BY <1>1, <1>2, <1>3, <1>4

LEMMA NextIInv == IInv /\ [Next]_vars => IInv'
<1> SUFFICES ASSUME IInv, [Next]_vars PROVE IInv'
  OBVIOUS
<1>1. CASE UNCHANGED vars
  BY <1>1 DEF vars, disk, history, IInv, TypeOK, Hands, InOrderOnce, Ending
<1>2. CASE Next
  BY <1>2, WriterStep, LogStep, OtherStep DEF Next
<1> QED BY <1>1, <1>2

(* What the writers hold, the queue and the files go together.              *)
THEOREM Inductive == Spec => []IInv
  BY InitIInv, NextIInv, PTL DEF Spec

(* The queue, the files and the threads are well typed.                     *)
THEOREM Typing == Spec => []TypeOK
  BY Inductive, PTL DEF IInv

(* Each line is written once and in the order of the queue, whatever the    *)
(* threads, the shutdown and failing rotations do.                          *)
THEOREM NothingLost == Spec => []InOrderOnce
  BY Inductive, PTL DEF IInv

(* shutdown() returns only when all that was logged before it is written.   *)
THEOREM ShutdownWaits == Spec => []ShutdownFlushes
<1>1. IInv => ShutdownFlushes
  BY DEF IInv, TypeOK, Ending, ShutdownFlushes
<1> QED BY <1>1, Inductive, PTL

-----------------------------------------------------------------------------
(* The files.  A suffix agrees with the sequence counted from the end.      *)
LEMMA FromTheEnd ==
    ASSUME NEW S, NEW s \in Seq(S), NEW t \in Seq(S)
    PROVE  IsSuffix(s, t) <=>
               /\ Len(s) <= Len(t)
               /\ \A j \in 0 .. Len(s) - 1 : s[Len(s) - j] = t[Len(t) - j]
<1>0. Len(s) \in Nat /\ Len(t) \in Nat
  OBVIOUS
<1>1. /\ Reverse(s) = [i \in 1 .. Len(s) |-> s[(Len(s) - i) + 1]]
      /\ Reverse(t) = [i \in 1 .. Len(t) |-> t[(Len(t) - i) + 1]]
  BY DEF Reverse
<1>2. /\ \A i \in 1 .. Len(s) : s[(Len(s) - i) + 1] \in S
      /\ \A i \in 1 .. Len(t) : t[(Len(t) - i) + 1] \in S
  BY <1>0
<1>3. /\ Reverse(s) \in Seq(S) /\ Len(Reverse(s)) = Len(s)
      /\ Reverse(t) \in Seq(S) /\ Len(Reverse(t)) = Len(t)
  BY <1>0, <1>1, <1>2
<1>4. SubSeq(Reverse(s), 1, Len(s)) = Reverse(s)
  BY <1>3, SubSeqFull
<1>5. ASSUME Len(s) <= Len(t)
      PROVE  /\ SubSeq(Reverse(t), 1, Len(s)) \in Seq(S)
             /\ Len(SubSeq(Reverse(t), 1, Len(s))) = Len(s)
             /\ \A i \in 1 .. Len(s) :
                    SubSeq(Reverse(t), 1, Len(s))[i] = Reverse(t)[i]
  <2>1. \A i \in 1 .. Len(s) : Reverse(t)[i] \in S
    BY <1>0, <1>1, <1>2, <1>5
  <2> QED BY <1>0, <1>3, <2>1
<1>6. IsSuffix(s, t) <=>
          /\ Len(s) <= Len(t)
          /\ \A i \in 1 .. Len(s) : Reverse(s)[i] = Reverse(t)[i]
  <2>1. IsSuffix(s, t) <=> /\ Len(s) <= Len(t)
                           /\ Reverse(s) = SubSeq(Reverse(t), 1, Len(s))
    BY <1>3, <1>4 DEF IsSuffix, IsPrefix
  <2>2. ASSUME Len(s) <= Len(t), \A i \in 1 .. Len(s) : Reverse(s)[i] = Reverse(t)[i]
        PROVE  Reverse(s) = SubSeq(Reverse(t), 1, Len(s))
    BY <1>3, <1>5, <2>2, SeqEqual
  <2> QED BY <1>5, <2>1, <2>2
<1>7. ASSUME Len(s) <= Len(t)
      PROVE  (\A i \in 1 .. Len(s) : Reverse(s)[i] = Reverse(t)[i])
             <=> (\A j \in 0 .. Len(s) - 1 : s[Len(s) - j] = t[Len(t) - j])
  <2>1. \A i \in 1 .. Len(s) : /\ Reverse(s)[i] = s[Len(s) - (i - 1)]
                               /\ Reverse(t)[i] = t[Len(t) - (i - 1)]
                               /\ i - 1 \in 0 .. Len(s) - 1
    BY <1>0, <1>1, <1>7
  <2>2. ASSUME \A i \in 1 .. Len(s) : Reverse(s)[i] = Reverse(t)[i],
               NEW j \in 0 .. Len(s) - 1
        PROVE  s[Len(s) - j] = t[Len(t) - j]
    <3>1. j + 1 \in 1 .. Len(s) /\ (j + 1) - 1 = j
      BY <1>0
    <3> QED BY <2>1, <2>2, <3>1
  <2> QED BY <2>1, <2>2
<1> QED BY <1>6, <1>7

LEMMA SuffixGrows ==
    ASSUME NEW S, NEW s \in Seq(S), NEW t \in Seq(S), NEW x \in S, IsSuffix(s, t)
    PROVE  IsSuffix(Append(s, x), Append(t, x))
<1>0. \A j \in 0 .. Len(s) - 1 : s[Len(s) - j] = t[Len(t) - j]
  BY FromTheEnd
<1>1. /\ Append(s, x) \in Seq(S) /\ Append(t, x) \in Seq(S)
      /\ Len(s) \in Nat /\ Len(t) \in Nat /\ Len(s) <= Len(t)
      /\ Len(Append(s, x)) = Len(s) + 1 /\ Len(Append(t, x)) = Len(t) + 1
  BY FromTheEnd
<1>2. ASSUME NEW j \in 0 .. Len(Append(s, x)) - 1
      PROVE  Append(s, x)[Len(Append(s, x)) - j] = Append(t, x)[Len(Append(t, x)) - j]
  <2>1. CASE j = 0
    BY <1>1, <2>1
  <2>2. CASE j # 0
    <3>1. j - 1 \in 0 .. Len(s) - 1
      BY <1>1, <1>2, <2>2
    <3>2. s[Len(s) - (j - 1)] = t[Len(t) - (j - 1)]
      BY <1>0, <3>1
    <3>3. /\ (Len(s) + 1) - j \in 1 .. Len(s) /\ (Len(s) + 1) - j = Len(s) - (j - 1)
          /\ (Len(t) + 1) - j \in 1 .. Len(t) /\ (Len(t) + 1) - j = Len(t) - (j - 1)
      BY <1>1, <3>1
    <3>4. /\ Append(s, x)[(Len(s) + 1) - j] = s[Len(s) - (j - 1)]
          /\ Append(t, x)[(Len(t) + 1) - j] = t[Len(t) - (j - 1)]
      BY <3>3, AppendProperties
    <3>5. Len(Append(s, x)) - j = (Len(s) + 1) - j /\ Len(Append(t, x)) - j = (Len(t) + 1) - j
      BY <1>1
    <3> QED BY <3>2, <3>3, <3>4, <3>5, Zenon
  <2> QED BY <2>1, <2>2
<1>3. Len(Append(s, x)) <= Len(Append(t, x))
  BY <1>1
<1> DEFINE a == Append(s, x)
           b == Append(t, x)
<1>4. /\ a \in Seq(S) /\ b \in Seq(S) /\ Len(a) <= Len(b)
      /\ \A j \in 0 .. Len(a) - 1 : a[Len(a) - j] = b[Len(b) - j]
  BY <1>1, <1>2, <1>3
<1> HIDE DEF a, b
<1>5. IsSuffix(a, b)
  BY <1>4, FromTheEnd
<1> QED BY <1>5 DEF a, b

LEMMA SuffixOfItself == ASSUME NEW S, NEW s \in Seq(S) PROVE IsSuffix(s, s)
  BY FromTheEnd

LEMMA SuffixOfSuffix ==
    ASSUME NEW S, NEW b \in Seq(S), NEW s \in Seq(S), NEW t \in Seq(S), IsSuffix(b \o s, t)
    PROVE  IsSuffix(s, t)
<1>1. /\ b \o s \in Seq(S) /\ Len(b \o s) = Len(b) + Len(s)
      /\ Len(b) \in Nat /\ Len(s) \in Nat /\ Len(t) \in Nat
      /\ \A i \in 1 .. Len(b) + Len(s) : (b \o s)[i] = IF i <= Len(b) THEN b[i] ELSE s[i - Len(b)]
  BY ConcatProperties
<1>2. Len(s) <= Len(t)
  <2>1. Len(b \o s) <= Len(t)
    BY <1>1, FromTheEnd
  <2> QED BY <1>1, <2>1
<1>3. ASSUME NEW j \in 0 .. Len(s) - 1 PROVE s[Len(s) - j] = t[Len(t) - j]
  <2>1. j \in 0 .. Len(b \o s) - 1 /\ Len(b \o s) - j \in 1 .. Len(b) + Len(s)
        /\ ~(Len(b \o s) - j <= Len(b)) /\ (Len(b \o s) - j) - Len(b) = Len(s) - j
    BY <1>1
  <2>2. (b \o s)[Len(b \o s) - j] = t[Len(t) - j]
    BY <1>1, <2>1, FromTheEnd
  <2> QED BY <1>1, <2>1, <2>2
<1> QED BY <1>2, <1>3, FromTheEnd

(* writeToFile keeps the latest lines, whether it rotates or fails to.      *)
LEMMA WrittenRecent ==
    ASSUME TypeOK, RecentOnDisk, NEW line \in Line, WriteToFile(line)
    PROVE  RecentOnDisk'
<1>0. file \in Seq(Line) /\ backup \in Seq(Line) /\ out \in Seq(Line) /\ isOpen \in BOOLEAN
  BY DEF TypeOK
<1>1. out' = Append(out, line)
  BY DEF WriteToFile
<1>2. CASE ~isOpen
  BY <1>2 DEF WriteToFile, RecentOnDisk, disk
<1>3. CASE isOpen
  <2> DEFINE f == Append(file, line)
  <2>1. /\ IsSuffix(backup \o file, out)
        /\ Len(backup \o file) >= Len(out) \/ Len(backup \o file) > MaxSize
        /\ RotateIfNeeded(f)
    BY <1>3 DEF WriteToFile, RecentOnDisk
  <2>2. /\ backup \o file \in Seq(Line) /\ f \in Seq(Line)
        /\ backup \o f = Append(backup \o file, line)
    BY <1>0, ConcatProperties, Arrives
  <2>3. IsSuffix(backup \o f, out')
    BY <1>0, <1>1, <2>1, <2>2, SuffixGrows
  <2>4. Len(backup \o f) >= Len(out') \/ Len(backup \o f) > MaxSize
    BY SizesAssumption, <1>0, <1>1, <2>1, <2>2
  <2>5. CASE file' = f /\ UNCHANGED <<backup, isOpen>>
    BY <2>3, <2>4, <2>5 DEF RecentOnDisk
  <2>6. CASE isOpen' = FALSE
    BY <2>6 DEF RecentOnDisk
  <2>7. CASE Len(f) > MaxSize /\ file' = <<>> /\ backup' = f
    <3>1. out' \in Seq(Line) /\ f \o <<>> = f
      BY <1>0, <1>1, <2>2, ConcatEmptySeq
    <3>2. IsSuffix(f, out')
      BY <1>0, <2>2, <2>3, <3>1, SuffixOfSuffix
    <3> QED BY <2>7, <3>1, <3>2 DEF RecentOnDisk
  <2> QED BY <2>1, <2>5, <2>6, <2>7 DEF RotateIfNeeded
<1> QED BY <1>0, <1>2, <1>3

(* While the file can be written, backup and file together are the latest   *)
(* lines without a gap, and as many as one file holds.                      *)
THEOREM RecentKept == Spec => []RecentOnDisk
<1>1. Init => RecentOnDisk
  <2> SUFFICES ASSUME Init PROVE RecentOnDisk
    OBVIOUS
  <2>1. /\ <<>> \in Seq(Line) /\ backup \o file = <<>> /\ out = <<>>
        /\ Len(<<>>) = 0
    BY ConcatEmptySeq, EmptySeq DEF Init
  <2>2. IsSuffix(<<>>, <<>>)
    BY <2>1, SuffixOfItself
  <2>3. IsSuffix(backup \o file, out)
    BY <2>1, <2>2, Zenon
  <2>4. Len(backup \o file) >= Len(out)
    BY <2>1
  <2> QED BY <2>3, <2>4 DEF RecentOnDisk
<1>2. IInv /\ RecentOnDisk /\ [Next]_vars => RecentOnDisk'
  <2> SUFFICES ASSUME IInv, RecentOnDisk, [Next]_vars PROVE RecentOnDisk'
    OBVIOUS
  <2>1. TypeOK /\ Hands
    BY DEF IInv
  <2>2. CASE Write
    <3>1. Head(writer.msg) \in Line
      BY <2>1, <2>2 DEF Write, TypeOK, Hands
    <3> QED BY <2>1, <2>2, <3>1, WrittenRecent DEF Write
  <2>3. CASE Flush
    <3>1. CASE rest = <<>>
      BY <2>3, <3>1 DEF Flush, RecentOnDisk, disk
    <3>2. CASE rest # <<>>
      <4>1. Head(rest) \in Line
        BY <2>1, <3>2 DEF TypeOK
      <4> QED BY <2>1, <2>3, <3>2, <4>1, WrittenRecent DEF Flush
    <3> QED BY <3>1, <3>2
  <2>4. CASE UNCHANGED <<file, backup, isOpen, out>>
    BY <2>4 DEF RecentOnDisk
  <2>5. ASSUME NEW t \in Threads, Log(t) PROVE UNCHANGED <<file, backup, isOpen, out>>
    BY <2>5 DEF Log, Push, NotifyOne, disk, history
  <2> QED BY <2>2, <2>3, <2>4, <2>5
          DEF Next, Writer, Lock, Test, Block, Drain, SetFlag, NotifyAll, Join,
              SpuriousWakeup, vars, disk, history
<1> QED BY <1>1, <1>2, Inductive, PTL DEF Spec
===============================================================================

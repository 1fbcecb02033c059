----------------------------- MODULE BrowserProofs ----------------------------
(* What the browser gets, on its three ways to the server, for any number   *)
(* of requests, tasks and downloads.                                        *)
(*                                                                         *)
(* The player gets the bytes it asked for, for a file, numbers, chunks and a *)
(* socket buffer of any size.  The card shows a success only of a task that *)
(* succeeded, and follows a task that is worked on, in front of any service *)
(* that keeps TaskPromise.  A download of an archive that shares its second *)
(* with no other gets its own songs, all of them, and no temporary file is  *)
(* left but for closed connections.                                         *)
EXTENDS RangeStream, TaskCard, BatchZip, SequenceTheorems, FiniteSetTheorems, TLAPS

-----------------------------------------------------------------------------
(* The player: RangeStream.                                                 *)

(* The range the server sends of an answer to h.                            *)
First(h) == ParseRange(h).start
Final(h) == Min({ParseRange(h).end, Size - 1})

(* What has been sent: the bytes from the first one on, and how far fileFd  *)
(* has got with them.                                                       *)
Bytes == got \o snd
Sent ==
    /\ \A i \in 1 .. Len(Bytes) : /\ Bytes[i] = First(asked) + i - 1
                                  /\ Bytes[i] <= Final(asked)
    /\ pc \in {"asked", "resolved"} => got = <<>> /\ snd = <<>>
    /\ pc = "sent" => First(asked) + Len(Bytes) > Final(asked)
Place ==
    IF pc \in {"sending", "blocked"} THEN fd = offset /\ offset = info.start + Len(Bytes)
                                     ELSE fd = Closed
Answer == /\ pc \in {"resolved", "sending", "blocked", "sent"} => info = ParseRange(asked)
          /\ pc \in {"sending", "blocked", "sent"} => reply = Headers(info)
StreamIInv == TypeOK /\ Sent /\ Place /\ Answer

-----------------------------------------------------------------------------
(* Min, of two or three numbers and of an interval; how long an interval is.*)
LEMMA LeastOfTwo ==
    ASSUME NEW a \in Int, NEW b \in Int
    PROVE  Min({a, b}) = IF a <= b THEN a ELSE b
<1>1. \E x \in {a, b} : \A y \in {a, b} : x <= y
  OBVIOUS
<1>2. Min({a, b}) \in {a, b} /\ \A y \in {a, b} : Min({a, b}) <= y
  BY <1>1 DEF Min
<1>3. PICK m : m = Min({a, b})
  OBVIOUS
<1>4. m \in {a, b} /\ m <= a /\ m <= b
  BY <1>2, <1>3
<1>5. m = IF a <= b THEN a ELSE b
  BY <1>4
<1>6. QED
  BY <1>3, <1>5

LEMMA LeastOfThree ==
    ASSUME NEW a \in Int, NEW b \in Int, NEW c \in Int
    PROVE  LET m == Min({a, b, c}) IN m \in Int /\ m <= a /\ m <= b /\ m <= c
<1>1. \E x \in {a, b, c} : \A y \in {a, b, c} : x <= y
  OBVIOUS
<1>2. Min({a, b, c}) \in {a, b, c} /\ \A y \in {a, b, c} : Min({a, b, c}) <= y
  BY <1>1 DEF Min
<1>3. QED
  BY <1>2

LEMMA LeastOfInterval ==
    ASSUME NEW a \in Int, NEW b \in Int, a <= b
    PROVE  Min(a .. b) = a
<1>1. \E x \in a .. b : \A y \in a .. b : x <= y
  <2>1. a \in a .. b /\ \A y \in a .. b : a <= y
    OBVIOUS
  <2>2. QED
    BY <2>1
<1>2. Min(a .. b) \in a .. b /\ \A y \in a .. b : Min(a .. b) <= y
  BY <1>1 DEF Min
<1>3. QED
  BY <1>2

LEMMA IntervalLength ==
    ASSUME NEW a \in Int, NEW b \in Int
    PROVE  Cardinality(a .. b) = IF a <= b THEN b - a + 1 ELSE 0
<1>1. Cardinality(a .. b) = IF a > b THEN 0 ELSE b - a + 1
  BY FS_Interval
<1>2. QED
  BY <1>1

-----------------------------------------------------------------------------
(* The header: what is asked is what parseRangeHeader makes of it, cut off  *)
(* at the end of the file.                                                  *)
LEMMA RangeIsWanted ==
    ASSUME NEW h \in Header
    PROVE  /\ First(h) \in 0 .. Largest /\ ParseRange(h).end \in Number \cup {-1}
           /\ ParseRange(h) \in [isPartial : BOOLEAN, start : 0 .. Largest,
                                 end : Number \cup {-1}]
           /\ Final(h) = IF ParseRange(h).end <= Size - 1 THEN ParseRange(h).end ELSE Size - 1
           /\ Final(h) \in Int /\ Wanted(h) = First(h) .. Final(h)
<1>1. Size \in Nat /\ Size >= 1 /\ Largest \in Nat /\ Largest >= Size
  BY SizesAssumption
<1>2. PICK p : p = ParseRange(h)
  OBVIOUS
<1>3. CASE h = NoRange \/ TooBig(h.first)
  <2>1. p = Whole
    BY <1>2, <1>3 DEF ParseRange
  <2>2. p.isPartial = FALSE /\ p.start = 0 /\ p.end = Size - 1 /\ p = [isPartial |-> FALSE, start |-> 0, end |-> Size - 1]
    BY <2>1 DEF Whole
  <2>3. Wanted(h) = 0 .. Size - 1
    BY <1>3 DEF Wanted, Readable, Satisfiable
  <2>4. Min({Size - 1, Size - 1}) = Size - 1
    BY <1>1, LeastOfTwo
  <2>5. First(h) = 0 /\ Final(h) = Size - 1
    BY <1>2, <2>2, <2>4 DEF First, Final
  <2>6. p \in [isPartial : BOOLEAN, start : 0 .. Largest, end : Number \cup {-1}]
    BY <1>1, <2>2 DEF Number
  <2>7. QED
    BY <1>1, <1>2, <2>2, <2>3, <2>5, <2>6 DEF Number
<1>4. CASE h # NoRange /\ ~TooBig(h.first)
  <2>1. h \in [first : Number, last : Number \cup {Open}]
    BY <1>4 DEF Header
  <2>2. PICK f \in 0 .. Largest, l \in 0 .. Largest + 1 \cup {-1} : f = h.first /\ l = h.last
    BY <1>1, <1>4, <2>1 DEF Number, Open, TooBig
  <2>3. PICK last : last = IF l = -1 \/ l > Largest THEN Size - 1 ELSE l
    OBVIOUS
  <2>4. PICK least : least = Min({last, Size - 1})
    OBVIOUS
  <2>5. last \in 0 .. Largest /\ least = IF last <= Size - 1 THEN last ELSE Size - 1
    BY <1>1, <2>2, <2>3, <2>4, LeastOfTwo
  <2>6. PICK end : end = IF f >= Size THEN last ELSE least
    OBVIOUS
  <2>7. p = [isPartial |-> ~TooBig(h.last) /\ ~(f >= Size) /\ f <= end, start |-> f, end |-> end]
    BY <1>2, <1>4, <2>2, <2>3, <2>4, <2>6, Zenon DEF ParseRange, TooBig, Open
  <2>8. p.start = f /\ p.end = end
    BY <2>7
  <2>9. end \in 0 .. Largest
    BY <1>1, <2>5, <2>6
  <2>10. p \in [isPartial : BOOLEAN, start : 0 .. Largest, end : Number \cup {-1}]
    <3>1. PICK part \in BOOLEAN : part = (~TooBig(h.last) /\ ~(f >= Size) /\ f <= end)
      BY Zenon
    <3>2. p = [isPartial |-> part, start |-> f, end |-> end]
      BY <2>7, <3>1, Zenon
    <3>3. QED
      BY <1>1, <2>9, <3>2 DEF Number
  <2>11. First(h) = f /\ Final(h) = IF end <= Size - 1 THEN end ELSE Size - 1
    BY <1>1, <1>2, <2>8, <2>9, LeastOfTwo DEF First, Final
  <2>12. Wanted(h) = f .. (IF end <= Size - 1 THEN end ELSE Size - 1)
    <3>1. Readable(h) /\ (Satisfiable(h) <=> f < Size /\ (l = -1 \/ f <= l))
      BY <1>4, <2>2 DEF Readable, Satisfiable, Open
    <3>2. CASE Satisfiable(h) /\ l = -1
      <4>1. Wanted(h) = f .. Size - 1
        BY <2>2, <3>1, <3>2 DEF Wanted, Open
      <4>2. end = Size - 1
        BY <1>1, <2>2, <2>3, <2>5, <2>6, <3>1, <3>2
      <4>3. QED
        BY <1>1, <4>1, <4>2
    <3>3. CASE Satisfiable(h) /\ l # -1
      <4>1. Wanted(h) = f .. Min({l, Size - 1})
        BY <2>2, <3>1, <3>3 DEF Wanted, Open
      <4>2. Min({l, Size - 1}) = IF l <= Size - 1 THEN l ELSE Size - 1
        BY <1>1, <2>2, LeastOfTwo
      <4>3. end = IF l <= Size - 1 THEN l ELSE Size - 1
        BY <1>1, <2>2, <2>3, <2>5, <2>6, <3>1, <3>3
      <4>4. end <= Size - 1
        BY <1>1, <2>2, <4>3
      <4>5. QED
        BY <4>1, <4>2, <4>3, <4>4
    <3>4. CASE ~Satisfiable(h)
      <4>1. Wanted(h) = {}
        BY <3>1, <3>4 DEF Wanted
      <4>2. f >= Size \/ (l # -1 /\ l < f)
        BY <1>1, <2>2, <3>1, <3>4
      <4>3. f > (IF end <= Size - 1 THEN end ELSE Size - 1)
        BY <1>1, <2>2, <2>3, <2>5, <2>6, <2>9, <4>2
      <4>4. QED
        BY <1>1, <2>9, <4>1, <4>3
    <3>5. QED
      BY <3>2, <3>3, <3>4
  <2>13. QED
    BY <1>1, <1>2, <2>8, <2>9, <2>10, <2>11, <2>12 DEF Number
<1>5. QED
  BY <1>3, <1>4

LEMMA HeadersTellWanted ==
    ASSUME NEW h \in Header, Satisfiable(h) => ~TooBig(h.last), Wanted(h) # {}
    PROVE  LET r == Headers(ParseRange(h))
           IN  /\ r.status = IF Satisfiable(h) THEN 206 ELSE 200
               /\ r.start .. r.end = Wanted(h)
               /\ r.length = Cardinality(Wanted(h))
<1>1. Size \in Nat /\ Size >= 1 /\ Largest \in Nat /\ Largest >= Size
  BY SizesAssumption
<1>2. PICK p, r : p = ParseRange(h) /\ r = Headers(p)
  OBVIOUS
<1>3. /\ p.start \in 0 .. Largest /\ p.end \in Number \cup {-1}
      /\ Final(h) = IF p.end <= Size - 1 THEN p.end ELSE Size - 1
      /\ First(h) = p.start /\ Wanted(h) = First(h) .. Final(h)
  BY <1>2, RangeIsWanted DEF First
<1>4. /\ r.status = IF p.isPartial THEN 206 ELSE 200
      /\ r.start = IF p.isPartial THEN p.start ELSE 0
      /\ r.end = IF p.isPartial THEN p.end ELSE Size - 1
      /\ r.length = p.end - p.start + 1
  BY <1>2 DEF Headers, ContentLength
<1>5. p.end \in Int /\ p.start \in Int
  BY <1>1, <1>3 DEF Number
<1>6. p.start <= (IF p.end <= Size - 1 THEN p.end ELSE Size - 1)
  BY <1>1, <1>3, <1>5
<1>7. CASE Satisfiable(h)
  <2>1. /\ h \in [first : Number, last : Number \cup {Open}] /\ h # NoRange /\ ~TooBig(h.first)
        /\ ~TooBig(h.last) /\ h.first < Size /\ (h.last = Open \/ h.first <= h.last)
    BY <1>7 DEF Satisfiable, Readable, Header
  <2>2. PICK f \in 0 .. Largest + 1, l \in 0 .. Largest + 1 \cup {-1} : f = h.first /\ l = h.last
    BY <2>1 DEF Number, Open
  <2>3. PICK last : last = IF l = -1 THEN Size - 1 ELSE l
    OBVIOUS
  <2>4. ~(f >= Size) /\ ~TooBig(h.last)
    BY <1>1, <2>1, <2>2
  <2>5. p = [isPartial |-> ~TooBig(h.last) /\ ~(f >= Size) /\ f <= Min({last, Size - 1}),
             start |-> f, end |-> Min({last, Size - 1})]
    BY <1>2, <2>1, <2>2, <2>3, <2>4, Zenon DEF ParseRange, Open
  <2>6. last \in Nat /\ f <= last /\ f \in Nat /\ f <= Size - 1
    BY <1>1, <2>1, <2>2, <2>3 DEF Open
  <2>7. Min({last, Size - 1}) = IF last <= Size - 1 THEN last ELSE Size - 1
    BY <1>1, <2>6, LeastOfTwo
  <2>8. f <= Min({last, Size - 1}) /\ Min({last, Size - 1}) <= Size - 1
    BY <1>1, <2>6, <2>7
  <2>9. p.isPartial /\ p.start = f /\ p.end = Min({last, Size - 1})
    <3>1. PICK part \in BOOLEAN :
             part = (~TooBig(h.last) /\ ~(f >= Size) /\ f <= Min({last, Size - 1}))
      BY Zenon
    <3>2. part
      BY <2>4, <2>8, <3>1, Zenon
    <3>3. p = [isPartial |-> part, start |-> f, end |-> Min({last, Size - 1})]
      BY <2>5, <3>1, Zenon
    <3>4. QED
      BY <3>2, <3>3
  <2>10. p.end <= Size - 1
    BY <2>8, <2>9
  <2>11. Wanted(h) = p.start .. p.end
    BY <1>3, <2>10
  <2>12. Cardinality(Wanted(h)) = p.end - p.start + 1
    BY <1>5, <1>6, <2>10, <2>11, IntervalLength
  <2>13. QED
    BY <1>2, <1>4, <1>7, <2>9, <2>11, <2>12
<1>8. CASE ~Satisfiable(h)
  <2>1. ~Readable(h)
    BY <1>8 DEF Wanted
  <2>2. p = Whole
    BY <1>2, <2>1 DEF Readable, ParseRange
  <2>3. ~p.isPartial /\ p.start = 0 /\ p.end = Size - 1
    BY <2>2 DEF Whole
  <2>4. Wanted(h) = 0 .. Size - 1
    BY <2>1 DEF Wanted, Satisfiable
  <2>5. Cardinality(Wanted(h)) = Size - 1 - 0 + 1
    BY <1>1, <2>4, IntervalLength
  <2>6. QED
    BY <1>2, <1>4, <1>8, <2>3, <2>4, <2>5
<1>9. QED
  BY <1>7, <1>8

-----------------------------------------------------------------------------
LEMMA PassedOn ==
    ASSUME NEW S, NEW a \in Seq(S), NEW q \in Seq(S), q # <<>>
    PROVE  /\ Append(a, Head(q)) \in Seq(S) /\ Tail(q) \in Seq(S) /\ Len(Tail(q)) = Len(q) - 1
           /\ Append(a, Head(q)) \o Tail(q) = a \o q
<1>1. Head(q) \in S /\ Tail(q) \in Seq(S) /\ Len(Tail(q)) = Len(q) - 1
  BY HeadTailProperties
<1>2. <<Head(q)>> \in Seq(S) /\ q = <<Head(q)>> \o Tail(q)
  <2>1. 1 \in 1 .. Len(q) /\ Len(q) \in 1 .. Len(q)
    OBVIOUS
  <2>2. SubSeq(q, 1, Len(q)) = <<q[1]>> \o SubSeq(q, 1 + 1, Len(q))
    BY <2>1, SubSeqRecursiveFirst
  <2>3. SubSeq(q, 1, Len(q)) = q /\ Tail(q) = SubSeq(q, 2, Len(q)) /\ Head(q) = q[1]
    BY SubSeqFull, TailIsSubSeq
  <2>4. <<Head(q)>> \in Seq(S)
    BY <1>1
  <2>5. 1 + 1 = 2
    OBVIOUS
  <2>6. QED
    BY <2>2, <2>3, <2>4, <2>5, Zenon
<1>3. Append(a, Head(q)) = a \o <<Head(q)>> /\ Append(a, Head(q)) \in Seq(S)
  BY <1>1, AppendIsConcat, AppendProperties
<1>4. (a \o <<Head(q)>>) \o Tail(q) = a \o (<<Head(q)>> \o Tail(q))
  BY <1>1, <1>2, ConcatAssociative
<1>5. QED
  BY <1>1, <1>2, <1>3, <1>4, Zenon

(* One call of sendfile adds the bytes fileFd is at.                        *)
Extended(b, t, k, from, q) ==
    /\ b \in Seq(0 .. Size - 1) /\ k \in Nat /\ q = b \o t
    /\ t = [i \in 1 .. k |-> from + i - 1] /\ from \in Nat /\ from + k <= Size

LEMMA ChunkSent ==
    ASSUME NEW b, NEW t, NEW k, NEW from, NEW q, Extended(b, t, k, from, q)
    PROVE  /\ t \in Seq(0 .. Size - 1) /\ Len(t) = k
           /\ q \in Seq(0 .. Size - 1) /\ Len(q) = Len(b) + k
           /\ \A i \in 1 .. Len(q) : \/ i \in 1 .. Len(b) /\ q[i] = b[i]
                                     \/ i > Len(b) /\ q[i] = from + (i - Len(b)) - 1
<1>1. /\ b \in Seq(0 .. Size - 1) /\ k \in Nat /\ from \in Nat /\ from + k <= Size
      /\ Size \in Nat
  BY SizesAssumption DEF Extended
<1>2. PICK u : u = [i \in 1 .. k |-> from + i - 1]
  OBVIOUS
<1>3. \A i \in 1 .. k : from + i - 1 \in 0 .. Size - 1
  BY <1>1
<1>4. u \in Seq(0 .. Size - 1) /\ Len(u) = k /\ \A i \in 1 .. k : u[i] = from + i - 1
  BY <1>1, <1>2, <1>3
<1>5. t = u
  BY <1>2, Zenon DEF Extended
<1>6. /\ b \o t \in Seq(0 .. Size - 1) /\ Len(b \o t) = Len(b) + Len(t)
      /\ \A i \in 1 .. Len(b) + Len(t) : (b \o t)[i] = IF i <= Len(b) THEN b[i] ELSE t[i - Len(b)]
  <2>1. t \in Seq(0 .. Size - 1)
    BY <1>4, <1>5
  <2>2. QED
    BY <1>1, <2>1, ConcatProperties
<1>7. PICK v : v = q
  OBVIOUS
<1>12. v = b \o t
  BY <1>7, Zenon DEF Extended
<1>8. /\ v \in Seq(0 .. Size - 1) /\ Len(v) = Len(b) + k
      /\ \A i \in 1 .. Len(b) + k : v[i] = IF i <= Len(b) THEN b[i] ELSE u[i - Len(b)]
  BY <1>4, <1>5, <1>6, <1>12, Zenon
<1>9. ASSUME NEW i \in 1 .. Len(v), ~(i <= Len(b)) PROVE v[i] = from + (i - Len(b)) - 1
  <2>1. PICK j : j = i - Len(b)
    OBVIOUS
  <2>2. j \in 1 .. k
    BY <1>1, <1>8, <1>9, <2>1
  <2>3. v[i] = u[j]
    BY <1>1, <1>8, <1>9, <2>1
  <2>4. u[j] = from + j - 1
    BY <1>4, <2>2
  <2>5. QED
    BY <2>1, <2>3, <2>4
<1>10. \A i \in 1 .. Len(v) : \/ i \in 1 .. Len(b) /\ v[i] = b[i]
                              \/ i > Len(b) /\ v[i] = from + (i - Len(b)) - 1
  <2>1. SUFFICES ASSUME NEW i \in 1 .. Len(v)
                 PROVE  \/ i \in 1 .. Len(b) /\ v[i] = b[i]
                        \/ i > Len(b) /\ v[i] = from + (i - Len(b)) - 1
    OBVIOUS
  <2>2. CASE i <= Len(b)
    BY <1>1, <1>8, <2>2
  <2>3. CASE ~(i <= Len(b))
    BY <1>1, <1>9, <2>3
  <2>4. QED
    BY <2>2, <2>3
<1>11. QED
  BY <1>4, <1>5, <1>7, <1>8, <1>10, Zenon

-----------------------------------------------------------------------------
LEMMA StreamFacts ==
    ASSUME StreamIInv
    PROVE  /\ Bytes \in Seq(0 .. Size - 1) /\ got \in Seq(0 .. Size - 1)
           /\ snd \in Seq(0 .. Size - 1) /\ Len(snd) <= SndCap /\ asked \in Header
           /\ First(asked) \in 0 .. Largest /\ Final(asked) \in Int /\ Final(asked) <= Size - 1
           /\ Final(asked) <= ParseRange(asked).end
           /\ (ParseRange(asked).end > Final(asked) => Final(asked) = Size - 1)
           /\ ParseRange(asked).end \in Int
<1>1. got \in Seq(0 .. Size - 1) /\ snd \in Seq(0 .. Size - 1) /\ Len(snd) <= SndCap
      /\ asked \in Header /\ Size \in Nat /\ Largest \in Nat
  BY SizesAssumption DEF StreamIInv, TypeOK
<1>2. Bytes \in Seq(0 .. Size - 1)
  BY <1>1, ConcatProperties DEF Bytes
<1>3. PICK e : e = ParseRange(asked).end
  OBVIOUS
<1>4. First(asked) \in 0 .. Largest /\ Final(asked) \in Int
      /\ e \in Number \cup {-1} /\ Final(asked) = IF e <= Size - 1 THEN e ELSE Size - 1
  BY <1>1, <1>3, RangeIsWanted
<1>5. e \in Int
  BY <1>1, <1>4 DEF Number
<1>6. QED
  BY <1>1, <1>2, <1>3, <1>4, <1>5

(* A step that sends nothing, or passes on what was sent.                   *)
LEMMA SentStays ==
    ASSUME StreamIInv, Bytes' = Bytes, asked' = asked,
           pc' \in {"asked", "resolved"} => got' = <<>> /\ snd' = <<>>,
           pc' = "sent" => pc = "sent" \/ First(asked) + Len(Bytes) > Final(asked)
    PROVE  Sent'
<1>1. /\ First(asked)' = First(asked) /\ Final(asked)' = Final(asked)
  BY DEF First, Final, ParseRange, Whole, TooBig
<1>2. QED
  BY <1>1 DEF StreamIInv, Sent

LEMMA AskKeeps == ASSUME StreamIInv, NEW h \in Header, Ask(h) PROVE StreamIInv'
<1>1. /\ pc \in {"idle", "closed"} /\ n < Requests /\ asked' = h /\ pc' = "asked" /\ n' = n + 1
      /\ snd' = <<>> /\ got' = <<>> /\ info' = NoInfo /\ reply' = NoReply /\ offset' = 0
      /\ exists' = exists /\ fd' = fd
  BY DEF Ask
<1>2. fd = Closed
  BY <1>1 DEF StreamIInv, Place
<1>3. TypeOK'
  <2>1. Requests \in Nat /\ Largest \in Nat /\ SndCap \in Nat /\ n \in 0 .. Requests
        /\ exists \in BOOLEAN
    BY SizesAssumption DEF StreamIInv, TypeOK
  <2>2. <<>> \in Seq(0 .. Size - 1) /\ Len(<<>>) = 0 /\ n' \in 0 .. Requests
    BY <1>1, <2>1
  <2>3. info' \in [isPartial : BOOLEAN, start : 0 .. Largest, end : Number \cup {-1}]
    BY <1>1, <2>1 DEF NoInfo
  <2>4. reply'.status = 0 /\ 0 \in Number
    BY <1>1, <2>1 DEF NoReply, Number
  <2>5. QED
    BY <1>1, <1>2, <2>1, <2>2, <2>3, <2>4 DEF TypeOK
<1>4. Sent'
  <2>1. <<>> \o <<>> = <<>>
    <3>1. <<>> \in Seq(0 .. Size - 1)
      OBVIOUS
    <3>2. QED
      BY <3>1, ConcatEmptySeq, Zenon
  <2>2. Bytes' = <<>>
    BY <1>1, <2>1, Zenon DEF Bytes
  <2>3. Len(<<>>) = 0 /\ 1 .. 0 = {}
    OBVIOUS
  <2>4. QED
    BY <1>1, <2>2, <2>3 DEF Sent
<1>5. Place' /\ Answer'
  BY <1>1, <1>2 DEF Place, Answer
<1>6. QED
  BY <1>3, <1>4, <1>5 DEF StreamIInv

LEMMA PlayerReads == ASSUME StreamIInv, Read PROVE StreamIInv'
<1>1. /\ snd # <<>> /\ got' = Append(got, Head(snd)) /\ snd' = Tail(snd)
      /\ exists' = exists /\ asked' = asked /\ pc' = pc /\ n' = n
      /\ info' = info /\ reply' = reply /\ fd' = fd /\ offset' = offset
  BY DEF Read, server
<1>2. got \in Seq(0 .. Size - 1) /\ snd \in Seq(0 .. Size - 1) /\ Len(snd) <= SndCap
      /\ SndCap \in Nat
  BY StreamFacts, SizesAssumption
<1>3. /\ got' \in Seq(0 .. Size - 1) /\ snd' \in Seq(0 .. Size - 1) /\ Len(snd') = Len(snd) - 1
      /\ got' \o snd' = got \o snd
  <2>1. PICK g, q : g = got /\ q = snd
    OBVIOUS
  <2>2. g \in Seq(0 .. Size - 1) /\ q \in Seq(0 .. Size - 1) /\ q # <<>>
    BY <1>1, <1>2, <2>1
  <2>3. /\ Append(g, Head(q)) \in Seq(0 .. Size - 1) /\ Tail(q) \in Seq(0 .. Size - 1)
        /\ Len(Tail(q)) = Len(q) - 1 /\ Append(g, Head(q)) \o Tail(q) = g \o q
    BY <2>2, PassedOn
  <2>4. got' = Append(g, Head(q)) /\ snd' = Tail(q)
    BY <1>1, <2>1
  <2>5. QED
    BY <2>1, <2>3, <2>4, Zenon
<1>4. TypeOK'
  <2>1. Len(snd') <= SndCap
    BY <1>2, <1>3
  <2>2. QED
    BY <1>1, <1>3, <2>1 DEF StreamIInv, TypeOK
<1>5. Bytes' = Bytes
  BY <1>3 DEF Bytes
<1>6. pc \notin {"asked", "resolved"}
  BY <1>1 DEF StreamIInv, Sent
<1>7. Sent'
  BY <1>1, <1>5, <1>6, SentStays
<1>8. Place' /\ Answer'
  BY <1>1, <1>5 DEF StreamIInv, Place, Answer, Headers, ContentLength, ParseRange, Whole, TooBig
<1>9. QED
  BY <1>4, <1>7, <1>8 DEF StreamIInv

LEMMA ResolveKeeps == ASSUME StreamIInv, Resolve PROVE StreamIInv'
<1>1. /\ pc = "asked" /\ exists' = exists /\ asked' = asked /\ fd' = fd /\ offset' = offset
      /\ snd' = snd /\ got' = got /\ n' = n
      /\ \/ info' = ParseRange(asked) /\ pc' = "resolved" /\ reply' = reply
         \/ reply' = [NoReply EXCEPT !.status = 404] /\ pc' = "idle" /\ info' = info
  BY DEF Resolve
<1>2. asked \in Header /\ got = <<>> /\ snd = <<>> /\ fd = Closed
  BY <1>1 DEF StreamIInv, TypeOK, Sent, Place
<1>3. ParseRange(asked) \in [isPartial : BOOLEAN, start : 0 .. Largest, end : Number \cup {-1}]
  BY <1>2, RangeIsWanted
<1>4. TypeOK'
  <2>1. reply'.status \in {0, 200, 206, 404}
    BY <1>1 DEF StreamIInv, TypeOK, NoReply
  <2>2. QED
    BY <1>1, <1>3, <2>1 DEF StreamIInv, TypeOK
<1>5. Sent'
  <2>1. Bytes' = Bytes
    BY <1>1 DEF Bytes
  <2>2. QED
    BY <1>1, <1>2, <2>1, SentStays
<1>6. Place'
  BY <1>1, <1>2 DEF Place
<1>7. Answer'
  <2>1. ParseRange(asked)' = ParseRange(asked)
    BY <1>1 DEF ParseRange, Whole, TooBig
  <2>2. QED
    BY <1>1, <2>1 DEF Answer
<1>8. QED
  BY <1>4, <1>5, <1>6, <1>7 DEF StreamIInv

LEMMA BeginKeeps == ASSUME StreamIInv, Begin PROVE StreamIInv'
<1>1. /\ pc = "resolved" /\ reply' = Headers(info)
      /\ exists' = exists /\ asked' = asked /\ info' = info /\ snd' = snd /\ got' = got /\ n' = n
      /\ \/ fd' = Seek /\ offset' = info.start /\ pc' = "sending"
         \/ pc' = "closed" /\ fd' = fd /\ offset' = offset
  BY DEF Begin
<1>2. /\ asked \in Header /\ got = <<>> /\ snd = <<>> /\ fd = Closed /\ info = ParseRange(asked)
      /\ info.start \in 0 .. Largest /\ Largest \in Nat
  BY <1>1, SizesAssumption DEF StreamIInv, TypeOK, Sent, Place, Answer
<1>3. Seek = info.start
  BY <1>2 DEF Seek
<1>4. TypeOK'
  <2>1. reply'.status \in {200, 206}
    BY <1>1 DEF Headers
  <2>2. fd' \in Number \cup {Closed} /\ offset' \in Number
    BY <1>1, <1>2, <1>3 DEF StreamIInv, TypeOK, Number
  <2>3. pc' \in {"idle", "asked", "resolved", "sending", "blocked", "sent", "closed"}
    BY <1>1
  <2>4. QED
    BY <1>1, <2>1, <2>2, <2>3 DEF StreamIInv, TypeOK
<1>5. Bytes' = Bytes /\ Bytes = <<>>
  <2>1. <<>> \o <<>> = <<>>
    <3>1. <<>> \in Seq(0 .. Size - 1)
      OBVIOUS
    <3>2. QED
      BY <3>1, ConcatEmptySeq, Zenon
  <2>2. QED
    BY <1>1, <1>2, <2>1, Zenon DEF Bytes
<1>6. Sent'
  BY <1>1, <1>5, SentStays
<1>7. Place'
  <2>1. Len(<<>>) = 0 /\ info.start = info.start + 0
    BY <1>2
  <2>2. CASE pc' = "sending"
    BY <1>1, <1>3, <1>5, <2>1, <2>2 DEF Place
  <2>3. CASE pc' = "closed"
    BY <1>1, <1>2, <2>3 DEF Place
  <2>4. QED
    BY <1>1, <2>2, <2>3
<1>8. Answer'
  <2>1. ParseRange(asked)' = ParseRange(asked) /\ Headers(info)' = Headers(info)
    BY <1>1 DEF ParseRange, Whole, TooBig, Headers, ContentLength
  <2>2. QED
    BY <1>1, <1>2, <2>1 DEF Answer
<1>9. QED
  BY <1>4, <1>6, <1>7, <1>8 DEF StreamIInv

LEMMA SendKeeps == ASSUME StreamIInv, Send PROVE StreamIInv'
<1>1. PICK k \in 1 .. Min({ToSend, Room, Size - fd}) :
          /\ snd' = snd \o [i \in 1 .. k |-> fd + i - 1]
          /\ offset' = offset + k /\ fd' = fd + k
  BY DEF Send
<1>2. /\ pc = "sending" /\ offset <= info.end /\ exists' = exists /\ asked' = asked /\ pc' = pc
      /\ info' = info /\ reply' = reply /\ got' = got /\ n' = n
  BY DEF Send
<1>3. /\ Bytes \in Seq(0 .. Size - 1) /\ got \in Seq(0 .. Size - 1) /\ snd \in Seq(0 .. Size - 1)
      /\ Len(snd) <= SndCap /\ First(asked) \in 0 .. Largest /\ Final(asked) \in Int
      /\ Final(asked) <= Size - 1 /\ Final(asked) <= ParseRange(asked).end
      /\ (ParseRange(asked).end > Final(asked) => Final(asked) = Size - 1)
      /\ ParseRange(asked).end \in Int
  BY StreamFacts
<1>4. /\ Size \in Nat /\ Chunk \in Nat /\ SndCap \in Nat /\ Largest \in Nat /\ Size <= Largest
  BY SizesAssumption
<1>5. /\ fd = offset /\ info = ParseRange(asked) /\ offset = First(asked) + Len(Bytes)
  BY <1>2 DEF StreamIInv, Place, Answer, First
<1>6. PICK b, f, e, last, c, room : /\ b = Bytes /\ f = First(asked) /\ e = info.end
                                    /\ last = Final(asked) /\ c = ToSend /\ room = Room
  BY Zenon
<1>7. Len(b) \in Nat /\ f \in Nat /\ offset \in Nat /\ e \in Int /\ last \in Int
      /\ offset = f + Len(b) /\ fd = offset
  BY <1>3, <1>5, <1>6
<1>8. c \in Int /\ c <= e - offset + 1
  <2>1. Min({Chunk, e - offset + 1}) = IF Chunk <= e - offset + 1 THEN Chunk ELSE e - offset + 1
    BY <1>4, <1>7, LeastOfTwo
  <2>2. QED
    BY <1>4, <1>6, <1>7, <2>1 DEF ToSend
<1>9. room \in Int /\ room = SndCap - Len(snd)
  BY <1>3, <1>4, <1>6 DEF Room
<1>10. k \in Nat /\ k >= 1 /\ k <= c /\ k <= room /\ k <= Size - fd
  <2>1. PICK x, m : x = Size - fd /\ m = Min({c, room, x})
    BY Zenon
  <2>2. x \in Int
    BY <1>4, <1>7, <2>1
  <2>3. m \in Int /\ m <= c /\ m <= room /\ m <= x
    BY <1>8, <1>9, <2>1, <2>2, LeastOfThree
  <2>4. k \in 1 .. m
    BY <1>6, <2>1, Zenon
  <2>5. QED
    BY <1>4, <1>7, <1>8, <1>9, <2>1, <2>2, <2>3, <2>4
<1>11. offset + k <= e + 1 /\ offset + k <= Size /\ offset + k - 1 <= last
  <2>1. offset + k <= e + 1 /\ offset + k <= Size
    BY <1>4, <1>7, <1>8, <1>10
  <2>2. last = e \/ last = Size - 1
    BY <1>3, <1>5, <1>6
  <2>3. QED
    BY <1>4, <1>7, <1>10, <2>1, <2>2
<1>12. PICK t : t = [i \in 1 .. k |-> fd + i - 1]
  OBVIOUS
<1>13. snd' = snd \o t
  BY <1>1, <1>12, Zenon
<1>14. PICK q, w : q = b \o t /\ w = snd \o t
  BY Zenon
<1>15. Extended(b, t, k, fd, q) /\ Extended(snd, t, k, fd, w)
  <2>1. b \in Seq(0 .. Size - 1) /\ fd + k <= Size /\ fd \in Nat /\ k \in Nat
    BY <1>3, <1>6, <1>7, <1>10, <1>11
  <2>2. QED
    BY <1>3, <1>12, <1>14, <2>1, Zenon DEF Extended
<1>16. /\ t \in Seq(0 .. Size - 1) /\ q \in Seq(0 .. Size - 1) /\ Len(q) = Len(b) + k
       /\ \A i \in 1 .. Len(q) : \/ i \in 1 .. Len(b) /\ q[i] = b[i]
                                 \/ i > Len(b) /\ q[i] = fd + (i - Len(b)) - 1
  BY <1>15, ChunkSent
<1>17. snd' \in Seq(0 .. Size - 1) /\ Len(snd') = Len(snd) + k
  <2>1. w \in Seq(0 .. Size - 1) /\ Len(w) = Len(snd) + k
    BY <1>15, ChunkSent
  <2>2. QED
    BY <1>13, <1>14, <2>1, Zenon
<1>18. Bytes' = q
  <2>1. PICK g, s : g = got /\ s = snd
    BY Zenon
  <2>2. PICK u : u = t
    BY Zenon
  <2>3. g \in Seq(0 .. Size - 1) /\ s \in Seq(0 .. Size - 1) /\ u \in Seq(0 .. Size - 1)
    <3>1. t \in Seq(0 .. Size - 1)
      BY <1>16, Zenon
    <3>2. QED
      BY <1>3, <2>1, <2>2, <3>1, Zenon
  <2>4. (g \o s) \o u = g \o (s \o u)
    BY <2>3, ConcatAssociative
  <2>5. QED
    BY <1>2, <1>6, <1>13, <1>14, <2>1, <2>2, <2>4, Zenon DEF Bytes
<1>19. TypeOK'
  <2>1. Len(snd') <= SndCap
    BY <1>3, <1>4, <1>9, <1>10, <1>17
  <2>2. fd' \in Number /\ offset' \in Number
    BY <1>1, <1>4, <1>7, <1>10, <1>11 DEF Number
  <2>3. QED
    BY <1>2, <1>17, <2>1, <2>2 DEF StreamIInv, TypeOK
<1>20. Sent'
  <2>1. /\ First(asked)' = f /\ Final(asked)' = last
    BY <1>2, <1>6 DEF First, Final, ParseRange, Whole, TooBig
  <2>2. \A i \in 1 .. Len(b) : b[i] = f + i - 1 /\ b[i] <= last
    BY <1>6 DEF StreamIInv, Sent
  <2>3. ASSUME NEW i \in 1 .. Len(q) PROVE q[i] = f + i - 1 /\ q[i] <= last
    <3>1. CASE i \in 1 .. Len(b) /\ q[i] = b[i]
      BY <2>2, <3>1
    <3>2. CASE i > Len(b) /\ q[i] = fd + (i - Len(b)) - 1
      <4>1. i \in Nat /\ i <= Len(b) + k
        BY <1>7, <1>10, <1>16
      <4>2. q[i] = f + i - 1 /\ q[i] <= offset + k - 1
        BY <1>7, <1>10, <3>2, <4>1
      <4>3. QED
        BY <1>7, <1>10, <1>11, <4>1, <4>2
    <3>3. QED
      BY <1>16, <3>1, <3>2
  <2>4. QED
    BY <1>2, <1>18, <2>1, <2>3 DEF Sent
<1>21. Place'
  <2>1. offset + k = info.start + Len(q)
    <3>1. info.start = f
      BY <1>5, <1>6 DEF First
    <3>2. QED
      BY <1>7, <1>10, <1>16, <3>1
  <2>2. QED
    BY <1>1, <1>2, <1>5, <1>18, <2>1 DEF Place
<1>22. Answer'
  <2>1. ParseRange(asked)' = ParseRange(asked) /\ Headers(info)' = Headers(info)
    BY <1>2 DEF ParseRange, Whole, TooBig, Headers, ContentLength
  <2>2. QED
    BY <1>2, <2>1 DEF StreamIInv, Answer
<1>23. QED
  BY <1>19, <1>20, <1>21, <1>22 DEF StreamIInv

(* A step that leaves the request, its range and its bytes as they are.     *)
LEMMA QuietStep ==
    ASSUME StreamIInv, UNCHANGED <<asked, info, reply, snd, got, offset>>,
           exists' \in BOOLEAN, n' \in 0 .. Requests,
           pc' \in {"idle", "sending", "blocked", "sent", "closed"} \/ pc' = pc,
           pc' \in {"sending", "blocked"} => pc \in {"sending", "blocked"} /\ fd' = fd,
           pc' \notin {"sending", "blocked"} => fd' = Closed,
           pc' = "sent" => \/ pc = "sent"
                           \/ pc = "sending" /\ First(asked) + Len(Bytes) > Final(asked)
    PROVE  StreamIInv'
<1>1. TypeOK'
  <2>1. fd' \in Number \cup {Closed}
    BY DEF StreamIInv, TypeOK
  <2>2. pc' \in {"idle", "asked", "resolved", "sending", "blocked", "sent", "closed"}
    BY DEF StreamIInv, TypeOK
  <2>3. QED
    BY <2>1, <2>2 DEF StreamIInv, TypeOK
<1>2. Bytes' = Bytes
  BY DEF Bytes
<1>3. Sent'
  <2>1. pc' \in {"asked", "resolved"} => got' = <<>> /\ snd' = <<>>
    BY DEF StreamIInv, Sent
  <2>2. QED
    BY <1>2, <2>1, SentStays
<1>4. Place'
  BY <1>2 DEF StreamIInv, Place
<1>5. Answer'
  <2>1. ParseRange(asked)' = ParseRange(asked) /\ Headers(info)' = Headers(info)
    BY DEF ParseRange, Whole, TooBig, Headers, ContentLength
  <2>2. pc' \in {"sending", "blocked", "sent"} => pc \in {"sending", "blocked", "sent"}
    OBVIOUS
  <2>3. pc' = "resolved" => pc = "resolved"
    OBVIOUS
  <2>4. QED
    BY <2>1, <2>2, <2>3 DEF StreamIInv, Answer
<1>6. QED
  BY <1>1, <1>3, <1>4, <1>5 DEF StreamIInv

LEMMA ShortStepsKeep ==
    ASSUME StreamIInv, \/ Complete \/ RemoveFile \/ Block \/ Resume \/ Finish \/ CloseIdle
                       \/ UNCHANGED vars
    PROVE  StreamIInv'
<1>1. /\ exists \in BOOLEAN /\ n \in 0 .. Requests
      /\ pc \in {"sending", "blocked"} \/ fd = Closed
  BY DEF StreamIInv, TypeOK, Place
<1>2. CASE Complete
  <2>1. /\ pc = "sent" /\ pc' \in {"idle", "closed"} /\ exists' = exists /\ n' = n /\ fd' = fd
        /\ UNCHANGED <<asked, info, reply, snd, got, offset>>
    BY <1>2 DEF Complete, server
  <2>2. QED
    BY <1>1, <2>1, QuietStep
<1>3. CASE RemoveFile
  <2>1. /\ pc' = pc /\ exists' = FALSE /\ n' = n /\ fd' = fd
        /\ UNCHANGED <<asked, info, reply, snd, got, offset>>
    BY <1>3 DEF RemoveFile, server
  <2>2. QED
    BY <1>1, <2>1, QuietStep
<1>4. CASE Block
  <2>1. /\ pc = "sending" /\ pc' = "blocked" /\ exists' = exists /\ n' = n /\ fd' = fd
        /\ UNCHANGED <<asked, info, reply, snd, got, offset>>
    BY <1>4 DEF Block, server
  <2>2. QED
    BY <1>1, <2>1, QuietStep
<1>5. CASE Resume
  <2>1. /\ pc = "blocked" /\ pc' = "sending" /\ exists' = exists /\ n' = n /\ fd' = fd
        /\ UNCHANGED <<asked, info, reply, snd, got, offset>>
    BY <1>5 DEF Resume, server
  <2>2. QED
    BY <1>1, <2>1, QuietStep
<1>6. CASE Finish
  <2>1. /\ pc = "sending" /\ pc' = "sent" /\ exists' = exists /\ n' = n /\ fd' = Closed
        /\ UNCHANGED <<asked, info, reply, snd, got, offset>>
        /\ (offset > info.end \/ fd >= Size)
    BY <1>6 DEF Finish
  <2>2. First(asked) + Len(Bytes) > Final(asked)
    <3>1. fd = offset /\ info = ParseRange(asked) /\ offset = First(asked) + Len(Bytes)
      BY <2>1 DEF StreamIInv, Place, Answer, First
    <3>2. PICK e, last, o : e = info.end /\ last = Final(asked) /\ o = First(asked) + Len(Bytes)
      OBVIOUS
    <3>3. e \in Int /\ last \in Int /\ last <= e /\ last <= Size - 1 /\ o \in Int /\ Size \in Int
      <4>1. Len(Bytes) \in Nat /\ First(asked) \in Nat /\ Size \in Int
        BY StreamFacts, SizesAssumption
      <4>2. QED
        BY <3>1, <3>2, <4>1, StreamFacts
    <3>4. o > e \/ o >= Size
      BY <2>1, <3>1, <3>2
    <3>5. QED
      BY <3>2, <3>3, <3>4
  <2>3. QED
    BY <1>1, <2>1, <2>2, QuietStep
<1>7. CASE CloseIdle
  <2>1. /\ pc' = "closed" /\ exists' = exists /\ n' = n /\ fd' = Closed
        /\ UNCHANGED <<asked, info, reply, snd, got, offset>>
    BY <1>7 DEF CloseIdle
  <2>2. QED
    BY <1>1, <2>1, QuietStep
<1>8. CASE UNCHANGED vars
  <2>1. /\ pc' = pc /\ exists' = exists /\ n' = n /\ fd' = fd
        /\ UNCHANGED <<asked, info, reply, snd, got, offset>>
    BY <1>8 DEF vars, server
  <2>2. QED
    BY <1>1, <2>1, QuietStep
<1>9. QED
  BY <1>2, <1>3, <1>4, <1>5, <1>6, <1>7, <1>8

LEMMA StreamInit == ASSUME Init PROVE StreamIInv
<1>1. /\ exists = TRUE /\ asked = NoRange /\ pc = "idle" /\ info = NoInfo /\ reply = NoReply
      /\ fd = Closed /\ offset = 0 /\ snd = <<>> /\ got = <<>> /\ n = 0
  BY DEF Init
<1>2. Requests \in Nat /\ Largest \in Nat /\ SndCap \in Nat
  BY SizesAssumption
<1>3. TypeOK
  <2>1. <<>> \in Seq(0 .. Size - 1) /\ Len(<<>>) = 0
    OBVIOUS
  <2>2. info \in [isPartial : BOOLEAN, start : 0 .. Largest, end : Number \cup {-1}]
    BY <1>1, <1>2 DEF NoInfo
  <2>3. reply.status = 0 /\ 0 \in Number /\ asked \in Header
    BY <1>1, <1>2 DEF NoReply, Number, Header
  <2>4. QED
    BY <1>1, <1>2, <2>1, <2>2, <2>3 DEF TypeOK
<1>4. Sent
  <2>1. <<>> \o <<>> = <<>>
    <3>1. <<>> \in Seq(0 .. Size - 1)
      OBVIOUS
    <3>2. QED
      BY <3>1, ConcatEmptySeq, Zenon
  <2>2. Bytes = <<>>
    BY <1>1, <2>1, Zenon DEF Bytes
  <2>3. Len(<<>>) = 0 /\ 1 .. 0 = {}
    OBVIOUS
  <2>4. QED
    BY <1>1, <2>2, <2>3 DEF Sent
<1>5. Place /\ Answer
  BY <1>1 DEF Place, Answer
<1>6. QED
  BY <1>3, <1>4, <1>5 DEF StreamIInv

LEMMA StreamInductive == Spec => []StreamIInv
<1>1. Init => StreamIInv
  BY StreamInit
<1>2. StreamIInv /\ [Next]_vars => StreamIInv'
  <2>1. SUFFICES ASSUME StreamIInv, [Next]_vars PROVE StreamIInv'
    OBVIOUS
  <2>2. CASE Server
    <3>1. Resolve \/ Begin \/ Send \/ Block \/ Resume \/ Finish
      BY <2>2 DEF Server
    <3>2. QED
      BY <2>1, <3>1, ResolveKeeps, BeginKeeps, SendKeeps, ShortStepsKeep
  <2>3. CASE Player
    BY <2>1, <2>3, PlayerReads, ShortStepsKeep DEF Player
  <2>4. CASE RemoveFile \/ CloseIdle \/ UNCHANGED vars
    BY <2>1, <2>4, ShortStepsKeep
  <2>5. ASSUME NEW h \in Header, Ask(h) PROVE StreamIInv'
    BY <2>1, <2>5, AskKeeps
  <2>6. QED
    BY <2>1, <2>2, <2>3, <2>4, <2>5 DEF Next
<1>3. QED
  BY <1>1, <1>2, PTL DEF Spec

-----------------------------------------------------------------------------
(* The state of a connection has the types declared for it.                 *)
THEOREM StreamTyping == Spec => []TypeOK
<1>1. StreamIInv => TypeOK
  BY DEF StreamIInv
<1>2. QED
  BY <1>1, StreamInductive, PTL

(* For a file, numbers, chunks and a socket buffer of any size: the player  *)
(* gets the bytes it asked for, in order, and none besides, and all of them *)
(* when the server has finished.                                            *)
THEOREM BytesAsAsked == Spec => []OnlyWhatWasAsked
<1>1. ASSUME StreamIInv PROVE OnlyWhatWasAsked
  <2>1. PICK b, f, last : b = Bytes /\ f = First(asked) /\ last = Final(asked)
    OBVIOUS
  <2>2. b \in Seq(0 .. Size - 1) /\ f \in Int /\ last \in Int /\ asked \in Header
    <3>1. Largest \in Nat
      BY SizesAssumption
    <3>2. QED
      BY <1>1, <2>1, <3>1, StreamFacts
  <2>3. Wanted(asked) = f .. last
    BY <2>1, <2>2, RangeIsWanted
  <2>4. \A i \in 1 .. Len(b) : b[i] = f + i - 1 /\ b[i] <= last
    BY <1>1, <2>1 DEF StreamIInv, Sent
  <2>5. ASSUME NEW i \in DOMAIN b PROVE b[i] \in f .. last /\ b[i] = Min(f .. last) + i - 1
    <3>1. i \in 1 .. Len(b) /\ i >= 1 /\ i \in Int
      BY <2>2, <2>5
    <3>2. b[i] = f + i - 1 /\ f + i - 1 <= last
      BY <2>4, <3>1
    <3>3. f <= last
      BY <2>2, <3>1, <3>2
    <3>4. Min(f .. last) = f
      BY <2>2, <3>3, LeastOfInterval
    <3>5. QED
      BY <2>2, <3>1, <3>2, <3>4
  <2>6. ASSUME pc = "sent" PROVE Len(b) = Cardinality(f .. last)
    <3>1. f + Len(b) > last
      BY <1>1, <2>1, <2>6 DEF StreamIInv, Sent
    <3>2. Len(b) \in Nat
      BY <2>2
    <3>3. Len(b) > 0 => f + Len(b) - 1 <= last
      <4>1. ASSUME Len(b) > 0 PROVE f + Len(b) - 1 <= last
        <5>1. PICK i : i = Len(b)
          OBVIOUS
        <5>2. i \in 1 .. Len(b)
          BY <3>2, <4>1, <5>1
        <5>3. b[i] = f + i - 1 /\ b[i] <= last
          BY <2>4, <5>2
        <5>4. QED
          BY <5>1, <5>3
      <4>2. QED
        BY <4>1
    <3>4. Cardinality(f .. last) = IF f <= last THEN last - f + 1 ELSE 0
      BY <2>2, IntervalLength
    <3>5. QED
      BY <2>2, <3>1, <3>2, <3>3, <3>4
  <2>7. got \o snd = b
    BY <2>1 DEF Bytes
  <2>8. QED
    BY <2>3, <2>5, <2>6, <2>7 DEF OnlyWhatWasAsked
<1>2. QED
  BY <1>1, StreamInductive, PTL

(* The headers tell of the bytes that are sent, for a range that lies in    *)
(* the file and whose last byte a long long holds.                          *)
THEOREM HeadersOfTheAnswer == Spec => []HeadersAreTrue
<1>1. ASSUME StreamIInv PROVE HeadersAreTrue
  <2>1. SUFFICES ASSUME pc \in {"sending", "blocked", "sent"},
                        Satisfiable(asked) => ~TooBig(asked.last), Wanted(asked) # {}
                 PROVE  /\ reply.status = IF Satisfiable(asked) THEN 206 ELSE 200
                        /\ reply.start .. reply.end = Wanted(asked)
                        /\ reply.length = Cardinality(Wanted(asked))
    BY DEF HeadersAreTrue
  <2>2. asked \in Header
    BY <1>1 DEF StreamIInv, TypeOK
  <2>3. reply = Headers(ParseRange(asked))
    BY <1>1, <2>1 DEF StreamIInv, Answer
  <2>4. QED
    BY <2>1, <2>2, <2>3, HeadersTellWanted
<1>2. QED
  BY <1>1, StreamInductive, PTL

-----------------------------------------------------------------------------
(* The task card: TaskCard.                                                 *)

(* The card knows only tasks that were accepted.                            *)
Known == /\ task # NoId => phase[task] # "new"
         /\ saved # NoId => phase[saved] # "new"
         /\ create.task # NoId => phase[create.task] # "new"
         /\ given # NoId => phase[given] # "new"

(* While a task is being created there is no current one, and every stop    *)
(* timer is of an earlier task.                                             *)
Posting == create # NoPost => task = NoId /\ early = stops

(* An answer that tells a result is true of its task, or was.               *)
Answered == \A p \in polls :
    /\ p.answer \in Result => phase[p.task] = "over"
    /\ p.answer = "Finished" => shown[p.task] \in {"Finished", "none"}

(* A stop timer was set by the end of the current task, or by an earlier.   *)
Timers == /\ early <= stops
          /\ early < stops => struck \/ (task # NoId /\ phase[task] = "over")

Served == Service!TypeOK /\ Service!ResultIsLast

CardIInv == Served /\ CardTypeOK /\ Known /\ Posting /\ Answered /\ Timers
        /\ SuccessIsTrue /\ FollowsUnfinished

Facts == /\ phase \in [Ids -> {"new", "accepted", "over"}]
         /\ shown \in [Ids -> {"none", "Pending", "Downloading", "Finished", "Failed"}]
         /\ \A t \in Ids : shown[t] \in Result => phase[t] = "over"

LEMMA ServedFacts == Served <=> Facts
  BY DEF Served, Facts, Service!TypeOK, Service!ResultIsLast, Service!Shown, Service!Final,
         Result

LEMMA ResultIs == Result = {"Finished", "Failed"}
  BY DEF Result, Service!Final

(* A step of the service leaves what is over as it is, or forgets it.       *)
Later == /\ \A t \in Ids : phase[t] # "new" => phase'[t] # "new"
         /\ \A t \in Ids : phase[t] = "over" => phase'[t] = "over"
         /\ \A t \in Ids : phase'[t] = "accepted" => phase[t] \in {"new", "accepted"}
         /\ \A t \in Ids : phase[t] = "over" => shown'[t] \in {shown[t], "none"}

LEMMA ServiceStep == ASSUME Served, Service!Next PROVE Served' /\ Later
<1> USE ServedFacts, ResultIs
<1>0. Facts
  OBVIOUS
<1>1. ASSUME NEW t \in Ids, Service!Accept(t) PROVE Facts' /\ Later
  BY <1>0, <1>1 DEF Facts, Later, Service!Accept, Service!Show
<1>2. ASSUME NEW t \in Ids, Service!Work(t) PROVE Facts' /\ Later
  BY <1>0, <1>2 DEF Facts, Later, Service!Work, Service!Show
<1>3. ASSUME NEW t \in Ids, Service!Conclude(t) PROVE Facts' /\ Later
  BY <1>0, <1>3 DEF Facts, Later, Service!Conclude, Service!Show, Service!Final
<1>4. ASSUME NEW ts \in SUBSET Ids, Service!Abandon(ts) PROVE Facts' /\ Later
  BY <1>0, <1>4 DEF Facts, Later, Service!Abandon
<1>5. ASSUME NEW ts \in SUBSET Ids, Service!Expire(ts) PROVE Facts' /\ Later
  BY <1>0, <1>5 DEF Facts, Later, Service!Expire
<1>6. (\E t \in Ids : Service!Accept(t) \/ Service!Work(t) \/ Service!Conclude(t))
      \/ (\E ts \in SUBSET Ids : Service!Abandon(ts) \/ Service!Expire(ts))
  BY DEF Service!Next
<1>7. Facts' /\ Later
  BY <1>1, <1>2, <1>3, <1>4, <1>5, <1>6
<1>8. Facts' => Served'
  BY DEF Served, Facts, Service!TypeOK, Service!ResultIsLast, Service!Shown, Service!Final,
         Result
<1> QED BY <1>7, <1>8

(* One of the service alone keeps the invariant.                            *)
LEMMA Elsewhere == ASSUME CardIInv, Served', Later, UNCHANGED cardVars PROVE CardIInv'
<1> USE NoIdAssumption DEF CardIInv, cardVars, history, NoPost
<1>0. Facts
  BY ServedFacts
<1>1. CardTypeOK'
  BY DEF CardTypeOK
<1>2. Known' /\ Posting'
  BY <1>0 DEF Known, Posting, CardTypeOK, Later
<1>3. Answered'
  <2> SUFFICES ASSUME NEW p \in polls
               PROVE  /\ p.answer \in Result => phase'[p.task] = "over"
                      /\ p.answer = "Finished" => shown'[p.task] \in {"Finished", "none"}
    BY DEF Answered
  <2>1. p.task \in Ids
    BY DEF CardTypeOK
  <2>2. p.answer = "Finished" => p.answer \in Result
    BY ResultIs
  <2> QED BY <2>1, <2>2 DEF Answered, Later
<1>4. Timers'
  BY <1>0 DEF Timers, CardTypeOK, Later
<1>5. SuccessIsTrue' /\ FollowsUnfinished'
  BY <1>0 DEF SuccessIsTrue, FollowsUnfinished, Known, CardTypeOK, Later
<1> QED BY <1>1, <1>2, <1>3, <1>4, <1>5

(* A step of the card that leaves the service, the task, the light and the  *)
(* polling alone.                                                           *)
LEMMA Beside ==
    ASSUME CardIInv, UNCHANGED <<service, task, light, polling, saved, stops, history>>,
           CardTypeOK', Posting', Answered',
           create'.task \in {create.task, NoId}, starts' >= starts
    PROVE  CardIInv'
<1>1. Served'
  BY DEF CardIInv, Served, service, Service!TypeOK, Service!ResultIsLast
<1> QED BY <1>1 DEF CardIInv, service, history, Known, Timers, SuccessIsTrue, FollowsUnfinished,
                    CardTypeOK

LEMMA SameService == ASSUME Served, UNCHANGED service PROVE Served'
  BY DEF Served, service, Service!TypeOK, Service!ResultIsLast

-----------------------------------------------------------------------------
(* The clicks and the POST.                                                 *)
LEMMA PostType == \A k \in 0 .. 2 : [attempt |-> k, task |-> NoId]
                                      \in [attempt : 0 .. 2, task : Ids \cup {NoId}]
  OBVIOUS

LEMMA CreateStep ==
    ASSUME CardIInv, HandleSend \/ Created \/ Resend \/ CreateFails PROVE CardIInv'
<1> USE NoIdAssumption DEF CardIInv, NoPost, Post
<1>0. Served'
  BY SameService DEF HandleSend, Created, Resend, CreateFails
<1>1. CASE HandleSend
  <2>1. CardTypeOK'
    BY <1>1 DEF HandleSend, CardTypeOK
  <2>2. Known' /\ Posting' /\ Answered' /\ Timers'
    BY <1>1 DEF HandleSend, CardTypeOK, Known, Posting, Answered, Timers, service
  <2> QED BY <1>0, <1>1, <2>1, <2>2
          DEF HandleSend, SuccessIsTrue, FollowsUnfinished, service
<1>2. CASE Created
  <2>1. create # NoPost /\ create.task \in Ids /\ early = stops
    BY <1>2 DEF Created, CardTypeOK, Posting
  <2>2. CardTypeOK'
    <3>1. create' \in [attempt : 0 .. 2, task : Ids \cup {NoId}]
      BY <1>2, PostType DEF Created
    <3>2. starts' \in Nat
      BY <1>2 DEF Created, CardTypeOK
    <3> QED BY <1>2, <2>1, <3>1, <3>2 DEF Created, CardTypeOK
  <2>3. Known' /\ Posting' /\ Answered' /\ Timers'
    BY <1>2, <2>1 DEF Created, CardTypeOK, Known, Posting, Answered, Timers, service
  <2>4. FollowsUnfinished'
    BY <1>2, <2>1 DEF Created, CardTypeOK, FollowsUnfinished, service
  <2> QED BY <1>0, <1>2, <2>2, <2>3, <2>4 DEF Created, SuccessIsTrue
<1>3. CASE Resend
  <2>1. CardTypeOK' /\ Posting' /\ Answered'
    BY <1>3 DEF Resend, CardTypeOK, Posting, Answered, history, service
  <2> QED BY <1>3, <2>1, Beside DEF Resend, history, CardTypeOK
<1>4. CASE CreateFails
  <2>1. create # NoPost /\ task = NoId
    BY <1>4 DEF CreateFails, Posting
  <2>2. CardTypeOK'
    <3>1. create' \in [attempt : 0 .. 2, task : Ids \cup {NoId}]
      BY <1>4, PostType DEF CreateFails
    <3> QED BY <1>4, <3>1 DEF CreateFails, CardTypeOK, history
  <2>3. Known' /\ Posting' /\ Answered' /\ Timers'
    BY <1>4 DEF CreateFails, CardTypeOK, Known, Posting, Answered, Timers, service, history
  <2> QED BY <1>0, <1>4, <2>1, <2>2, <2>3
          DEF CreateFails, SuccessIsTrue, FollowsUnfinished, service, history
<1> QED BY <1>1, <1>2, <1>3, <1>4

LEMMA ServedStep == ASSUME CardIInv, NEW t \in Ids, CreateServed(t) PROVE CardIInv'
<1> USE NoIdAssumption DEF CardIInv, NoPost
<1>1. Service!Next
  BY DEF CreateServed, AcceptTask, Service!Next
<1>2. Served' /\ Later
  BY <1>1, ServiceStep
<1>3. phase'[t] = "accepted"
  BY ServedFacts DEF CreateServed, AcceptTask, Service!Accept, Facts
<1>4. Facts
  BY ServedFacts
<1>5. CardTypeOK' /\ Posting' /\ Known'
  BY <1>2, <1>3, <1>4 DEF CreateServed, CardTypeOK, Posting, Known, Later, history
<1>6. Answered'
  <2> SUFFICES ASSUME NEW p \in polls
               PROVE  /\ p.answer \in Result => phase'[p.task] = "over"
                      /\ p.answer = "Finished" => shown'[p.task] \in {"Finished", "none"}
    BY DEF Answered, CreateServed
  <2> QED BY <1>2, ResultIs DEF Answered, Later, CardTypeOK
<1>7. Timers'
  BY <1>2 DEF CreateServed, CardTypeOK, Posting, Timers, Later, history
<1>8. SuccessIsTrue' /\ FollowsUnfinished'
  BY <1>2, <1>4 DEF CreateServed, CardTypeOK, SuccessIsTrue, FollowsUnfinished, Known, Later, history
<1> QED BY <1>2, <1>5, <1>6, <1>7, <1>8

-----------------------------------------------------------------------------
(* The timers.                                                              *)
LEMMA TimerStep == ASSUME CardIInv, StartFires \/ StopFires \/ PollTask PROVE CardIInv'
<1> USE NoIdAssumption DEF CardIInv, StopPolling
<1>0. Served'
  BY SameService DEF StartFires, StopFires, PollTask
<1>1. CASE StartFires
  <2>1. CardTypeOK'
    BY <1>1 DEF StartFires, CardTypeOK, history
  <2> QED BY <1>0, <1>1, <2>1
          DEF StartFires, Known, Posting, Answered, Timers, SuccessIsTrue, FollowsUnfinished,
              history, service
<1>2. CASE StopFires
  <2>1. CardTypeOK'
    <3>1. stops' \in Nat
      BY <1>2 DEF StopFires, CardTypeOK
    <3>2. early' \in Nat
      BY <1>2 DEF StopFires, CardTypeOK
    <3>3. struck' \in BOOLEAN
      BY <1>2 DEF StopFires, CardTypeOK
    <3> QED BY <1>2, <3>1, <3>2, <3>3 DEF StopFires, CardTypeOK
  <2>2. Known' /\ Posting' /\ Answered'
    BY <1>2 DEF StopFires, CardTypeOK, Known, Posting, Answered, Timers, service
  <2>3. Timers'
    BY <1>2 DEF StopFires, CardTypeOK, Timers, service
  <2>4. SuccessIsTrue' /\ FollowsUnfinished'
    BY <1>2 DEF StopFires, CardTypeOK, Timers, SuccessIsTrue, FollowsUnfinished, service
  <2> QED BY <1>0, <2>1, <2>2, <2>3, <2>4
<1>3. CASE PollTask
  <2>1. CASE task = NoId
    BY <1>0, <1>3, <2>1
       DEF PollTask, CardTypeOK, Known, Posting, Answered, Timers, SuccessIsTrue,
           FollowsUnfinished, history, service
  <2>2. CASE task # NoId
    <3>1. /\ polls' = polls \cup {[task |-> task, answer |-> Unanswered]}
          /\ UNCHANGED <<service, task, light, polling, saved, create, starts, stops, history>>
      BY <1>3, <2>2 DEF PollTask
    <3>2. Unanswered \notin Result /\ Unanswered # "Finished"
      BY ResultIs DEF Unanswered
    <3>3. CardTypeOK'
      BY <2>2, <3>1 DEF CardTypeOK, history
    <3>4. Answered'
      BY <3>1, <3>2 DEF Answered, service
    <3>5. Posting'
      BY <3>1 DEF Posting, history
    <3> QED BY <3>1, <3>3, <3>4, <3>5, Beside DEF history, CardTypeOK
  <2> QED BY <2>1, <2>2
<1> QED BY <1>1, <1>2, <1>3

-----------------------------------------------------------------------------
(* The requests.                                                            *)
LEMMA StatusStep == ASSUME CardIInv, NEW p \in polls, GetStatus(p) PROVE CardIInv'
<1> USE DEF CardIInv
<1>0. Facts /\ p.task \in Ids
  BY ServedFacts DEF CardTypeOK
<1>1. /\ polls' = (polls \ {p}) \cup {[p EXCEPT !.answer = StatusOf(p.task)]}
      /\ UNCHANGED <<service, task, light, polling, saved, create, starts, stops, history>>
  BY DEF GetStatus
<1>2. StatusOf(p.task) \in Answers
  BY <1>0, ResultIs DEF StatusOf, Answers, Facts
<1>3. CardTypeOK'
  BY <1>0, <1>1, <1>2 DEF CardTypeOK, history
<1>4. Answered'
  <2> SUFFICES ASSUME NEW q \in polls'
               PROVE  /\ q.answer \in Result => phase[q.task] = "over"
                      /\ q.answer = "Finished" => shown[q.task] \in {"Finished", "none"}
    BY <1>1 DEF Answered, service
  <2>1. CASE q \in polls
    BY <2>1 DEF Answered
  <2>2. CASE q = [p EXCEPT !.answer = StatusOf(p.task)]
    <3>1. q.task = p.task /\ q.answer = StatusOf(p.task)
      BY <2>2 DEF CardTypeOK
    <3> QED BY <1>0, <3>1, ResultIs DEF StatusOf, Facts
  <2> QED BY <1>1, <2>1, <2>2
<1>5. Posting'
  BY <1>1 DEF Posting, history
<1> QED BY <1>1, <1>3, <1>4, <1>5, Beside DEF history, CardTypeOK

LEMMA LoseStep == ASSUME CardIInv, NEW p \in polls, Lose(p) PROVE CardIInv'
<1> USE DEF CardIInv
<1>1. CardTypeOK' /\ Answered' /\ Posting'
  BY DEF Lose, CardTypeOK, Answered, Posting, history, service
<1> QED BY <1>1, Beside DEF Lose, history, CardTypeOK

LEMMA ArriveStep == ASSUME CardIInv, NEW p \in polls, Arrive(p) PROVE CardIInv'
<1> USE NoIdAssumption DEF CardIInv
<1>0. Served' /\ p.task \in Ids
  BY SameService DEF Arrive, CardTypeOK
<1>1. /\ Show(p.answer) /\ polls' = polls \ {p}
      /\ told' = (told \/ p.answer \in Result)
      /\ struck' = (struck \/ p.task # task)
      /\ early' = IF p.task = task THEN early ELSE early + (stops' - stops)
      /\ UNCHANGED <<service, task, create, starts, given, dropped>>
  BY DEF Arrive
<1>2. /\ light' \in {light, "idle", "downloading", "success", "error"}
      /\ polling' \in {polling, FALSE} /\ saved' \in {saved, NoId}
      /\ stops' \in {stops, stops + 1}
      /\ stops' # stops => p.answer = "Finished"
      /\ light' = "success" => light = "success" \/ p.answer = "Finished"
      /\ <<polling', saved'>> # <<polling, saved>> => p.answer = "Failed"
  BY <1>1 DEF Show, StopPolling
<1>3. /\ stops \in Nat /\ early \in Nat /\ stops' \in Nat
      /\ p.task # task => /\ early' \in Nat
                          /\ early <= stops => early' <= stops'
                          /\ early = stops => early' = stops'
  <2>1. stops \in Nat /\ early \in Nat
    BY DEF CardTypeOK
  <2>2. stops' = stops \/ stops' = stops + 1
    BY <1>2
  <2>3. p.task # task => early' = early + (stops' - stops)
    BY <1>1
  <2>4. CASE stops' = stops
    BY <2>1, <2>3, <2>4
  <2>5. CASE stops' = stops + 1
    BY <2>1, <2>3, <2>5
  <2> QED BY <2>2, <2>4, <2>5
<1>4. /\ p.answer \in {"Finished", "Failed"} => phase[p.task] = "over"
      /\ p.answer = "Finished" => shown[p.task] \in {"Finished", "none"}
  BY ResultIs DEF Answered
<1>5. CardTypeOK'
  <2>1. stops \in Nat /\ early \in Nat /\ told \in BOOLEAN /\ struck \in BOOLEAN
    BY DEF CardTypeOK
  <2>2. stops' \in Nat /\ early' \in Nat
    <3>1. CASE p.task = task
      BY <1>1, <1>3, <3>1
    <3>2. CASE p.task # task
      BY <1>3, <3>2
    <3> QED BY <3>1, <3>2
  <2>3. told' \in BOOLEAN /\ struck' \in BOOLEAN
    BY <1>1, <2>1, Zenon
  <2> QED BY <1>1, <1>2, <2>2, <2>3 DEF CardTypeOK
<1>6. Known' /\ Answered'
  BY <1>1, <1>2 DEF Known, Answered, service
<1>7. ASSUME p.task # task
      PROVE  Posting' /\ Timers' /\ SuccessIsTrue' /\ FollowsUnfinished'
  <2>1. struck' /\ early' = early + (stops' - stops)
    BY <1>1, <1>7
  <2>2. UNCHANGED <<task, create>>
    BY <1>1
  <2>3. /\ early = stops => early' = stops'
        /\ early <= stops => early' <= stops'
    BY <1>7, <1>3, <2>1
  <2>4. Posting' /\ Timers'
    BY <2>1, <2>2, <2>3 DEF Posting, Timers
  <2> QED BY <2>1, <2>4 DEF SuccessIsTrue, FollowsUnfinished
<1>8. ASSUME p.task = task
      PROVE  Posting' /\ Timers' /\ SuccessIsTrue' /\ FollowsUnfinished'
  <2>1. task \in Ids /\ task # NoId /\ early' = early /\ (struck' <=> struck)
    BY <1>0, <1>1, <1>8
  <2>2. UNCHANGED <<phase, shown, task, starts, create, given, dropped>>
    BY <1>1 DEF service
  <2>3. Posting'
    BY <2>1, <2>2 DEF Posting
  <2>4. Timers'
    <3>1. CASE stops' = stops
      BY <2>1, <2>2, <3>1 DEF Timers
    <3>2. CASE stops' # stops
      <4>1. phase[task] = "over" /\ stops' = stops + 1
        BY <1>2, <1>4, <1>8, <3>2
      <4> QED BY <2>1, <2>2, <4>1 DEF Timers, CardTypeOK
    <3> QED BY <3>1, <3>2
  <2>5. SuccessIsTrue'
    BY <1>2, <1>4, <1>8, <2>1, <2>2 DEF SuccessIsTrue
  <2>6. FollowsUnfinished'
    BY <1>2, <1>4, <1>8, <2>1, <2>2 DEF FollowsUnfinished
  <2> QED BY <2>3, <2>4, <2>5, <2>6
<1> QED BY <1>0, <1>5, <1>6, <1>7, <1>8

LEMMA LoadStep == ASSUME CardIInv, Reload \/ Reopen PROVE CardIInv'
<1> USE NoIdAssumption DEF CardIInv
<1>0. Served'
  BY SameService DEF Reload, Reopen
<1>1. \E key \in {saved, NoId} : Loaded(key)
  BY DEF Reload, Reopen
<1>2. PICK key \in {saved, NoId} : Loaded(key)
  BY <1>1
<1>3. CardTypeOK'
  <2>1. create' \in [attempt : 0 .. 2, task : Ids \cup {NoId}]
    BY <1>2, PostType DEF Loaded, NoPost
  <2>2. given' \in Ids \cup {NoId} /\ dropped' \in BOOLEAN
    BY Zenon DEF Reload, Reopen, CardTypeOK
  <2> QED BY <1>2, <2>1, <2>2 DEF Loaded, CardTypeOK
<1>4. UNCHANGED service
  BY DEF Reload, Reopen
<1>5. Known' /\ Posting' /\ Answered' /\ Timers'
  <2>1. given' = given
    BY DEF Reload, Reopen
  <2> QED BY <1>2, <1>4, <2>1 DEF Loaded, NoPost, Known, Posting, Answered, Timers, service
<1>6. SuccessIsTrue'
  BY <1>2 DEF Loaded, SuccessIsTrue
<1>7. FollowsUnfinished'
  <2>1. CASE Reload
    BY <2>1 DEF Reload, FollowsUnfinished
  <2>2. CASE Reopen
    BY <2>2 DEF Reopen, Loaded, FollowsUnfinished, service
  <2> QED BY <2>1, <2>2
<1> QED BY <1>0, <1>3, <1>5, <1>6, <1>7

-----------------------------------------------------------------------------
LEMMA CardStarts == CardInit => CardIInv
<1> SUFFICES ASSUME CardInit PROVE CardIInv
  OBVIOUS
<1>1. Served
  BY DEF CardInit, Service!Init, Served, Service!TypeOK, Service!ResultIsLast,
         Service!Shown, Service!Final
<1>2. CardTypeOK
  <2>1. create \in [attempt : 0 .. 2, task : Ids \cup {NoId}]
    BY PostType DEF CardInit, NoPost
  <2> QED BY <2>1 DEF CardInit, CardTypeOK
<1> QED BY <1>1, <1>2
        DEF CardInit, CardIInv, NoPost, Known, Posting, Answered, Timers, SuccessIsTrue,
            FollowsUnfinished

LEMMA CardGoesOn == CardIInv /\ [CardNext]_page => CardIInv'
<1> SUFFICES ASSUME CardIInv, [CardNext]_page PROVE CardIInv'
  OBVIOUS
<1>1. CASE Card
  BY <1>1, CreateStep, ServedStep, TimerStep, StatusStep, ArriveStep, LoseStep, LoadStep
     DEF Card, Request
<1>2. CASE Service!Next /\ UNCHANGED cardVars
  BY <1>2, ServiceStep, Elsewhere DEF CardIInv
<1>3. CASE UNCHANGED page
  <2>1. Served'
    BY <1>3, SameService DEF page, CardIInv
  <2> QED BY <1>3, <2>1
          DEF page, cardVars, history, service, CardIInv, CardTypeOK, Known, Posting, Answered,
              Timers, SuccessIsTrue, FollowsUnfinished
<1> QED BY <1>1, <1>2, <1>3 DEF CardNext

(* What the card shows, what it asks and what it was told go together.      *)
THEOREM CardInductive == CardSpec => []CardIInv
  BY CardStarts, CardGoesOn, PTL DEF CardSpec

(* A green light is true, whatever answers crossed restarts, cleanups and   *)
(* each other, unless something of an earlier task has come.                *)
THEOREM GreenIsTrue == CardSpec => []SuccessIsTrue
  BY CardInductive, PTL DEF CardIInv

(* The task a tab asked for last is asked about while it is worked on, also *)
(* by a page that is opened again after the browser died or dropped it;     *)
(* unless the page has unloaded, which removes the task's key (main.js:36), *)
(* or an answer or a stop timer of an earlier task came: since the task was *)
(* set (struck), or before the page was opened again (dropped).             *)
THEOREM Followed == CardSpec => []FollowsUnfinished
  BY CardInductive, PTL DEF CardIInv

-----------------------------------------------------------------------------
(* The archive: BatchZip.                                                   *)

Own(m, d) == [i \in 1 .. m |-> d]

(* Two that are under way under one name are both known to be mixed.        *)
Apart == \A d, e \in Downloads :
    d # e /\ zip[d].pc \in Working /\ zip[e].pc \in Working /\ Name(d) = Name(e)
        => d \in mixed /\ e \in mixed

(* A file has the name of the download that created it, at the path and in  *)
(* the hands of whoever has it open.                                        *)
Opened   == {"packing", "packed", "queued", "sending"}
MadeBy(f, name) == f \in Downloads /\ Name(f) = name /\ zip[f].pc \notin {"idle", "named"}
Origins  == /\ \A s \in DOMAIN tmp : tmp[s] # NoFile => MadeBy(tmp[s], s)
            /\ \A d \in Downloads : zip[d].pc \in Opened => MadeBy(File(d), Name(d))

(* What is in the file of one that is not mixed, and what its peer has.     *)
ContentOf(d) ==
    /\ zip[d].pc \in Opened => tmp[Name(d)] = File(d)
    /\ zip[d].pc \in {"idle", "named"} => zip[d].at = 0
    /\ zip[d].pc = "packing" => zip[d].at <= Songs /\ data[File(d)] = Own(zip[d].at, d)
    /\ zip[d].pc \in {"packed", "queued", "sending"} => data[File(d)] = Own(Songs, d)
    /\ zip[d].pc \in {"queued", "sending"} => zip[d].size = Songs
    /\ zip[d].pc = "sending" => zip[d].at <= Songs /\ received[d] = Own(zip[d].at, d)
    /\ zip[d].pc \in {"idle", "named"} \cup (Opened \ {"sending"}) => received[d] = <<>>
    /\ zip[d].pc = "done" => received[d] = Own(Songs, d)
Content == \A d \in Downloads : d \notin mixed => ContentOf(d)

ZipIInv == ZipTypeOK /\ NoStrayArchive /\ Apart /\ Origins /\ Content

Entry == Downloads \cup {Hole}
PCs   == Working \cup Forsaken \cup {"idle", "refused", "done", "reset"}
Zips  == [pc : PCs, name : 0 .. MaxSecond, file : Downloads \cup {NoFile}, at : Nat, size : Nat]

LEMMA ZipTypes ==
    ZipTypeOK <=> /\ second \in 0 .. MaxSecond
                  /\ tmp \in [0 .. MaxSecond -> Downloads \cup {NoFile}]
                  /\ data \in [Downloads -> Seq(Entry)]
                  /\ zip \in [Downloads -> Zips]
                  /\ received \in [Downloads -> Seq(Entry)]
                  /\ mixed \subseteq Downloads
  BY DEF ZipTypeOK, Entry, Zips, PCs

(* Writing the next entry of one's own.                                     *)
LEMMA WriteAtType ==
    ASSUME NEW s \in Seq(Entry), NEW k \in Nat \ {0}, NEW x \in Downloads
    PROVE  WriteAt(s, k, x) \in Seq(Entry)
<1>1. Len(s) \in Nat /\ \A i \in 1 .. Len(s) : s[i] \in Entry
  OBVIOUS
<1>2. Max({Len(s), k}) \in Nat
  BY <1>1 DEF Max
<1> DEFINE at(i) == CASE i = k -> x [] i # k /\ i \in DOMAIN s -> s[i] [] OTHER -> Hole
           last  == Max({Len(s), k})
<1>3. \A i \in 1 .. last : at(i) \in Entry
  BY <1>1 DEF Entry
<1>4. WriteAt(s, k, x) = [i \in 1 .. last |-> at(i)]
  BY DEF WriteAt
<1>5. last \in Nat
  BY <1>2
<1> HIDE DEF at, last
<1>6. [i \in 1 .. last |-> at(i)] \in Seq(Entry)
  BY <1>3, <1>5
<1> QED BY <1>4, <1>6

LEMMA WriteAtOwn ==
    ASSUME NEW m \in Nat, NEW d \in Downloads
    PROVE  WriteAt(Own(m, d), m + 1, d) = Own(m + 1, d)
<1>1. Len(Own(m, d)) = m /\ DOMAIN Own(m, d) = 1 .. m
  BY DEF Own
<1>2. Max({m, m + 1}) = m + 1
  BY DEF Max
<1>3. \A i \in 1 .. m + 1 :
         (CASE i = m + 1 -> d [] i # m + 1 /\ i \in 1 .. m -> Own(m, d)[i] [] OTHER -> Hole) = d
  BY DEF Own
<1> QED BY <1>1, <1>2, <1>3 DEF WriteAt, Own

(* What is one's own grows by one's own.                                    *)
LEMMA OwnGrows ==
    ASSUME NEW m \in Nat, NEW d \in Downloads
    PROVE  /\ Own(m, d) \in Seq(Entry) /\ Len(Own(m, d)) = m
           /\ Append(Own(m, d), d) = Own(m + 1, d)
<1>1. Own(m, d) \in Seq(Entry) /\ Len(Own(m, d)) = m
  BY DEF Own, Entry
<1>2. Append(Own(m, d), d) = Own(m + 1, d)
  BY DEF Own
<1> QED BY <1>1, <1>2

LEMMA ZipStarts == ZipInit => ZipIInv
<1> SUFFICES ASSUME ZipInit PROVE ZipIInv
  OBVIOUS
<1>1. ZipTypeOK
  <2>1. [d \in Downloads |-> Nothing] \in [Downloads -> Zips]
    BY ZipAssumption DEF Nothing, Zips, PCs
  <2>2. <<>> \in Seq(Entry)
    OBVIOUS
  <2> QED BY ZipAssumption, <2>1, <2>2, ZipTypes DEF ZipInit
<1>2. NoStrayArchive /\ Origins
  BY DEF ZipInit, NoStrayArchive, Origins, Nothing, Opened
<1>3. Apart /\ Content
  BY DEF ZipInit, Apart, Content, ContentOf, Nothing, Opened, Working
<1> QED BY <1>1, <1>2, <1>3 DEF ZipIInv

(* A turn of a download that is under way, which touches only the path and  *)
(* the files of its name, keeps the invariant of all the others.            *)
LEMMA Turn ==
    ASSUME ZipIInv, ZipTypeOK', mixed' = mixed,
           NEW d \in Downloads, zip[d].pc \in Working,
           \A e \in Downloads : e # d => zip'[e] = zip[e] /\ received'[e] = received[e],
           zip'[d].name = zip[d].name, zip'[d].pc \notin {"idle", "named"},
           \A s \in DOMAIN tmp : s # Name(d) => tmp'[s] = tmp[s],
           tmp'[Name(d)] \in {NoFile, tmp[Name(d)], d},
           \A f \in Downloads : Name(f) # Name(d) => data'[f] = data[f],
           zip'[d].pc \in Opened =>
               \/ zip[d].pc \in Opened /\ zip'[d].file = zip[d].file
               \/ zip'[d].file = tmp'[Name(d)] /\ tmp'[Name(d)] # NoFile,
           zip'[d].pc \in Working \cup Forsaken \/ tmp'[Name(d)] = NoFile,
           d \notin mixed => ContentOf(d)'
    PROVE  ZipIInv'
<1> USE DEF ZipIInv, Name, File
<1>0. /\ DOMAIN tmp = 0 .. MaxSecond /\ DOMAIN tmp' = 0 .. MaxSecond
      /\ \A e \in Downloads : zip[e].name \in 0 .. MaxSecond /\ zip'[e].name = zip[e].name
      /\ \A s \in 0 .. MaxSecond : tmp[s] \in Downloads \cup {NoFile}
  BY DEF ZipTypeOK
<1>1. NoStrayArchive'
  <2> SUFFICES ASSUME NEW s \in DOMAIN tmp, tmp'[s] # NoFile
               PROVE  \E e \in Downloads : zip'[e].name = s /\ zip'[e].pc \in Working \cup Forsaken
    BY <1>0 DEF NoStrayArchive
  <2>1. CASE s = zip[d].name
    BY <2>1
  <2>2. CASE s # zip[d].name
    <3>1. PICK e \in Downloads : zip[e].name = s /\ zip[e].pc \in Working \cup Forsaken
      BY <2>2 DEF NoStrayArchive
    <3> QED BY <2>2, <3>1
  <2> QED BY <2>1, <2>2
<1>2. Apart'
  BY <1>0 DEF Apart
<1>3. \A f \in Downloads, s \in 0 .. MaxSecond : MadeBy(f, s) => MadeBy(f, s)'
  BY <1>0 DEF MadeBy
<1>4. MadeBy(d, zip[d].name)'
  BY DEF MadeBy
<1>5. \A s \in 0 .. MaxSecond : tmp'[s] # NoFile => MadeBy(tmp[s], s)'
  BY <1>0, <1>3, <1>4 DEF Origins
<1>6. \A e \in Downloads : zip'[e].pc \in Opened => MadeBy(zip[e].file, zip[e].name)'
  <2> SUFFICES ASSUME NEW e \in Downloads, zip'[e].pc \in Opened
               PROVE  MadeBy(zip[e].file, zip[e].name)'
    OBVIOUS
  <2>1. CASE zip[e].pc \in Opened /\ zip'[e].file = zip[e].file
    <3>1. MadeBy(zip[e].file, zip[e].name)
      BY <2>1 DEF Origins
    <3> QED BY <1>0, <2>1, <3>1 DEF MadeBy
  <2>2. CASE e = d /\ zip'[d].file = tmp'[zip[d].name] /\ tmp'[zip[d].name] # NoFile
    BY <1>0, <1>5, <2>2
  <2> QED BY <2>1, <2>2
<1>7. Origins'
  BY <1>0, <1>5, <1>6 DEF Origins
<1>8. Content'
  <2> SUFFICES ASSUME NEW e \in Downloads, e \notin mixed, e # d PROVE ContentOf(e)'
    BY DEF Content
  <2>1. ContentOf(e)
    BY DEF Content
  <2>2. CASE zip[e].pc \in Opened
    <3>1. zip[e].name # zip[d].name
      BY <2>2 DEF Apart, Opened, Working
    <3>2. zip[e].file \in Downloads /\ zip[zip[e].file].name = zip[e].name
      BY <2>2 DEF Origins, MadeBy
    <3>3. data'[zip[e].file] = data[zip[e].file] /\ tmp'[zip[e].name] = tmp[zip[e].name]
      BY <1>0, <3>1, <3>2
    <3> QED BY <2>1, <3>3 DEF ContentOf
  <2>3. CASE zip[e].pc \notin Opened
    BY <2>1, <2>3 DEF ContentOf, Opened
  <2> QED BY <2>2, <2>3
<1> QED BY <1>1, <1>2, <1>7, <1>8

-----------------------------------------------------------------------------
(* A download takes its name: those under way under it are mixed from now.  *)
LEMMA NameStep == ASSUME ZipIInv, NEW d \in Downloads, NameArchive(d) PROVE ZipIInv'
<1> USE DEF ZipIInv, Name, File
<1>0. /\ second \in 0 .. MaxSecond /\ zip \in [Downloads -> Zips] /\ mixed \subseteq Downloads
      /\ UNCHANGED <<second, tmp, data, received>>
  BY ZipTypes DEF NameArchive
<1>1. /\ zip[d].pc = "idle" /\ zip'[d] = [zip[d] EXCEPT !.pc = "named", !.name = second]
      /\ \A e \in Downloads : e # d => zip'[e] = zip[e]
      /\ zip' \in [Downloads -> Zips]
  <2> DEFINE named == [zip[d] EXCEPT !.pc = "named", !.name = second]
  <2>1. zip[d].pc = "idle" /\ zip' = [zip EXCEPT ![d] = named]
    BY <1>0 DEF NameArchive, Zips
  <2>2. named \in Zips
    BY <1>0 DEF Zips, PCs, Working
  <2> HIDE DEF named
  <2>3. zip'[d] = named /\ zip' \in [Downloads -> Zips]
    BY <1>0, <2>1, <2>2
  <2>4. \A e \in Downloads : e # d => zip'[e] = zip[e]
    BY <1>0, <2>1
  <2> QED BY <2>1, <2>3, <2>4 DEF named
<1>2. /\ mixed \subseteq mixed' /\ mixed' \subseteq Downloads
      /\ \A e \in Downloads : zip[e].pc \in Working /\ zip[e].name = second
                              => e \in mixed' /\ d \in mixed'
  <2> DEFINE others == {o \in Downloads : zip[o].pc \in Working /\ zip[o].name = second}
  <2>1. mixed' = IF others = {} THEN mixed ELSE mixed \cup others \cup {d}
    BY DEF NameArchive
  <2>2. ASSUME NEW e \in Downloads, zip[e].pc \in Working, zip[e].name = second
        PROVE  e \in mixed' /\ d \in mixed'
    <3>1. e \in others
      BY <2>2
    <3> QED BY <2>1, <3>1
  <2> QED BY <1>0, <2>1, <2>2
<1>3. ZipTypeOK'
  <2>1. (ZipTypeOK') <=> /\ second' \in 0 .. MaxSecond
                  /\ tmp' \in [0 .. MaxSecond -> Downloads \cup {NoFile}]
                  /\ data' \in [Downloads -> Seq(Entry)]
                  /\ zip' \in [Downloads -> Zips]
                  /\ received' \in [Downloads -> Seq(Entry)]
                  /\ mixed' \subseteq Downloads
    BY DEF ZipTypeOK, Entry, Zips, PCs
  <2> QED BY <1>0, <1>1, <1>2, <2>1, ZipTypes
<1>4. zip'[d].pc = "named" /\ zip'[d].name = second /\ zip'[d].at = zip[d].at
  BY <1>0, <1>1 DEF Zips
<1>5. NoStrayArchive'
  <2> SUFFICES ASSUME NEW s \in DOMAIN tmp, tmp[s] # NoFile
               PROVE  \E e \in Downloads : zip'[e].name = s /\ zip'[e].pc \in Working \cup Forsaken
    BY <1>0 DEF NoStrayArchive
  <2>1. PICK e \in Downloads : zip[e].name = s /\ zip[e].pc \in Working \cup Forsaken
    BY DEF NoStrayArchive
  <2>2. e # d
    BY <1>1, <2>1 DEF Working, Forsaken
  <2>3. zip'[e] = zip[e]
    BY <1>1, <2>2
  <2> QED BY <2>1, <2>3
<1>6. Apart'
  <2> SUFFICES ASSUME NEW a \in Downloads, NEW b \in Downloads, a # b,
                      zip'[a].pc \in Working, zip'[b].pc \in Working, zip'[a].name = zip'[b].name
               PROVE  a \in mixed' /\ b \in mixed'
    BY DEF Apart
  <2>1. CASE a # d /\ b # d
    BY <1>1, <1>2, <2>1 DEF Apart
  <2>2. CASE a = d
    BY <1>1, <1>2, <1>4, <2>2
  <2>3. CASE b = d
    BY <1>1, <1>2, <1>4, <2>3
  <2> QED BY <2>1, <2>2, <2>3
<1>7. Origins'
  <2>1. \A f, s : MadeBy(f, s) => MadeBy(f, s)'
    BY <1>1 DEF MadeBy
  <2> QED BY <1>0, <1>1, <1>4, <2>1 DEF Origins, Opened
<1>8. Content'
  <2> SUFFICES ASSUME NEW e \in Downloads, e \notin mixed PROVE ContentOf(e)'
    BY <1>2 DEF Content
  <2>1. ContentOf(e)
    BY DEF Content
  <2>2. CASE e = d
    BY <1>0, <1>1, <1>4, <2>1, <2>2 DEF ContentOf, Opened
  <2>3. CASE e # d
    BY <1>0, <1>1, <2>1, <2>3 DEF ContentOf
  <2> QED BY <2>2, <2>3
<1> QED BY <1>3, <1>5, <1>6, <1>7, <1>8

(* The types of what a turn leaves, and of the entry of the one whose it is.*)
LEMMA TurnTypes ==
    ASSUME ZipTypeOK, NEW d \in Downloads, NEW z \in Zips, zip' = [zip EXCEPT ![d] = z],
           UNCHANGED <<second, mixed>>,
           tmp' \in [0 .. MaxSecond -> Downloads \cup {NoFile}],
           data' \in [Downloads -> Seq(Entry)], received' \in [Downloads -> Seq(Entry)]
    PROVE  ZipTypeOK' /\ zip'[d] = z /\ \A e \in Downloads : e # d => zip'[e] = zip[e]
  BY DEF ZipTypeOK, Entry, Zips, PCs

LEMMA OpenStep == ASSUME ZipIInv, NEW d \in Downloads, OpenArchive(d) PROVE ZipIInv'
<1> USE DEF ZipIInv, Name, File
<1> DEFINE f == IF tmp[zip[d].name] = NoFile THEN d ELSE tmp[zip[d].name]
           z == [zip[d] EXCEPT !.pc = "packing", !.file = f]
<1>0. /\ tmp \in [0 .. MaxSecond -> Downloads \cup {NoFile}]
      /\ data \in [Downloads -> Seq(Entry)] /\ received \in [Downloads -> Seq(Entry)]
      /\ zip[d] \in Zips /\ zip[d].name \in 0 .. MaxSecond /\ zip[d].pc = "named"
  BY ZipTypes DEF OpenArchive, Zips
<1>1. f \in Downloads
  BY <1>0
<1>2. /\ tmp' = [tmp EXCEPT ![zip[d].name] = f] /\ data' = [data EXCEPT ![f] = <<>>]
      /\ zip' = [zip EXCEPT ![d].pc = "packing", ![d].file = f]
      /\ UNCHANGED <<second, received, mixed>>
  BY DEF OpenArchive
<1>3. zip' = [zip EXCEPT ![d] = z]
  BY <1>0, <1>2, ZipTypes DEF Zips
<1>4. z \in Zips /\ z.pc = "packing" /\ z.file = f /\ z.name = zip[d].name /\ z.at = zip[d].at
  BY <1>0, <1>1 DEF Zips, PCs, Working
<1>5. /\ tmp' \in [0 .. MaxSecond -> Downloads \cup {NoFile}]
      /\ data' \in [Downloads -> Seq(Entry)] /\ tmp'[zip[d].name] = f /\ data'[f] = <<>>
      /\ \A s \in DOMAIN tmp : s # zip[d].name => tmp'[s] = tmp[s]
      /\ \A g \in Downloads : g # f => data'[g] = data[g]
  BY <1>0, <1>1, <1>2
<1> HIDE DEF z, f
<1>6. ZipTypeOK' /\ zip'[d] = z /\ \A e \in Downloads : e # d => zip'[e] = zip[e]
  <2>1. ZipTypeOK /\ UNCHANGED <<second, mixed>> /\ received' \in [Downloads -> Seq(Entry)]
    BY <1>0, <1>2
  <2> QED BY <1>3, <1>4, <1>5, <2>1, TurnTypes
<1>7. zip[f].name = zip[d].name
  BY <1>0 DEF f, Origins, MadeBy
<1>8. d \notin mixed => ContentOf(d)'
  <2> SUFFICES ASSUME d \notin mixed PROVE ContentOf(d)'
    OBVIOUS
  <2>1. zip[d].at = 0 /\ received[d] = <<>>
    BY <1>0 DEF Content, ContentOf
  <2>2. Own(0, d) = <<>>
    BY DEF Own
  <2> QED BY ZipAssumption, <1>2, <1>4, <1>5, <1>6, <2>1, <2>2 DEF ContentOf, Opened
<1>9. \A g \in Downloads : zip[g].name # zip[d].name => data'[g] = data[g]
  BY <1>5, <1>7
<1>10. tmp'[zip[d].name] \in {NoFile, tmp[zip[d].name], d} /\ f # NoFile
  BY ZipAssumption, <1>1, <1>5 DEF f
<1>11. /\ zip[d].pc \in Working /\ zip'[d].pc \in Working \cup Forsaken
       /\ zip'[d].name = zip[d].name /\ zip'[d].pc \notin {"idle", "named"}
       /\ zip'[d].file = tmp'[zip[d].name] /\ tmp'[zip[d].name] # NoFile
       /\ \A e \in Downloads : e # d => zip'[e] = zip[e] /\ received'[e] = received[e]
       /\ mixed' = mixed
  BY <1>0, <1>2, <1>4, <1>5, <1>6, <1>10 DEF Working
<1> QED
  BY <1>5, <1>6, <1>8, <1>9, <1>10, <1>11, Turn

(* A download ends, and unlinks its path unless its connection was closed.  *)
LEMMA Ends ==
    ASSUME ZipIInv, NEW d \in Downloads, zip[d].pc \in Working,
           NEW how \in Forsaken \cup {"refused", "reset", "done"}, zip' = [zip EXCEPT ![d].pc = how],
           UNCHANGED <<second, data, received, mixed>>,
           \/ tmp' = tmp /\ (how \in Forsaken \/ tmp[Name(d)] = NoFile)
           \/ tmp' = [tmp EXCEPT ![Name(d)] = NoFile],
           how = "done" /\ d \notin mixed => received[d] = Own(Songs, d)
    PROVE  ZipIInv'
<1> USE DEF ZipIInv, Name, File
<1> DEFINE z == [zip[d] EXCEPT !.pc = how]
<1>0. /\ tmp \in [0 .. MaxSecond -> Downloads \cup {NoFile}] /\ zip \in [Downloads -> Zips]
      /\ data' \in [Downloads -> Seq(Entry)] /\ received' \in [Downloads -> Seq(Entry)]
      /\ zip[d] \in Zips /\ zip[d].name \in 0 .. MaxSecond
  BY ZipTypes DEF Zips
<1>1. zip' = [zip EXCEPT ![d] = z] /\ z \in Zips /\ z.pc = how /\ z.name = zip[d].name
  BY <1>0 DEF Zips, PCs
<1>2. /\ tmp' \in [0 .. MaxSecond -> Downloads \cup {NoFile}]
      /\ tmp'[zip[d].name] \in {NoFile, tmp[zip[d].name], d}
      /\ how \in Forsaken \/ tmp'[zip[d].name] = NoFile
      /\ \A s \in DOMAIN tmp : s # zip[d].name => tmp'[s] = tmp[s]
  BY <1>0
<1> HIDE DEF z
<1>3. ZipTypeOK' /\ zip'[d] = z /\ \A e \in Downloads : e # d => zip'[e] = zip[e]
  BY <1>0, <1>1, <1>2, TurnTypes
<1>4. zip'[d].pc = how /\ zip'[d].name = zip[d].name /\ zip'[d].pc \notin Opened \cup {"idle", "named"}
  BY <1>1, <1>3 DEF Opened, Forsaken
<1>5. d \notin mixed => ContentOf(d)'
  BY <1>4 DEF ContentOf, Opened, Forsaken
<1>6. /\ zip'[d].pc \in Working \cup Forsaken \/ tmp'[zip[d].name] = NoFile
      /\ zip'[d].pc \notin {"idle", "named"} /\ zip'[d].pc \notin Opened
      /\ \A e \in Downloads : e # d => zip'[e] = zip[e] /\ received'[e] = received[e]
      /\ \A f \in Downloads : zip[f].name # zip[d].name => data'[f] = data[f]
      /\ mixed' = mixed
  BY <1>2, <1>3, <1>4
<1> QED BY <1>2, <1>3, <1>4, <1>5, <1>6, Turn

LEMMA EndStep ==
    ASSUME ZipIInv, NEW d \in Downloads,
           \/ PackingFails(d) \/ PackingThrows(d)
           \/ FinishSending(d) \/ SendingFails(d) \/ ConnectionCloses(d)
    PROVE  ZipIInv'
<1>1. CASE PackingFails(d)
  BY <1>1, Ends DEF PackingFails, Goto, UnlinkTmp, Working
<1>2. CASE FinishSending(d)
  <2>1. ASSUME d \notin mixed PROVE received[d] = Own(Songs, d)
    <3>1. /\ zip[d].pc = "sending" /\ ~(zip[d].at < zip[d].size /\ zip[d].at < Len(data[File(d)]))
          /\ zip[d].at \in Nat
      BY <1>2, ZipTypes DEF FinishSending, Left, ZipIInv, Zips
    <3>2. /\ data[File(d)] = Own(Songs, d) /\ zip[d].size = Songs
          /\ zip[d].at <= Songs /\ received[d] = Own(zip[d].at, d)
      BY <2>1, <3>1 DEF ZipIInv, Content, ContentOf
    <3>3. Len(Own(Songs, d)) = Songs
      BY ZipAssumption, OwnGrows
    <3>4. zip[d].at = Songs
      BY ZipAssumption, <3>1, <3>2, <3>3
    <3> QED BY <3>2, <3>4
  <2> QED BY <1>2, <2>1, Ends DEF FinishSending, Goto, UnlinkTmp, Working
<1>3. CASE SendingFails(d)
  BY <1>3, Ends DEF SendingFails, Goto, UnlinkTmp, Working
<1>4. CASE ConnectionCloses(d)
  BY <1>4, Ends DEF ConnectionCloses, Goto, Working, Forsaken
<1>5. CASE PackingThrows(d)
  BY <1>5, Ends DEF PackingThrows, Goto, Working, Forsaken
<1> QED BY <1>1, <1>2, <1>3, <1>4, <1>5

(* A download goes on with the file it has, or opens the one at its path.   *)
LEMMA GoesOn ==
    ASSUME ZipIInv, NEW d \in Downloads, NEW z \in Zips, zip' = [zip EXCEPT ![d] = z],
           zip[d].pc \in Opened, z.pc \in Opened, z.name = zip[d].name,
           z.file = zip[d].file \/ (z.file = tmp[Name(d)] /\ z.file # NoFile),
           UNCHANGED <<second, tmp, mixed>>,
           data' \in [Downloads -> Seq(Entry)], received' \in [Downloads -> Seq(Entry)],
           \A f \in Downloads : f # File(d) => data'[f] = data[f],
           \A e \in Downloads : e # d => received'[e] = received[e],
           zip'[d] = z /\ d \notin mixed => ContentOf(d)'
    PROVE  ZipIInv'
<1> USE DEF ZipIInv, Name, File
<1>1. tmp' \in [0 .. MaxSecond -> Downloads \cup {NoFile}] /\ ZipTypeOK
  BY ZipTypes
<1>2. ZipTypeOK' /\ zip'[d] = z /\ \A e \in Downloads : e # d => zip'[e] = zip[e]
  BY <1>1, TurnTypes
<1>3. zip[zip[d].file].name = zip[d].name
  BY DEF Origins, MadeBy
<1>4. /\ zip[d].pc \in Working /\ zip'[d].pc \in Working \cup Forsaken
      /\ zip'[d].name = zip[d].name /\ zip'[d].pc \notin {"idle", "named"}
  BY <1>2 DEF Opened, Working
<1>5. \/ zip[d].pc \in Opened /\ zip'[d].file = zip[d].file
      \/ zip'[d].file = tmp'[zip[d].name] /\ tmp'[zip[d].name] # NoFile
  BY <1>2
<1>6. /\ tmp'[zip[d].name] \in {NoFile, tmp[zip[d].name], d} /\ mixed' = mixed
      /\ \A s \in DOMAIN tmp : s # zip[d].name => tmp'[s] = tmp[s]
      /\ \A e \in Downloads : e # d => zip'[e] = zip[e] /\ received'[e] = received[e]
  BY <1>2
<1>7. \A f \in Downloads : zip[f].name # zip[d].name => data'[f] = data[f]
  BY <1>3
<1>8. d \notin mixed => ContentOf(d)'
  BY <1>2
<1> QED BY <1>2, <1>4, <1>5, <1>6, <1>7, <1>8, Turn

LEMMA PackStep == ASSUME ZipIInv, NEW d \in Downloads, PackSong(d) PROVE ZipIInv'
<1> USE DEF ZipIInv, Name, File
<1> DEFINE f == zip[d].file
           m == zip[d].at + 1
           z == [zip[d] EXCEPT !.at = m]
<1>0. /\ zip \in [Downloads -> Zips] /\ data \in [Downloads -> Seq(Entry)]
      /\ received \in [Downloads -> Seq(Entry)] /\ zip[d] \in Zips
      /\ zip[d].at \in Nat /\ zip[d].at < Songs /\ zip[d].pc = "packing"
      /\ data' = [data EXCEPT ![f] = WriteAt(@, m, d)]
      /\ UNCHANGED <<second, tmp, received, mixed>>
  BY ZipTypes DEF PackSong, Zips
<1>1. zip' = [zip EXCEPT ![d] = z] /\ z \in Zips /\ z.pc = "packing"
      /\ z.name = zip[d].name /\ z.file = f /\ z.at = m /\ m \in Nat \ {0}
  <2>1. zip' = [zip EXCEPT ![d].at = @ + 1]
    BY DEF PackSong
  <2>2. zip' = [zip EXCEPT ![d] = z]
    BY <1>0, <2>1 DEF Zips
  <2>3. m \in Nat \ {0}
    BY <1>0
  <2> HIDE DEF m
  <2> QED BY <1>0, <2>2, <2>3 DEF Zips
<1>2. f \in Downloads
  BY <1>0 DEF Origins, MadeBy, Opened
<1>3. WriteAt(data[f], m, d) \in Seq(Entry)
  <2> HIDE DEF m
  <2> QED BY <1>0, <1>1, <1>2, WriteAtType
<1>4. /\ data' \in [Downloads -> Seq(Entry)] /\ data'[f] = WriteAt(data[f], m, d)
      /\ \A g \in Downloads : g # f => data'[g] = data[g]
  BY <1>0, <1>2, <1>3
<1>5. ASSUME zip'[d] = z, d \notin mixed PROVE ContentOf(d)'
  <2>1. tmp[zip[d].name] = f /\ data[f] = Own(zip[d].at, d) /\ received[d] = <<>>
    BY <1>0, <1>5 DEF Content, ContentOf, Opened
  <2>2. data'[f] = Own(m, d)
    BY <1>0, <1>4, <2>1, WriteAtOwn
  <2>3. m <= Songs
    BY <1>0, ZipAssumption
  <2> HIDE DEF z, m
  <2> QED BY <1>0, <1>1, <1>5, <2>1, <2>2, <2>3 DEF ContentOf, Opened
<1> HIDE DEF z
<1> QED BY <1>0, <1>1, <1>4, <1>5, GoesOn DEF Opened

LEMMA CloseStep == ASSUME ZipIInv, NEW d \in Downloads, CloseArchive(d) PROVE ZipIInv'
<1> USE DEF ZipIInv, Name, File
<1> DEFINE z == [zip[d] EXCEPT !.pc = "packed"]
<1>0. /\ zip \in [Downloads -> Zips] /\ data \in [Downloads -> Seq(Entry)]
      /\ received \in [Downloads -> Seq(Entry)] /\ zip[d] \in Zips
      /\ zip[d].at = Songs /\ zip[d].pc = "packing"
      /\ UNCHANGED <<second, tmp, data, received, mixed>>
  BY ZipTypes DEF CloseArchive, Zips
<1>1. zip' = [zip EXCEPT ![d] = z] /\ z \in Zips /\ z.pc = "packed"
      /\ z.name = zip[d].name /\ z.file = zip[d].file
  BY <1>0 DEF CloseArchive, Goto, Zips, PCs, Working
<1>2. ASSUME zip'[d] = z, d \notin mixed PROVE ContentOf(d)'
  BY <1>0, <1>1, <1>2 DEF Content, ContentOf, Opened
<1> HIDE DEF z
<1> QED BY <1>0, <1>1, <1>2, GoesOn DEF Opened

LEMMA StatStep == ASSUME ZipIInv, NEW d \in Downloads, StatArchive(d) PROVE ZipIInv'
<1> USE DEF ZipIInv, Name, File
<1> DEFINE f == tmp[zip[d].name]
           z == [zip[d] EXCEPT !.pc = "queued", !.size = Len(data[f])]
<1>0. /\ zip \in [Downloads -> Zips] /\ data \in [Downloads -> Seq(Entry)]
      /\ received \in [Downloads -> Seq(Entry)] /\ zip[d] \in Zips
      /\ tmp \in [0 .. MaxSecond -> Downloads \cup {NoFile}] /\ zip[d].name \in 0 .. MaxSecond
      /\ zip[d].pc = "packed" /\ UNCHANGED <<second, tmp, data, received, mixed>>
  BY ZipTypes DEF StatArchive, Zips
<1>1. CASE f = NoFile
  <2>1. zip' = [zip EXCEPT ![d].pc = "refused"]
    BY <1>1 DEF StatArchive
  <2> QED BY <1>0, <1>1, <2>1, Ends DEF Working
<1>2. CASE f # NoFile
  <2>1. f \in Downloads /\ Len(data[f]) \in Nat
    BY <1>0, <1>2
  <2>2. zip' = [zip EXCEPT ![d] = z] /\ z \in Zips /\ z.pc = "queued"
        /\ z.name = zip[d].name /\ z.file = zip[d].file /\ z.size = Len(data[f])
    BY <1>0, <1>2, <2>1 DEF StatArchive, Zips, PCs, Working
  <2>3. ASSUME zip'[d] = z, d \notin mixed PROVE ContentOf(d)'
    <3>1. f = zip[d].file /\ data[f] = Own(Songs, d) /\ received[d] = <<>>
      BY <1>0, <2>3 DEF Content, ContentOf, Opened
    <3>2. Len(data[f]) = Songs
      BY ZipAssumption, <3>1, OwnGrows
    <3> HIDE DEF z
    <3> QED BY <1>0, <2>2, <2>3, <3>1, <3>2 DEF ContentOf, Opened
  <2> HIDE DEF z
  <2> QED BY <1>0, <2>2, <2>3, GoesOn DEF Opened
<1> QED BY <1>1, <1>2

LEMMA SendStep == ASSUME ZipIInv, NEW d \in Downloads, BeginSending(d) \/ SendEntry(d) PROVE ZipIInv'
<1> USE DEF ZipIInv, Name, File
<1>0. /\ zip \in [Downloads -> Zips] /\ data \in [Downloads -> Seq(Entry)]
      /\ received \in [Downloads -> Seq(Entry)] /\ zip[d] \in Zips
      /\ tmp \in [0 .. MaxSecond -> Downloads \cup {NoFile}] /\ zip[d].name \in 0 .. MaxSecond
      /\ UNCHANGED <<second, tmp, data, mixed>>
  BY ZipTypes DEF BeginSending, SendEntry, Zips
<1>1. CASE BeginSending(d)
  <2> DEFINE z == [zip[d] EXCEPT !.pc = "sending", !.at = 0, !.file = tmp[zip[d].name]]
  <2>1. CASE tmp[zip[d].name] = NoFile
    BY <1>0, <1>1, <2>1, Ends DEF BeginSending, Working, Forsaken
  <2>2. CASE tmp[zip[d].name] # NoFile
    <3>1. zip' = [zip EXCEPT ![d] = z] /\ z \in Zips /\ z.pc = "sending" /\ z.at = 0
          /\ z.name = zip[d].name /\ z.file = tmp[zip[d].name] /\ z.size = zip[d].size
      BY <1>0, <1>1, <2>2 DEF BeginSending, Zips, PCs, Working
    <3>2. zip[d].pc = "queued" /\ received' = received
      BY <1>1 DEF BeginSending
    <3>3. ASSUME zip'[d] = z, d \notin mixed PROVE ContentOf(d)'
      <4>1. /\ tmp[zip[d].name] = zip[d].file /\ data[zip[d].file] = Own(Songs, d)
            /\ zip[d].size = Songs /\ received[d] = <<>>
        BY <3>2, <3>3 DEF Content, ContentOf, Opened
      <4>2. Own(0, d) = <<>> /\ 0 <= Songs
        BY ZipAssumption DEF Own
      <4> HIDE DEF z
      <4> QED BY <1>0, <3>1, <3>2, <3>3, <4>1, <4>2 DEF ContentOf, Opened
    <3> HIDE DEF z
    <3> QED BY <1>0, <2>2, <3>1, <3>2, <3>3, GoesOn DEF Opened
  <2> QED BY <2>1, <2>2
<1>2. CASE SendEntry(d)
  <2> DEFINE m == zip[d].at + 1
             z == [zip[d] EXCEPT !.at = m]
             x == data[zip[d].file][m]
  <2>1. /\ zip[d].pc = "sending" /\ zip[d].at \in Nat
        /\ zip[d].at < zip[d].size /\ zip[d].at < Len(data[zip[d].file])
        /\ received' = [received EXCEPT ![d] = Append(@, x)]
    BY <1>0, <1>2 DEF SendEntry, Left, Zips
  <2>2. zip' = [zip EXCEPT ![d] = z] /\ z \in Zips /\ z.pc = "sending" /\ z.at = m
        /\ z.name = zip[d].name /\ z.file = zip[d].file /\ z.size = zip[d].size
    <3>1. zip' = [zip EXCEPT ![d].at = @ + 1]
      BY <1>2 DEF SendEntry
    <3>2. zip' = [zip EXCEPT ![d] = z]
      BY <1>0, <3>1 DEF Zips
    <3>3. m \in Nat
      BY <2>1
    <3> HIDE DEF m
    <3> QED BY <1>0, <2>1, <3>2, <3>3 DEF Zips
  <2>3. zip[d].file \in Downloads
    BY <2>1 DEF Origins, MadeBy, Opened
  <2>4. x \in Entry
    BY <1>0, <2>1, <2>3
  <2>5. /\ received' \in [Downloads -> Seq(Entry)] /\ received'[d] = Append(received[d], x)
        /\ \A e \in Downloads : e # d => received'[e] = received[e]
    BY <1>0, <2>1, <2>4
  <2>6. ASSUME zip'[d] = z, d \notin mixed PROVE ContentOf(d)'
    <3>1. /\ tmp[zip[d].name] = zip[d].file /\ data[zip[d].file] = Own(Songs, d)
          /\ zip[d].size = Songs /\ received[d] = Own(zip[d].at, d)
      BY <2>1, <2>6 DEF Content, ContentOf, Opened
    <3>2. m \in 1 .. Songs /\ x = d
      BY ZipAssumption, <2>1, <3>1 DEF Own
    <3>3. received'[d] = Own(m, d)
      BY <2>1, <2>5, <3>1, <3>2, OwnGrows
    <3> HIDE DEF z, m, x
    <3> QED BY <1>0, <2>2, <2>6, <3>1, <3>2, <3>3 DEF ContentOf, Opened
  <2> HIDE DEF z, x
  <2> QED BY <1>0, <2>1, <2>2, <2>5, <2>6, GoesOn DEF Opened
<1> QED BY <1>1, <1>2

-----------------------------------------------------------------------------
LEMMA Still ==
    ASSUME ZipIInv, UNCHANGED <<tmp, data, zip, received, mixed>>, second' \in 0 .. MaxSecond
    PROVE  ZipIInv'
  BY DEF ZipIInv, ZipTypeOK, NoStrayArchive, Apart, Origins, MadeBy, Content, ContentOf, Name, File

LEMMA ZipGoesOn == ZipIInv /\ [ZipNext]_zipVars => ZipIInv'
<1> SUFFICES ASSUME ZipIInv, [ZipNext]_zipVars PROVE ZipIInv'
  OBVIOUS
<1>1. second \in 0 .. MaxSecond
  BY DEF ZipIInv, ZipTypeOK
<1>2. CASE NextSecond
  BY <1>1, <1>2, ZipAssumption, Still DEF NextSecond
<1>3. CASE UNCHANGED zipVars
  BY <1>1, <1>3, Still DEF zipVars
<1>4. CASE \E d \in Downloads :
          \/ NameArchive(d) \/ OpenArchive(d) \/ PackSong(d) \/ CloseArchive(d)
          \/ PackingFails(d) \/ PackingThrows(d) \/ StatArchive(d)
          \/ BeginSending(d) \/ SendEntry(d) \/ FinishSending(d)
          \/ SendingFails(d) \/ ConnectionCloses(d)
  BY <1>4, NameStep, OpenStep, PackStep, CloseStep, StatStep, SendStep, EndStep
<1> QED BY <1>2, <1>3, <1>4 DEF ZipNext

(* The invariant, of which ArchiveIsOwn and NoStrayArchive are a part.      *)
THEOREM ZipInductive == ZipSpec => []ZipIInv
  BY ZipStarts, ZipGoesOn, PTL DEF ZipSpec

(* A download that shared its second with no other got its own songs, all   *)
(* of them, whatever became of the downloads that had its path before.      *)
THEOREM OwnSongs == ZipSpec => []ArchiveIsOwn
<1>1. ZipIInv => ArchiveIsOwn
  BY DEF ZipIInv, Content, ContentOf, ArchiveIsOwn, Own
<1> QED BY <1>1, ZipInductive, PTL

(* A temporary file that nobody works on was left by a closed connection,   *)
(* or by packing that threw.                                                *)
THEOREM NothingStray == ZipSpec => []NoStrayArchive
  BY ZipInductive, PTL DEF ZipIInv
=============================================================================

----------------------------- MODULE NoticeProofs -----------------------------
(***************************************************************************)
(* What is proved of the mail and of the tunnel, each on its own: the two   *)
(* share no state.                                                          *)
(*                                                                         *)
(* The mail.  Whether a reply is taken for the right one depends on what    *)
(* is still under way: Buffer is what has arrived and has not been judged,  *)
(* in part read and in part in the socket.  Order says which replies can be *)
(* in it at which step, however late they are; InStep says that the two     *)
(* sides are in step as long as nothing has gone wrong.                     *)
(*                                                                         *)
(* The tunnel.  Followed is about a server that serves, Stopped about one   *)
(* that ends; Phases says what there is for main to stop.                   *)
(***************************************************************************)
EXTENDS SmtpMailer, Tunnel, SequenceTheorems, TLAPS

-----------------------------------------------------------------------------
(* The script: every step has its successor, and the last one is "quit".    *)
Early(step) == step \notin {"data", "body", "quit"}
Follow(s) ==
    /\ s \in Seq(Steps) /\ Len(s) > 1 /\ Early(s[1])
    /\ \A i \in 1 .. Len(s) :
          /\ s[i] = "quit" => i = Len(s)
          /\ i < Len(s) => /\ s[i] # "quit" /\ s[i + 1] \in Steps
                           /\ Early(s[i]) => Early(s[i + 1]) \/ s[i + 1] = "data"
                           /\ s[i] = "data" => s[i + 1] = "body"
                           /\ s[i] = "body" => s[i + 1] = "quit"
          /\ i = Len(s) => s[i] = "quit"

LEMMA ScriptFollows == ASSUME ssl \in BOOLEAN PROVE Follow(Script)
<1> DEFINE rest == <<"ehlo", "auth", "mail", "rcpt", "data", "body", "quit">>
<1>1. PICK h : h = Opening
  OBVIOUS
<1>2. PICK r : r = rest
  OBVIOUS
<1>3. /\ r \in Seq(Steps) /\ Len(r) = 7 /\ r[1] = "ehlo" /\ r[2] = "auth" /\ r[3] = "mail"
      /\ r[4] = "rcpt" /\ r[5] = "data" /\ r[6] = "body" /\ r[7] = "quit"
  BY <1>2 DEF Steps
<1>4. PICK s : s = h \o r
  OBVIOUS
<1>5. Script = s
  BY <1>1, <1>2, <1>4 DEF Script
<1> HIDE DEF rest
<1>6. CASE ssl
  <2>1. h \in Seq(Steps) /\ Len(h) = 2 /\ h[1] = "tls" /\ h[2] = "greeting"
    BY <1>1, <1>6 DEF Opening, Steps
  <2>2. /\ s \in Seq(Steps) /\ Len(s) = 9
        /\ \A i \in 1 .. 9 : s[i] = IF i <= 2 THEN h[i] ELSE r[i - 2]
    <3>1. /\ h \o r \in Seq(Steps) /\ Len(h \o r) = Len(h) + Len(r)
          /\ \A i \in 1 .. Len(h) + Len(r) : (h \o r)[i] = IF i <= Len(h) THEN h[i] ELSE r[i - Len(h)]
      BY <1>3, <2>1, ConcatProperties, Zenon
    <3>2. /\ s \in Seq(Steps) /\ Len(s) = Len(h) + Len(r)
          /\ \A i \in 1 .. Len(h) + Len(r) : s[i] = IF i <= Len(h) THEN h[i] ELSE r[i - Len(h)]
      BY <1>4, <3>1, Zenon
    <3>3. QED
      BY <1>3, <2>1, <3>2
  <2>3. s[1] = "tls" /\ s[2] = "greeting" /\ s[3] = "ehlo" /\ s[4] = "auth"
        /\ s[5] = "mail" /\ s[6] = "rcpt" /\ s[7] = "data" /\ s[8] = "body" /\ s[9] = "quit"
    BY <1>3, <2>1, <2>2
  <2>4. Follow(s)
    BY <2>2, <2>3 DEF Follow, Early, Steps
  <2>5. QED
    BY <1>5, <2>4
<1>7. CASE ~ssl
  <2>1. /\ h \in Seq(Steps) /\ Len(h) = 4 /\ h[1] = "greeting" /\ h[2] = "hello"
        /\ h[3] = "starttls" /\ h[4] = "tls"
    BY <1>1, <1>7 DEF Opening, Steps
  <2>2. /\ s \in Seq(Steps) /\ Len(s) = 11
        /\ \A i \in 1 .. 11 : s[i] = IF i <= 4 THEN h[i] ELSE r[i - 4]
    <3>1. /\ h \o r \in Seq(Steps) /\ Len(h \o r) = Len(h) + Len(r)
          /\ \A i \in 1 .. Len(h) + Len(r) : (h \o r)[i] = IF i <= Len(h) THEN h[i] ELSE r[i - Len(h)]
      BY <1>3, <2>1, ConcatProperties, Zenon
    <3>2. /\ s \in Seq(Steps) /\ Len(s) = Len(h) + Len(r)
          /\ \A i \in 1 .. Len(h) + Len(r) : s[i] = IF i <= Len(h) THEN h[i] ELSE r[i - Len(h)]
      BY <1>4, <3>1, Zenon
    <3>3. QED
      BY <1>3, <2>1, <3>2
  <2>3. s[1] = "greeting" /\ s[2] = "hello" /\ s[3] = "starttls"
        /\ s[4] = "tls" /\ s[5] = "ehlo" /\ s[6] = "auth" /\ s[7] = "mail" /\ s[8] = "rcpt"
        /\ s[9] = "data" /\ s[10] = "body" /\ s[11] = "quit"
    BY <1>3, <2>1, <2>2
  <2>4. Follow(s)
    BY <2>2, <2>3 DEF Follow, Early, Steps
  <2>5. QED
    BY <1>5, <2>4
<1>8. QED
  BY <1>6, <1>7

-----------------------------------------------------------------------------
(* Sequences: what is left when a part of the beginning has been taken.     *)
Suffix(t, b) == /\ Len(t) <= Len(b)
                /\ \A i \in 1 .. Len(t) : t[i] = b[Len(b) - Len(t) + i]

LEMMA Sliced ==
    ASSUME NEW S, NEW s \in Seq(S), NEW m \in Int, NEW n \in Int,
           1 <= m, m <= n + 1, n <= Len(s)
    PROVE  /\ SubSeq(s, m, n) \in Seq(S) /\ Len(SubSeq(s, m, n)) = n - m + 1
           /\ \A i \in 1 .. n - m + 1 : SubSeq(s, m, n)[i] = s[m + i - 1]
<1>1. \A i \in m .. n : s[i] \in S
  OBVIOUS
<1>2. /\ SubSeq(s, m, n) \in Seq(S) /\ Len(SubSeq(s, m, n)) = IF m <= n THEN n - m + 1 ELSE 0
      /\ \A i \in 1 .. n - m + 1 : SubSeq(s, m, n)[i] = s[m + i - 1]
  BY <1>1, SubSeqProperties
<1>3. n - m + 1 = IF m <= n THEN n - m + 1 ELSE 0
  OBVIOUS
<1>4. QED
  BY <1>2, <1>3

Took(S, o, r, k, p, t, b) ==
    /\ o \in Seq(S) /\ r \in Seq(S) /\ k \in 1 .. Len(r)
    /\ p = o \o SubSeq(r, 1, k) /\ t = SubSeq(r, k + 1, Len(r)) /\ b = o \o r

LEMMA Taking ==
    ASSUME NEW S, NEW o, NEW r, NEW k, NEW p, NEW t, NEW b, Took(S, o, r, k, p, t, b)
    PROVE  /\ p \in Seq(S) /\ t \in Seq(S) /\ b \in Seq(S)
           /\ p # <<>> /\ b # <<>> /\ p[1] = b[1]
           /\ p \o t = b /\ Suffix(t, b) /\ (t = <<>> => p = b)
<1>0. o \in Seq(S) /\ r \in Seq(S) /\ k \in 1 .. Len(r)
  BY Zenon DEF Took
<1>1. /\ Len(o) \in Nat /\ Len(r) \in Nat /\ k \in Nat /\ 1 <= k /\ k <= Len(r)
      /\ k + 1 \in Int /\ 1 \in Int /\ k \in Int /\ Len(r) \in Int
      /\ 1 <= k + 1 /\ k + 1 <= Len(r) + 1
  BY <1>0
<1>2. p = o \o SubSeq(r, 1, k) /\ t = SubSeq(r, k + 1, Len(r)) /\ b = o \o r
  BY Zenon DEF Took
<1>3. PICK h : h = SubSeq(r, 1, k)
  OBVIOUS
<1>4. h \in Seq(S) /\ Len(h) = k /\ \A i \in 1 .. k : h[i] = r[i]
  <2>1. /\ SubSeq(r, 1, k) \in Seq(S) /\ Len(SubSeq(r, 1, k)) = k - 1 + 1
        /\ \A i \in 1 .. k - 1 + 1 : SubSeq(r, 1, k)[i] = r[1 + i - 1]
    BY <1>0, <1>1, Sliced
  <2>2. /\ h \in Seq(S) /\ Len(h) = k - 1 + 1 /\ \A i \in 1 .. k - 1 + 1 : h[i] = r[1 + i - 1]
    BY <1>3, <2>1, Zenon
  <2>3. QED
    BY <1>1, <2>2
<1>5. t \in Seq(S) /\ Len(t) = Len(r) - k /\ \A i \in 1 .. Len(t) : t[i] = r[k + i]
  <2>1. PICK l : l = Len(r)
    OBVIOUS
  <2>2. /\ SubSeq(r, k + 1, l) \in Seq(S) /\ Len(SubSeq(r, k + 1, l)) = l - (k + 1) + 1
        /\ \A i \in 1 .. l - (k + 1) + 1 : SubSeq(r, k + 1, l)[i] = r[k + 1 + i - 1]
    BY <1>0, <1>1, <2>1, Sliced
  <2>3. /\ t \in Seq(S) /\ Len(t) = l - (k + 1) + 1
        /\ \A i \in 1 .. l - (k + 1) + 1 : t[i] = r[k + 1 + i - 1]
    BY <1>2, <2>1, <2>2, Zenon
  <2>4. QED
    BY <1>1, <2>1, <2>3
<1>6. /\ p \in Seq(S) /\ Len(p) = Len(o) + Len(h)
      /\ \A i \in 1 .. Len(o) + Len(h) : p[i] = IF i <= Len(o) THEN o[i] ELSE h[i - Len(o)]
  <2>1. p = o \o h
    BY <1>2, <1>3, Zenon
  <2>2. h \in Seq(S)
    BY <1>4
  <2>3. /\ o \o h \in Seq(S) /\ Len(o \o h) = Len(o) + Len(h)
        /\ \A i \in 1 .. Len(o) + Len(h) : (o \o h)[i] = IF i <= Len(o) THEN o[i] ELSE h[i - Len(o)]
    BY <1>0, <2>2, ConcatProperties, Zenon
  <2>4. QED
    BY <2>1, <2>3, Zenon
<1>7. /\ b \in Seq(S) /\ Len(b) = Len(o) + Len(r)
      /\ \A i \in 1 .. Len(o) + Len(r) : b[i] = IF i <= Len(o) THEN o[i] ELSE r[i - Len(o)]
  <2>1. /\ o \o r \in Seq(S) /\ Len(o \o r) = Len(o) + Len(r)
        /\ \A i \in 1 .. Len(o) + Len(r) : (o \o r)[i] = IF i <= Len(o) THEN o[i] ELSE r[i - Len(o)]
    BY <1>0, ConcatProperties, Zenon
  <2>2. QED
    BY <1>2, <2>1, Zenon
<1>8. p # <<>> /\ b # <<>> /\ p[1] = b[1]
  BY <1>1, <1>4, <1>6, <1>7
<1>9. Suffix(t, b)
  <2>1. Len(t) <= Len(b)
    BY <1>1, <1>5, <1>7
  <2>2. ASSUME NEW i \in 1 .. Len(t) PROVE t[i] = b[Len(b) - Len(t) + i]
    <3>1. Len(b) - Len(t) + i = Len(o) + (k + i) /\ k + i \in 1 .. Len(r) /\ t[i] = r[k + i]
      BY <1>1, <1>5, <1>7
    <3>2. PICK x : x = Len(o) + (k + i)
      OBVIOUS
    <3>3. x \in 1 .. Len(o) + Len(r) /\ ~(x <= Len(o)) /\ x - Len(o) = k + i
      BY <1>1, <3>1, <3>2
    <3>4. b[x] = r[k + i]
      BY <1>7, <3>3
    <3>5. QED
      BY <3>1, <3>2, <3>4
  <2>3. QED
    BY <2>1, <2>2 DEF Suffix
<1>10. p \o t = b
  <2>1. PICK q : q = p \o t
    OBVIOUS
  <2>2. /\ q \in Seq(S) /\ Len(q) = Len(p) + Len(t)
        /\ \A i \in 1 .. Len(p) + Len(t) : q[i] = IF i <= Len(p) THEN p[i] ELSE t[i - Len(p)]
    <3>1. p \in Seq(S) /\ t \in Seq(S)
      BY <1>5, <1>6
    <3>2. /\ p \o t \in Seq(S) /\ Len(p \o t) = Len(p) + Len(t)
          /\ \A i \in 1 .. Len(p) + Len(t) : (p \o t)[i] = IF i <= Len(p) THEN p[i] ELSE t[i - Len(p)]
      BY <3>1, ConcatProperties, Zenon
    <3>3. QED
      BY <2>1, <3>2, Zenon
  <2>3. Len(q) = Len(b) /\ Len(p) = Len(o) + k
    BY <1>1, <1>4, <1>5, <1>6, <1>7, <2>2
  <2>4. ASSUME NEW i \in 1 .. Len(q) PROVE q[i] = b[i]
    <3>1. CASE i <= Len(o)
      <4>1. q[i] = p[i] /\ i \in 1 .. Len(o)
        BY <1>1, <2>2, <2>3, <3>1
      <4>2. p[i] = o[i]
        BY <1>1, <1>4, <1>6, <4>1
      <4>3. b[i] = o[i]
        BY <1>1, <1>7, <4>1
      <4>4. QED
        BY <4>1, <4>2, <4>3
    <3>2. CASE i > Len(o) /\ i <= Len(o) + k
      <4>1. q[i] = p[i] /\ p[i] = h[i - Len(o)] /\ i - Len(o) \in 1 .. k
        BY <1>1, <1>4, <1>6, <2>2, <2>3, <3>2
      <4>2. h[i - Len(o)] = r[i - Len(o)] /\ b[i] = r[i - Len(o)]
        BY <1>1, <1>4, <1>7, <2>3, <3>2, <4>1
      <4>3. QED
        BY <4>1, <4>2
    <3>3. CASE i > Len(o) + k
      <4>1. q[i] = t[i - Len(p)] /\ i - Len(p) \in 1 .. Len(t) /\ i \in Nat
        BY <1>1, <1>5, <2>2, <2>3, <3>3
      <4>2. t[i - Len(p)] = r[i - Len(o)]
        <5>1. PICK j : j = i - Len(p)
          OBVIOUS
        <5>2. j \in 1 .. Len(t) /\ k + j = i - Len(o)
          BY <1>1, <2>3, <4>1, <5>1
        <5>3. t[j] = r[k + j]
          BY <1>5, <5>2
        <5>4. QED
          BY <5>1, <5>2, <5>3
      <4>3. b[i] = r[i - Len(o)]
        BY <1>1, <1>7, <2>3, <3>3
      <4>4. QED
        BY <4>1, <4>2, <4>3
    <3>4. QED
      BY <1>1, <3>1, <3>2, <3>3
  <2>5. q = b
    BY <1>7, <2>2, <2>3, <2>4, SeqEqual, Zenon
  <2>6. QED
    BY <2>1, <2>5, Zenon
<1>11. t = <<>> => p = b
  <2>1. p \in Seq(S)
    BY <1>6
  <2>2. p \o <<>> = p
    BY <2>1, ConcatEmptySeq, Zenon
  <2>3. QED
    BY <1>10, <2>2, Zenon
<1>12. QED
  BY <1>5, <1>6, <1>7, <1>8, <1>9, <1>10, <1>11, Zenon

LEMMA SuffixOfConcat ==
    ASSUME NEW S, NEW o \in Seq(S), NEW r \in Seq(S), NEW b
    PROVE  b = o \o r => b \in Seq(S) /\ Suffix(r, b)
<1>1. SUFFICES ASSUME b = o \o r PROVE b \in Seq(S) /\ Suffix(r, b)
  OBVIOUS
<1>2. /\ o \o r \in Seq(S) /\ Len(o \o r) = Len(o) + Len(r)
      /\ \A i \in 1 .. Len(o) + Len(r) : (o \o r)[i] = IF i <= Len(o) THEN o[i] ELSE r[i - Len(o)]
  BY ConcatProperties, Zenon
<1>3. /\ b \in Seq(S) /\ Len(b) = Len(o) + Len(r)
      /\ \A i \in 1 .. Len(o) + Len(r) : b[i] = IF i <= Len(o) THEN o[i] ELSE r[i - Len(o)]
  BY <1>1, <1>2, Zenon
<1>4. QED
  BY <1>3 DEF Suffix

LEMMA Entered ==
    ASSUME NEW S, NEW c \in Seq(S), NEW e \in S
    PROVE  /\ Append(c, e) \in Seq(S) /\ Len(Append(c, e)) = Len(c) + 1
           /\ \A i \in 1 .. Len(c) : Append(c, e)[i] = c[i]
           /\ Append(c, e)[Len(c) + 1] = e
           /\ c = <<>> => Append(c, e) = <<e>>
<1>1. /\ Append(c, e) \in Seq(S) /\ Len(Append(c, e)) = Len(c) + 1
      /\ \A i \in 1 .. Len(c) : Append(c, e)[i] = c[i]
      /\ Append(c, e)[Len(c) + 1] = e
  BY AppendProperties
<1>2. c = <<>> => Append(c, e) = <<e>>
  OBVIOUS
<1>3. QED
  BY <1>1, <1>2, Zenon

LEMMA Emptied == ASSUME NEW S PROVE <<>> \in Seq(S) /\ <<>> \o <<>> = <<>>
<1>1. <<>> \in Seq(S)
  OBVIOUS
<1>2. QED
  BY <1>1, ConcatEmptySeq, Zenon

-----------------------------------------------------------------------------
(* What the client has not judged yet, and what the server has not answered:*)
(* no 354 before "data" is asked, so that its 354 is the only reply there   *)
(* is, and a 250 at "body" is the answer to the message.                    *)
Buffer == out \o rcv
Ordered(step, b, c) ==
    /\ Early(step) => /\ \A i \in 1 .. Len(b) : b[i].code # 354
                      /\ \A i \in 1 .. Len(c) : Early(c[i])
    /\ step = "data" =>
         /\ \A i \in 1 .. Len(c) : /\ c[i] \notin {"body", "quit"}
                                   /\ c[i] = "data" => i = Len(c)
         /\ \A i \in 1 .. Len(b) : b[i].code = 354 =>
               c = <<>> /\ \A j \in i .. Len(b) : b[j].code = 354
    /\ step = "body" => c \in {<<>>, <<"body">>}
Order == at > 0 => Ordered(Step, Buffer, commands)
Claim == /\ at > 0 /\ Step = "body" =>
              \A i \in 1 .. Len(Buffer) : Buffer[i].code = 250 => account \in accepted
         /\ sent => at > 0 /\ Step = "quit" /\ account \in accepted

(* While nothing has gone wrong, one command is out or one reply is in.     *)
Lockstep(step, b, c) ==
    /\ step = "tls" => b = <<>> /\ c = <<>>
    /\ step # "tls" => \/ c = <<step>> /\ b = <<>>
                       \/ /\ c = <<>> /\ b # <<>> /\ ~b[1].crlf
                          /\ \A i \in 1 .. Len(b) : b[i].code = Good[step]
InStep == at > 0 /\ account \notin fault \cup split =>
             Lockstep(Step, Buffer, commands) /\ (Step = "quit" => sent)

Serves == at > 0 => account \in 1 .. Accounts

IInv == TypeOK /\ Serves /\ Order /\ Claim /\ InStep /\ SentIsAccepted /\ FailureExplained

(* The dialogue goes on to the next step, with t left of what was read.     *)
Goes(step, next, b, t, c, d) ==
    /\ step \in Steps \ {"quit"} /\ next \in Steps /\ b \in Seq(Part) /\ t \in Seq(Part)
    /\ c \in Seq(Steps) /\ Ordered(step, b, c) /\ Suffix(t, b)
    /\ Early(step) => Early(next) \/ next = "data"
    /\ step = "data" => next = "body" /\ b # <<>> /\ b[1].code = 354
    /\ step = "body" => next = "quit"
    /\ d = IF next = "tls" THEN c ELSE Append(c, next)

LEMMA NextOrdered ==
    ASSUME NEW step, NEW next, NEW b, NEW t, NEW c, NEW d, Goes(step, next, b, t, c, d)
    PROVE  d \in Seq(Steps) /\ Ordered(next, t, d)
           /\ (next = "body" => \A i \in 1 .. Len(t) : t[i].code # 250)
<1> USE DEF Goes
<1>1. /\ Len(b) \in Nat /\ Len(t) \in Nat /\ Len(t) <= Len(b) /\ Len(c) \in Nat
      /\ \A i \in 1 .. Len(t) : \E j \in 1 .. Len(b) : t[i] = b[j]
  <2>1. Len(b) \in Nat /\ Len(t) \in Nat /\ Len(t) <= Len(b) /\ Len(c) \in Nat
    BY DEF Suffix
  <2>2. ASSUME NEW i \in 1 .. Len(t) PROVE \E j \in 1 .. Len(b) : t[i] = b[j]
    <3>1. Len(b) - Len(t) + i \in 1 .. Len(b)
      BY <2>1
    <3>2. QED
      BY <3>1 DEF Suffix
  <2>3. QED
    BY <2>1, <2>2
<1>2. CASE Early(step)
  <2>1. /\ \A i \in 1 .. Len(b) : b[i].code # 354
        /\ \A i \in 1 .. Len(c) : Early(c[i])
    BY <1>2 DEF Ordered
  <2>2. \A i \in 1 .. Len(t) : t[i].code # 354
    BY <1>1, <2>1
  <2>3. next # "body" /\ next # "quit"
    BY <1>2 DEF Early
  <2>4. CASE next = "tls"
    <3>1. d = c /\ Early(next) /\ next # "data"
      BY <2>4 DEF Early
    <3>2. QED
      BY <2>1, <2>2, <2>3, <3>1 DEF Ordered
  <2>5. CASE next # "tls"
    <3>1. d = Append(c, next)
      BY <2>5
    <3>2. /\ d \in Seq(Steps) /\ Len(d) = Len(c) + 1 /\ d[Len(c) + 1] = next
          /\ \A i \in 1 .. Len(c) : d[i] = c[i]
      <4>0. c \in Seq(Steps) /\ next \in Steps
        OBVIOUS
      <4>1. /\ Append(c, next) \in Seq(Steps) /\ Len(Append(c, next)) = Len(c) + 1
            /\ Append(c, next)[Len(c) + 1] = next
            /\ \A i \in 1 .. Len(c) : Append(c, next)[i] = c[i]
        BY <4>0, Entered
      <4>2. QED
        BY <3>1, <4>1, Zenon
    <3>3. \A i \in 1 .. Len(d) : \/ i = Len(d) /\ d[i] = next
                                 \/ i \in 1 .. Len(c) /\ Early(d[i])
      BY <1>1, <2>1, <3>2
    <3>4. Early(next) => \A i \in 1 .. Len(d) : Early(d[i])
      BY <3>3
    <3>5. next = "data" => \A i \in 1 .. Len(d) : /\ d[i] \notin {"body", "quit"}
                                                  /\ d[i] = "data" => i = Len(d)
      BY <3>3 DEF Early
    <3>6. Early(next) => next # "data"
      BY DEF Early
    <3>7. QED
      BY <2>2, <2>3, <3>2, <3>4, <3>5, <3>6 DEF Ordered
  <2>6. QED
    BY <2>4, <2>5
<1>3. CASE step = "data"
  <2>1. next = "body" /\ b # <<>> /\ b[1].code = 354
    BY <1>3
  <2>2. 1 \in 1 .. Len(b)
    BY <1>1, <2>1
  <2>3. c = <<>> /\ \A j \in 1 .. Len(b) : b[j].code = 354
    BY <1>3, <2>1, <2>2 DEF Ordered
  <2>4. d = <<"body">> /\ d \in Seq(Steps)
    BY <2>1, <2>3 DEF Steps
  <2>5. \A i \in 1 .. Len(t) : t[i].code # 250
    <3>1. SUFFICES ASSUME NEW i \in 1 .. Len(t) PROVE t[i].code # 250
      OBVIOUS
    <3>2. PICK j \in 1 .. Len(b) : t[i] = b[j]
      BY <1>1
    <3>3. b[j].code = 354
      BY <2>3
    <3>4. QED
      BY <3>2, <3>3
  <2>6. QED
    BY <2>1, <2>4, <2>5 DEF Ordered, Early
<1>4. CASE step = "body"
  <2>1. next = "quit"
    BY <1>4
  <2>2. d \in Seq(Steps)
    BY <2>1
  <2>3. QED
    BY <2>1, <2>2 DEF Ordered, Early
<1>5. QED
  BY <1>2, <1>3, <1>4 DEF Early

LEMMA ReplyTyped ==
    ASSUME NEW code \in {220, 235, 250, 354, Refusal}, NEW m \in 1 .. MaxLines,
           NEW h \in BOOLEAN
    PROVE  LET r == Reply(code, m, h)
           IN  /\ r \in Seq(Part) /\ Len(r) = 2 * m /\ Len(r) > 0 /\ ~r[1].crlf
               /\ \A i \in 1 .. Len(r) : r[i].code = code
<1>1. m \in Nat /\ m >= 1 /\ 2 * m \in Nat /\ 2 * m >= 2
  BY LinesAssumption
<1>2. PICK l : l = 2 * m
  OBVIOUS
<1>3. l \in Nat /\ l >= 2
  BY <1>1, <1>2
<1>4. PICK f : f = [p \in 1 .. l |-> [code |-> code, crlf |-> p % 2 = 0, hyphen |-> h]]
  OBVIOUS
<1>5. ASSUME NEW p \in 1 .. l PROVE [code |-> code, crlf |-> p % 2 = 0, hyphen |-> h] \in Part
  <2>1. PICK t \in BOOLEAN : t = (p % 2 = 0)
    OBVIOUS
  <2>2. [code |-> code, crlf |-> t, hyphen |-> h] \in Part
    BY DEF Part
  <2>3. QED
    BY <2>1, <2>2
<1>6. f \in [1 .. l -> Part]
  BY <1>4, <1>5
<1>7. f \in Seq(Part) /\ Len(f) = l
  BY <1>3, <1>6
<1>8. \A p \in 1 .. l : f[p].code = code
  BY <1>4
<1>9. ~f[1].crlf
  <2>1. 1 \in 1 .. l /\ ~(1 % 2 = 0)
    BY <1>3
  <2>2. f[1] = [code |-> code, crlf |-> 1 % 2 = 0, hyphen |-> h]
    BY <1>4, <2>1, Zenon
  <2>3. PICK t \in BOOLEAN : t = (1 % 2 = 0)
    OBVIOUS
  <2>4. ~t
    BY <2>1, <2>3, Zenon
  <2>5. f[1] = [code |-> code, crlf |-> t, hyphen |-> h]
    BY <2>2, <2>3, Zenon
  <2>6. f[1].crlf = t
    BY <2>5
  <2>7. QED
    BY <2>4, <2>6, Zenon
<1>10. f = Reply(code, m, h)
  BY <1>2, <1>4, Zenon DEF Reply
<1>11. /\ f \in Seq(Part) /\ Len(f) = 2 * m /\ Len(f) > 0 /\ ~f[1].crlf
       /\ \A i \in 1 .. Len(f) : f[i].code = code
  BY <1>2, <1>3, <1>7, <1>8, <1>9
<1>12. QED
  BY <1>10, <1>11, Zenon

(* The server has answered the first of the commands c with the reply r.    *)
Answered(step, b, c, r, code, q, d) ==
    /\ step \in Steps /\ b \in Seq(Part) /\ c \in Seq(Steps) /\ c # <<>>
    /\ r \in Seq(Part) /\ Len(r) > 0 /\ ~r[1].crlf
    /\ code \in {Good[Head(c)], Refusal} /\ \A i \in 1 .. Len(r) : r[i].code = code
    /\ q = b \o r /\ d = Tail(c)

LEMMA AnswerOrdered ==
    ASSUME NEW step, NEW b, NEW c, NEW r, NEW code, NEW q, NEW d,
           Answered(step, b, c, r, code, q, d)
    PROVE  /\ q \in Seq(Part) /\ d \in Seq(Steps)
           /\ Ordered(step, b, c) => Ordered(step, q, d)
           /\ \A i \in 1 .. Len(q) : \/ i \in 1 .. Len(b) /\ q[i] = b[i]
                                     \/ q[i].code = code
           /\ Lockstep(step, b, c) /\ code # Refusal => Lockstep(step, q, d)
<1>0. /\ step \in Steps /\ b \in Seq(Part) /\ c \in Seq(Steps) /\ c # <<>>
      /\ r \in Seq(Part) /\ Len(r) > 0 /\ ~r[1].crlf
      /\ code \in {Good[Head(c)], Refusal} /\ \A i \in 1 .. Len(r) : r[i].code = code
  BY Zenon DEF Answered
<1>1. q = b \o r /\ d = Tail(c)
  BY Zenon DEF Answered
<1>2. /\ q \in Seq(Part) /\ Len(q) = Len(b) + Len(r)
      /\ \A i \in 1 .. Len(b) + Len(r) : q[i] = IF i <= Len(b) THEN b[i] ELSE r[i - Len(b)]
  <2>1. /\ b \o r \in Seq(Part) /\ Len(b \o r) = Len(b) + Len(r)
        /\ \A i \in 1 .. Len(b) + Len(r) : (b \o r)[i] = IF i <= Len(b) THEN b[i] ELSE r[i - Len(b)]
    BY <1>0, ConcatProperties, Zenon
  <2>2. QED
    BY <1>1, <2>1, Zenon
<1>3. PICK e : e = Head(c)
  OBVIOUS
<1>4. /\ d \in Seq(Steps) /\ Len(d) = Len(c) - 1 /\ e \in Steps /\ e = c[1]
      /\ \A i \in 1 .. Len(d) : d[i] = c[i + 1]
  <2>1. /\ Tail(c) \in Seq(Steps) /\ Len(Tail(c)) = Len(c) - 1 /\ Head(c) \in Steps
        /\ \A i \in 1 .. Len(Tail(c)) : Tail(c)[i] = c[i + 1]
    BY <1>0, HeadTailProperties
  <2>2. Head(c) = c[1]
    BY <1>0
  <2>3. QED
    BY <1>1, <1>3, <2>1, <2>2, Zenon
<1>5. Len(b) \in Nat /\ Len(r) \in Nat /\ Len(c) \in Nat /\ Len(c) >= 1 /\ 1 \in 1 .. Len(c)
  BY <1>0
<1>6. \A i \in 1 .. Len(q) : \/ i \in 1 .. Len(b) /\ q[i] = b[i]
                             \/ i > Len(b) /\ q[i].code = code
  <2>1. SUFFICES ASSUME NEW i \in 1 .. Len(q), ~(i <= Len(b)) PROVE q[i].code = code
    BY <1>0, <1>2, <1>5
  <2>2. i - Len(b) \in 1 .. Len(r) /\ q[i] = r[i - Len(b)]
    BY <1>0, <1>2, <1>5, <2>1
  <2>3. r[i - Len(b)].code = code
    BY <1>0, <2>2
  <2>4. QED
    BY <1>0, <2>2, <2>3
<1>7. code = Good[e] \/ code = Refusal
  BY <1>0, <1>3
<1>8. ASSUME Ordered(step, b, c) PROVE Ordered(step, q, d)
  <2>1. Early(e) => code # 354
    BY <1>0, <1>4, <1>7 DEF Good, Early, Refusal, Steps
  <2>2. CASE Early(step)
    <3>1. /\ \A i \in 1 .. Len(b) : b[i].code # 354
          /\ \A i \in 1 .. Len(c) : Early(c[i])
      BY <1>0, <1>8, <2>2 DEF Ordered
    <3>2. Early(e)
      BY <1>0, <1>4, <1>5, <3>1
    <3>3. \A i \in 1 .. Len(q) : q[i].code # 354
      BY <1>0, <1>6, <2>1, <3>1, <3>2
    <3>4. \A i \in 1 .. Len(d) : Early(d[i])
      BY <1>0, <1>4, <1>5, <3>1
    <3>5. QED
      BY <1>0, <2>2, <3>3, <3>4 DEF Ordered, Early
  <2>3. CASE step = "data"
    <3>1. \A i \in 1 .. Len(c) : /\ c[i] \notin {"body", "quit"}
                                 /\ c[i] = "data" => i = Len(c)
      BY <1>0, <1>8, <2>3 DEF Ordered
    <3>2. \A i \in 1 .. Len(b) : b[i].code # 354
      BY <1>0, <1>8, <2>3 DEF Ordered
    <3>3. \A i \in 1 .. Len(d) : /\ d[i] \notin {"body", "quit"}
                                 /\ d[i] = "data" => i = Len(d)
      <4>1. SUFFICES ASSUME NEW i \in 1 .. Len(d)
                     PROVE  d[i] \notin {"body", "quit"} /\ (d[i] = "data" => i = Len(d))
        OBVIOUS
      <4>2. Len(d) \in Nat /\ Len(d) = Len(c) - 1 /\ d[i] = c[i + 1]
        BY <1>4, <4>1
      <4>3. i + 1 \in 1 .. Len(c)
        BY <1>5, <4>1, <4>2
      <4>4. c[i + 1] \notin {"body", "quit"} /\ (c[i + 1] = "data" => i + 1 = Len(c))
        BY <3>1, <4>3
      <4>5. QED
        BY <1>5, <4>1, <4>2, <4>4
    <3>4. ASSUME NEW i \in 1 .. Len(q), q[i].code = 354
          PROVE  d = <<>> /\ \A j \in i .. Len(q) : q[j].code = 354
      <4>1. code = 354 /\ i > Len(b)
        BY <1>0, <1>6, <3>2, <3>4
      <4>2. e = "data"
        BY <1>0, <1>4, <1>5, <2>1, <3>1, <4>1 DEF Early
      <4>3. Len(d) = 0
        <5>1. c[1] = "data" => 1 = Len(c)
          BY <1>0, <1>5, <3>1
        <5>2. QED
          BY <1>0, <1>4, <1>5, <4>2, <5>1
      <4>4. d = <<>>
        BY <1>0, <1>4, <4>3
      <4>5. \A j \in i .. Len(q) : q[j].code = 354
        BY <1>0, <1>2, <1>5, <1>6, <4>1
      <4>6. QED
        BY <1>0, <4>4, <4>5
    <3>5. QED
      BY <1>0, <2>3, <3>3, <3>4 DEF Ordered, Early
  <2>4. CASE step = "body"
    <3>1. c = <<"body">>
      BY <1>0, <1>8, <2>4 DEF Ordered
    <3>2. d = <<>>
      BY <1>0, <1>1, <3>1
    <3>3. QED
      BY <1>0, <2>4, <3>2 DEF Ordered, Early
  <2>5. QED
    BY <1>0, <2>2, <2>3, <2>4 DEF Ordered, Early
<1>9. ASSUME Lockstep(step, b, c), code # Refusal
      PROVE  Lockstep(step, q, d)
  <2>1. step # "tls" /\ c = <<step>> /\ b = <<>>
    BY <1>0, <1>9 DEF Lockstep
  <2>2. d = <<>> /\ e = step /\ Len(b) = 0
    BY <1>0, <1>1, <1>3, <2>1
  <2>3. code = Good[step]
    BY <1>0, <1>7, <1>9, <2>2
  <2>4. \A i \in 1 .. Len(q) : q[i].code = Good[step]
    BY <1>0, <1>6, <2>2, <2>3
  <2>5. Len(q) > 0 /\ q[1] = r[1]
    BY <1>0, <1>2, <1>5, <2>2
  <2>6. q # <<>> /\ ~q[1].crlf
    BY <1>0, <1>2, <2>5
  <2>7. QED
    BY <1>0, <2>1, <2>2, <2>4, <2>6 DEF Lockstep
<1>10. QED
  BY <1>0, <1>2, <1>4, <1>6, <1>8, <1>9

-----------------------------------------------------------------------------
LEMMA Places ==
    ASSUME TypeOK
    PROVE  /\ Follow(Script) /\ Buffer \in Seq(Part) /\ commands \in Seq(Steps)
           /\ out \in Seq(Part) /\ rcv \in Seq(Part) /\ at \in Nat /\ at <= Len(Script)
           /\ at > 0 => Step \in Steps
<1>1. out \in Seq(Part) /\ rcv \in Seq(Part) /\ ssl \in BOOLEAN /\ commands \in Seq(Steps)
  BY DEF TypeOK
<1>2. Buffer \in Seq(Part)
  BY <1>1, ConcatProperties DEF Buffer
<1>3. Follow(Script)
  BY <1>1, ScriptFollows
<1>4. PICK s : s = Script
  OBVIOUS
<1>5. at \in Nat /\ at <= Len(s) /\ s \in Seq(Steps)
  BY <1>3, <1>4 DEF TypeOK, Follow
<1>6. at > 0 => s[at] \in Steps
  BY <1>5
<1>7. QED
  BY <1>1, <1>2, <1>3, <1>4, <1>5, <1>6 DEF Step

(* On to the next step, with t left of what was read.                       *)
LEMMA EnterKeeps ==
    ASSUME TypeOK, Order, at > 0, Step # "quit", NEW t \in Seq(Part), Suffix(t, Buffer),
           Step = "data" => Buffer # <<>> /\ Buffer[1].code = 354,
           Enter(at + 1), rcv' = t, ssl' = ssl
    PROVE  /\ at' > 0 /\ at' \in 0 .. Len(Script)' /\ Step' \in Steps
           /\ Buffer' = t /\ out' = <<>> /\ out' \in Seq(Part)
           /\ commands' \in Seq(Steps) /\ Order'
           /\ (Step' = "body" => \A i \in 1 .. Len(t) : t[i].code # 250)
           /\ (Step' = "quit" => Step = "body")
           /\ (commands = <<>> => commands' = IF Step' = "tls" THEN <<>> ELSE <<Step'>>)
<1>1. /\ Follow(Script) /\ Buffer \in Seq(Part) /\ commands \in Seq(Steps)
      /\ at \in Nat /\ at <= Len(Script) /\ Step \in Steps
  BY Places
<1>2. PICK s : s = Script
  OBVIOUS
<1>3. Script' = s
  BY <1>2 DEF Script, Opening
<1>4. at' = at + 1 /\ out' = <<>>
      /\ commands' = IF s[at + 1] = "tls" THEN commands ELSE Append(commands, s[at + 1])
  BY <1>2 DEF Enter
<1>5. Step = s[at] /\ Step' = s[at + 1]
  BY <1>2, <1>3, <1>4 DEF Step
<1>6. PICK step, next, b, c, d :
        step = Step /\ next = Step' /\ b = Buffer /\ c = commands /\ d = commands'
  BY Zenon
<1>0. step \in Steps /\ b \in Seq(Part) /\ c \in Seq(Steps)
  BY <1>1, <1>6, Zenon
<1>7. at < Len(s) /\ at \in 1 .. Len(s) /\ Len(s) \in Nat
  BY <1>1, <1>2, <1>5 DEF Follow
<1>8. /\ next \in Steps
      /\ Early(step) => Early(next) \/ next = "data"
      /\ step = "data" => next = "body"
      /\ step = "body" => next = "quit"
      /\ step # "quit"
  BY <1>1, <1>2, <1>5, <1>6, <1>7 DEF Follow
<1>9. Ordered(step, b, c) /\ Suffix(t, b)
      /\ (step = "data" => b # <<>> /\ b[1].code = 354)
      /\ d = IF next = "tls" THEN c ELSE Append(c, next)
  BY <1>4, <1>5, <1>6, Zenon DEF Order
<1>10. d \in Seq(Steps) /\ Ordered(next, t, d)
       /\ (next = "body" => \A i \in 1 .. Len(t) : t[i].code # 250)
  <2>1. Goes(step, next, b, t, c, d)
    BY <1>0, <1>8, <1>9 DEF Goes
  <2>2. QED
    BY <2>1, NextOrdered
<1>11. Buffer' = t /\ <<>> \in Seq(Part)
  <2>1. <<>> \in Seq(Part) /\ <<>> \o t = t
    BY ConcatEmptySeq
  <2>2. QED
    BY <1>4, <2>1 DEF Buffer
<1>12. at' > 0 /\ at' \in 0 .. Len(s)
  BY <1>1, <1>4, <1>7
<1>13. Order'
  BY <1>6, <1>10, <1>11, Zenon DEF Order
<1>14. next = "quit" => step = "body"
  BY <1>8 DEF Early
<1>15. c = <<>> => d = IF next = "tls" THEN <<>> ELSE <<next>>
  <2>1. Append(<<>>, next) = <<next>>
    OBVIOUS
  <2>2. QED
    BY <1>9, <2>1, Zenon
<1>16. /\ at' > 0 /\ at' \in 0 .. Len(Script)' /\ Step' \in Steps
       /\ out' = <<>> /\ out' \in Seq(Part)
  BY <1>3, <1>4, <1>6, <1>8, <1>11, <1>12
<1>17. commands' \in Seq(Steps)
  BY <1>6, <1>10
<1>18. (Step' = "body" => \A i \in 1 .. Len(t) : t[i].code # 250)
       /\ (Step' = "quit" => Step = "body")
       /\ (commands = <<>> => commands' = IF Step' = "tls" THEN <<>> ELSE <<Step'>>)
  BY <1>6, <1>10, <1>14, <1>15, Zenon
<1>19. QED
  BY <1>11, <1>13, <1>16, <1>17, <1>18

(* What history may gain: the account the dialogue is for.                  *)
Noted(set, new) == set \subseteq new /\ new \subseteq set \cup {account}

LEMMA ReturnKeeps ==
    ASSUME IInv, account \in 1 .. Accounts, NEW ok \in BOOLEAN, Return(ok), ssl' = ssl,
           Noted(fault, fault'), Noted(split, split'),
           ok => account \in accepted, ~ok => account \in fault' \cup split'
    PROVE  IInv'
<1>1. /\ results' = [results EXCEPT ![account] = IF ok THEN "sent" ELSE "failed"]
      /\ account' = account + 1 /\ at' = 0 /\ out' = <<>> /\ sent' = FALSE
      /\ rcv' = <<>> /\ commands' = <<>> /\ granted' = FALSE /\ accepted' = accepted
  BY DEF Return
<1>2. /\ results \in [1 .. Accounts -> {"none", "sent", "failed"}]
      /\ accepted \cup fault \cup split \subseteq 1 .. Accounts
      /\ Accounts \in Nat /\ ssl \in BOOLEAN
  BY AccountsAssumption DEF IInv, TypeOK
<1>3. results' \in [1 .. Accounts -> {"none", "sent", "failed"}]
      /\ \A a \in 1 .. Accounts : results'[a] = IF a = account
                                                THEN IF ok THEN "sent" ELSE "failed"
                                                ELSE results[a]
  BY <1>1, <1>2
<1>4. accepted' \cup fault' \cup split' \subseteq 1 .. Accounts
  BY <1>1, <1>2 DEF Noted
<1>5. TypeOK'
  <2>1. <<>> \in Seq(Part) /\ <<>> \in Seq(Steps) /\ 0 \in 0 .. Len(Script')
    <3>1. Script' = Script
      BY DEF Script, Opening
    <3>2. PICK s : s = Script
      OBVIOUS
    <3>3. Len(s) \in Nat
      BY <1>2, <3>2, ScriptFollows DEF Follow
    <3>4. QED
      BY <3>1, <3>2, <3>3
  <2>2. account' \in 1 .. Accounts + 1
    BY <1>1, <1>2
  <2>3. QED
    BY <1>1, <1>2, <1>3, <1>4, <2>1, <2>2 DEF TypeOK
<1>6. Serves' /\ Order' /\ Claim' /\ InStep'
  BY <1>1 DEF Serves, Order, Claim, InStep
<1>7. SentIsAccepted'
  <2>1. SentIsAccepted
    BY DEF IInv
  <2>2. QED
    BY <1>1, <1>3, <2>1 DEF SentIsAccepted
<1>8. FailureExplained'
  <2>1. FailureExplained
    BY DEF IInv
  <2>2. QED
    BY <1>1, <1>3, <2>1 DEF FailureExplained, Noted
<1>9. QED
  BY <1>5, <1>6, <1>7, <1>8 DEF IInv

(* A reply has been judged: what it is taken for, and what is left of it.   *)
Judged(code, t) ==
    /\ Judge(code, t) /\ t \in Seq(Part) /\ Suffix(t, Buffer)
    /\ code = NoCode \/ (Buffer # <<>> /\ code = Buffer[1].code)
    /\ Noted(fault, fault') /\ Noted(split, split')
    /\ account \notin fault' \cup split' =>
         t = <<>> /\ Buffer # <<>> /\ (~Buffer[1].crlf => code = Buffer[1].code)
    /\ at > 0 /\ Step # "tls" /\ ssl' = ssl

(* In step, the code is the one that is hoped for.                          *)
LEMMA GoodCode ==
    ASSUME IInv, NEW code, NEW t, Judged(code, t), account \notin fault' \cup split'
    PROVE  code = Good[Step] /\ commands = <<>> /\ t = <<>> /\ (Step = "quit" => sent)
<1>1. account \notin fault \cup split /\ t = <<>> /\ Buffer # <<>>
      /\ (~Buffer[1].crlf => code = Buffer[1].code) /\ at > 0 /\ Step # "tls"
  BY DEF Judged, Noted
<1>2. Lockstep(Step, Buffer, commands) /\ (Step = "quit" => sent)
  BY <1>1 DEF IInv, InStep
<1>3. PICK step, b, c : step = Step /\ b = Buffer /\ c = commands
  OBVIOUS
<1>4. b \in Seq(Part)
  BY <1>3, Places DEF IInv
<1>5. c = <<>> /\ ~b[1].crlf /\ \A i \in 1 .. Len(b) : b[i].code = Good[step]
  BY <1>1, <1>2, <1>3 DEF Lockstep
<1>6. 1 \in 1 .. Len(b)
  BY <1>1, <1>3, <1>4
<1>7. b[1].code = Good[step]
  BY <1>5, <1>6
<1>8. QED
  BY <1>1, <1>2, <1>3, <1>5, <1>7

LEMMA GoOnKeeps ==
    ASSUME IInv, NEW code, NEW t, Judged(code, t), Step # "quit", Enter(at + 1), rcv' = t,
           Step # "body" => Passes(code) /\ sent' = sent,
           Step = "body" => sent' = (code = 250)
    PROVE  IInv'
<1>1. /\ TypeOK /\ Order /\ at > 0 /\ Step \in Steps /\ Step # "tls" /\ t \in Seq(Part)
      /\ Suffix(t, Buffer) /\ ssl' = ssl /\ Buffer \in Seq(Part)
      /\ (code = NoCode \/ (Buffer # <<>> /\ code = Buffer[1].code))
  BY Places DEF Judged, IInv
<1>2. Step = "data" => Buffer # <<>> /\ Buffer[1].code = 354
  <2>1. Step = "data" => code = 354
    BY DEF Passes, Good, Steps
  <2>2. QED
    BY <1>1, <2>1 DEF NoCode
<1>3. /\ at' > 0 /\ at' \in 0 .. Len(Script)' /\ Step' \in Steps
      /\ Buffer' = t /\ out' = <<>> /\ out' \in Seq(Part)
      /\ commands' \in Seq(Steps) /\ Order'
      /\ (Step' = "body" => \A i \in 1 .. Len(t) : t[i].code # 250)
      /\ (Step' = "quit" => Step = "body")
      /\ (commands = <<>> => commands' = IF Step' = "tls" THEN <<>> ELSE <<Step'>>)
  BY <1>1, <1>2, EnterKeeps
<1>4. account' = account /\ results' = results /\ granted' = granted /\ accepted' = accepted
  BY DEF Enter
<1>5. Noted(fault, fault') /\ Noted(split, split') /\ account \in 1 .. Accounts
  BY <1>1 DEF Judged, IInv, Serves
<1>6. TypeOK'
  <2>1. sent' \in BOOLEAN
    <3>1. sent \in BOOLEAN /\ (code = 250) \in BOOLEAN
      BY DEF IInv, TypeOK
    <3>2. QED
      BY <3>1, Zenon
  <2>2. QED
    BY <1>1, <1>3, <1>4, <1>5, <2>1 DEF TypeOK, Noted
<1>7. Serves'
  BY <1>4, <1>5 DEF Serves
<1>8. Claim'
  <2>1. ASSUME Step' = "body" PROVE \A i \in 1 .. Len(Buffer') : Buffer'[i].code # 250
    BY <1>3, <2>1
  <2>2. ASSUME sent' PROVE Step' = "quit" /\ account \in accepted
    <3>1. Step = "body"
      <4>1. SUFFICES ASSUME Step # "body" PROVE FALSE
        OBVIOUS
      <4>2. sent /\ Step # "quit"
        BY <2>2, <4>1
      <4>3. QED
        BY <4>2 DEF IInv, Claim
    <3>2. code = 250
      BY <2>2, <3>1
    <3>3. PICK b : b = Buffer
      OBVIOUS
    <3>4. b # <<>> /\ b[1].code = 250 /\ b \in Seq(Part)
      BY <1>1, <3>2, <3>3 DEF NoCode
    <3>5. 1 \in 1 .. Len(b)
      BY <3>4
    <3>6. \A i \in 1 .. Len(b) : b[i].code = 250 => account \in accepted
      BY <1>1, <3>1, <3>3 DEF IInv, Claim
    <3>7. account \in accepted
      BY <3>4, <3>5, <3>6
    <3>8. Step' = "quit"
      <4>1. Follow(Script) /\ at \in Nat /\ at <= Len(Script)
        BY <1>1, Places
      <4>2. PICK s : s = Script
        OBVIOUS
      <4>3. Script' = s /\ at' = at + 1
        BY <1>1, <4>2 DEF Script, Opening, Enter
      <4>4. Step = s[at] /\ Step' = s[at + 1]
        BY <4>2, <4>3 DEF Step
      <4>5. QED
        BY <1>1, <3>1, <4>1, <4>2, <4>4 DEF Follow
    <3>9. QED
      BY <3>7, <3>8
  <2>3. QED
    BY <1>3, <1>4, <2>1, <2>2 DEF Claim
<1>9. InStep'
  <2>1. SUFFICES ASSUME account' \notin fault' \cup split'
                 PROVE  Lockstep(Step', Buffer', commands') /\ (Step' = "quit" => sent')
    BY DEF InStep
  <2>2. code = Good[Step] /\ commands = <<>> /\ t = <<>>
    BY <1>4, <2>1, GoodCode
  <2>3. Step' = "quit" => sent'
    <3>1. Good["body"] = 250
      BY DEF Good, Steps
    <3>2. QED
      BY <1>3, <2>2, <3>1
  <2>4. Buffer' = <<>> /\ commands' = IF Step' = "tls" THEN <<>> ELSE <<Step'>>
    BY <1>3, <2>2
  <2>5. QED
    BY <2>3, <2>4 DEF Lockstep
<1>10. SentIsAccepted' /\ FailureExplained'
  BY <1>4, <1>5 DEF IInv, SentIsAccepted, FailureExplained, Noted
<1>11. QED
  BY <1>3, <1>6, <1>7, <1>8, <1>9, <1>10 DEF IInv

LEMMA JudgedKeeps == ASSUME IInv, NEW code, NEW t, Judged(code, t) PROVE IInv'
<1>1. /\ at > 0 /\ account \in 1 .. Accounts /\ ssl' = ssl /\ Step \in Steps /\ Step # "tls"
      /\ Noted(fault, fault') /\ Noted(split, split') /\ Judge(code, t)
  BY Places DEF Judged, IInv, Serves
<1>2. CASE Step = "body" /\ Enter(at + 1) /\ sent' = (code = 250) /\ rcv' = t
  BY <1>2, GoOnKeeps
<1>3. CASE Step = "quit" /\ Return(sent)
  <2>1. sent \in BOOLEAN /\ (sent => account \in accepted)
    BY DEF IInv, TypeOK, Claim
  <2>2. ~sent => account \in fault' \cup split'
    BY <1>3, GoodCode
  <2>3. QED
    BY <1>1, <1>3, <2>1, <2>2, ReturnKeeps
<1>4. CASE /\ Step \notin {"body", "quit"} /\ Passes(code)
           /\ Enter(at + 1) /\ rcv' = t /\ UNCHANGED sent
  BY <1>4, GoOnKeeps
<1>5. CASE Step \notin {"body", "quit"} /\ ~Passes(code) /\ Return(FALSE)
  <2>1. account \in fault' \cup split'
    <3>1. SUFFICES ASSUME account \notin fault' \cup split' PROVE FALSE
      OBVIOUS
    <3>2. code = Good[Step]
      BY <3>1, GoodCode
    <3>3. QED
      BY <1>1, <1>5, <3>2 DEF Passes, Good, Steps
  <2>2. PICK ok \in BOOLEAN : ~ok /\ ok = FALSE
    OBVIOUS
  <2>3. Return(ok)
    BY <1>5, <2>2, Zenon
  <2>4. QED
    BY <1>1, <2>1, <2>2, <2>3, ReturnKeeps
<1>6. QED
  BY <1>1, <1>2, <1>3, <1>4, <1>5 DEF Judge

LEMMA ReadKeeps == ASSUME IInv, Read PROVE IInv'
<1>1. PICK k \in 1 .. Len(rcv) :
        LET parts == out \o SubSeq(rcv, 1, k)
            left  == SubSeq(rcv, k + 1, Len(rcv))
        IN  IF Ends(parts)
            THEN /\ Judge(Code(parts), left)
                 /\ IF left = <<>> THEN UNCHANGED split ELSE Blame(split)
            ELSE /\ out' = parts /\ rcv' = left
                 /\ UNCHANGED <<account, at, sent, results, peer, split>>
  BY DEF Read
<1>2. /\ out \in Seq(Part) /\ rcv \in Seq(Part) /\ at > 0 /\ Step # "tls"
      /\ ssl' = ssl /\ fault' = fault
  BY Places DEF IInv, Read, Talking
<1>3. PICK p, t, b : p = out \o SubSeq(rcv, 1, k) /\ t = SubSeq(rcv, k + 1, Len(rcv)) /\ b = Buffer
  BY Zenon
<1>4. b = out \o rcv
  BY <1>3, Zenon DEF Buffer
<1>5. /\ p \in Seq(Part) /\ t \in Seq(Part) /\ p # <<>> /\ b # <<>> /\ p[1] = b[1]
      /\ p \o t = b /\ Suffix(t, b) /\ (t = <<>> => p = b)
  <2>1. PICK o, r : o = out /\ r = rcv
    OBVIOUS
  <2>2. o \in Seq(Part) /\ r \in Seq(Part) /\ k \in 1 .. Len(r)
    BY <1>2, <2>1
  <2>3. p = o \o SubSeq(r, 1, k) /\ t = SubSeq(r, k + 1, Len(r)) /\ b = o \o r
    BY <1>3, <1>4, <2>1, Zenon
  <2>4. Took(Part, o, r, k, p, t, b)
    BY <2>2, <2>3, Zenon DEF Took
  <2>5. QED
    BY <2>4, Taking
<1>6. CASE Ends(p)
  <2>1. Judge(Code(p), t) /\ (IF t = <<>> THEN UNCHANGED split ELSE Blame(split))
    BY <1>1, <1>3, <1>6, Zenon
  <2>2. (Code(p) = NoCode \/ Code(p) = b[1].code) /\ (~b[1].crlf => Code(p) = b[1].code)
    BY <1>5 DEF Code
  <2>3. Noted(fault, fault') /\ Noted(split, split')
    BY <1>2, <2>1 DEF Noted, Blame
  <2>4. account \notin fault' \cup split' => t = <<>>
    BY <2>1 DEF Blame
  <2>5. Judged(Code(p), t)
    BY <1>2, <1>3, <1>5, <2>1, <2>2, <2>3, <2>4, Zenon DEF Judged
  <2>6. QED
    BY <2>5, JudgedKeeps
<1>7. CASE ~Ends(p)
  <2>1. /\ out' = p /\ rcv' = t /\ account' = account /\ at' = at /\ sent' = sent
        /\ results' = results /\ split' = split
        /\ commands' = commands /\ granted' = granted /\ accepted' = accepted
    BY <1>1, <1>3, <1>7, Zenon DEF peer
  <2>2. Buffer' = Buffer
    BY <1>3, <1>5, <2>1, Zenon DEF Buffer
  <2>3. Script' = Script /\ Step' = Step
    BY <1>2, <2>1 DEF Script, Opening, Step
  <2>4. TypeOK'
    BY <1>2, <1>5, <2>1, <2>3 DEF IInv, TypeOK
  <2>5. Serves' /\ SentIsAccepted' /\ FailureExplained'
    BY <1>2, <2>1 DEF IInv, Serves, SentIsAccepted, FailureExplained
  <2>6. Order' /\ Claim' /\ InStep'
    BY <1>2, <2>1, <2>2, <2>3 DEF IInv, Order, Claim, InStep
  <2>7. QED
    BY <2>4, <2>5, <2>6 DEF IInv
<1>8. QED
  BY <1>6, <1>7

LEMMA TimeoutKeeps == ASSUME IInv, Timeout PROVE IInv'
<1>1. /\ out \in Seq(Part) /\ rcv \in Seq(Part) /\ at > 0 /\ Step # "tls"
      /\ ssl' = ssl /\ split' = split /\ fault' = fault \cup {account} /\ Judge(Code(out), rcv)
  BY Places DEF IInv, Timeout, Talking, Blame
<1>2. PICK o, r, b : o = out /\ r = rcv /\ b = Buffer
  OBVIOUS
<1>3. b = o \o r /\ o \in Seq(Part) /\ r \in Seq(Part)
  BY <1>1, <1>2, Zenon DEF Buffer
<1>4. b \in Seq(Part) /\ Suffix(r, b)
  BY <1>3, SuffixOfConcat
<1>5. Code(o) = NoCode \/ (b # <<>> /\ Code(o) = b[1].code)
  <2>1. SUFFICES ASSUME o # <<>> PROVE b # <<>> /\ b[1] = o[1]
    BY DEF Code
  <2>2. /\ o \o r \in Seq(Part) /\ Len(o \o r) = Len(o) + Len(r)
        /\ \A i \in 1 .. Len(o) + Len(r) : (o \o r)[i] = IF i <= Len(o) THEN o[i] ELSE r[i - Len(o)]
    BY <1>3, ConcatProperties, Zenon
  <2>3. /\ b \in Seq(Part) /\ Len(b) = Len(o) + Len(r)
        /\ \A i \in 1 .. Len(o) + Len(r) : b[i] = IF i <= Len(o) THEN o[i] ELSE r[i - Len(o)]
    BY <1>3, <2>2, Zenon
  <2>4. QED
    BY <1>3, <2>1, <2>3
<1>6. Noted(fault, fault') /\ Noted(split, split') /\ account \in fault'
  BY <1>1 DEF Noted
<1>7. Judged(Code(o), r)
  BY <1>1, <1>2, <1>3, <1>4, <1>5, <1>6 DEF Judged
<1>8. QED
  BY <1>7, JudgedKeeps

LEMMA FaultReturn ==
    ASSUME IInv, account \in 1 .. Accounts, Return(FALSE), ssl' = ssl, split' = split,
           Noted(fault, fault'), account \in fault' \cup split'
    PROVE  IInv'
<1>1. PICK ok \in BOOLEAN : ~ok /\ ok = FALSE
  OBVIOUS
<1>2. Return(ok)
  BY <1>1, Zenon
<1>3. Noted(split, split')
  BY DEF Noted
<1>4. QED
  BY <1>1, <1>2, <1>3, ReturnKeeps

LEMMA ConnectKeeps == ASSUME IInv, Connect PROVE IInv'
<1>1. /\ at = 0 /\ account \in 1 .. Accounts /\ ssl' = ssl /\ split' = split
      /\ rcv = <<>> /\ commands = <<>> /\ out = <<>> /\ ssl \in BOOLEAN
  BY AccountsAssumption DEF IInv, TypeOK, Connect
<1>2. CASE Enter(1) /\ UNCHANGED <<sent, rcv, fault>>
  <2>1. PICK s : s = Script
    OBVIOUS
  <2>2. Follow(s) /\ Script' = s
    BY <1>1, <2>1, ScriptFollows DEF Script, Opening
  <2>3. /\ at' = 1 /\ out' = <<>> /\ rcv' = <<>> /\ Step' = s[1]
        /\ account' = account /\ results' = results /\ granted' = granted
        /\ accepted' = accepted /\ sent' = sent /\ fault' = fault
        /\ commands' = IF s[1] = "tls" THEN <<>> ELSE Append(<<>>, s[1])
    BY <1>1, <1>2, <2>1, <2>2 DEF Enter, Step
  <2>4. PICK e : e = s[1]
    OBVIOUS
  <2>5. e \in Steps /\ Early(e) /\ s \in Seq(Steps) /\ Len(s) > 1
    BY <2>2, <2>4 DEF Follow
  <2>6. Append(<<>>, e) = <<e>> /\ <<>> \in Seq(Part) /\ <<>> \in Seq(Steps) /\ <<e>> \in Seq(Steps)
    BY <2>5
  <2>7. <<>> \o <<>> = <<>>
    BY Emptied
  <2>8. Buffer' = <<>> /\ commands' = IF e = "tls" THEN <<>> ELSE <<e>>
    BY <2>3, <2>4, <2>6, <2>7, Zenon DEF Buffer
  <2>9. TypeOK'
    <3>1. at' \in 0 .. Len(Script)'
      BY <2>2, <2>3, <2>5
    <3>2. commands' \in Seq(Steps) /\ out' \in Seq(Part) /\ rcv' \in Seq(Part)
      BY <2>3, <2>6, <2>8
    <3>3. QED
      BY <1>1, <2>3, <3>1, <3>2 DEF IInv, TypeOK
  <2>10. Serves' /\ SentIsAccepted' /\ FailureExplained'
    BY <1>1, <2>3 DEF IInv, Serves, SentIsAccepted, FailureExplained
  <2>11. ~sent
    BY <1>1 DEF IInv, Claim
  <2>12. Early(e) => e \notin {"data", "body", "quit"}
    BY DEF Early
  <2>13. Claim'
    BY <2>3, <2>4, <2>5, <2>11, <2>12 DEF Claim
  <2>14. PICK d : d = IF e = "tls" THEN <<>> ELSE <<e>>
    OBVIOUS
  <2>15. Ordered(e, <<>>, d)
    <3>1. \A i \in 1 .. Len(d) : d[i] = e
      BY <2>14
    <3>2. \A i \in 1 .. Len(<<>>) : FALSE
      OBVIOUS
    <3>3. QED
      BY <2>5, <2>12, <3>1, <3>2 DEF Ordered
  <2>16. Lockstep(e, <<>>, d)
    BY <2>14 DEF Lockstep
  <2>17. Order' /\ InStep'
    BY <2>3, <2>4, <2>5, <2>8, <2>12, <2>14, <2>15, <2>16 DEF Order, InStep
  <2>18. QED
    BY <2>9, <2>10, <2>13, <2>17 DEF IInv
<1>3. CASE Return(FALSE) /\ Blame(fault)
  BY <1>1, <1>3, FaultReturn DEF Blame, Noted
<1>4. QED
  BY <1>2, <1>3 DEF Connect

LEMMA TlsKeeps == ASSUME IInv, StartTls PROVE IInv'
<1>1. /\ at > 0 /\ Step = "tls" /\ account \in 1 .. Accounts /\ ssl' = ssl /\ split' = split
      /\ out \in Seq(Part) /\ rcv \in Seq(Part) /\ Buffer \in Seq(Part)
  BY Places DEF IInv, StartTls, Serves
<1>2. CASE rcv = <<>> /\ Enter(at + 1) /\ UNCHANGED <<sent, rcv, fault>>
  <2>1. <<>> \in Seq(Part) /\ Suffix(<<>>, Buffer)
    <3>1. PICK b \in Seq(Part) : b = Buffer
      BY <1>1
    <3>2. Len(<<>>) = 0 /\ Len(b) \in Nat /\ <<>> \in Seq(Part)
      OBVIOUS
    <3>3. Suffix(<<>>, b)
      BY <3>2 DEF Suffix
    <3>4. QED
      BY <3>1, <3>2, <3>3
  <2>2. /\ at' > 0 /\ at' \in 0 .. Len(Script)' /\ Step' \in Steps
        /\ Buffer' = <<>> /\ out' = <<>> /\ out' \in Seq(Part)
        /\ commands' \in Seq(Steps) /\ Order'
        /\ (Step' = "quit" => Step = "body")
        /\ (commands = <<>> => commands' = IF Step' = "tls" THEN <<>> ELSE <<Step'>>)
    <3>1. TypeOK /\ Order
      BY DEF IInv
    <3>2. PICK t : t = <<>>
      OBVIOUS
    <3>3. t \in Seq(Part) /\ Suffix(t, Buffer) /\ rcv' = t
      BY <1>2, <2>1, <3>2
    <3>4. Step # "quit" /\ Step # "data"
      BY <1>1
    <3>5. QED
      BY <1>1, <1>2, <3>1, <3>2, <3>3, <3>4, EnterKeeps
  <2>3. /\ account' = account /\ results' = results /\ granted' = granted /\ accepted' = accepted
        /\ sent' = sent /\ rcv' = rcv /\ fault' = fault
    BY <1>2 DEF Enter
  <2>4. TypeOK' /\ Serves' /\ SentIsAccepted' /\ FailureExplained'
    BY <1>1, <2>2, <2>3 DEF IInv, TypeOK, Serves, SentIsAccepted, FailureExplained
  <2>5. ~sent
    BY <1>1 DEF IInv, Claim
  <2>6. Claim'
    <3>1. \A i \in 1 .. Len(<<>>) : FALSE
      OBVIOUS
    <3>2. QED
      BY <2>2, <2>3, <2>5, <3>1 DEF Claim
  <2>7. InStep'
    <3>1. SUFFICES ASSUME account \notin fault \cup split
                   PROVE  Lockstep(Step', Buffer', commands') /\ (Step' = "quit" => sent')
      BY <1>1, <2>3 DEF InStep
    <3>2. commands = <<>>
      BY <1>1, <3>1 DEF IInv, InStep, Lockstep
    <3>3. QED
      BY <1>1, <2>2, <3>2 DEF Lockstep
  <2>8. QED
    BY <2>2, <2>4, <2>6, <2>7 DEF IInv
<1>3. CASE Return(FALSE) /\ Blame(fault)
  BY <1>1, <1>3, FaultReturn DEF Blame, Noted
<1>4. CASE rcv # <<>> /\ Return(FALSE) /\ UNCHANGED fault
  <2>1. account \in fault \cup split
    <3>1. SUFFICES ASSUME account \notin fault \cup split PROVE FALSE
      OBVIOUS
    <3>2. Buffer = <<>>
      BY <1>1, <3>1 DEF IInv, InStep, Lockstep
    <3>3. rcv = <<>>
      BY <1>1, <3>2, ConcatEqualIffEmpty DEF Buffer
    <3>4. QED
      BY <1>4, <3>3
  <2>2. QED
    BY <1>1, <1>4, <2>1, FaultReturn DEF Noted
<1>5. QED
  BY <1>2, <1>3, <1>4 DEF StartTls

LEMMA AnswerKeeps == ASSUME IInv, Answer PROVE IInv'
<1>1. PICK code \in {Good[Head(commands)], Refusal}, m \in 1 .. MaxLines, h \in BOOLEAN :
          /\ rcv' = rcv \o Reply(code, m, h)
          /\ granted' = IF Head(commands) = "data" THEN code # Refusal ELSE granted
          /\ IF Head(commands) = "body" /\ code # Refusal THEN Blame(accepted)
                                                           ELSE UNCHANGED accepted
          /\ IF code = Refusal THEN Blame(fault) ELSE UNCHANGED fault
  BY DEF Answer
<1>2. /\ out \in Seq(Part) /\ rcv \in Seq(Part) /\ commands \in Seq(Steps) /\ commands # <<>>
      /\ Buffer \in Seq(Part) /\ (at > 0 => Step \in Steps)
      /\ out' = out /\ account' = account /\ at' = at /\ sent' = sent /\ results' = results
      /\ ssl' = ssl /\ split' = split /\ commands' = Tail(commands)
  BY Places DEF IInv, Answer, client
<1>3. at > 0 /\ account \in 1 .. Accounts
  BY <1>2 DEF IInv, TypeOK, Serves
<1>4. PICK o, v, b, c, r, q, w, d :
        /\ o = out /\ v = rcv /\ b = Buffer /\ c = commands /\ r = Reply(code, m, h)
        /\ q = b \o r /\ w = v \o r /\ d = Tail(c)
  BY Zenon
<1>5. /\ o \in Seq(Part) /\ v \in Seq(Part) /\ b \in Seq(Part) /\ c \in Seq(Steps) /\ c # <<>>
      /\ b = o \o v /\ code \in {Good[Head(c)], Refusal}
  BY <1>1, <1>2, <1>4, Zenon DEF Buffer
<1>6. code \in {220, 235, 250, 354, Refusal}
  <2>1. Head(c) \in Steps
    BY <1>5
  <2>2. QED
    BY <1>5, <2>1 DEF Good, Steps
<1>7. /\ r \in Seq(Part) /\ Len(r) > 0 /\ ~r[1].crlf
      /\ \A i \in 1 .. Len(r) : r[i].code = code
  <2>1. /\ Reply(code, m, h) \in Seq(Part) /\ Len(Reply(code, m, h)) > 0
        /\ ~Reply(code, m, h)[1].crlf
        /\ \A i \in 1 .. Len(Reply(code, m, h)) : Reply(code, m, h)[i].code = code
    BY <1>6, ReplyTyped
  <2>2. QED
    BY <1>4, <2>1, Zenon
<1>8. /\ q = o \o w /\ w \in Seq(Part)
  <2>1. (o \o v) \o r = o \o (v \o r)
    BY <1>5, <1>7, ConcatAssociative
  <2>2. v \o r \in Seq(Part)
    BY <1>5, <1>7, ConcatProperties
  <2>3. QED
    BY <1>4, <1>5, <2>1, <2>2, Zenon
<1>9. rcv' = w /\ Buffer' = q /\ commands' = d
  BY <1>1, <1>2, <1>4, <1>8, Zenon DEF Buffer
<1>10. Script' = Script /\ Step' = Step
  BY <1>2 DEF Script, Opening, Step
<1>11. PICK step : step = Step
  OBVIOUS
<1>12. step \in Steps
  BY <1>2, <1>3, <1>11
<1>13. /\ q \in Seq(Part) /\ d \in Seq(Steps)
       /\ Ordered(step, b, c) => Ordered(step, q, d)
       /\ \A i \in 1 .. Len(q) : \/ i \in 1 .. Len(b) /\ q[i] = b[i]
                                 \/ q[i].code = code
       /\ Lockstep(step, b, c) /\ code # Refusal => Lockstep(step, q, d)
  <2>1. Answered(step, b, c, r, code, q, d)
    BY <1>4, <1>5, <1>7, <1>12, Zenon DEF Answered
  <2>2. QED
    BY <2>1, AnswerOrdered
<1>14. Noted(fault, fault') /\ Noted(accepted, accepted')
       /\ (code = Refusal => account \in fault') /\ (code # Refusal => fault' = fault)
  BY <1>1 DEF Noted, Blame
<1>15. TypeOK'
  <2>1. granted' \in BOOLEAN
    <3>1. granted \in BOOLEAN /\ (code # Refusal) \in BOOLEAN
      BY DEF IInv, TypeOK
    <3>2. QED
      BY <1>1, <3>1, Zenon
  <2>2. rcv' \in Seq(Part) /\ out' \in Seq(Part) /\ commands' \in Seq(Steps)
    BY <1>2, <1>8, <1>9, <1>13
  <2>3. /\ ssl \in BOOLEAN /\ sent \in BOOLEAN /\ account \in 1 .. Accounts + 1
        /\ at \in 0 .. Len(Script)
        /\ results \in [1 .. Accounts -> {"none", "sent", "failed"}]
        /\ accepted \cup fault \cup split \subseteq 1 .. Accounts
    BY DEF IInv, TypeOK
  <2>4. accepted' \cup fault' \cup split' \subseteq 1 .. Accounts
    BY <1>2, <1>3, <1>14, <2>3 DEF Noted
  <2>5. QED
    BY <1>2, <1>3, <1>10, <2>1, <2>2, <2>3, <2>4 DEF TypeOK
<1>16. Serves' /\ SentIsAccepted' /\ FailureExplained'
  BY <1>2, <1>14 DEF IInv, Serves, SentIsAccepted, FailureExplained, Noted
<1>17. Order'
  <2>1. Ordered(step, b, c)
    BY <1>3, <1>4, <1>11 DEF IInv, Order
  <2>2. QED
    BY <1>9, <1>10, <1>11, <1>13, <2>1 DEF Order
<1>18. Claim'
  <2>1. sent => Step = "quit" /\ account \in accepted
    BY DEF IInv, Claim
  <2>2. ASSUME step = "body", NEW i \in 1 .. Len(q), q[i].code = 250
        PROVE  account \in accepted'
    <3>1. CASE i \in 1 .. Len(b) /\ q[i] = b[i]
      <4>1. account \in accepted
        BY <1>3, <1>4, <1>11, <2>2, <3>1 DEF IInv, Claim
      <4>2. QED
        BY <1>14, <4>1 DEF Noted
    <3>2. CASE q[i].code = code
      <4>1. Ordered(step, b, c)
        BY <1>3, <1>4, <1>11 DEF IInv, Order
      <4>2. c = <<"body">>
        BY <1>5, <2>2, <4>1 DEF Ordered
      <4>3. Head(commands) = "body" /\ code # Refusal
        BY <1>4, <2>2, <3>2, <4>2 DEF Refusal
      <4>4. QED
        BY <1>1, <4>3 DEF Blame
    <3>3. QED
      BY <1>13, <3>1, <3>2
  <2>3. QED
    BY <1>2, <1>3, <1>9, <1>10, <1>11, <1>14, <2>1, <2>2 DEF Claim, Noted
<1>19. InStep'
  <2>1. SUFFICES ASSUME account \notin fault' \cup split
                 PROVE  Lockstep(Step, q, d) /\ (Step = "quit" => sent)
    BY <1>2, <1>9, <1>10 DEF InStep
  <2>2. code # Refusal /\ account \notin fault \cup split
    BY <1>14, <2>1 DEF Noted
  <2>3. Lockstep(step, b, c) /\ (Step = "quit" => sent)
    BY <1>3, <1>4, <1>11, <2>2 DEF IInv, InStep
  <2>4. QED
    BY <1>11, <1>13, <2>2, <2>3
<1>20. QED
  BY <1>15, <1>16, <1>17, <1>18, <1>19 DEF IInv

LEMMA InitIInv == Init => IInv
<1> SUFFICES ASSUME Init PROVE IInv
  OBVIOUS
<1>1. Follow(Script) /\ Accounts \in Nat
  BY ScriptFollows, AccountsAssumption DEF Init
<1>2. PICK s : s = Script
  OBVIOUS
<1>3. Len(s) \in Nat
  BY <1>1, <1>2 DEF Follow
<1>4. 0 \in 0 .. Len(Script) /\ 1 \in 1 .. Accounts + 1
  BY <1>1, <1>2, <1>3
<1>5. results \in [1 .. Accounts -> {"none", "sent", "failed"}]
      /\ \A a \in 1 .. Accounts : results[a] = "none"
  BY DEF Init
<1>6. <<>> \in Seq(Part) /\ <<>> \in Seq(Steps)
  OBVIOUS
<1>7. TypeOK
  BY <1>4, <1>5, <1>6 DEF Init, TypeOK
<1>8. Serves /\ Order /\ Claim /\ InStep
  BY DEF Init, Serves, Order, Claim, InStep
<1>9. SentIsAccepted /\ FailureExplained
  BY <1>5 DEF SentIsAccepted, FailureExplained
<1>10. QED
  BY <1>7, <1>8, <1>9 DEF IInv

LEMMA StutterKeeps == ASSUME IInv, UNCHANGED vars PROVE IInv'
<1>1. /\ ssl' = ssl /\ account' = account /\ at' = at /\ out' = out /\ sent' = sent
      /\ results' = results /\ rcv' = rcv /\ commands' = commands /\ granted' = granted
      /\ accepted' = accepted /\ fault' = fault /\ split' = split
  BY DEF vars, client, peer
<1>2. Script' = Script /\ Step' = Step /\ Buffer' = Buffer
  BY <1>1 DEF Script, Opening, Step, Buffer
<1>3. TypeOK'
  BY <1>1, <1>2 DEF IInv, TypeOK
<1>4. Serves' /\ SentIsAccepted' /\ FailureExplained'
  BY <1>1 DEF IInv, Serves, SentIsAccepted, FailureExplained
<1>5. Order' /\ Claim' /\ InStep'
  BY <1>1, <1>2 DEF IInv, Order, Claim, InStep
<1>6. QED
  BY <1>3, <1>4, <1>5 DEF IInv

LEMMA NextIInv == ASSUME IInv, [Next]_vars PROVE IInv'
<1>1. CASE Connect BY <1>1, ConnectKeeps
<1>2. CASE StartTls BY <1>2, TlsKeeps
<1>3. CASE Read BY <1>3, ReadKeeps
<1>4. CASE Timeout BY <1>4, TimeoutKeeps
<1>5. CASE Answer BY <1>5, AnswerKeeps
<1>6. CASE UNCHANGED vars BY <1>6, StutterKeeps
<1>7. QED
  BY <1>1, <1>2, <1>3, <1>4, <1>5, <1>6 DEF Next, Client

LEMMA Inductive == Spec => []IInv
BY InitIInv, NextIInv, PTL DEF Spec

(* Types, for every number of accounts and of lines in a reply.             *)
THEOREM Typing == Spec => []TypeOK
<1>1. IInv => TypeOK
  BY DEF IInv
<1> QED BY Inductive, <1>1, PTL

(* sendTo returns true only for a message the server has accepted.          *)
THEOREM NoFalseSuccess == Spec => []SentIsAccepted
<1>1. IInv => SentIsAccepted
  BY DEF IInv
<1> QED BY Inductive, <1>1, PTL

(* A failure has a cause: the network, the server, or a reply cut in two.   *)
THEOREM NoFailureUnexplained == Spec => []FailureExplained
<1>1. IInv => FailureExplained
  BY DEF IInv
<1> QED BY Inductive, <1>1, PTL

-----------------------------------------------------------------------------
(* The other variables' types.                                              *)
Switches == /\ serve \in BOOLEAN /\ running \in BOOLEAN
            /\ cpolar \in BOOLEAN /\ unready \in BOOLEAN
            /\ seen \in Url \cup {NoUrl} /\ address \in Url \cup {NoUrl}

(* Serving does not come back once it has ended.                            *)
Handlers == main = "handling" => ~serve
(* The watcher of a server that serves has its tunnel, and the last mail    *)
(* told the address the tunnel has, unless it is about to.                  *)
Followed ==
    Serving \/ main \in {"starting", "interrupted"} =>
      /\ starter \in {"launching", "telling", "failed"} => object = "alive"
      /\ watcher # "none" => starter = "done" /\ object = "alive"
      /\ watcher \in {"asleep", "comparing"} => told = HostOf(publicUrl)
      /\ watcher = "telling" => told # HostOf(publicUrl)

Before == {"starting", "interrupted", "waiting", "allocating", "locking",
           "handling", "rehandling", "stuck", "joining"}
(* Where the starter is, what there is to stop.                             *)
Phases ==
    /\ starter \in {"off", "delay"} => ~cpolar /\ object = "none"
    /\ starter \in {"off", "delay", "launching", "failed"} => ~running
    /\ starter # "done" => watcher = "none" /\ told = NoUrl
    /\ main \in {"leaving", "closing", "over"} => starter \in {"off", "done"}
(* What main has to stop: it does, or it came too early for it.             *)
Stopped ==
    /\ main \in Before => ~unready
    /\ ~unready =>
         /\ main = "stops" => object = "alive" /\ running
         /\ main = "resets" => ~cpolar
         /\ main \in {"stops", "resets"} => starter \in {"telling", "done"}
         /\ starter = "launching" => object = "alive"
         /\ cpolar /\ starter \in {"telling", "done"} =>
              \/ running /\ object = "alive" /\ main \notin {"closing", "over"}
              \/ watcher = "none" /\ told = NoUrl /\ starter = "done"

TunnelIInv == TunnelTypeOK /\ Switches /\ Handlers /\ Followed /\ Phases /\ Stopped

LEMMA TunnelKeeps == ASSUME TunnelIInv, [TunnelNext]_tunnelVars PROVE TunnelIInv'
<1> USE DEF TunnelIInv, Lives, tunnelVars, program, tunnel, locals, marks, outside
<1>1. CASE Serve
  BY <1>1 DEF Serve, TunnelTypeOK, Switches, Handlers, Phases, Followed, Serving,
     Stopped, Before
<1>2. CASE Signal
  <2>1. TunnelTypeOK'
    BY <1>2 DEF Signal, TunnelTypeOK, Switches
  <2>2. Switches'
    BY <1>2 DEF Signal, TunnelTypeOK, Switches
  <2>3. Handlers' /\ Phases'
    BY <1>2 DEF Signal, TunnelTypeOK, Switches, Handlers, Phases
  <2>4. Followed'
    BY <1>2 DEF Signal, TunnelTypeOK, Switches, Handlers, Phases, Followed, Serving
  <2>5. Stopped'
    BY <1>2 DEF Signal, TunnelTypeOK, Switches, Phases, Stopped, Before
  <2>6. QED
    BY <2>1, <2>2, <2>3, <2>4, <2>5
<1>3. CASE EndHandler
  BY <1>3 DEF EndHandler, TunnelTypeOK, Switches, Handlers, Phases, Followed, Serving,
     Stopped, Before
<1>4. CASE LeaveLoop
  BY <1>4 DEF LeaveLoop, TunnelTypeOK, Switches, Handlers, Phases, Followed, Serving,
     Stopped, Before
<1>5. CASE CleanerTurn
  BY <1>5 DEF CleanerTurn, TunnelTypeOK, Switches, Handlers, Phases, Followed, Serving,
     Stopped, Before
<1>6. CASE Joined
  <2>1. TunnelTypeOK'
    BY <1>6 DEF Joined, TunnelTypeOK, Switches
  <2>2. Switches'
    BY <1>6 DEF Joined, TunnelTypeOK, Switches
  <2>3. Handlers' /\ Phases'
    BY <1>6 DEF Joined, TunnelTypeOK, Switches, Handlers, Phases
  <2>4. Followed'
    BY <1>6 DEF Joined, TunnelTypeOK, Switches, Handlers, Phases, Followed, Serving
  <2>5. Stopped'
    BY <1>6 DEF Joined, TunnelTypeOK, Switches, Phases, Stopped, Before
  <2>6. QED
    BY <2>1, <2>2, <2>3, <2>4, <2>5
<1>7. CASE StopTunnel
  <2>1. TunnelTypeOK'
    BY <1>7 DEF StopTunnel, Stop, TunnelTypeOK, Switches
  <2>2. Switches'
    BY <1>7 DEF StopTunnel, Stop, TunnelTypeOK, Switches
  <2>3. Handlers' /\ Phases'
    BY <1>7 DEF StopTunnel, Stop, TunnelTypeOK, Switches, Handlers, Phases
  <2>4. Followed'
    BY <1>7 DEF StopTunnel, Stop, TunnelTypeOK, Switches, Handlers, Phases, Followed,
       Serving
  <2>5. Stopped'
    BY <1>7 DEF StopTunnel, Stop, TunnelTypeOK, Switches, Phases, Stopped, Before
  <2>6. QED
    BY <2>1, <2>2, <2>3, <2>4, <2>5
<1>8. CASE ResetTunnel
  <2>1. TunnelTypeOK'
    BY <1>8 DEF ResetTunnel, Destroy, Stop, TunnelTypeOK, Switches
  <2>2. Switches'
    BY <1>8 DEF ResetTunnel, Destroy, Stop, TunnelTypeOK, Switches
  <2>3. Handlers' /\ Phases'
    BY <1>8 DEF ResetTunnel, Destroy, Stop, TunnelTypeOK, Switches, Handlers, Phases
  <2>4. Followed'
    BY <1>8 DEF ResetTunnel, Destroy, Stop, TunnelTypeOK, Switches, Handlers, Phases,
       Followed, Serving
  <2>5. Stopped'
    BY <1>8 DEF ResetTunnel, Destroy, Stop, TunnelTypeOK, Switches, Phases, Stopped,
       Before
  <2>6. QED
    BY <2>1, <2>2, <2>3, <2>4, <2>5
<1>9. CASE JoinStarter
  BY <1>9 DEF JoinStarter, TunnelTypeOK, Switches, Handlers, Phases, Followed, Serving,
     Stopped, Before
<1>10. CASE ReturnMain
  <2>1. TunnelTypeOK'
    BY <1>10 DEF ReturnMain, Destroy, Stop, TunnelTypeOK, Switches
  <2>2. Switches'
    BY <1>10 DEF ReturnMain, Destroy, Stop, TunnelTypeOK, Switches
  <2>3. Handlers' /\ Phases'
    BY <1>10 DEF ReturnMain, Destroy, Stop, TunnelTypeOK, Switches, Handlers, Phases
  <2>4. Followed'
    BY <1>10 DEF ReturnMain, Destroy, Stop, TunnelTypeOK, Switches, Handlers, Phases,
       Followed, Serving
  <2>5. Stopped'
    BY <1>10 DEF ReturnMain, Destroy, Stop, TunnelTypeOK, Switches, Phases, Stopped,
       Before
  <2>6. QED
    BY <2>1, <2>2, <2>3, <2>4, <2>5
<1>11. CASE Exit
  BY <1>11 DEF Exit, TunnelTypeOK, Switches, Handlers, Phases, Followed, Serving,
     Stopped, Before
<1>12. CASE MakeTunnel
  <2>1. TunnelTypeOK'
    BY <1>12 DEF MakeTunnel, TunnelTypeOK, Switches
  <2>2. Switches'
    BY <1>12 DEF MakeTunnel, TunnelTypeOK, Switches
  <2>3. Handlers' /\ Phases'
    BY <1>12 DEF MakeTunnel, TunnelTypeOK, Switches, Handlers, Phases
  <2>4. Followed'
    BY <1>12 DEF MakeTunnel, TunnelTypeOK, Switches, Handlers, Phases, Followed,
       Serving
  <2>5. Stopped'
    BY <1>12 DEF MakeTunnel, TunnelTypeOK, Switches, Phases, Stopped, Before
  <2>6. QED
    BY <2>1, <2>2, <2>3, <2>4, <2>5
<1>13. CASE Capture
  <2>1. TunnelTypeOK'
    BY <1>13, TriesAssumption DEF Capture, Fetched, TunnelTypeOK, Switches
  <2>2. Switches'
    BY <1>13 DEF Capture, Fetched, TunnelTypeOK, Switches
  <2>3. Handlers' /\ Phases'
    BY <1>13 DEF Capture, Fetched, TunnelTypeOK, Switches, Handlers, Phases
  <2>4. Followed'
    BY <1>13 DEF Capture, Fetched, TunnelTypeOK, Switches, Handlers, Phases, Followed,
       Serving
  <2>5. Stopped'
    BY <1>13 DEF Capture, Fetched, TunnelTypeOK, Switches, Phases, Stopped, Before
  <2>6. QED
    BY <2>1, <2>2, <2>3, <2>4, <2>5
<1>14. CASE TellStart
  <2>1. TunnelTypeOK'
    BY <1>14 DEF TellStart, Reads, TunnelTypeOK, Switches
  <2>2. Switches'
    BY <1>14 DEF TellStart, Reads, TunnelTypeOK, Switches
  <2>3. Handlers' /\ Phases'
    BY <1>14 DEF TellStart, Reads, TunnelTypeOK, Switches, Handlers, Phases
  <2>4. Followed'
    BY <1>14 DEF TellStart, Reads, TunnelTypeOK, Switches, Handlers, Phases, Followed,
       Serving
  <2>5. Stopped'
    BY <1>14 DEF TellStart, Reads, TunnelTypeOK, Switches, Phases, Stopped, Before
  <2>6. QED
    BY <2>1, <2>2, <2>3, <2>4, <2>5
<1>15. CASE DropTunnel
  <2>1. TunnelTypeOK'
    BY <1>15 DEF DropTunnel, Destroy, Stop, TunnelTypeOK, Switches
  <2>2. Switches'
    BY <1>15 DEF DropTunnel, Destroy, Stop, TunnelTypeOK, Switches
  <2>3. Handlers' /\ Phases'
    BY <1>15 DEF DropTunnel, Destroy, Stop, TunnelTypeOK, Switches, Handlers, Phases
  <2>4. Followed'
    BY <1>15 DEF DropTunnel, Destroy, Stop, TunnelTypeOK, Switches, Handlers, Phases,
       Followed, Serving
  <2>5. Stopped'
    BY <1>15 DEF DropTunnel, Destroy, Stop, TunnelTypeOK, Switches, Phases, Stopped,
       Before
  <2>6. QED
    BY <2>1, <2>2, <2>3, <2>4, <2>5
<1>16. CASE Wake
  <2>1. TunnelTypeOK'
    BY <1>16 DEF Wake, Fetched, Reads, TunnelTypeOK, Switches
  <2>2. Switches'
    BY <1>16 DEF Wake, Fetched, Reads, TunnelTypeOK, Switches
  <2>3. Handlers' /\ Phases'
    BY <1>16 DEF Wake, Fetched, Reads, TunnelTypeOK, Switches, Handlers, Phases
  <2>4. Followed'
    BY <1>16 DEF Wake, Fetched, Reads, TunnelTypeOK, Switches, Handlers, Phases,
       Followed, Serving
  <2>5. Stopped'
    BY <1>16 DEF Wake, Fetched, Reads, TunnelTypeOK, Switches, Phases, Stopped, Before
  <2>6. QED
    BY <2>1, <2>2, <2>3, <2>4, <2>5
<1>17. CASE Compare
  <2>1. TunnelTypeOK'
    BY <1>17 DEF Compare, Reads, TunnelTypeOK, Switches
  <2>2. Switches'
    BY <1>17 DEF Compare, Reads, TunnelTypeOK, Switches
  <2>3. Handlers' /\ Phases'
    BY <1>17 DEF Compare, Reads, TunnelTypeOK, Switches, Handlers, Phases
  <2>4. Followed'
    BY <1>17 DEF Compare, Reads, TunnelTypeOK, Switches, Handlers, Phases, Followed,
       Serving
  <2>5. Stopped'
    BY <1>17 DEF Compare, Reads, TunnelTypeOK, Switches, Phases, Stopped, Before
  <2>6. QED
    BY <2>1, <2>2, <2>3, <2>4, <2>5
<1>18. CASE TellChange
  <2>1. TunnelTypeOK'
    BY <1>18 DEF TellChange, Reads, TunnelTypeOK, Switches
  <2>2. Switches'
    BY <1>18 DEF TellChange, Reads, TunnelTypeOK, Switches
  <2>3. Handlers' /\ Phases'
    BY <1>18 DEF TellChange, Reads, TunnelTypeOK, Switches, Handlers, Phases
  <2>4. Followed'
    BY <1>18 DEF TellChange, Reads, TunnelTypeOK, Switches, Handlers, Phases, Followed,
       Serving
  <2>5. Stopped'
    BY <1>18 DEF TellChange, Reads, TunnelTypeOK, Switches, Phases, Stopped, Before
  <2>6. QED
    BY <2>1, <2>2, <2>3, <2>4, <2>5
<1>19. CASE Move
  BY <1>19 DEF Move, TunnelTypeOK, Switches, Handlers, Phases, Followed, Serving,
     Stopped, Before
<1>20. CASE Crash
  BY <1>20 DEF Crash, TunnelTypeOK, Switches, Handlers, Phases, Followed, Serving,
     Stopped, Before
<1>21. CASE StartServing
  BY <1>21 DEF StartServing, TunnelTypeOK, Switches, Handlers, Phases, Followed, Serving,
     Stopped, Before
<1>22. CASE StartFails
  BY <1>22 DEF StartFails, TunnelTypeOK, Switches, Handlers, Phases, Followed, Serving,
     Stopped, Before
<1>23. CASE Hang
  BY <1>23 DEF Hang, TunnelTypeOK, Switches, Handlers, Phases, Followed, Serving,
     Stopped, Before
<1>24. CASE UNCHANGED tunnelVars
  BY <1>24 DEF TunnelTypeOK, Switches, Handlers, Phases, Followed, Serving, Stopped,
     Before
<1>25. QED
  BY <1>1, <1>2, <1>3, <1>4, <1>5, <1>6, <1>7, <1>8, <1>9, <1>10, <1>11, <1>12, <1>13,
     <1>14, <1>15, <1>16, <1>17, <1>18, <1>19, <1>20, <1>21, <1>22, <1>23, <1>24
     DEF TunnelNext, GoOn, Starter, Watcher

LEMMA TunnelStarts == TunnelInit => TunnelIInv
<1> SUFFICES ASSUME TunnelInit PROVE TunnelIInv
  OBVIOUS
<1>1. TunnelTypeOK /\ Switches
  <2>1. 0 \in 0 .. Tries - 1
    BY TriesAssumption
  <2>2. TunnelTypeOK
    BY <2>1 DEF TunnelInit, Unstarted, TunnelTypeOK
  <2>3. Switches
    BY DEF TunnelInit, Unstarted, Switches
  <2>4. QED
    BY <2>2, <2>3
<1>2. Handlers /\ Followed /\ Phases /\ Stopped
  BY DEF TunnelInit, Unstarted, Handlers, Followed, Phases, Stopped, Before
<1>3. QED
  BY <1>1, <1>2 DEF TunnelIInv

LEMMA TunnelInductive == TunnelSpec => []TunnelIInv
BY TunnelStarts, TunnelKeeps, PTL DEF TunnelSpec

(* Types of the tunnel, for all names, tries and bounds.                    *)
THEOREM TunnelTyping == TunnelSpec => []TunnelTypeOK
<1>1. TunnelIInv => TunnelTypeOK
  BY DEF TunnelIInv
<1> QED BY TunnelInductive, <1>1, PTL

(* cpolar does not outlive the server that has told its address, unless the *)
(* server turned to the tunnel before the address was captured.             *)
THEOREM NoCpolarLeft == TunnelSpec => []CpolarIsStopped
<1>1. TunnelIInv => CpolarIsStopped
  BY DEF TunnelIInv, Phases, Stopped, CpolarIsStopped
<1> QED BY TunnelInductive, <1>1, PTL

(* While the server serves, a change that is mailed is one.                 *)
THEOREM NewsOnly == TunnelSpec => OnlyNewsIsMailed
<1>1. TunnelIInv /\ [TunnelNext]_tunnelVars
         => [watcher = "telling" /\ watcher' = "asleep" /\ Serving => told' # told]_tunnelVars
  <2>1. SUFFICES ASSUME TunnelIInv, TunnelNext, Serving,
                        watcher = "telling", watcher' = "asleep"
                 PROVE  told' # told
    BY DEF tunnelVars
  <2>2. object = "alive" /\ told # HostOf(publicUrl) /\ starter = "done"
    BY <2>1 DEF TunnelIInv, Followed
  <2>3. TellChange
    BY <2>1, <2>2 DEF TunnelNext, GoOn, Starter, Watcher, StartServing, StartFails, Hang, Serve,
                      Signal, EndHandler, LeaveLoop,
                      CleanerTurn, Joined, StopTunnel, ResetTunnel, JoinStarter, ReturnMain,
                      Exit, MakeTunnel, Capture, TellStart, DropTunnel, Wake, Compare, Move,
                      Crash, program
  <2>4. told' = HostOf(publicUrl)
    BY <2>2, <2>3 DEF TellChange, Reads
  <2>5. QED
    BY <2>2, <2>4
<1>2. QED
  BY TunnelInductive, <1>1, PTL DEF TunnelSpec, OnlyNewsIsMailed
===============================================================================

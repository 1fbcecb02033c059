----------------------------- MODULE ServerProofs -----------------------------
(* Proofs for two parts of the server.  RateLimiter: its safety invariants   *)
(* hold for every MaxRequests, Window and clock resolution, over any number  *)
(* of keys and requests.  Descriptors: everybody has the numbers they take   *)
(* for theirs, whatever the size of the table.                               *)
EXTENDS RateLimiter, Descriptors, WellFoundedInduction, TLAPS

(* What Bucket::count says of the log: how many of the latest admissions     *)
(* belong to the current window.                                             *)
InWindow(b) == IF b.count <= MaxRequests THEN b.count ELSE MaxRequests

(* Every admission lies inside its own window, and two windows are either    *)
(* the same or at least Span apart.                                          *)
LogShape(log) ==
    /\ \A i \in 1 .. Len(log) : /\ log[i].window <= log[i].at
                                /\ log[i].at < log[i].window + Span
    /\ \A i, j \in 1 .. Len(log) :
          i < j => \/ log[i].window = log[j].window
                   \/ log[i].window + Span <= log[j].window
    /\ \A i \in 1 .. Len(log) :
          i + MaxRequests <= Len(log) => log[i + MaxRequests].window > log[i].window

(* A live bucket splits the log: its InWindow latest admissions belong to    *)
(* the current window, and the others to windows that ended before it.  A    *)
(* forgotten key has no window that could still be open.                     *)
BucketMatchesLog(b, log, now) ==
    IF b = NoBucket
    THEN \A i \in 1 .. Len(log) : log[i].window + Span <= now
    ELSE LET n == InWindow(b)
         IN  /\ n <= Len(log)
             /\ b.windowStart <= now
             /\ \A i \in (Len(log) - n + 1) .. Len(log) : log[i].window = b.windowStart
             /\ \A i \in 1 .. (Len(log) - n) : log[i].window + Span <= b.windowStart

IInv == /\ TypeOK
        /\ \A k \in Keys : /\ LogShape(grants[k])
                           /\ BucketMatchesLog(buckets[k], grants[k], clock)
        /\ RefusalEarned

-----------------------------------------------------------------------------
LEMMA SpanType == Span \in Nat \ {0}
BY LimitsAssumption DEF Span

(* Comparing truncated seconds with whole seconds loses nothing.             *)
LEMMA WholeSeconds ==
    ASSUME NEW a \in Int, NEW w \in Nat
    PROVE  a \div Ticks >= w <=> a >= w * Ticks
BY LimitsAssumption

LEMMA InitIInv == Init => IInv
BY SpanType DEF Init, IInv, TypeOK, LogShape, BucketMatchesLog, RefusalEarned

(* The time that passed since a window opened, in the terms of the code's    *)
(* comparison and in ticks.                                                  *)
LEMMA ElapsedSpan ==
    ASSUME clock \in Nat, NEW since \in Nat, NEW m \in Nat
    PROVE  /\ Elapsed(since) >= Window <=> clock >= since + Span
           /\ Elapsed(since) >= 2 * Window <=> clock >= since + 2 * Span
<1> DEFINE a == clock - since
<1>1. a \in Int
  OBVIOUS
<1>2. a \div Ticks >= Window <=> a >= Window * Ticks
  BY <1>1, WholeSeconds, LimitsAssumption
<1>3. a \div Ticks >= 2 * Window <=> a >= (2 * Window) * Ticks
  BY <1>1, WholeSeconds, LimitsAssumption
<1>4. (2 * Window) * Ticks = 2 * (Window * Ticks)
  BY LimitsAssumption
<1> QED
  BY <1>1, <1>2, <1>3, <1>4, SpanType DEF Elapsed, Span

(* An index MaxRequests further on is the new last one or one of the old.    *)
LEMMA LaterIndex ==
    ASSUME NEW n \in Nat, NEW i \in 1 .. (n + 1), i + MaxRequests <= n + 1
    PROVE  i + MaxRequests = n + 1 \/ i + MaxRequests \in 1 .. n
BY LimitsAssumption

(* Admitting g keeps the shape of the log when g lies in its own window, that *)
(* window is the log's latest or opens Span after every other, and it is not *)
(* full yet.                                                                 *)
LEMMA AppendGrant ==
    ASSUME NEW log \in Seq(Grant), LogShape(log), NEW g \in Grant,
           g.window <= g.at, g.at < g.window + Span,
           \A i \in 1 .. Len(log) : \/ log[i].window = g.window
                                   \/ log[i].window + Span <= g.window,
           \A i \in 1 .. Len(log) :
              i + MaxRequests = Len(log) + 1 => log[i].window < g.window
    PROVE  /\ Append(log, g) \in Seq(Grant)
           /\ LogShape(Append(log, g))
<1> DEFINE new == Append(log, g)
<1>1. /\ Len(new) = Len(log) + 1
      /\ \A i \in 1 .. Len(log) : new[i] = log[i]
      /\ new[Len(log) + 1] = g
  OBVIOUS
<1>2. Len(log) \in Nat /\ Len(new) = Len(log) + 1
  BY <1>1
<1>3. new \in Seq(Grant)
  OBVIOUS
<1> HIDE DEF new
<1>4. \A i \in 1 .. Len(new) : new[i].window <= new[i].at /\ new[i].at < new[i].window + Span
  <2> SUFFICES ASSUME NEW i \in 1 .. Len(new)
               PROVE  new[i].window <= new[i].at /\ new[i].at < new[i].window + Span
    OBVIOUS
  <2>1. CASE i = Len(new)
    BY <2>1, <1>1, <1>2
  <2>2. CASE i \in 1 .. Len(log)
    BY <2>2, <1>1 DEF LogShape
  <2> QED
    BY <2>1, <2>2, <1>1, <1>2
<1>5. \A i, j \in 1 .. Len(new) :
        i < j => new[i].window = new[j].window \/ new[i].window + Span <= new[j].window
  <2> SUFFICES ASSUME NEW i \in 1 .. Len(new), NEW j \in 1 .. Len(new), i < j
               PROVE  \/ new[i].window = new[j].window
                      \/ new[i].window + Span <= new[j].window
    OBVIOUS
  <2>1. CASE j = Len(new)
    BY <2>1, <1>1, <1>2
  <2>2. CASE j \in 1 .. Len(log)
    BY <2>2, <1>1, <1>2 DEF LogShape
  <2> QED
    BY <2>1, <2>2, <1>1, <1>2
<1>6. \A i \in 1 .. Len(new) :
        i + MaxRequests <= Len(new) => new[i + MaxRequests].window > new[i].window
  <2> SUFFICES ASSUME NEW i \in 1 .. Len(new), i + MaxRequests <= Len(new)
               PROVE  new[i + MaxRequests].window > new[i].window
    OBVIOUS
  <2>0. i \in 1 .. Len(log) /\ log[i] \in Grant
    BY <1>1, <1>2, LimitsAssumption
  <2>1. CASE i + MaxRequests = Len(new)
    BY <2>0, <2>1, <1>1, <1>2, LimitsAssumption DEF Grant
  <2>2. CASE i + MaxRequests \in 1 .. Len(log)
    BY <2>0, <2>2, <1>1, <1>2, LimitsAssumption DEF LogShape
  <2>3. i + MaxRequests = Len(new) \/ i + MaxRequests \in 1 .. Len(log)
    BY <1>2, LaterIndex
  <2> QED
    BY <2>1, <2>2, <2>3
<1> QED
  BY <1>3, <1>4, <1>5, <1>6 DEF LogShape, new

(* The bucket after a request that opened a window.                          *)
LEMMA OpenedBucket ==
    ASSUME NEW now \in Nat, NEW log \in Seq(Grant),
           \A i \in 1 .. Len(log) : log[i].window + Span <= now
    PROVE  BucketMatchesLog([count |-> 1, windowStart |-> now],
                            Append(log, [at |-> now, window |-> now]), now)
<1> DEFINE g == [at |-> now, window |-> now]
           b == [count |-> 1, windowStart |-> now]
           new == Append(log, g)
<1>1. /\ Len(new) = Len(log) + 1
      /\ \A i \in 1 .. Len(log) : new[i] = log[i]
      /\ new[Len(log) + 1] = g
      /\ Len(log) \in Nat
      /\ g \in Grant
  BY DEF Grant
<1>2. b # NoBucket
  BY NoBucketAssumption DEF Bucket
<1>3. b.windowStart = now /\ g.window = now /\ InWindow(b) = 1
  BY LimitsAssumption DEF InWindow
<1> HIDE DEF g, b, new
<1>4. BucketMatchesLog(b, new, now)
  BY <1>1, <1>2, <1>3 DEF BucketMatchesLog
<1> QED
  BY <1>4 DEF g, b, new

(* The bucket after a request admitted into the current window.              *)
LEMMA CountedBucket ==
    ASSUME NEW now \in Nat, NEW log \in Seq(Grant), NEW b \in Bucket,
           BucketMatchesLog(b, log, now), b.count + 1 <= MaxRequests
    PROVE  BucketMatchesLog([count |-> b.count + 1, windowStart |-> b.windowStart],
                            Append(log, [at |-> now, window |-> b.windowStart]), now)
<1> DEFINE g == [at |-> now, window |-> b.windowStart]
           c == [count |-> b.count + 1, windowStart |-> b.windowStart]
           new == Append(log, g)
<1>0. b.count \in Nat \ {0} /\ b.windowStart \in Nat /\ b # NoBucket
  BY NoBucketAssumption DEF Bucket
<1>1. /\ Len(new) = Len(log) + 1
      /\ \A i \in 1 .. Len(log) : new[i] = log[i]
      /\ new[Len(log) + 1] = g
      /\ Len(log) \in Nat
      /\ g \in Grant
  BY <1>0 DEF Grant
<1>2. c # NoBucket
  BY <1>0, NoBucketAssumption DEF Bucket
<1>3. /\ c.windowStart = b.windowStart /\ g.window = b.windowStart
      /\ InWindow(c) = b.count + 1 /\ InWindow(b) = b.count
  BY <1>0, LimitsAssumption DEF InWindow
<1>4. /\ b.count <= Len(log)
      /\ b.windowStart <= now
      /\ \A i \in (Len(log) - b.count + 1) .. Len(log) : log[i].window = b.windowStart
      /\ \A i \in 1 .. (Len(log) - b.count) : log[i].window + Span <= b.windowStart
  BY <1>0, <1>3 DEF BucketMatchesLog
<1> HIDE DEF g, c, new
<1>5. ASSUME NEW i \in (Len(new) - InWindow(c) + 1) .. Len(new)
      PROVE  new[i].window = c.windowStart
  <2>1. CASE i = Len(new)
    BY <2>1, <1>1, <1>3
  <2>2. CASE i # Len(new)
    <3>1. i \in (Len(log) - b.count + 1) .. Len(log) /\ i \in 1 .. Len(log)
      BY <2>2, <1>0, <1>1, <1>3, <1>4
    <3> QED
      BY <3>1, <1>1, <1>3, <1>4
  <2> QED
    BY <2>1, <2>2
<1>6. ASSUME NEW i \in 1 .. (Len(new) - InWindow(c))
      PROVE  new[i].window + Span <= c.windowStart
  <2>1. i \in 1 .. (Len(log) - b.count) /\ i \in 1 .. Len(log)
    BY <1>0, <1>1, <1>3, <1>4
  <2> QED
    BY <2>1, <1>1, <1>3, <1>4
<1>7. InWindow(c) <= Len(new) /\ c.windowStart <= now
  BY <1>0, <1>1, <1>3, <1>4
<1>8. BucketMatchesLog(c, new, now)
  BY <1>2, <1>5, <1>6, <1>7 DEF BucketMatchesLog
<1> QED
  BY <1>8 DEF g, c, new

(* The bucket after a request refused for lack of room.                      *)
LEMMA RefusedBucket ==
    ASSUME NEW now \in Nat, NEW log \in Seq(Grant), NEW b \in Bucket,
           BucketMatchesLog(b, log, now), ~(b.count + 1 <= MaxRequests)
    PROVE  BucketMatchesLog([count |-> b.count + 1, windowStart |-> b.windowStart], log, now)
<1> DEFINE c == [count |-> b.count + 1, windowStart |-> b.windowStart]
<1>0. b.count \in Nat \ {0} /\ b.windowStart \in Nat /\ b # NoBucket
  BY NoBucketAssumption DEF Bucket
<1>1. c # NoBucket
  BY <1>0, NoBucketAssumption DEF Bucket
<1>2. c.windowStart = b.windowStart /\ InWindow(c) = InWindow(b)
  BY <1>0, LimitsAssumption DEF InWindow
<1> HIDE DEF c
<1>3. BucketMatchesLog(c, log, now)
  BY <1>0, <1>1, <1>2 DEF BucketMatchesLog
<1> QED
  BY <1>3 DEF c

-----------------------------------------------------------------------------
(* One lemma per action.                                                     *)
LEMMA TypedState ==
    ASSUME IInv, NEW k \in Keys
    PROVE  /\ clock \in Nat
           /\ buckets[k] \in Bucket \cup {NoBucket}
           /\ grants[k] \in Seq(Grant)
           /\ \A i \in 1 .. Len(grants[k]) : grants[k][i] \in Grant
           /\ LogShape(grants[k])
           /\ BucketMatchesLog(buckets[k], grants[k], clock)
<1>1. grants[k] \in Seq(Grant)
  BY DEF IInv, TypeOK
<1> QED
  BY <1>1 DEF IInv, TypeOK

(* A step that touches key k alone.                                          *)
LEMMA OneKeyStep ==
    ASSUME IInv, NEW k \in Keys, UNCHANGED clock,
           NEW b \in Bucket, NEW log \in Seq(Grant), NEW answer \in Answer,
           buckets' = [buckets EXCEPT ![k] = b],
           grants' = [grants EXCEPT ![k] = log],
           last' = answer,
           LogShape(log), BucketMatchesLog(b, log, clock),
           RefusalEarned'
    PROVE  IInv'
<1>1. TypeOK'
  BY DEF IInv, TypeOK
<1>2. ASSUME NEW j \in Keys
      PROVE  /\ LogShape(grants'[j])
             /\ BucketMatchesLog(buckets'[j], grants'[j], clock')
  <2>1. CASE j = k
    BY <2>1 DEF IInv, TypeOK
  <2>2. CASE j # k
    <3>1. grants'[j] = grants[j] /\ buckets'[j] = buckets[j]
      BY <2>2 DEF IInv, TypeOK
    <3> QED
      BY <3>1, TypedState
  <2> QED
    BY <2>1, <2>2
<1> QED
  BY <1>1, <1>2 DEF IInv

LEMMA OpenWindowStep ==
    ASSUME IInv, NEW k \in Keys, OpenWindow(k), UNCHANGED clock,
           buckets[k] = NoBucket \/ Elapsed(buckets[k].windowStart) >= Window
    PROVE  IInv'
<1> DEFINE g == [at |-> clock, window |-> clock]
           b == [count |-> 1, windowStart |-> clock]
           log == grants[k]
           a == [key |-> k, allowed |-> TRUE, at |-> clock]
<1>1. clock \in Nat /\ log \in Seq(Grant) /\ LogShape(log)
  BY TypedState
<1>2. \A i \in 1 .. Len(log) : log[i] \in Grant /\ log[i].window \in Nat
  BY TypedState DEF Grant
<1>3. \A i \in 1 .. Len(log) : log[i].window + Span <= clock
  <2>1. CASE buckets[k] = NoBucket
    BY <2>1, TypedState DEF BucketMatchesLog
  <2>2. CASE buckets[k] # NoBucket
    <3>1. buckets[k] \in Bucket /\ buckets[k].windowStart \in Nat
      BY <2>2, TypedState DEF Bucket
    <3>2. buckets[k].windowStart + Span <= clock
      BY <2>2, <3>1, <1>1, ElapsedSpan
    <3>3. InWindow(buckets[k]) \in Nat /\ InWindow(buckets[k]) <= Len(log) /\ Len(log) \in Nat
      BY <2>2, <3>1, <1>1, TypedState, LimitsAssumption DEF InWindow, Bucket, BucketMatchesLog
    <3>4. ASSUME NEW i \in 1 .. Len(log)
          PROVE  \/ log[i].window = buckets[k].windowStart
                 \/ log[i].window + Span <= buckets[k].windowStart
      <4>1. \/ i \in (Len(log) - InWindow(buckets[k]) + 1) .. Len(log)
            \/ i \in 1 .. (Len(log) - InWindow(buckets[k]))
        BY <3>3
      <4> QED
        BY <4>1, <2>2, TypedState DEF BucketMatchesLog
    <3>5. ASSUME NEW i \in 1 .. Len(log)
          PROVE  log[i].window + Span <= clock
      <4>1. log[i].window \in Nat
        BY <1>2
      <4>2. CASE log[i].window = buckets[k].windowStart
        BY <4>2, <3>2
      <4>3. CASE log[i].window + Span <= buckets[k].windowStart
        BY <4>1, <4>3, <3>1, <3>2, <1>1, SpanType
      <4> QED
        BY <4>2, <4>3, <3>4
    <3> QED
      BY <3>5
  <2> QED
    BY <2>1, <2>2
<1>4. g \in Grant /\ g.at = clock /\ g.window = clock /\ b \in Bucket /\ a \in Answer
  BY <1>1 DEF Grant, Bucket, Answer
<1>5. /\ buckets' = [buckets EXCEPT ![k] = b]
      /\ grants' = [grants EXCEPT ![k] = Append(log, g)]
      /\ last' = a
  BY DEF OpenWindow
<1>6. BucketMatchesLog(b, Append(log, g), clock)
  BY <1>1, <1>3, OpenedBucket
<1>7. RefusalEarned'
  BY <1>5 DEF RefusalEarned
<1> HIDE DEF g, b, log, a
<1>8. Append(log, g) \in Seq(Grant) /\ LogShape(Append(log, g))
  <2>1. \A i \in 1 .. Len(log) : log[i].window < g.window
    BY <1>1, <1>2, <1>3, <1>4, SpanType
  <2>2. g.window <= g.at /\ g.at < g.window + Span
    BY <1>1, <1>4, SpanType
  <2> QED
    BY <1>1, <1>3, <1>4, <2>1, <2>2, AppendGrant
<1> QED
  BY <1>4, <1>5, <1>6, <1>7, <1>8, OneKeyStep

(* A refusal finds InWindow = MaxRequests admissions in the current window.  *)
LEMMA RefusalStep ==
    ASSUME IInv, NEW k \in Keys, buckets[k] \in Bucket,
           ~(buckets[k].count + 1 <= MaxRequests),
           Elapsed(buckets[k].windowStart) < Window
    PROVE  /\ Len(grants[k]) >= MaxRequests
           /\ clock - grants[k][Len(grants[k]) - MaxRequests + 1].at < Span
<1> DEFINE log == grants[k]
           b == buckets[k]
           i == Len(log) - MaxRequests + 1
<1>1. clock \in Nat /\ log \in Seq(Grant) /\ Len(log) \in Nat
  BY TypedState
<1>2. b.count \in Nat \ {0} /\ b.windowStart \in Nat /\ b # NoBucket
  BY NoBucketAssumption DEF Bucket
<1>3. InWindow(b) = MaxRequests /\ MaxRequests \in Nat \ {0}
  BY <1>2, LimitsAssumption DEF InWindow
<1>4. MaxRequests <= Len(log) /\ b.windowStart <= clock
  BY <1>2, <1>3, TypedState DEF BucketMatchesLog
<1>5. i \in 1 .. Len(log) /\ i \in (Len(log) - InWindow(b) + 1) .. Len(log)
  BY <1>1, <1>3, <1>4
<1>6. log[i].window = b.windowStart
  BY <1>2, <1>5, TypedState DEF BucketMatchesLog
<1>7. log[i].at \in Nat /\ log[i].window <= log[i].at
  BY <1>5, TypedState DEF Grant, LogShape
<1>8. clock < b.windowStart + Span
  <2>1. Elapsed(b.windowStart) \in Int /\ Window \in Int
    BY <1>1, <1>2, LimitsAssumption DEF Elapsed
  <2>2. Elapsed(b.windowStart) >= Window <=> clock >= b.windowStart + Span
    BY <1>1, <1>2, ElapsedSpan
  <2> QED
    BY <2>1, <2>2, <1>1, <1>2, SpanType
<1>9. clock - log[i].at < Span
  <2> HIDE DEF log, b, i
  <2> QED
    BY <1>1, <1>2, <1>6, <1>7, <1>8, SpanType
<1> QED
  BY <1>4, <1>9

LEMMA CountRequestStep ==
    ASSUME IInv, NEW k \in Keys, CountRequest(k), UNCHANGED clock,
           buckets[k] # NoBucket, Elapsed(buckets[k].windowStart) < Window
    PROVE  IInv'
<1> DEFINE b == buckets[k]
           c == [count |-> b.count + 1, windowStart |-> b.windowStart]
           log == grants[k]
           g == [at |-> clock, window |-> b.windowStart]
           a == [key |-> k, allowed |-> b.count + 1 <= MaxRequests, at |-> clock]
<1>1. clock \in Nat /\ log \in Seq(Grant) /\ LogShape(log) /\ BucketMatchesLog(b, log, clock)
  BY TypedState
<1>2. b \in Bucket /\ b.count \in Nat \ {0} /\ b.windowStart \in Nat
  BY TypedState DEF Bucket
<1>3. c \in Bucket /\ a \in Answer /\ g \in Grant
  BY <1>1, <1>2 DEF Bucket, Answer, Grant
<1>4. buckets' = [buckets EXCEPT ![k] = c] /\ last' = a
  BY DEF CountRequest
<1>5. CASE b.count + 1 <= MaxRequests
  <2>1. grants' = [grants EXCEPT ![k] = Append(log, g)]
    BY <1>5 DEF CountRequest
  <2>2. BucketMatchesLog(c, Append(log, g), clock)
    BY <1>1, <1>2, <1>5, CountedBucket
  <2>3. RefusalEarned'
    BY <1>4, <1>5 DEF RefusalEarned
  <2>4. g.window = b.windowStart /\ g.at = clock
    OBVIOUS
  <2>5. InWindow(b) = b.count /\ MaxRequests \in Nat \ {0} /\ Len(log) \in Nat
    BY <1>1, <1>2, <1>5, LimitsAssumption DEF InWindow
  <2>6. /\ b.count <= Len(log) /\ b.windowStart <= clock
        /\ \A i \in (Len(log) - b.count + 1) .. Len(log) : log[i].window = b.windowStart
        /\ \A i \in 1 .. (Len(log) - b.count) : log[i].window + Span <= b.windowStart
    BY <1>1, <2>5 DEF BucketMatchesLog
  <2>7. clock < b.windowStart + Span
    <3>1. Elapsed(b.windowStart) \in Int /\ Window \in Int
      BY <1>1, <1>2, LimitsAssumption DEF Elapsed
    <3>2. Elapsed(b.windowStart) >= Window <=> clock >= b.windowStart + Span
      BY <1>1, <1>2, ElapsedSpan
    <3> QED
      BY <3>1, <3>2, <1>1, <1>2, SpanType
  <2> HIDE DEF b, c, log, g, a
  <2>8. \A i \in 1 .. Len(log) : \/ log[i].window = g.window
                                \/ log[i].window + Span <= g.window
    <3> SUFFICES ASSUME NEW i \in 1 .. Len(log)
                 PROVE  \/ log[i].window = g.window
                        \/ log[i].window + Span <= g.window
      OBVIOUS
    <3>1. \/ i \in (Len(log) - b.count + 1) .. Len(log)
          \/ i \in 1 .. (Len(log) - b.count)
      BY <1>2, <2>5, <2>6
    <3> QED
      BY <3>1, <2>4, <2>6
  <2>9. ASSUME NEW i \in 1 .. Len(log), i + MaxRequests = Len(log) + 1
        PROVE  log[i].window < g.window
    <3>1. i \in 1 .. (Len(log) - b.count)
      BY <2>9, <1>2, <1>5, <2>5
    <3>2. log[i].window \in Nat /\ log[i].window + Span <= g.window /\ g.window \in Nat
      BY <3>1, <2>4, <2>6, <1>1, <1>2, TypedState DEF Grant, log
    <3> QED
      BY <3>2, SpanType
  <2>10. Append(log, g) \in Seq(Grant) /\ LogShape(Append(log, g))
    BY <1>1, <1>2, <1>3, <2>4, <2>6, <2>7, <2>8, <2>9, AppendGrant
  <2> QED
    BY <1>3, <1>4, <2>1, <2>2, <2>3, <2>10, OneKeyStep
<1>6. CASE ~(b.count + 1 <= MaxRequests)
  <2>1. grants' = grants /\ grants' = [grants EXCEPT ![k] = log]
    BY <1>6 DEF CountRequest, IInv, TypeOK
  <2>2. BucketMatchesLog(c, log, clock)
    BY <1>1, <1>2, <1>6, RefusedBucket
  <2>3. RefusalEarned'
    <3>1. last'.key = k /\ last'.at = clock
      BY <1>4
    <3>2. /\ Len(log) >= MaxRequests
          /\ clock - log[Len(log) - MaxRequests + 1].at < Span
      BY <1>2, <1>6, RefusalStep
    <3> QED
      BY <2>1, <3>1, <3>2 DEF RefusalEarned
  <2> HIDE DEF b, c, log, g, a
  <2> QED
    BY <1>1, <1>3, <1>4, <2>1, <2>2, <2>3, OneKeyStep
<1> QED
  BY <1>5, <1>6

LEMMA TickStep ==
    ASSUME IInv, Tick
    PROVE  IInv'
<1>1. TypeOK'
  BY DEF IInv, TypeOK, Tick
<1>2. RefusalEarned'
  BY DEF IInv, Tick, RefusalEarned
<1>3. ASSUME NEW k \in Keys
      PROVE  LogShape(grants'[k]) /\ BucketMatchesLog(buckets'[k], grants'[k], clock')
  <2>1. /\ clock \in Nat /\ clock' = clock + 1
        /\ buckets'[k] = buckets[k] /\ grants'[k] = grants[k]
    BY TypedState DEF Tick
  <2>2. \A i \in 1 .. Len(grants[k]) : grants[k][i].window \in Nat
    BY TypedState DEF Grant
  <2>3. CASE buckets[k] = NoBucket
    <3>1. ASSUME NEW i \in 1 .. Len(grants[k])
          PROVE  grants[k][i].window + Span <= clock + 1
      <4>1. grants[k][i].window + Span <= clock
        BY <2>3, TypedState DEF BucketMatchesLog
      <4> QED
        BY <4>1, <2>1, <2>2, SpanType
    <3> QED
      BY <2>1, <2>3, <3>1, TypedState DEF BucketMatchesLog
  <2>4. CASE buckets[k] # NoBucket
    <3>1. buckets[k].windowStart \in Nat /\ buckets[k].windowStart <= clock
      BY <2>4, TypedState DEF Bucket, BucketMatchesLog
    <3>2. buckets[k].windowStart <= clock + 1
      BY <3>1, <2>1
    <3> QED
      BY <2>1, <2>4, <3>2, TypedState DEF BucketMatchesLog
  <2> QED
    BY <2>3, <2>4
<1> QED
  BY <1>1, <1>2, <1>3 DEF IInv

LEMMA CleanupStep ==
    ASSUME IInv, Cleanup
    PROVE  IInv'
<1>1. TypeOK'
  BY DEF IInv, TypeOK, Cleanup
<1>2. RefusalEarned'
  BY DEF IInv, Cleanup, RefusalEarned
<1>3. ASSUME NEW k \in Keys
      PROVE  LogShape(grants'[k]) /\ BucketMatchesLog(buckets'[k], grants'[k], clock')
  <2>1. clock \in Nat /\ clock' = clock /\ grants'[k] = grants[k]
    BY TypedState DEF Cleanup
  <2>2. CASE buckets'[k] = buckets[k]
    BY <2>1, <2>2, TypedState
  <2>3. CASE buckets'[k] # buckets[k]
    <3>1. buckets[k] # NoBucket /\ Elapsed(buckets[k].windowStart) >= 2 * Window
          /\ buckets'[k] = NoBucket
      BY <2>3 DEF Cleanup
    <3>2. buckets[k] \in Bucket /\ buckets[k].windowStart \in Nat
      BY <3>1, TypedState DEF Bucket
    <3>3. clock >= buckets[k].windowStart + 2 * Span
      BY <2>1, <3>1, <3>2, ElapsedSpan
    <3>4. /\ InWindow(buckets[k]) \in Nat /\ Len(grants[k]) \in Nat
          /\ InWindow(buckets[k]) <= Len(grants[k])
      BY <3>1, <3>2, TypedState, LimitsAssumption DEF Bucket, InWindow, BucketMatchesLog
    <3>5. ASSUME NEW i \in 1 .. Len(grants[k])
          PROVE  grants[k][i].window + Span <= clock
      <4>1. \/ i \in (Len(grants[k]) - InWindow(buckets[k]) + 1) .. Len(grants[k])
            \/ i \in 1 .. (Len(grants[k]) - InWindow(buckets[k]))
        BY <3>4
      <4>2. grants[k][i].window \in Nat
        BY TypedState DEF Grant
      <4>3. CASE grants[k][i].window = buckets[k].windowStart
        BY <4>3, <3>2, <3>3, <2>1, SpanType
      <4>4. CASE grants[k][i].window + Span <= buckets[k].windowStart
        BY <4>4, <4>2, <3>2, <3>3, <2>1, SpanType, SMTT(30)
      <4>5. /\ \A n \in (Len(grants[k]) - InWindow(buckets[k]) + 1) .. Len(grants[k]) :
                 grants[k][n].window = buckets[k].windowStart
            /\ \A n \in 1 .. (Len(grants[k]) - InWindow(buckets[k])) :
                 grants[k][n].window + Span <= buckets[k].windowStart
        BY <3>1, TypedState DEF BucketMatchesLog
      <4> QED
        BY <4>1, <4>3, <4>4, <4>5
    <3> QED
      BY <2>1, <3>1, <3>5, TypedState DEF BucketMatchesLog
  <2> QED
    BY <2>2, <2>3
<1> QED
  BY <1>1, <1>2, <1>3 DEF IInv

LEMMA StutterStep ==
    ASSUME IInv, UNCHANGED vars
    PROVE  IInv'
<1>1. TypeOK' /\ RefusalEarned'
  BY DEF IInv, TypeOK, RefusalEarned, vars
<1>2. ASSUME NEW k \in Keys
      PROVE  LogShape(grants'[k]) /\ BucketMatchesLog(buckets'[k], grants'[k], clock')
  <2>1. clock' = clock /\ buckets' = buckets /\ grants' = grants
    BY DEF vars
  <2> QED
    BY <2>1, TypedState
<1> QED
  BY <1>1, <1>2 DEF IInv

LEMMA Inductive == IInv /\ [Next]_vars => IInv'
<1> SUFFICES ASSUME IInv, [Next]_vars
             PROVE  IInv'
  OBVIOUS
<1>1. CASE Tick
  BY <1>1, TickStep
<1>2. ASSUME NEW k \in Keys, Allow(k)
      PROVE  IInv'
  <2>1. CASE buckets[k] = NoBucket \/ Elapsed(buckets[k].windowStart) >= Window
    BY <1>2, <2>1, OpenWindowStep DEF Allow
  <2>2. CASE ~(buckets[k] = NoBucket \/ Elapsed(buckets[k].windowStart) >= Window)
    <3>1. clock \in Nat /\ buckets[k].windowStart \in Nat /\ Window \in Int
      BY <2>2, TypedState, LimitsAssumption DEF Bucket
    <3>2. Elapsed(buckets[k].windowStart) \in Int
      BY <3>1, LimitsAssumption DEF Elapsed
    <3>3. Elapsed(buckets[k].windowStart) < Window
      BY <2>2, <3>1, <3>2
    <3> QED
      BY <1>2, <2>2, <3>3, CountRequestStep DEF Allow
  <2> QED
    BY <2>1, <2>2
<1>3. CASE Cleanup
  BY <1>3, CleanupStep
<1>4. CASE UNCHANGED vars
  BY <1>4, StutterStep
<1> QED
  BY <1>1, <1>2, <1>3, <1>4 DEF Next

LEMMA Invariance == Spec => []IInv
BY InitIInv, Inductive, PTL DEF Spec

-----------------------------------------------------------------------------
(* Times a and b in windows opened at u and w, with a window in between.      *)
LEMMA TwoWindows ==
    ASSUME NEW a \in Nat, NEW b \in Nat, NEW u \in Nat, NEW v \in Nat, NEW w \in Nat,
           a < u + Span, u + Span <= v, v + Span <= w, w <= b
    PROVE  b - a > Span
BY SpanType

(* The state is well typed: counts start at one, a window start is a time.   *)
THEOREM Typing == Spec => []TypeOK
BY Invariance, PTL DEF IInv

(* allow() admits at most MaxRequests requests of a key into one window.     *)
THEOREM Capped == Spec => []WindowCap
<1>1. IInv => WindowCap
  BY TypedState DEF LogShape, WindowCap
<1> QED
  BY <1>1, Invariance, PTL

(* Whatever the arrival pattern, 2 * MaxRequests + 1 admissions of a key     *)
(* take more than a window: cleanup() never reopens one early.               *)
THEOREM Sliding == Spec => []SlidingBound
<1>1. IInv => SlidingBound
  <2> SUFFICES ASSUME IInv, NEW k \in Keys, NEW i \in 1 .. Len(grants[k]),
                      i + 2 * MaxRequests <= Len(grants[k])
               PROVE  grants[k][i + 2 * MaxRequests].at - grants[k][i].at > Span
    BY DEF SlidingBound
  <2> DEFINE log == grants[k]
             j == i + MaxRequests
             l == j + MaxRequests
  <2>1. Len(log) \in Nat /\ MaxRequests \in Nat \ {0}
    BY TypedState, LimitsAssumption
  <2>2. j \in 1 .. Len(log) /\ l \in 1 .. Len(log) /\ i < j /\ j < l /\ l = i + 2 * MaxRequests
    BY <2>1
  <2>3. /\ log[i].at \in Nat /\ log[i].window \in Nat /\ log[j].window \in Nat
        /\ log[l].at \in Nat /\ log[l].window \in Nat
    BY <2>2, TypedState DEF Grant
  <2>4. LogShape(log)
    BY TypedState
  <2> HIDE DEF log, j, l
  <2>5. log[j].window > log[i].window /\ log[l].window > log[j].window
    BY <2>2, <2>4 DEF LogShape, j, l
  <2>6. log[i].window + Span <= log[j].window /\ log[j].window + Span <= log[l].window
    <3>1. ASSUME NEW a \in 1 .. Len(log), NEW b \in 1 .. Len(log), a < b,
                 log[a].window \in Nat, log[b].window \in Nat,
                 log[b].window > log[a].window
          PROVE  log[a].window + Span <= log[b].window
      BY <2>4, <3>1 DEF LogShape
    <3> QED
      BY <2>2, <2>3, <2>5, <3>1
  <2>7. log[i].at < log[i].window + Span /\ log[l].window <= log[l].at
    BY <2>2, <2>4 DEF LogShape
  <2>8. log[l].at - log[i].at > Span
    BY <2>3, <2>6, <2>7, TwoWindows
  <2> QED
    BY <2>2, <2>8 DEF log
<1> QED
  BY <1>1, Invariance, PTL

(* A request is only refused when MaxRequests others were admitted in the    *)
(* window still open.                                                        *)
THEOREM Refusals == Spec => []RefusalEarned
BY Invariance, PTL DEF IInv
-----------------------------------------------------------------------------
(* The table of descriptors.                                                *)
(*                                                                         *)
(* Everybody's numbers are what they take them for, ...                     *)
Holders == /\ DOMAIN conns = Of("sock")
           /\ theirs = Of("other")
           /\ \A f \in DOMAIN conns : conns[f] # None =>
                 /\ table[conns[f]] = "file"
                 /\ \A g \in DOMAIN conns : conns[g] = conns[f] => g = f
(* ... and an event, or the close that ends a read, names a socket that is  *)
(* open or that was closed since the events were fetched.                   *)
Known == Of("sock") \cup shut
Socket == {"in", "err", "out"}
EventsKnown == /\ \A e \in batch : e[1] \in Socket => e[2] \in Known
               /\ loop.pc = "close" => loop.fd \in Known
DInv == TableTypeOK /\ (~struck => Holders /\ EventsKnown)

(* The lowest of the free numbers is one of them.                           *)
LEMMA LowestFree == ASSUME Of("free") # {} PROVE Lowest \in Of("free")
<1>1. Of("free") \in SUBSET Nat
  BY TableAssumption DEF Of, Numbers
<1>2. IsWellFoundedOn(OpToRel(<, Nat), Nat)
  BY NatLessThanWellFounded
<1>3. PICK R : /\ IsWellFoundedOn(R, Nat)
               /\ \A g, h \in Nat : <<h, g>> \in R <=> h < g
  <2>1. \A g, h \in Nat : <<h, g>> \in OpToRel(<, Nat) <=> h < g
    BY DEF OpToRel
  <2>2. QED
    BY <1>2, <2>1, Zenon
<1>4. PICK g \in Of("free") : \A h \in Of("free") : ~(<<h, g>> \in R)
  BY <1>1, <1>3, WFMin
<1>5. \A h \in Of("free") : ~(h < g)
  BY <1>1, <1>3, <1>4, Zenon
<1>6. \A h \in Of("free") : g =< h
  BY <1>1, <1>4, <1>5
<1>7. QED
  BY <1>4, <1>6 DEF Lowest, Min

(* Closing numbers leaves a table of numbers.                               *)
LEMMA ClosedTable ==
    ASSUME TableTypeOK, NEW ns, Close(ns)
    PROVE  /\ table' \in [Numbers -> {"free", "sock", "file", "other"}]
           /\ \A n \in Numbers : table'[n] = IF n \in ns THEN "free" ELSE table[n]
  BY DEF TableTypeOK, Close

(* What is left when the loop drops connections, and maybe their files.     *)
LEMMA DropTypes ==
    ASSUME TableTypeOK, NEW fs \in SUBSET Numbers, NEW ns, Drop(fs, ns)
    PROVE  /\ table' \in [Numbers -> {"free", "sock", "file", "other"}]
           /\ shut' = shut \cup fs /\ shut' \subseteq Numbers
           /\ DOMAIN conns' = DOMAIN conns \ fs
           /\ \A f \in DOMAIN conns' : conns'[f] = conns[f]
           /\ \A n \in Numbers : table'[n] = IF n \in fs \cup ns THEN "free" ELSE table[n]
           /\ \A f \in DOMAIN conns' : conns'[f] \in Numbers \cup {None}
<1>1. Close(fs \cup ns) /\ Erase(fs) /\ shut' = shut \cup fs
  BY DEF Drop
<1>2. QED
  BY <1>1, ClosedTable DEF Erase, TableTypeOK

LEMMA DropHolders ==
    ASSUME TableTypeOK, Holders, NEW fs \in SUBSET Numbers, NEW ns, Drop(fs, ns),
           \A f \in fs : table[f] \in {"free", "sock"}, ns = {} \/ ns = FilesOf(fs),
           UNCHANGED theirs
    PROVE  Holders'
<1>1. /\ DOMAIN conns' = DOMAIN conns \ fs
      /\ \A f \in DOMAIN conns' : conns'[f] = conns[f]
      /\ \A n \in Numbers : table'[n] = IF n \in fs \cup ns THEN "free" ELSE table[n]
  BY DropTypes
<1>2. \A n \in ns : \E f \in fs \cap DOMAIN conns : conns[f] = n /\ table[n] = "file"
  BY DEF FilesOf, Holders
<1>3. DOMAIN conns' = Of("sock")'
  BY <1>1, <1>2 DEF Holders, Of
<1>4. theirs' = Of("other")'
  BY <1>1, <1>2 DEF Holders, Of
<1>5. ASSUME NEW f \in DOMAIN conns', conns'[f] # None
      PROVE  /\ table'[conns'[f]] = "file"
             /\ \A g \in DOMAIN conns' : conns'[g] = conns'[f] => g = f
  <2>1. f \in DOMAIN conns /\ f \notin fs /\ conns'[f] = conns[f]
    BY <1>1, <1>5
  <2>2. PICK n : n = conns[f]
    OBVIOUS
  <2>3. /\ n \in Numbers /\ table[n] = "file"
        /\ \A g \in DOMAIN conns : conns[g] = n => g = f
    BY <1>5, <2>1, <2>2 DEF TableTypeOK, Holders
  <2>4. n \notin fs
    BY <2>3
  <2>5. n \notin ns
    BY <1>2, <2>1, <2>3
  <2>6. QED
    BY <1>1, <2>1, <2>2, <2>3, <2>4, <2>5
<1>6. QED
  BY <1>3, <1>4, <1>5 DEF Holders

(* An event known stays known: a socket that is open no more has been shut. *)
LEMMA StayKnown ==
    ASSUME EventsKnown, batch' \subseteq batch,
           loop' = loop \/ loop'.pc # "close",
           Known \subseteq Known'
    PROVE  EventsKnown'
<1>1. \A e \in batch' : e[1] \in Socket => e[2] \in Known'
  BY DEF EventsKnown
<1>2. loop'.pc = "close" => loop'.fd \in Known'
  <2>1. CASE loop' = loop
    BY <2>1 DEF EventsKnown
  <2>2. CASE loop'.pc # "close"
    BY <2>2
  <2>3. QED
    BY <2>1, <2>2
<1>3. QED
  BY <1>1, <1>2 DEF EventsKnown

LEMMA DropKnown ==
    ASSUME TableTypeOK, Holders, EventsKnown, NEW fs \in SUBSET Numbers, NEW ns, Drop(fs, ns),
           ns = {} \/ ns = FilesOf(fs), batch' \subseteq batch,
           loop' = loop \/ loop'.pc # "close"
    PROVE  EventsKnown'
<1>1. /\ shut' = shut \cup fs
      /\ \A n \in Numbers : table'[n] = IF n \in fs \cup ns THEN "free" ELSE table[n]
  BY DropTypes
<1>2. \A n \in ns : n \in Numbers /\ table[n] = "file"
  BY DEF FilesOf, Holders, TableTypeOK
<1>3. Of("sock")' = Of("sock") \ fs
  BY <1>1, <1>2 DEF Of
<1>4. Known \subseteq Known'
  BY <1>1, <1>3 DEF Known
<1>5. QED
  BY <1>4, StayKnown

(* The loop drops sockets of its own.                                       *)
LEMMA DropStep ==
    ASSUME DInv, NEW fs \in SUBSET Numbers, NEW ns, Drop(fs, ns),
           ns = {} \/ ns = FilesOf(fs),
           ~struck' => ~struck /\ \A f \in fs : table[f] \in {"free", "sock"},
           UNCHANGED theirs, batch' \subseteq batch, struck' \in BOOLEAN,
           loop' = loop \/ loop' = At("events", None)
    PROVE  DInv'
<1>1. TableTypeOK'
  <2>1. loop' \in [pc : {"events", "accept", "deliver"}, fd : {None}] \cup [pc : {"close"}, fd : Numbers]
    BY DEF DInv, TableTypeOK, At
  <2>2. TableTypeOK
    BY DEF DInv
  <2>3. /\ table' \in [Numbers -> {"free", "sock", "file", "other"}]
        /\ shut' \subseteq Numbers
        /\ DOMAIN conns' = DOMAIN conns \ fs
        /\ \A f \in DOMAIN conns' : conns'[f] \in Numbers \cup {None}
    BY <2>2, DropTypes
  <2>4. QED
    BY <2>1, <2>2, <2>3 DEF TableTypeOK
<1>2. ASSUME ~struck' PROVE Holders' /\ EventsKnown'
  <2>1. Holders /\ EventsKnown
    BY <1>2 DEF DInv
  <2>2. loop' = loop \/ loop'.pc # "close"
    BY DEF At
  <2>3. QED
    BY <1>2, <2>1, <2>2, DropHolders, DropKnown DEF DInv
<1>3. QED
  BY <1>1, <1>2 DEF DInv

(* A stale event strikes nobody unless a file or a thread has the number.   *)
LEMMA NotStruck ==
    ASSUME DInv, NEW f \in Numbers, Strikes(f), ~struck => f \in Known, ~struck'
    PROVE  ~struck /\ table[f] \in {"free", "sock"}
<1>1. table[f] \in {"free", "sock", "file", "other"}
  BY DEF DInv, TableTypeOK
<1>2. QED
  BY <1>1 DEF Strikes, Known, Of

LEMMA ErrorStep == ASSUME DInv, NEW f \in Numbers, HandleError(f) PROVE DInv'
<1>1. /\ <<"err", f>> \in batch /\ batch' = batch \ {<<"err", f>>}
      /\ Drop({f}, FilesOf({f})) /\ Strikes(f) /\ UNCHANGED <<theirs, loop>>
  BY DEF HandleError, Handle
<1>2. ~struck => f \in Known
  BY <1>1 DEF DInv, EventsKnown, Socket
<1>3. ~struck' => ~struck /\ \A g \in {f} : table[g] \in {"free", "sock"}
  BY <1>1, <1>2, NotStruck
<1>4. struck' \in BOOLEAN
  BY <1>1 DEF Strikes
<1>5. QED
  BY <1>1, <1>3, <1>4, DropStep

LEMMA CloseReadStep == ASSUME DInv, CloseRead PROVE DInv'
<1>1. /\ loop.pc = "close" /\ loop' = At("events", None)
      /\ Drop({loop.fd}, {}) /\ Strikes(loop.fd) /\ UNCHANGED <<theirs, batch>>
  BY DEF CloseRead
<1>2. PICK f : f = loop.fd
  OBVIOUS
<1>3. f \in Numbers
  BY <1>1, <1>2 DEF DInv, TableTypeOK
<1>4. ~struck => f \in Known
  BY <1>1, <1>2 DEF DInv, EventsKnown
<1>5. ~struck' => ~struck /\ \A g \in {f} : table[g] \in {"free", "sock"}
  BY <1>1, <1>2, <1>3, <1>4, NotStruck
<1>6. struck' \in BOOLEAN
  BY <1>1 DEF Strikes
<1>7. QED
  BY <1>1, <1>2, <1>3, <1>5, <1>6, DropStep

LEMMA OwnDropStep ==
    ASSUME DInv, NEW fs \in SUBSET DOMAIN conns, NEW ns, Drop(fs, ns),
           ns = {} \/ ns = FilesOf(fs), UNCHANGED <<theirs, loop, struck>>, batch' \subseteq batch
    PROVE  DInv'
<1>1. fs \in SUBSET Numbers /\ struck \in BOOLEAN
  BY DEF DInv, TableTypeOK
<1>2. ~struck => \A f \in fs : table[f] = "sock"
  BY DEF DInv, Holders, Of
<1>3. QED
  BY <1>1, <1>2, DropStep

(* The file of f has been sent, or was never kept.                          *)
LEMMA EndFileStep ==
    ASSUME DInv, NEW f \in DOMAIN conns, NEW n \in Numbers, EndFile(f, n),
           n = conns[f] \/ table[n] = "free",
           UNCHANGED <<theirs, loop, struck>>, batch' \subseteq batch
    PROVE  DInv'
<1>1. /\ conns' = [conns EXCEPT ![f] = None] /\ shut' = shut
      /\ table' \in [Numbers -> {"free", "sock", "file", "other"}]
      /\ \A m \in Numbers : table'[m] = IF m = n THEN "free" ELSE table[m]
  BY ClosedTable DEF EndFile, DInv
<1>2. DOMAIN conns' = DOMAIN conns
  BY <1>1
<1>3. \A g \in DOMAIN conns : conns'[g] = IF g = f THEN None ELSE conns[g]
  BY <1>1
<1>4. TableTypeOK'
  <2>1. \A g \in DOMAIN conns' : conns'[g] \in Numbers \cup {None}
    BY <1>2, <1>3 DEF DInv, TableTypeOK
  <2>2. QED
    BY <1>1, <1>2, <2>1 DEF DInv, TableTypeOK
<1>5. ASSUME ~struck PROVE Holders' /\ EventsKnown'
  <2>1. Holders /\ EventsKnown /\ TableTypeOK
    BY <1>5 DEF DInv
  <2>2. table[n] \in {"free", "file"}
    BY <2>1 DEF Holders, Numbers, None
  <2>3. Of("sock")' = Of("sock") /\ Of("other")' = Of("other")
    BY <1>1, <2>2 DEF Of
  <2>4. ASSUME NEW g \in DOMAIN conns', conns'[g] # None
        PROVE  /\ table'[conns'[g]] = "file"
               /\ \A h \in DOMAIN conns' : conns'[h] = conns'[g] => h = g
    <3>1. g # f /\ g \in DOMAIN conns /\ conns'[g] = conns[g]
      BY <1>2, <1>3, <2>4
    <3>2. PICK m : m = conns[g]
      OBVIOUS
    <3>3. /\ m \in Numbers /\ table[m] = "file"
          /\ \A h \in DOMAIN conns : conns[h] = m => h = g
      BY <2>1, <2>4, <3>1, <3>2 DEF Holders, TableTypeOK
    <3>4. m # n
      BY <3>1, <3>3
    <3>5. \A h \in DOMAIN conns : conns'[h] = m => h = g
      BY <1>3, <2>4, <3>1, <3>2, <3>3
    <3>6. QED
      BY <1>1, <1>2, <3>1, <3>2, <3>3, <3>4, <3>5
  <2>5. Holders'
    BY <1>2, <2>1, <2>3, <2>4 DEF Holders
  <2>6. QED
    BY <1>1, <2>1, <2>3, <2>5, StayKnown DEF Known
<1>6. QED
  BY <1>4, <1>5 DEF DInv

(* A free number is taken, by the loop or by another thread.                *)
LEMMA Takes ==
    ASSUME TableTypeOK, Of("free") # {}, NEW kind \in {"sock", "file", "other"},
           table' = [table EXCEPT ![Lowest] = kind]
    PROVE  /\ Lowest \in Numbers /\ table[Lowest] = "free"
           /\ table' \in [Numbers -> {"free", "sock", "file", "other"}]
           /\ \A n \in Numbers : table'[n] = IF n = Lowest THEN kind ELSE table[n]
           /\ \A k \in {"sock", "file", "other"} :
                 Of(k)' = IF k = kind THEN Of(k) \cup {Lowest} ELSE Of(k)
<1>1. Lowest \in Numbers /\ table[Lowest] = "free"
  BY LowestFree DEF Of
<1>2. PICK n : n = Lowest
  OBVIOUS
<1>3. table' = [table EXCEPT ![n] = kind] /\ n \in Numbers /\ table[n] = "free"
  BY <1>1, <1>2
<1>4. /\ table' \in [Numbers -> {"free", "sock", "file", "other"}]
      /\ \A m \in Numbers : table'[m] = IF m = n THEN kind ELSE table[m]
  BY <1>3 DEF TableTypeOK
<1>5. \A k \in {"sock", "file", "other"} :
          Of(k)' = IF k = kind THEN Of(k) \cup {n} ELSE Of(k)
  BY <1>3, <1>4 DEF Of
<1>6. QED
  BY <1>2, <1>3, <1>4, <1>5

LEMMA AcceptSocketStep == ASSUME DInv, Accept PROVE DInv'
<1>1. PICK n : n = Lowest
  OBVIOUS
<1>2. TableTypeOK /\ Of("free") # {} /\ table' = [table EXCEPT ![Lowest] = "sock"]
      /\ conns' = [f \in DOMAIN conns \cup {n} |-> IF f = n THEN None ELSE conns[f]]
      /\ UNCHANGED <<theirs, batch, loop, shut, struck>>
  BY <1>1 DEF Accept, DInv
<1>3. /\ n \in Numbers /\ table[n] = "free"
      /\ table' \in [Numbers -> {"free", "sock", "file", "other"}]
      /\ \A m \in Numbers : table'[m] = IF m = n THEN "sock" ELSE table[m]
      /\ Of("sock")' = Of("sock") \cup {n} /\ Of("other")' = Of("other")
  BY <1>1, <1>2, Takes
<1>4. TableTypeOK'
  BY <1>2, <1>3 DEF TableTypeOK
<1>5. ASSUME ~struck PROVE Holders' /\ EventsKnown'
  <2>1. Holders /\ EventsKnown
    BY <1>5 DEF DInv
  <2>2. ASSUME NEW g \in DOMAIN conns', conns'[g] # None
        PROVE  /\ table'[conns'[g]] = "file"
               /\ \A h \in DOMAIN conns' : conns'[h] = conns'[g] => h = g
    <3>1. g # n /\ g \in DOMAIN conns /\ conns'[g] = conns[g]
      BY <1>2, <2>2
    <3>2. PICK m : m = conns[g]
      OBVIOUS
    <3>3. /\ m \in Numbers /\ table[m] = "file" /\ m # n
          /\ \A h \in DOMAIN conns : conns[h] = m => h = g
      BY <1>2, <1>3, <2>1, <2>2, <3>1, <3>2 DEF Holders, TableTypeOK
    <3>4. \A h \in DOMAIN conns' : conns'[h] = m => h = g
      BY <1>2, <2>2, <3>1, <3>2, <3>3
    <3>5. QED
      BY <1>3, <3>1, <3>2, <3>3, <3>4
  <2>3. DOMAIN conns' = Of("sock")' /\ theirs' = Of("other")'
    BY <1>2, <1>3, <2>1 DEF Holders
  <2>4. Holders'
    BY <2>2, <2>3 DEF Holders
  <2>5. QED
    BY <1>2, <1>3, <2>1, <2>4, StayKnown DEF Known
<1>6. QED
  BY <1>2, <1>4, <1>5 DEF DInv

LEMMA StreamStep == ASSUME DInv, NEW f \in Numbers, StreamFile(f) PROVE DInv'
<1>1. /\ f \in DOMAIN conns /\ Of("free") # {} /\ TableTypeOK
      /\ UNCHANGED <<theirs, batch, loop, struck>>
  BY DEF StreamFile, DInv
<1>2. PICK n : n = Lowest
  OBVIOUS
<1>3. n \in Numbers /\ table[n] = "free"
  BY <1>1, <1>2, LowestFree DEF Of
<1>4. ASSUME table' = [table EXCEPT ![Lowest] = "file"],
             conns' = [conns EXCEPT ![f] = Lowest], UNCHANGED shut
      PROVE  DInv'
  <2>1. /\ table' \in [Numbers -> {"free", "sock", "file", "other"}]
        /\ \A m \in Numbers : table'[m] = IF m = n THEN "file" ELSE table[m]
        /\ Of("sock")' = Of("sock") /\ Of("other")' = Of("other")
    BY <1>1, <1>2, <1>4, Takes
  <2>2. /\ DOMAIN conns' = DOMAIN conns
        /\ \A g \in DOMAIN conns : conns'[g] = IF g = f THEN n ELSE conns[g]
    BY <1>2, <1>4
  <2>3. TableTypeOK'
    <3>1. \A g \in DOMAIN conns' : conns'[g] \in Numbers \cup {None}
      BY <1>1, <1>3, <2>2 DEF TableTypeOK
    <3>2. QED
      BY <1>1, <1>4, <2>1, <2>2, <3>1 DEF TableTypeOK
  <2>4. ASSUME ~struck PROVE Holders' /\ EventsKnown'
    <3>1. Holders /\ EventsKnown
      BY <2>4 DEF DInv
    <3>2. \A g \in DOMAIN conns : conns[g] # None => conns[g] # n /\ conns[g] \in Numbers
      BY <1>1, <1>3, <3>1 DEF Holders, TableTypeOK
    <3>3. ASSUME NEW g \in DOMAIN conns', conns'[g] # None
          PROVE  /\ table'[conns'[g]] = "file"
                 /\ \A h \in DOMAIN conns' : conns'[h] = conns'[g] => h = g
      <4>1. CASE g = f
        <5>1. conns'[g] = n
          BY <2>2, <3>3, <4>1
        <5>2. \A h \in DOMAIN conns' : conns'[h] = n => h = g
          BY <1>3, <2>2, <3>2, <4>1 DEF Numbers, None
        <5>3. QED
          BY <1>3, <2>1, <5>1, <5>2
      <4>2. CASE g # f
        <5>1. g \in DOMAIN conns /\ conns'[g] = conns[g]
          BY <2>2, <3>3, <4>2
        <5>2. PICK m : m = conns[g]
          OBVIOUS
        <5>3. /\ m \in Numbers /\ table[m] = "file" /\ m # n
              /\ \A h \in DOMAIN conns : conns[h] = m => h = g
          BY <3>1, <3>2, <3>3, <5>1, <5>2 DEF Holders
        <5>4. \A h \in DOMAIN conns' : conns'[h] = m => h = g
          BY <2>2, <5>3
        <5>5. QED
          BY <2>1, <5>1, <5>2, <5>3, <5>4
      <4>3. QED
        BY <4>1, <4>2
    <3>4. Holders'
      BY <1>1, <2>1, <2>2, <3>1, <3>3 DEF Holders
    <3>5. QED
      BY <1>1, <1>4, <2>1, <3>1, <3>4, StayKnown DEF Known
  <2>5. QED
    BY <1>1, <2>3, <2>4 DEF DInv
<1>5. CASE EndFile(f, Lowest)
  BY <1>1, <1>2, <1>3, <1>5, EndFileStep
<1>6. CASE Drop({f}, {})
  BY <1>1, <1>6, OwnDropStep
<1>7. QED
  BY <1>4, <1>5, <1>6 DEF StreamFile

(* What the loop does that changes no number.                               *)
LEMMA CalmTableStep ==
    ASSUME DInv, UNCHANGED <<table, theirs, conns, shut, struck>>, batch' \subseteq batch,
           \/ loop' = loop
           \/ loop'.pc \in {"events", "accept", "deliver"} /\ loop' = At(loop'.pc, None)
    PROVE  DInv'
<1>1. TableTypeOK'
  BY DEF DInv, TableTypeOK, At
<1>2. ASSUME ~struck PROVE Holders' /\ EventsKnown'
  <2>1. Holders /\ EventsKnown
    BY <1>2 DEF DInv
  <2>2. Holders'
    BY <2>1 DEF Holders, Of
  <2>3. Known \subseteq Known'
    BY DEF Known, Of
  <2>4. QED
    BY <2>1, <2>2, <2>3, StayKnown
<1>3. QED
  BY <1>1, <1>2 DEF DInv

LEMMA WriteStep == ASSUME DInv, NEW f \in Numbers, HandleWrite(f) PROVE DInv'
<1>1. UNCHANGED <<theirs, loop, struck>> /\ batch' \subseteq batch
  BY DEF HandleWrite, Handle
<1>2. CASE UNCHANGED <<table, conns, shut>>
  BY <1>1, <1>2, CalmTableStep
<1>3. CASE f \in DOMAIN conns /\ conns[f] # None /\ EndFile(f, conns[f])
  <2>1. conns[f] \in Numbers
    BY <1>3 DEF DInv, TableTypeOK
  <2>2. QED
    BY <1>1, <1>3, <2>1, EndFileStep
<1>4. CASE f \in DOMAIN conns /\ Drop({f}, FilesOf({f}))
  BY <1>1, <1>4, OwnDropStep
<1>5. QED
  BY <1>2, <1>3, <1>4 DEF HandleWrite

LEMMA ReadTableStep == ASSUME DInv, NEW f \in Numbers, HandleRead(f) PROVE DInv'
<1>1. /\ <<"in", f>> \in batch /\ batch' \subseteq batch
      /\ UNCHANGED <<table, theirs, conns, shut, struck>>
  BY DEF HandleRead, Handle
<1>2. CASE UNCHANGED loop
  BY <1>1, <1>2, CalmTableStep
<1>3. CASE loop' = At("close", f)
  <2>1. TableTypeOK'
    BY <1>1, <1>3 DEF DInv, TableTypeOK, At
  <2>2. ASSUME ~struck PROVE Holders' /\ EventsKnown'
    <3>1. Holders /\ EventsKnown
      BY <2>2 DEF DInv
    <3>2. f \in Known
      BY <1>1, <3>1 DEF EventsKnown, Socket
    <3>3. QED
      BY <1>1, <1>3, <3>1, <3>2 DEF Holders, EventsKnown, Known, Of, At
  <2>3. QED
    BY <1>1, <2>1, <2>2 DEF DInv
<1>4. QED
  BY <1>2, <1>3 DEF HandleRead

LEMMA WaitStep == ASSUME DInv, EpollWait PROVE DInv'
<1>1. PICK S \in Reported, K \in SUBSET {"listen", "timer", "wakeup"} :
          batch' = S \cup (K \X {None})
  BY DEF EpollWait
<1>2. /\ loop.pc = "events" /\ shut' = {}
      /\ UNCHANGED <<table, theirs, conns, loop, struck>>
  BY DEF EpollWait
<1>3. Of("sock") \subseteq Numbers /\ S \subseteq Socket \X Of("sock")
  BY DEF Of, Reported, Socket
<1>4. TableTypeOK'
  <2>1. batch' \subseteq {"in", "err", "out", "listen", "timer", "wakeup"}
                             \X (Numbers \cup {None})
    BY <1>1, <1>3 DEF Socket
  <2>2. QED
    BY <1>2, <2>1 DEF DInv, TableTypeOK
<1>5. ASSUME ~struck PROVE Holders' /\ EventsKnown'
  <2>1. Holders'
    BY <1>2, <1>5 DEF DInv, Holders, Of
  <2>2. \A e \in batch' : e[1] \in Socket => e[2] \in Of("sock")'
    BY <1>1, <1>2, <1>3 DEF Socket, Of
  <2>3. QED
    BY <1>2, <2>1, <2>2 DEF EventsKnown, Known
<1>6. QED
  BY <1>2, <1>4, <1>5 DEF DInv

LEMMA OthersStep ==
    ASSUME DInv, OtherOpen \/ (\E n \in Numbers : OtherClose(n))
    PROVE  DInv'
<1>1. UNCHANGED <<conns, batch, loop, shut, struck>> /\ TableTypeOK
  BY DEF OtherOpen, OtherClose, DInv
<1>2. SUFFICES /\ table' \in [Numbers -> {"free", "sock", "file", "other"}]
               /\ theirs' \subseteq Numbers
               /\ ~struck => /\ Of("sock")' = Of("sock") /\ theirs' = Of("other")'
                             /\ \A m \in Numbers : table[m] = "file" => table'[m] = "file"
  <2>1. TableTypeOK'
    BY <1>1, <1>2 DEF TableTypeOK
  <2>2. ASSUME ~struck PROVE Holders' /\ EventsKnown'
    <3>1. Holders /\ EventsKnown
      BY <2>2 DEF DInv
    <3>2. \A f \in DOMAIN conns : conns[f] # None => table'[conns[f]] = "file"
      BY <1>1, <1>2, <2>2, <3>1 DEF Holders, TableTypeOK
    <3>3. Holders'
      BY <1>1, <1>2, <2>2, <3>1, <3>2 DEF Holders
    <3>4. QED
      BY <1>1, <1>2, <2>2, <3>1, <3>3, StayKnown DEF Known
  <2>3. QED
    BY <1>1, <2>1, <2>2 DEF DInv
<1>3. CASE OtherOpen
  <2>1. Of("free") # {} /\ table' = [table EXCEPT ![Lowest] = "other"]
        /\ theirs' = theirs \cup {Lowest}
    BY <1>3 DEF OtherOpen
  <2>2. PICK n : n = Lowest
    OBVIOUS
  <2>3. /\ n \in Numbers /\ table[n] = "free"
        /\ table' \in [Numbers -> {"free", "sock", "file", "other"}]
        /\ \A m \in Numbers : table'[m] = IF m = n THEN "other" ELSE table[m]
        /\ Of("sock")' = Of("sock") /\ Of("other")' = Of("other") \cup {n}
    BY <1>1, <2>1, <2>2, Takes
  <2>4. QED
    BY <1>1, <2>1, <2>2, <2>3 DEF DInv, Holders, TableTypeOK
<1>4. ASSUME NEW n \in Numbers, OtherClose(n)
      PROVE  /\ table' \in [Numbers -> {"free", "sock", "file", "other"}]
             /\ theirs' \subseteq Numbers
             /\ ~struck => /\ Of("sock")' = Of("sock") /\ theirs' = Of("other")'
                           /\ \A m \in Numbers : table[m] = "file" => table'[m] = "file"
  <2>1. n \in theirs /\ Close({n}) /\ theirs' = theirs \ {n}
    BY <1>4 DEF OtherClose
  <2>2. /\ table' \in [Numbers -> {"free", "sock", "file", "other"}]
        /\ \A m \in Numbers : table'[m] = IF m = n THEN "free" ELSE table[m]
    BY <1>1, <2>1, ClosedTable
  <2>3. ~struck => table[n] = "other" /\ theirs = Of("other")
    BY <2>1 DEF DInv, Holders, Of
  <2>4. QED
    BY <1>1, <2>1, <2>2, <2>3 DEF TableTypeOK, Of
<1>5. QED
  BY <1>3, <1>4

LEMMA TableStep == ASSUME DInv, [TableNext]_tableVars PROVE DInv'
<1>1. CASE Begin \/ End
  <2>1. /\ UNCHANGED <<table, theirs, conns, shut, struck>> /\ batch' \subseteq batch
        /\ loop'.pc \in {"events", "accept", "deliver"} /\ loop' = At(loop'.pc, None)
    BY <1>1 DEF Begin, End, Handle, At
  <2>2. QED
    BY <2>1, CalmTableStep
<1>2. CASE CleanupTimeouts
  <2>1. PICK fs \in SUBSET DOMAIN conns : Drop(fs, FilesOf(fs))
    BY <1>2 DEF CleanupTimeouts
  <2>2. UNCHANGED <<theirs, loop, struck>> /\ batch' \subseteq batch
    BY <1>2 DEF CleanupTimeouts, Handle
  <2>3. QED
    BY <2>1, <2>2, OwnDropStep
<1>3. ASSUME NEW f \in Numbers, OpenFails(f) PROVE DInv'
  BY <1>3, OwnDropStep DEF OpenFails
<1>4. CASE UNCHANGED tableVars
  BY <1>4, CalmTableStep DEF tableVars
<1>5. QED
  BY <1>1, <1>2, <1>3, <1>4, WaitStep, AcceptSocketStep, CloseReadStep, OthersStep, ErrorStep,
     ReadTableStep, WriteStep, StreamStep DEF TableNext

LEMMA InitTable == TableInit => DInv
<1>1. SUFFICES ASSUME TableInit PROVE DInv
  OBVIOUS
<1>2. /\ table = [n \in Numbers |-> "free"] /\ conns = [f \in {} |-> None]
      /\ theirs = {} /\ batch = {} /\ shut = {} /\ struck = FALSE /\ loop = At("events", None)
  BY <1>1, Zenon DEF TableInit
<1>3. DOMAIN conns = {}
  BY <1>2, Zenon
<1>4. /\ table \in [Numbers -> {"free", "sock", "file", "other"}]
      /\ \A n \in Numbers : table[n] = "free"
  <2>1. table = [n \in Numbers |-> "free"]
    BY <1>2
  <2>2. QED
    BY <2>1
<1>5. Of("sock") = {} /\ Of("other") = {}
  BY <1>4 DEF Of
<1>6. theirs = {} /\ batch = {} /\ shut = {} /\ struck = FALSE /\ loop = At("events", None)
  BY <1>2, Zenon
<1>7. TableTypeOK
  BY <1>3, <1>4, <1>6 DEF TableTypeOK, At
<1>8. Holders /\ EventsKnown
  BY <1>3, <1>5, <1>6 DEF Holders, EventsKnown, At
<1>9. QED
  BY <1>7, <1>8 DEF DInv

LEMMA TableInvariance == TableSpec => []DInv
BY InitTable, TableStep, PTL DEF TableSpec

(* The table of descriptors is well typed.                                  *)
THEOREM TableTyping == TableSpec => []TableTypeOK
BY TableInvariance, PTL DEF DInv

(* For a table and a batch of any size: connections_ and the other threads  *)
(* have the numbers they take for theirs, until a stale event closes one    *)
(* that a file or a thread has been given in the same batch                 *)
(* (epoll_server.cpp:163, 226 and 236).                                     *)
THEOREM NumbersHeld == TableSpec => []HoldersMatch
<1>1. DInv => HoldersMatch
  BY DEF DInv, Holders, HoldersMatch
<1>2. QED
  BY <1>1, TableInvariance, PTL
=============================================================================

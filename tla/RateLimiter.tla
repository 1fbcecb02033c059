----------------------------- MODULE RateLimiter -----------------------------
(***************************************************************************)
(* The fixed-window request limiter of src/core/rate_limiter.cpp.  main.cpp *)
(* runs allow() from a middleware, keyed by the request path, on every      *)
(* request the worker pool dispatches, and cleanup() from the cleanup       *)
(* thread.  Both hold mutex_ throughout, so each is one step.               *)
(*                                                                         *)
(* The clock counts Ticks per second: the code compares whole elapsed       *)
(* seconds (duration_cast truncates) with windowSeconds.                    *)
(*                                                                         *)
(* History variables: grants[k] lists the admissions of key k, each with    *)
(* its time and the start of the window it was counted in; last is the      *)
(* latest answer of allow().                                                *)
(***************************************************************************)
EXTENDS Integers, Sequences

CONSTANTS Keys,         \* the request paths
          MaxRequests,  \* Config::maxRequests, 60 in main.cpp
          Window,       \* Config::windowSeconds, 60 in main.cpp
          Ticks,        \* clock ticks in a second
          NoBucket,     \* the map has no entry for the key
          MaxClock,     \* bound: last tick explored
          MaxCount      \* bound: highest value of Bucket::count explored

Bucket == [count : Nat \ {0}, windowStart : Nat]
Grant  == [at : Nat, window : Nat]
Answer == [key : Keys, allowed : BOOLEAN, at : Nat]

ASSUME LimitsAssumption == /\ MaxRequests \in Nat \ {0}
                           /\ Window \in Nat \ {0}
                           /\ Ticks \in Nat \ {0}
ASSUME BoundsAssumption == MaxClock \in Nat /\ MaxCount \in Nat
ASSUME NoBucketAssumption == NoBucket \notin Bucket

VARIABLES clock,    \* steady_clock, in ticks
          buckets,  \* buckets_
          grants,   \* history: the admissions, oldest first
          last      \* history: the latest answer, or <<>> before the first

vars == <<clock, buckets, grants, last>>

TypeOK == /\ clock \in Nat
          /\ buckets \in [Keys -> Bucket \cup {NoBucket}]
          /\ grants \in [Keys -> Seq(Grant)]
          /\ last \in Answer \cup {<<>>}

Init == /\ clock = 0
        /\ buckets = [k \in Keys |-> NoBucket]
        /\ grants = [k \in Keys |-> <<>>]
        /\ last = <<>>

-----------------------------------------------------------------------------
(* duration_cast<seconds>(now - since).count()                             *)
Elapsed(since) == (clock - since) \div Ticks

Tick == /\ clock < MaxClock
        /\ clock' = clock + 1
        /\ UNCHANGED <<buckets, grants, last>>

(* The first request for a key, or the first one of a new window, counts 1. *)
OpenWindow(k) ==
    /\ buckets' = [buckets EXCEPT ![k] = [count |-> 1, windowStart |-> clock]]
    /\ grants' = [grants EXCEPT ![k] = Append(@, [at |-> clock, window |-> clock])]
    /\ last' = [key |-> k, allowed |-> TRUE, at |-> clock]

(* Mutant: every request starts the window anew.                            *)
CountAndExtend(k) ==
    LET n == buckets[k].count + 1
    IN  /\ n <= MaxCount
        /\ buckets' = [buckets EXCEPT ![k] = [count |-> n, windowStart |-> clock]]
        /\ grants' = IF n <= MaxRequests
                     THEN [grants EXCEPT ![k] = Append(@, [at |-> clock, window |-> clock])]
                     ELSE grants
        /\ last' = [key |-> k, allowed |-> n <= MaxRequests, at |-> clock]

(* Every other request is counted, refused ones included.                  *)
CountRequest(k) ==
    LET n == buckets[k].count + 1
        start == buckets[k].windowStart
    IN  /\ n <= MaxCount
        /\ buckets' = [buckets EXCEPT ![k] = [count |-> n, windowStart |-> start]]
        /\ grants' = IF n <= MaxRequests
                     THEN [grants EXCEPT ![k] = Append(@, [at |-> clock, window |-> start])]
                     ELSE grants
        /\ last' = [key |-> k, allowed |-> n <= MaxRequests, at |-> clock]

Allow(k) ==
    /\ IF buckets[k] = NoBucket \/ Elapsed(buckets[k].windowStart) >= Window
       THEN OpenWindow(k)
       ELSE CountRequest(k)
    /\ UNCHANGED clock

(* Mutant: the age of a bucket, in ticks, is compared with seconds.         *)
CleanupInTicks ==
    /\ buckets' = [k \in Keys |->
                     IF buckets[k] # NoBucket /\ clock - buckets[k].windowStart >= Window
                     THEN NoBucket ELSE buckets[k]]
    /\ UNCHANGED <<clock, grants, last>>

(* The cleanup thread forgets the keys idle for two windows.               *)
Cleanup ==
    /\ buckets' = [k \in Keys |->
                     IF buckets[k] # NoBucket /\ Elapsed(buckets[k].windowStart) >= 2 * Window
                     THEN NoBucket ELSE buckets[k]]
    /\ UNCHANGED <<clock, grants, last>>

Next == \/ Tick
        \/ \E k \in Keys : Allow(k)
        \/ Cleanup

Spec == Init /\ [][Next]_vars

-----------------------------------------------------------------------------
(* The length of a window in ticks.                                        *)
Span == Window * Ticks

(* Any 2*MaxRequests + 1 admissions of a key in a row span more than a      *)
(* window: what allow(), its reset of count (rate_limiter.cpp:29-33) and    *)
(* the erasing in cleanup() together promise whatever the request pattern,  *)
(* a burst at the end of one window and the start of the next included.     *)
SlidingBound ==
    \A k \in Keys : \A i \in 1 .. Len(grants[k]) :
        i + 2 * MaxRequests <= Len(grants[k]) =>
            grants[k][i + 2 * MaxRequests].at - grants[k][i].at > Span

(* No window admits more than MaxRequests requests of a key: the admission  *)
(* MaxRequests places later belongs to a later window.                      *)
WindowCap ==
    \A k \in Keys : \A i \in 1 .. Len(grants[k]) :
        i + MaxRequests <= Len(grants[k]) =>
            grants[k][i + MaxRequests].window > grants[k][i].window

(* A refusal is always earned: the MaxRequests latest admissions of the key *)
(* all fall in the current window, less than Window seconds long so far.    *)
(* Refused requests are counted too (rate_limiter.cpp:35), and yet a client *)
(* that keeps knocking is never locked out past its window.                 *)
RefusalEarned ==
    last # <<>> /\ ~last.allowed =>
        LET log == grants[last.key]
        IN  /\ Len(log) >= MaxRequests
            /\ last.at - log[Len(log) - MaxRequests + 1].at < Span
=============================================================================

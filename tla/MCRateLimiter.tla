---------------------------- MODULE MCRateLimiter ----------------------------
(* A small limiter: two admissions per window of one second, half-second    *)
(* ticks, and time for cleanup to forget a key and for it to come back.     *)
(*                                                                         *)
(* Beside it the web client whose requests it may refuse: a playlist of two *)
(* rows of which one task is made, of one row that may have two tasks, or   *)
(* of two texts of one row and one task; and the table of descriptors that  *)
(* the requests come in by.  They share no state: side tells which is       *)
(* explored, and the others stay as they are at the start.                  *)
EXTENDS RateLimiter, BatchList, Descriptors, TLC

PlayLists == {<<"a">>, <<"a", "b">>}

VARIABLE side

Lists == {"two rows", "two tasks", "two texts"}

MCInit == Init /\ ListInit /\ TableInit /\ side \in {"limiter", "numbers"} \cup Lists

MCNext == /\ \/ side = "limiter" /\ Next /\ UNCHANGED <<sheet, tableVars>>
             \/ side \in Lists /\ ListNext /\ UNCHANGED <<vars, tableVars>>
             \/ side = "numbers" /\ TableNext /\ UNCHANGED <<vars, sheet>>
          /\ UNCHANGED side
          /\ side # "two tasks" => Cardinality({t \in Ids : phase'[t] # "new"}) <= 1
          /\ side # "two rows"  => Len(list') + Len(awaiting') <= 1
          /\ side # "two texts" => parses' <= 1

MCSpec == MCInit /\ [][MCNext]_<<vars, sheet, tableVars, side>>

Symmetry == Permutations(Keys) \cup Permutations(Ids)
=============================================================================

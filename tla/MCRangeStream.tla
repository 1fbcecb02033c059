---------------------------- MODULE MCRangeStream -----------------------------
(* RangeStream for TLC: a file of four bytes, sent by two, through a socket *)
(* that holds three, and every header with numbers up to one that           *)
(* overflows.                                                               *)
(*                                                                         *)
(* The browser's other ways to the server are explored beside it: the task  *)
(* card with two tasks, and two downloads of an archive.  The three share   *)
(* no state: used tells which of them the user has turned to, and the       *)
(* others stay as they are at the start.                                    *)
EXTENDS RangeStream, TaskCard, BatchZip

VARIABLE used

BrowserInit == Init /\ CardInit /\ ZipInit /\ used \in {"player", "card", "archive"}

BrowserNext ==
    /\ \/ used = "player"  /\ Next     /\ UNCHANGED <<page, zipVars>>
       \/ used = "card"    /\ CardNext /\ UNCHANGED <<vars, zipVars>>
       \/ used = "archive" /\ ZipNext  /\ UNCHANGED <<vars, page>>
    /\ UNCHANGED used

BrowserSpec == /\ BrowserInit /\ [][BrowserNext]_<<vars, page, zipVars, used>>
               /\ Fairness /\ CardFairness
===============================================================================

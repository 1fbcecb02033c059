------------------------------ MODULE MCLogger --------------------------------
(* Logger for TLC: main and one other thread.                              *)
EXTENDS Logger

===============================================================================

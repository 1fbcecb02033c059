----------------------------- MODULE TaskPromise -----------------------------
(***************************************************************************)
(* What the download service promises of a task, whatever runs it: an       *)
(* accepted task is worked on until it is over; while it is worked on, its  *)
(* status is Pending or Downloading; Finished and Failed are final.  The    *)
(* status of a task may disappear at any time, since the cleanup thread     *)
(* looks at nothing but its age, and a running task brings it back.         *)
(***************************************************************************)
CONSTANTS Tasks

Final == {"Finished", "Failed"}
Shown == {"none", "Pending", "Downloading"} \cup Final

VARIABLES phase,  \* [Tasks -> {"new", "accepted", "over"}]
          shown   \* [Tasks -> Shown]: what a status request finds

vars == <<phase, shown>>

TypeOK == /\ phase \in [Tasks -> {"new", "accepted", "over"}]
          /\ shown \in [Tasks -> Shown]

Init == /\ phase = [t \in Tasks |-> "new"]
        /\ shown = [t \in Tasks |-> "none"]

Show(t, s) == shown' = [shown EXCEPT ![t] = s]

Accept(t) == /\ phase[t] = "new"
             /\ phase' = [phase EXCEPT ![t] = "accepted"]
             /\ Show(t, "Pending")

Work(t) == /\ phase[t] = "accepted"
           /\ Show(t, "Downloading")
           /\ UNCHANGED phase

Conclude(t) == /\ phase[t] = "accepted"
               /\ phase' = [phase EXCEPT ![t] = "over"]
               /\ \E s \in Final : Show(t, s)

(* Nobody works on the tasks in ts any more: they have no result.           *)
Abandon(ts) == /\ \A t \in ts : phase[t] = "accepted"
               /\ phase' = [t \in Tasks |-> IF t \in ts THEN "over" ELSE phase[t]]
               /\ UNCHANGED shown

Expire(ts) == /\ shown' = [t \in Tasks |-> IF t \in ts THEN "none" ELSE shown[t]]
              /\ UNCHANGED phase

Next == \/ \E t \in Tasks : Accept(t) \/ Work(t) \/ Conclude(t)
        \/ \E ts \in SUBSET Tasks : Abandon(ts) \/ Expire(ts)

Spec == Init /\ [][Next]_vars

-----------------------------------------------------------------------------
(* A task with a result is over.                                            *)
ResultIsLast == \A t \in Tasks : shown[t] \in Final => phase[t] = "over"
=============================================================================

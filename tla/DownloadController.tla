-------------------------- MODULE DownloadController --------------------------
(***************************************************************************)
(* What the clients of the download service meet: the handlers of           *)
(* src/presentation/controllers/download_controller.cpp for creating tasks  *)
(* and asking for their status, in front of any service that keeps          *)
(* TaskPromise.  DownloadTasksProofs proves that the service does.          *)
(***************************************************************************)
CONSTANTS Ids, NoId   \* the ids of tasks, and none

ASSUME NoIdAssumption == NoId \notin Ids

VARIABLES phase, shown   \* those of TaskPromise

service == <<phase, shown>>

Service == INSTANCE TaskPromise WITH Tasks <- Ids

(* The handler createTask: the new id is in the answer.                     *)
AcceptTask(t) == Service!Accept(t)

(* What getStatus and batchGetStatus answer, by the row and by toJson.      *)
StatusOf(t) == IF shown[t] = "none" THEN "task_not_found" ELSE shown[t]
Result      == Service!Final
Answers     == {"task_not_found", "Pending", "Downloading"} \cup Result
=============================================================================

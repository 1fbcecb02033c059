------------------------------- MODULE TaskCard -------------------------------
(***************************************************************************)
(* The task card of the web client (src/web/app/modules/download.js): a     *)
(* click on send creates a task, and an interval timer asks for its status  *)
(* every second.                                                           *)
(*                                                                         *)
(* A handler runs up to its next await as one step.  Requests may overlap,  *)
(* and answers come late, out of order or not at all; a timer is late as    *)
(* long as it likes.  The card does not look at whose answer it shows, and  *)
(* a stop timer not at whose polling it stops: struck tells whether one of  *)
(* an earlier task has met the current one.                                 *)
(***************************************************************************)
EXTENDS DownloadController, Integers, FiniteSets

CONSTANT MaxPolls   \* bound: status requests outstanding and stop timers set

VARIABLES task,     \* currentTaskId
          light,    \* the status light
          polling,  \* pollingInterval is set
          saved,    \* the task in sessionStorage
          create,   \* [attempt, task] of the POST; attempt is 0 when there is none
          starts, stops,  \* timers set: to start the polling, and to stop it
          polls,    \* status requests: [task, answer]
          early,    \* history: of the stop timers, those of earlier tasks
          told, struck, \* history, since task was set: the light showed a result;
                    \* an answer about another task or an early timer came
          given, dropped  \* history: the task this tab asked for last; the page
                    \* unloaded since, or was opened again when it was struck

history  == <<early, told, struck, given, dropped>>
cardVars == <<task, light, polling, saved, create, starts, stops, polls, history>>
page     == <<service, cardVars>>

NoPost   == [attempt |-> 0, task |-> NoId]
Post(n)  == [attempt |-> n, task |-> NoId]
Unanswered == "none yet"

(* Mutant: the task is shown, but its status is not asked for.              *)
LoadedIdle(key) == /\ task' = key /\ saved' = key /\ polling' = FALSE
                   /\ light' = IF key = NoId THEN "idle" ELSE "downloading"
                   /\ create' = NoPost /\ starts' = 0 /\ stops' = 0 /\ polls' = {}
                   /\ early' = 0 /\ told' = FALSE /\ struck' = FALSE
(* A page that is loaded takes up the task it finds in the session.         *)
Loaded(key) == /\ task' = key /\ saved' = key /\ polling' = (key # NoId)
               /\ light' = IF key = NoId THEN "idle" ELSE "downloading"
               /\ create' = NoPost /\ starts' = 0 /\ stops' = 0 /\ polls' = {}
               /\ early' = 0 /\ told' = FALSE /\ struck' = FALSE

CardInit == /\ Service!Init
            /\ task = NoId /\ saved = NoId /\ polling = FALSE
            /\ light = "idle" /\ create = NoPost
            /\ starts = 0 /\ stops = 0 /\ polls = {}
            /\ early = 0 /\ told = FALSE /\ struck = FALSE
            /\ given = NoId /\ dropped = FALSE

-----------------------------------------------------------------------------
StopPolling == polling' = FALSE /\ saved' = NoId

(* resetTaskStatus leaves the interval, the timers and the requests alone.  *)
HandleSend == /\ create = NoPost /\ create' = Post(1)
              /\ task' = NoId /\ saved' = NoId /\ light' = "idle"
              /\ early' = stops /\ given' = NoId
              /\ UNCHANGED <<service, polling, starts, stops, polls, told, struck,
                             dropped>>

CreateServed(t) == /\ create.attempt > 0 /\ create.task = NoId
                   /\ AcceptTask(t) /\ create' = [create EXCEPT !.task = t]
                   /\ UNCHANGED <<task, light, polling, saved, starts, stops,
                                  polls, history>>

Created == /\ create.task # NoId /\ create' = NoPost
           /\ task' = create.task /\ saved' = create.task
           /\ light' = "downloading" /\ starts' = starts + 1
           /\ told' = FALSE /\ struck' = FALSE
           /\ given' = create.task /\ dropped' = FALSE
           /\ UNCHANGED <<service, polling, stops, polls, early>>

(* A timeout or a network error, whether or not the service has the task:   *)
(* the same request is sent again, once (api.js:64-71, 90).                 *)
Resend == /\ create.attempt = 1 /\ create' = Post(2)
          /\ UNCHANGED <<service, task, light, polling, saved, starts, stops,
                         polls, history>>

(* The second attempt fails, or the first is answered with an error.        *)
CreateFails == /\ create.attempt = 1 => create.task = NoId
               /\ create.attempt > 0 /\ create' = NoPost /\ light' = "error"
               /\ UNCHANGED <<service, task, polling, saved, starts, stops,
                              polls, history>>

-----------------------------------------------------------------------------
StartFires == /\ starts > 0 /\ starts' = starts - 1 /\ polling' = TRUE
              /\ UNCHANGED <<service, task, light, saved, create, stops, polls,
                             history>>

StopFires == /\ stops > 0 /\ stops' = stops - 1 /\ StopPolling
             /\ \/ early < stops /\ UNCHANGED <<early, struck>>
                \/ early > 0 /\ early' = early - 1 /\ struck' = TRUE
             /\ UNCHANGED <<service, task, light, create, starts, polls, told,
                            given, dropped>>

(* Mutant: a timer that fires once.                                         *)
PollOnce ==
    /\ polling /\ polling' = FALSE /\ task # NoId
    /\ Cardinality(polls) + stops < MaxPolls
    /\ polls' = polls \cup {[task |-> task, answer |-> Unanswered]}
    /\ UNCHANGED <<service, task, light, create, saved, starts, stops, history>>
(* The interval fires.                                                      *)
PollTask ==
    /\ polling
    /\ \/ task = NoId /\ StopPolling /\ UNCHANGED polls
       \/ /\ task # NoId /\ Cardinality(polls) + stops < MaxPolls
          /\ polls' = polls \cup {[task |-> task, answer |-> Unanswered]}
          /\ UNCHANGED <<polling, saved>>
    /\ UNCHANGED <<service, task, light, create, starts, stops, history>>

GetStatus(p) ==
    /\ p.answer = Unanswered
    /\ polls' = (polls \ {p}) \cup {[p EXCEPT !.answer = StatusOf(p.task)]}
    /\ UNCHANGED <<service, task, light, polling, saved, create, starts, stops,
                   history>>

(* Mutant: every end is a success.                                          *)
ShowAnyEnd(answer) ==
    \/ /\ answer \in Result /\ light' = "success"
       /\ stops' = stops + 1 /\ UNCHANGED <<polling, saved>>
    \/ /\ answer \notin Result /\ UNCHANGED <<light, polling, saved, stops>>
(* updateTaskStatus.  A task that is not found is a 404, which request      *)
(* throws and the poll only logs: line 288 is never reached.                *)
Show(answer) ==
    \/ /\ answer = "task_not_found"
       /\ UNCHANGED <<light, polling, saved, stops>>
    \/ /\ answer = "Failed" /\ light' = "error"
       /\ StopPolling /\ UNCHANGED stops
    \/ /\ answer = "Finished" /\ light' = "success"
       /\ stops' = stops + 1 /\ UNCHANGED <<polling, saved>>
    \/ /\ answer = "Downloading" /\ light' = "downloading"
       /\ UNCHANGED <<polling, saved, stops>>
    \/ /\ answer = "Pending" /\ light' = "idle"
       /\ UNCHANGED <<polling, saved, stops>>

Arrive(p) == /\ p.answer # Unanswered /\ polls' = polls \ {p}
             /\ Show(p.answer)
             /\ told' = (told \/ p.answer \in Result)
             /\ struck' = (struck \/ p.task # task)
             /\ early' = IF p.task = task THEN early ELSE early + (stops' - stops)
             /\ UNCHANGED <<service, task, create, starts, given, dropped>>

Lose(p) == /\ polls' = polls \ {p}
           /\ UNCHANGED <<service, task, light, polling, saved, create, starts,
                          stops, history>>

-----------------------------------------------------------------------------
(* The unload handler of main.js stops the polling, and that removes the    *)
(* task from the session; a browser that dies or drops the page does not    *)
(* run it.                                                                  *)
Reload == Loaded(NoId) /\ dropped' = TRUE /\ UNCHANGED <<service, given>>
Reopen == Loaded(saved) /\ dropped' = (dropped \/ struck) /\ UNCHANGED <<service, given>>

Request == \E p \in polls : GetStatus(p) \/ Arrive(p) \/ Lose(p)
Card == \/ HandleSend \/ \E t \in Ids : CreateServed(t)
        \/ Created \/ Resend \/ CreateFails
        \/ StartFires \/ StopFires \/ PollTask \/ Request
        \/ Reload \/ Reopen

CardNext == Card \/ (Service!Next /\ UNCHANGED cardVars)

(* Timers fire; of requests that are repeated some are served, and some     *)
(* answers arrive.                                                          *)
CardFairness == /\ WF_page(StartFires) /\ WF_page(StopFires) /\ WF_page(PollTask)
                /\ SF_page(\E p \in polls : GetStatus(p))
                /\ SF_page(\E p \in polls : Arrive(p))

CardSpec == CardInit /\ [][CardNext]_page /\ CardFairness

-----------------------------------------------------------------------------
CardTypeOK ==
    /\ task \in Ids \cup {NoId} /\ saved \in Ids \cup {NoId}
    /\ light \in {"idle", "downloading", "success", "error"}
    /\ create \in [attempt : 0 .. 2, task : Ids \cup {NoId}]
    /\ starts \in Nat /\ stops \in Nat /\ early \in Nat
    /\ polls \subseteq [task : Ids, answer : Answers \cup {Unanswered}]
    /\ polling \in BOOLEAN /\ told \in BOOLEAN /\ struck \in BOOLEAN
    /\ given \in Ids \cup {NoId} /\ dropped \in BOOLEAN

(* A green light is true: the task it stands for is finished, or was when   *)
(* its row was removed, whatever answers crossed restarts, cleanups and     *)
(* each other; unless an answer about an earlier task has come since.       *)
SuccessIsTrue ==
    light = "success" =>
        \/ struck
        \/ /\ task # NoId /\ phase[task] = "over"
           /\ shown[task] \in {"Finished", "none"}

(* While the service works on the task the tab asked for last, the card     *)
(* shows that task and asks for it, and its key is in the session; also     *)
(* after the browser died or dropped the page and it was opened again       *)
(* (download.js:57-65).  Not so once the page has unloaded in the ordinary  *)
(* way, which removes the key (main.js:36-38), nor when an answer or a stop *)
(* timer of an earlier task came since the task was set (struck), or before *)
(* the page was opened again (dropped).                                     *)
FollowsUnfinished ==
    given # NoId =>
        (phase[given] = "accepted" =>
             \/ struck \/ dropped
             \/ task = given /\ saved = given /\ (polling \/ starts > 0))

(* download.js:57: a page that is loaded restores the unfinished task of    *)
(* the page before.                                                         *)
UnfinishedIsRestored ==
    [][Reload \/ Reopen => (task # NoId => (phase[task] = "accepted" => task' = task))]_page

(* The result of a task is shown in the end, however many requests are      *)
(* lost; unless the user goes on, the row is removed before it was asked    *)
(* for, or something of an earlier task has come.                           *)
ResultIsTold ==
    \A t \in Ids : task = t /\ shown[t] \in Result
                     ~> task # t \/ told \/ shown[t] = "none" \/ struck
=============================================================================

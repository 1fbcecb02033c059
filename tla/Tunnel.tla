-------------------------------- MODULE Tunnel --------------------------------
(***************************************************************************)
(* The public address, from start to stop: the thread that starts cpolar    *)
(* and the one that watches it (src/infrastructure/tunnel/cpolar_tunnel.cpp)*)
(* and main, which serves until a signal comes and then takes the threads   *)
(* down (src/main.cpp).  Both use the CpolarTunnel that main owns: the      *)
(* watcher is detached, and main does not wait for the starter before it    *)
(* destroys the object.  What a thread reads of a destroyed object is       *)
(* anything, and the program may crash.                                     *)
(*                                                                         *)
(* A mail is one step that ends, as SmtpMailer shows of sendAll; mail is    *)
(* configured.  Logger::shutdown returns, but for the wake-up that Logger   *)
(* shows to be lost.  A transfer of the download service may never end      *)
(* (hung).  A sleep is a step that may come at any time.                    *)
(***************************************************************************)
EXTENDS Integers

CONSTANTS Hosts,       \* names cpolar may give the tunnel
          NoUrl,       \* publicUrl_ is empty, or nobody has been told
          Tries,       \* of launchAndCapture, one a second (40)
          MaxMoves,    \* bound: addresses cpolar gives in one run
          MaxSignals   \* bound: SIGINT and SIGTERM

ASSUME TriesAssumption == Tries \in Nat \ {0}

Url == [host : Hosts, secure : BOOLEAN]
HostOf(url) == IF url = NoUrl THEN NoUrl ELSE url.host   \* stripScheme

VARIABLES main,      \* where main is
          serve,     \* running_ of the server
          cleaner,   \* cleanupThread
          starter,   \* cpolarThread
          watcher,   \* monitorThread_
          object,    \* *tunnel: "none", "alive" or "gone"
          running,   \* its running_
          publicUrl, \* its publicUrl_
          tries,     \* launchAndCapture: i
          seen,      \* monitorLoop: url
          cpolar, address,          \* the process is up; what its API tells
          told,                     \* host in the last mail
          moves, signals,
          hung,      \* a transfer never ends
          unready,   \* history: main turned to the tunnel before it was captured
          heeded     \* history: a signal came when running_ had been set

program == <<main, serve, cleaner, starter, watcher>>
tunnel  == <<object, running, publicUrl>>
locals  == <<tries, seen>>
marks   == <<signals, hung, heeded>>
outside == <<cpolar, address, told, moves, unready, marks>>
tunnelVars == <<program, tunnel, locals, outside>>

Unstarted ==
    /\ serve = FALSE /\ cleaner = "asleep" /\ watcher = "none"
    /\ starter \in {"off", "delay"}        \* config.cpolar.enabled, or not
    /\ object = "none" /\ running = FALSE /\ publicUrl = NoUrl
    /\ tries = 0 /\ seen = NoUrl /\ cpolar = FALSE /\ address = NoUrl /\ told = NoUrl
    /\ moves = 0 /\ signals = 0
    /\ hung = FALSE /\ unready = FALSE /\ heeded = FALSE
TunnelInit == main = "starting" /\ Unstarted

Lives == main \notin {"over", "crashed"}
Serving == serve /\ main \in {"waiting", "allocating", "locking"}

(* A read through the pointer to the tunnel.                                *)
Reads(v, member, values) == IF object = "gone" THEN v \in values ELSE v = member

-----------------------------------------------------------------------------
(* start(): running_ = true comes last, and undoes a stop() of before: the   *)
(* loop then spins on the descriptors that stop() has closed.               *)
StartServing == /\ main = "starting" /\ main' = "waiting" /\ serve' = TRUE
                /\ UNCHANGED <<cleaner, starter, watcher, tunnel, locals, outside>>
(* No socket, or none that can be registered.                               *)
StartFails == /\ main = "starting" /\ main' = "joining"
              /\ UNCHANGED <<serve, cleaner, starter, watcher, tunnel, locals, outside>>

(* eventLoop: locking is every place where connMutex_ is held, allocating   *)
(* every one inside malloc or free.                                         *)
Serve == /\ \/ main = "waiting" /\ serve /\ main' \in {"allocating", "locking"}
            \/ main \in {"allocating", "locking"} /\ main' = "waiting"
         /\ UNCHANGED <<serve, cleaner, starter, watcher, tunnel, locals, outside>>

(* The handler runs on main's thread; stop() takes connMutex_ itself, and   *)
(* frees the connections.  Inside malloc it finds the heap locked, or leaves*)
(* it broken, unless it had nothing to free.  Another signal may come while *)
(* it runs: stop() is then called once more.                                *)
Signal == /\ signals < MaxSignals
          /\ signals' = signals + 1
          /\ serve' = FALSE
          /\ \/ main = "starting" /\ main' = "interrupted"
             \/ main = "waiting" /\ main' = "handling"
             \/ main = "joining" /\ main' = "rehandling"
             \/ main \in {"interrupted", "handling", "rehandling"} /\ main' \in {main, "stuck"}
             \/ main = "locking" /\ main' = "stuck"
             \/ main = "allocating" /\ main' \in {"handling", "stuck", "crashed"}
          /\ heeded' = (heeded \/ main \notin {"starting", "interrupted"})
          /\ UNCHANGED <<cleaner, starter, watcher, tunnel, locals,
                         cpolar, address, told, moves, unready, hung>>

EndHandler == /\ \/ main = "interrupted" /\ main' = "starting"
                 \/ main = "handling" /\ main' = "waiting"
                 \/ main = "rehandling" /\ main' = "joining"
              /\ UNCHANGED <<serve, cleaner, starter, watcher, tunnel, locals, outside>>

(* start() returns, and running = false.                                    *)
LeaveLoop == /\ main = "waiting" /\ ~serve /\ main' = "joining"
             /\ UNCHANGED <<serve, cleaner, starter, watcher, tunnel, locals, outside>>

CleanerTurn == /\ \/ /\ cleaner = "asleep"
                     /\ cleaner' = IF main \in {"starting", "interrupted", "waiting",
                                                "allocating", "locking", "handling", "stuck"}
                                   THEN "working" ELSE "done"
                  \/ cleaner = "working" /\ cleaner' = "asleep"
               /\ UNCHANGED <<main, serve, starter, watcher, tunnel, locals, outside>>

(* if (tunnel): the pointer is read while the starter may write it.         *)
Joined == /\ main = "joining" /\ cleaner = "done"
          /\ main' = IF object = "alive" THEN "stops" ELSE "waits"
          /\ unready' = (object = "alive" /\ ~running)
          /\ UNCHANGED <<serve, cleaner, starter, watcher, tunnel, locals,
                         cpolar, address, told, moves, marks>>

(* CpolarTunnel::stop, of which pkill is a part.                            *)
Stop == IF running THEN running' = FALSE /\ cpolar' = FALSE /\ publicUrl' = NoUrl
                   ELSE UNCHANGED <<running, cpolar, publicUrl>>

StopTunnel == /\ main = "stops" /\ main' = "resets" /\ Stop
              /\ UNCHANGED <<serve, cleaner, starter, watcher, object, locals,
                             address, told, moves, marks, unready>>

(* reset: the destructor stops the tunnel.                                  *)
Destroy == IF object = "alive" THEN object' = "gone" /\ Stop
                               ELSE UNCHANGED <<tunnel, cpolar>>

ResetTunnel == /\ main = "resets" /\ main' = "waits" /\ Destroy
               /\ UNCHANGED <<serve, cleaner, starter, watcher, locals,
                              address, told, moves, marks, unready>>

JoinStarter == /\ main = "waits" /\ starter \in {"off", "done"} /\ main' = "leaving"
               /\ UNCHANGED <<serve, cleaner, starter, watcher, tunnel, locals, outside>>

(* Mutant: the destructor does not stop the tunnel.                         *)
LeaveMain == /\ main = "leaving" /\ main' = "closing"
             /\ IF object = "alive" THEN object' = "gone" ELSE UNCHANGED object
             /\ UNCHANGED <<serve, cleaner, starter, watcher, running, publicUrl,
                            locals, outside>>
(* main returns: its locals are destroyed, the tunnel, the server, the pool.*)
ReturnMain == /\ main = "leaving" /\ main' = "closing" /\ Destroy
              /\ UNCHANGED <<serve, cleaner, starter, watcher, locals,
                             address, told, moves, marks, unready>>

(* The destructors of the server and of the download service wait for their *)
(* pools, and a transfer has no timeout.  Whether one hangs matters here    *)
(* alone, whenever it began.                                                *)
Hang == /\ main = "closing" /\ ~hung /\ hung' = TRUE
        /\ UNCHANGED <<program, tunnel, locals,
                       cpolar, address, told, moves, unready, signals, heeded>>
Exit == /\ main = "closing" /\ ~hung /\ main' = "over"
        /\ UNCHANGED <<serve, cleaner, starter, watcher, tunnel, locals, outside>>

-----------------------------------------------------------------------------
(* cpolarThread, after its two seconds: start() may fail on the program or  *)
(* on the token.                                                            *)
MakeTunnel ==
    /\ starter = "delay" /\ Lives
    /\ object' = "alive"
    /\ \/ starter' = "launching" /\ cpolar' = TRUE
       \/ starter' = "failed" /\ UNCHANGED cpolar
    /\ UNCHANGED <<main, serve, cleaner, watcher, running, publicUrl, locals,
                   address, told, moves, marks, unready>>

(* fetchUrlFromApi and fetchUrlFromDashboard.                               *)
Fetched == {NoUrl} \cup (IF cpolar THEN {address} ELSE {})

(* Mutant: it is tried until there is an address.                           *)
CaptureOn ==
    /\ starter = "launching" /\ Lives
    /\ \E url \in Fetched :
          IF url = NoUrl THEN UNCHANGED <<starter, running, publicUrl, tries>>
          ELSE /\ publicUrl' = url /\ running' = TRUE /\ starter' = "telling"
               /\ UNCHANGED tries
    /\ UNCHANGED <<main, serve, cleaner, watcher, object, seen, outside>>
Capture ==
    /\ starter = "launching" /\ Lives
    /\ \E url \in Fetched :
          IF url = NoUrl
          THEN /\ IF tries + 1 < Tries THEN tries' = tries + 1 /\ UNCHANGED starter
                                       ELSE starter' = "failed" /\ UNCHANGED tries
               /\ UNCHANGED <<running, publicUrl>>
          ELSE /\ publicUrl' = url /\ running' = TRUE /\ starter' = "telling"
               /\ UNCHANGED tries
    /\ UNCHANGED <<main, serve, cleaner, watcher, object, seen, outside>>

(* notifyUrl; then the watcher is detached.                                 *)
TellStart ==
    /\ starter = "telling" /\ Lives
    /\ \E url \in Url \cup {NoUrl} :
          Reads(url, publicUrl, Url \cup {NoUrl}) /\ told' = HostOf(url)
    /\ starter' = "done" /\ watcher' = "asleep"
    /\ UNCHANGED <<main, serve, cleaner, tunnel, locals,
                   cpolar, address, moves, marks, unready>>

DropTunnel ==
    /\ starter = "failed" /\ Lives /\ starter' = "done" /\ Destroy
    /\ UNCHANGED <<main, serve, cleaner, watcher, locals,
                   address, told, moves, marks, unready>>

-----------------------------------------------------------------------------
(* monitorLoop: the test of running_ and the fetch.                         *)
Wake == /\ watcher = "asleep" /\ Lives
        /\ \E runs \in BOOLEAN, url \in Fetched :
              /\ Reads(runs, running, BOOLEAN)
              /\ seen' = IF runs THEN url ELSE seen
              /\ watcher' = IF ~runs THEN "ended"
                            ELSE IF url = NoUrl THEN "asleep" ELSE "comparing"
        /\ UNCHANGED <<main, serve, cleaner, starter, tunnel, tries, outside>>

(* Mutant: publicUrl_ is set before it is compared.                         *)
SetFirst == /\ watcher = "comparing" /\ Lives
            /\ publicUrl' = seen /\ watcher' = "asleep"
            /\ UNCHANGED <<main, serve, cleaner, starter, object, running, locals, outside>>
(* Mutant: the scheme counts.                                               *)
CompareAll ==
    /\ watcher = "comparing" /\ Lives
    /\ watcher' = IF seen # publicUrl THEN "telling" ELSE "asleep"
    /\ publicUrl' = seen
    /\ UNCHANGED <<main, serve, cleaner, starter, object, running, locals, outside>>
Compare ==
    /\ watcher = "comparing" /\ Lives
    /\ \E url \in Url \cup {NoUrl} :
          /\ Reads(url, publicUrl, Url \cup {NoUrl})
          /\ watcher' = IF HostOf(seen) # HostOf(url) THEN "telling" ELSE "asleep"
    /\ publicUrl' = seen
    /\ UNCHANGED <<main, serve, cleaner, starter, object, running, locals, outside>>

(* notifyUrl is given a reference to publicUrl_.  The keep-alive request    *)
(* that follows changes nothing.                                            *)
TellChange ==
    /\ watcher = "telling" /\ Lives
    /\ \E url \in Url \cup {NoUrl} :
          Reads(url, publicUrl, Url \cup {NoUrl}) /\ told' = HostOf(url)
    /\ watcher' = "asleep"
    /\ UNCHANGED <<main, serve, cleaner, starter, tunnel, locals,
                   cpolar, address, moves, marks, unready>>

-----------------------------------------------------------------------------
(* cpolar gives the tunnel its first address, or another one, or loses it.  *)
Move == /\ cpolar /\ Lives /\ moves < MaxMoves
        /\ \E url \in (Url \cup {NoUrl}) \ {address} : address' = url
        /\ moves' = moves + 1
        /\ UNCHANGED <<program, tunnel, locals, cpolar, told, marks, unready>>

(* A destroyed tunnel is used, or two threads destroy it at a time.         *)
Misused == \/ object = "gone" /\ \/ starter \in {"launching", "telling"}
                                 \/ watcher \in {"asleep", "comparing", "telling"}
                                 \/ main = "stops"
           \/ object = "alive" /\ main = "resets" /\ starter = "failed"
Crash == /\ Misused /\ Lives /\ main' = "crashed"
         /\ UNCHANGED <<serve, cleaner, starter, watcher, tunnel, locals, outside>>

Starter == MakeTunnel \/ Capture \/ TellStart \/ DropTunnel
Watcher == Wake \/ Compare \/ TellChange
GoOn == \/ StartServing \/ StartFails \/ EndHandler \/ LeaveLoop \/ Joined
        \/ StopTunnel \/ ResetTunnel \/ JoinStarter \/ ReturnMain \/ Exit
TunnelNext == \/ Serve \/ Signal \/ CleanerTurn \/ GoOn \/ Hang
              \/ Starter \/ Watcher \/ Move \/ Crash

(* The threads go on; main leaves malloc and the sections under connMutex_; *)
(* and the API of a tunnel that is up does not fail for ever.  Nothing is   *)
(* assumed of a transfer.                                                   *)
TunnelFairness ==
    /\ WF_tunnelVars(GoOn) /\ WF_tunnelVars(main \in {"allocating", "locking"} /\ Serve)
    /\ WF_tunnelVars(main = "joining" /\ CleanerTurn)
    /\ WF_tunnelVars(Starter) /\ WF_tunnelVars(Watcher)
    /\ SF_tunnelVars(Wake /\ watcher' = "comparing")
TunnelSpec == TunnelInit /\ [][TunnelNext]_tunnelVars /\ TunnelFairness

-----------------------------------------------------------------------------
TunnelTypeOK ==
    /\ main \in {"starting", "interrupted", "waiting", "allocating", "locking", "handling",
                 "rehandling", "stuck", "joining", "stops", "resets", "waits",
                 "leaving", "closing", "over", "crashed"}
    /\ starter \in {"off", "delay", "launching", "telling", "failed", "done"}
    /\ watcher \in {"none", "asleep", "comparing", "telling", "ended"}
    /\ object \in {"none", "alive", "gone"} /\ publicUrl \in Url \cup {NoUrl}
    /\ tries \in 0 .. Tries - 1

(* README.md:14: while the server runs, an address cpolar keeps is mailed,  *)
(* however often it moved before, and whatever was under way when it did.   *)
AddressIsMailed ==
    \A h \in Hosts : Serving /\ running /\ HostOf(address) = h
                        ~> told = h \/ HostOf(address) # h \/ ~Serving

(* A mail that tells of a change tells another host than the last one.      *)
OnlyNewsIsMailed ==
    [][watcher = "telling" /\ watcher' = "asleep" /\ Serving => told' # told]_tunnelVars

(* A signal that comes once running_ is set ends the program, wherever its  *)
(* threads are (main.cpp:351-368), but for two cases.  It came while main,  *)
(* or the handler, held connMutex_ or was inside malloc, and the handler    *)
(* waits for ever (stuck).  Or a transfer hangs, for whose pool main waits  *)
(* when it returns (download_service.cpp:25-27), with all else taken down.  *)
(* A signal of before is undone by running_ = true (epoll_server.cpp:116).  *)
SignalEnds == heeded ~> ~Lives \/ main = "stuck" \/ (main = "closing" /\ hung)

(* cpolar does not outlive the server, unless it gave no address in time,   *)
(* or the signal came before it did.                                        *)
CpolarIsStopped == main = "over" /\ cpolar => unready \/ told = NoUrl
===============================================================================

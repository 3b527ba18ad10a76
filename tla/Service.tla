------------------------------- MODULE Service -------------------------------
(***************************************************************************)
(* ServiceManager of main.py: the start of the service on the main thread, *)
(* and its shutdown, stop_all_services, which a signal handler runs on the *)
(* main thread, whatever that was doing, a web request on a thread of its  *)
(* own, and main itself at the end.  What they start and stop is modelled  *)
(* as far as starting and stopping goes: the data forwarder, the push      *)
(* thread and the listener of src/web.py, the listener of src/ntrip.py.    *)
(*                                                                         *)
(* A signal handler is a frame on top of what the main thread was doing,   *)
(* which goes on when the handler returns.  Locks are not reentrant:       *)
(* shutdown_lock, and the one inside shutdown_event, which wait holds for  *)
(* a moment before it sleeps.                                              *)
(***************************************************************************)
EXTENDS Naturals, Sequences, FiniteSets, SequencesExt

CONSTANTS
    MaxSignals,   \* bound: SIGINT and SIGTERM signals
    MaxFailures   \* bound: cleanup steps that raise

ASSUME ServiceAssumption ==
    MaxSignals \in Nat /\ MaxFailures \in Nat

VARIABLES
    main,      \* where the main thread's program is
    frames,    \* calls of stop_all_services on it, the last one on top
    other,     \* where the call on the web request's thread is
    asked,     \* [signals, request]: how often the shutdown was asked for
    lock,      \* the holder of shutdown_lock
    owner,     \* who claimed the shutdown (shutdown_started)
    started,   \* history: that claim found nothing left of the start
    running,   \* ServiceManager.running
    event,     \* shutdown_event
    complete,  \* shutdown_complete
    raised,    \* cleanup steps that raised
    up,        \* of the forwarder and the push thread, those that run
    web,       \* web_manager: exists, told to stop, the listener's thread
    ntrip      \* ntrip_caster: exists, its thread, server_socket, running,
               \* stopped, thread_pool

stopVars == <<lock, owner, started, event, complete, raised>>
partVars == <<up, web, ntrip>>
serviceVars == <<main, frames, other, asked, running, stopVars, partVars>>

Caller == {"main", "other"}
Cleaning == {"accept", "webRequest", "webWait", "event", "push", "forwarder",
             "caster", "finish"}
(* The steps of the cleanup that _cleanup_component guards, where what they *)
(* leave running matters here.                                              *)
Guarded == {"webRequest", "push", "forwarder", "caster"}

(* Where a caller's call of stop_all_services is, and where it goes. *)
At(p) == IF p = "other" THEN other
         ELSE IF frames = <<>> THEN "none" ELSE Last(frames)

Goto(p, label) ==
    IF p = "other" THEN other' = label /\ UNCHANGED frames
    ELSE frames' = [frames EXCEPT ![Len(frames)] = label] /\ UNCHANGED other

(* Event.wait holds the event's own lock for a moment. *)
EventLocked == main \in {"startEnter", "enter"}

Loop == {"check", "enter", "wait"}

(* Nothing is left of the start: the main thread is past it, the caster's   *)
(* listener is bound or has failed.                                         *)
StartIsOver ==
    /\ main \in Loop \cup {"finally", "leaving"}
    /\ ntrip.thread \notin {"bind", "announce"}

ServiceInit ==
    /\ main = "forwarder" /\ frames = <<>> /\ other = "none"
    /\ asked = [signals |-> 0, request |-> FALSE]
    /\ lock = "free" /\ owner = "nobody" /\ started = FALSE
    /\ running = FALSE /\ event = FALSE /\ complete = FALSE /\ raised = {}
    /\ up = {}
    /\ web = [manager |-> FALSE, requested |-> FALSE, thread |-> "none"]
    /\ ntrip = [caster |-> FALSE, thread |-> "none", socket |-> "none",
                running |-> FALSE, stopped |-> FALSE, pool |-> FALSE]

----------------------------------------------------------------------------
(* start_all_services on the main thread, and main around it. *)

MainGoes(from, to) == main = from /\ frames = <<>> /\ main' = to

StartForwarder ==
    /\ MainGoes("forwarder", "web")
    /\ up' = up \cup {"forwarder"}
    /\ UNCHANGED <<frames, other, asked, running, stopVars, web, ntrip>>

StartWebManager ==
    /\ MainGoes("web", "push")
    /\ web' = [web EXCEPT !.manager = TRUE]
    /\ UNCHANGED <<frames, other, asked, running, stopVars, up, ntrip>>

StartPush ==
    /\ MainGoes("push", "webThread")
    /\ up' = up \cup {"push"}
    /\ UNCHANGED <<frames, other, asked, running, stopVars, web, ntrip>>

StartWebThread ==
    /\ MainGoes("webThread", "caster")
    /\ web' = [web EXCEPT !.thread = "run"]
    /\ UNCHANGED <<frames, other, asked, running, stopVars, up, ntrip>>

MakeCaster ==
    /\ MainGoes("caster", "ntrip")
    /\ ntrip' = [ntrip EXCEPT !.caster = TRUE]
    /\ UNCHANGED <<frames, other, asked, running, stopVars, up, web>>

StartNtripThread ==
    /\ MainGoes("ntrip", "startEnter")
    /\ ntrip' = [ntrip EXCEPT !.thread = "bind"]
    /\ UNCHANGED <<frames, other, asked, running, stopVars, up, web>>

(* shutdown_event.wait(1) *)
StartWait ==
    /\ MainGoes("startEnter", "startWait") \/ MainGoes("startWait", "setRunning")
    /\ UNCHANGED <<frames, other, asked, running, stopVars, partVars>>

SetRunning ==
    /\ MainGoes("setRunning", "check")
    /\ running' = TRUE
    /\ UNCHANGED <<frames, other, asked, stopVars, partVars>>

(* A step of the start raises: the shutdown is run, and main ends. *)
StartFails ==
    /\ main \in {"web", "caster"} /\ frames = <<>>
    /\ main' = "finally"
    /\ frames' = <<"call">>
    /\ UNCHANGED <<other, asked, running, stopVars, partVars>>

(* _main_loop: it ends with running, or with a component it watches. *)
LoopChecks ==
    /\ main = "check" /\ frames = <<>>
    /\ main' = IF running /\ ntrip.running /\ web.thread # "ended"
               THEN "enter" ELSE "finally"
    /\ UNCHANGED <<frames, other, asked, running, stopVars, partVars>>

LoopWaits ==
    /\ MainGoes("enter", "wait") \/ MainGoes("wait", "check")
    /\ UNCHANGED <<frames, other, asked, running, stopVars, partVars>>

(* The finally clause of main. *)
MainStops ==
    /\ MainGoes("finally", "leaving")
    /\ frames' = <<"call">>
    /\ UNCHANGED <<other, asked, running, stopVars, partVars>>

MainExits ==
    /\ MainGoes("leaving", "exited")
    /\ UNCHANGED <<frames, other, asked, running, stopVars, partVars>>

----------------------------------------------------------------------------
(* The threads that were started. *)

(* WebManager.run: make_server may fail; a listener that was made when the  *)
(* stop had been requested is closed at once.                               *)
MakeServer ==
    /\ web.thread = "run"
    /\ \E made \in {"made", "ended"} : web' = [web EXCEPT !.thread = made]
    /\ UNCHANGED <<main, frames, other, asked, running, stopVars, up, ntrip>>

Serve ==
    /\ web.thread = "made"
    /\ web' = [web EXCEPT !.thread = IF web.requested THEN "ended" ELSE "serving"]
    /\ UNCHANGED <<main, frames, other, asked, running, stopVars, up, ntrip>>

(* http_server.shutdown was called. *)
ServingEnds ==
    /\ web.thread = "told"
    /\ web' = [web EXCEPT !.thread = "ended"]
    /\ UNCHANGED <<main, frames, other, asked, running, stopVars, up, ntrip>>

NtripStopped(n) == [n EXCEPT !.running = FALSE, !.socket = "none",
                             !.stopped = TRUE, !.pool = FALSE]

(* NTRIPCaster.start: the socket is bound, or that fails; then running is   *)
(* set, whatever it was, and the pool made.                                 *)
Bind ==
    /\ ntrip.thread = "bind"
    /\ \/ ntrip' = [ntrip EXCEPT !.thread = "announce", !.socket = "open"]
       \/ ntrip' = [IF ntrip.stopped THEN ntrip ELSE NtripStopped(ntrip)
                    EXCEPT !.thread = "ended"]
    /\ UNCHANGED <<main, frames, other, asked, running, stopVars, up, web>>

Announce ==
    /\ ntrip.thread = "announce"
    /\ ntrip' = [ntrip EXCEPT !.thread = "listen", !.running = TRUE, !.pool = TRUE]
    /\ UNCHANGED <<main, frames, other, asked, running, stopVars, up, web>>

ListenerEnds ==
    /\ ntrip.thread = "listen"
    /\ ~ntrip.running \/ ntrip.socket = "none"
    /\ ntrip' = [ntrip EXCEPT !.thread = "ended"]
    /\ UNCHANGED <<main, frames, other, asked, running, stopVars, up, web>>

----------------------------------------------------------------------------
(* Asking for the shutdown. *)

(* The signal handler runs on the main thread, above what that was doing. *)
Signal ==
    /\ main # "exited" /\ asked.signals < MaxSignals
    /\ asked' = [asked EXCEPT !.signals = @ + 1]
    /\ frames' = Append(frames, "call")
    /\ UNCHANGED <<main, other, running, stopVars, partVars>>

(* restart_system starts a thread for it. *)
RequestShutdown ==
    /\ main # "exited" /\ ~asked.request /\ web.thread = "serving"
    /\ asked' = [asked EXCEPT !.request = TRUE]
    /\ other' = "call"
    /\ UNCHANGED <<main, frames, running, stopVars, partVars>>

----------------------------------------------------------------------------
(* stop_all_services, called on thread p. *)

EnterLock(p) ==
    /\ At(p) = "call" /\ lock = "free"
    /\ lock' = p
    /\ Goto(p, "locked")
    /\ UNCHANGED <<main, asked, running, owner, started, event, complete, raised, partVars>>

(* Mutant: whoever comes claims the shutdown. *)
ClaimAlways(p) ==
    /\ At(p) = "locked"
    /\ owner' = p /\ started' = StartIsOver /\ Goto(p, "accept")
    /\ lock' = "free"
    /\ UNCHANGED <<main, asked, running, event, complete, raised, partVars>>

(* Mutant: the lock is kept by whoever claims the shutdown. *)
ClaimKeepsLock(p) ==
    /\ At(p) = "locked"
    /\ \/ owner = "nobody" /\ owner' = p /\ started' = StartIsOver
          /\ Goto(p, "accept") /\ UNCHANGED lock
       \/ owner = p /\ UNCHANGED <<owner, started>> /\ Goto(p, "return") /\ lock' = "free"
       \/ owner \notin {"nobody", p} /\ UNCHANGED <<owner, started>> /\ Goto(p, "await") /\ lock' = "free"
    /\ UNCHANGED <<main, asked, running, event, complete, raised, partVars>>

(* The first call claims the shutdown. *)
Claim(p) ==
    /\ At(p) = "locked"
    /\ lock' = "free"
    /\ \/ owner = "nobody" /\ owner' = p /\ started' = StartIsOver /\ Goto(p, "accept")
       \/ owner = p /\ UNCHANGED <<owner, started>> /\ Goto(p, "return")
       \/ owner \notin {"nobody", p} /\ UNCHANGED <<owner, started>> /\ Goto(p, "await")
    /\ UNCHANGED <<main, asked, running, event, complete, raised, partVars>>

(* Another thread's shutdown is waited for, thirty seconds at most. *)
AwaitOwner(p) ==
    /\ At(p) = "await"
    /\ Goto(p, "return")
    /\ UNCHANGED <<main, asked, running, stopVars, partVars>>

Return(p) ==
    /\ At(p) = "return"
    /\ IF p = "other" THEN other' = "done" /\ UNCHANGED frames
       ELSE frames' = Front(frames) /\ UNCHANGED other
    /\ UNCHANGED <<main, asked, running, stopVars, partVars>>

(* 1. stop_accepting, if there is a caster. *)
StopAccepting(p) ==
    /\ At(p) = "accept"
    /\ running' = FALSE
    /\ ntrip' = IF ntrip.caster
                THEN [ntrip EXCEPT !.running = FALSE, !.socket = "none"] ELSE ntrip
    /\ Goto(p, "webRequest")
    /\ UNCHANGED <<main, asked, stopVars, up, web>>

(* 2. stop_web_server, if there is a manager: a listener that serves is     *)
(* told, and its end is waited for.                                         *)
StopWebServer(p) ==
    /\ At(p) = "webRequest"
    /\ web' = IF ~web.manager THEN web
              ELSE [web EXCEPT !.requested = TRUE,
                        !.thread = IF @ = "serving" THEN "told" ELSE @]
    /\ Goto(p, IF web.manager /\ web.thread = "serving" THEN "webWait" ELSE "event")
    /\ UNCHANGED <<main, asked, running, stopVars, up, ntrip>>

StopWebWaits(p) ==
    /\ At(p) = "webWait" /\ web.thread = "ended"
    /\ Goto(p, "event")
    /\ UNCHANGED <<main, asked, running, stopVars, partVars>>

(* 3. shutdown_event.set, the push thread, the forwarder. *)
SetEvent(p) ==
    /\ At(p) = "event" /\ ~EventLocked
    /\ event' = TRUE
    /\ Goto(p, "push")
    /\ UNCHANGED <<main, asked, running, lock, owner, started, complete, raised, partVars>>

StopPush(p) ==
    /\ At(p) = "push"
    /\ up' = IF web.manager THEN up \ {"push"} ELSE up
    /\ Goto(p, "forwarder")
    /\ UNCHANGED <<main, asked, running, stopVars, web, ntrip>>

StopForwarder(p) ==
    /\ At(p) = "forwarder"
    /\ up' = up \ {"forwarder"}
    /\ Goto(p, "caster")
    /\ UNCHANGED <<main, asked, running, stopVars, web, ntrip>>

(* 5. NTRIPCaster.stop; step 4, the sockets, is CasterPool's. *)
StopCaster(p) ==
    /\ At(p) = "caster"
    /\ ntrip' = IF ntrip.caster /\ ~ntrip.stopped THEN NtripStopped(ntrip) ELSE ntrip
    /\ Goto(p, "finish")
    /\ UNCHANGED <<main, asked, running, stopVars, up, web>>

(* The threads are waited for, for a limited time. *)
Finish(p) ==
    /\ At(p) = "finish"
    /\ complete' = TRUE
    /\ Goto(p, "return")
    /\ UNCHANGED <<main, asked, running, lock, owner, started, event, raised, partVars>>

After(step) ==
    CASE step = "webRequest" -> "event" [] step = "push" -> "forwarder"
      [] step = "forwarder" -> "caster" [] step = "caster" -> "finish"

(* Mutant: what raises ends the whole shutdown. *)
CleanupRaisesThrough(p) ==
    /\ At(p) \in Guarded
    /\ Cardinality(raised) < MaxFailures
    /\ raised' = raised \cup {At(p)}
    /\ Goto(p, "finish")
    /\ UNCHANGED <<main, asked, running, lock, owner, started, event, complete, partVars>>

(* _cleanup_component: one that raises does not keep the rest from running. *)
CleanupRaises(p) ==
    /\ At(p) \in Guarded
    /\ Cardinality(raised) < MaxFailures
    /\ raised' = raised \cup {At(p)}
    /\ Goto(p, After(At(p)))
    /\ UNCHANGED <<main, asked, running, lock, owner, started, event, complete, partVars>>

StopStep(p) ==
    \/ EnterLock(p) \/ Claim(p) \/ AwaitOwner(p) \/ Return(p)
    \/ StopAccepting(p) \/ StopWebServer(p) \/ StopWebWaits(p) \/ SetEvent(p)
    \/ StopPush(p) \/ StopForwarder(p) \/ StopCaster(p) \/ Finish(p)

MainStep ==
    \/ StartForwarder \/ StartWebManager \/ StartPush \/ StartWebThread
    \/ MakeCaster \/ StartNtripThread \/ StartWait \/ SetRunning
    \/ LoopChecks \/ LoopWaits \/ MainStops \/ MainExits

WebStep == MakeServer \/ Serve \/ ServingEnds
NtripStep == Bind \/ Announce \/ ListenerEnds

ServiceNext ==
    \/ MainStep \/ StartFails \/ WebStep \/ NtripStep
    \/ Signal \/ RequestShutdown
    \/ \E p \in Caller : StopStep(p) \/ CleanupRaises(p)

ServiceSpec == ServiceInit /\ [][ServiceNext]_serviceVars

(* The threads run.  The main thread is at its program or its top frame.    *)
ServiceFairSpec ==
    /\ ServiceSpec
    /\ WF_serviceVars(MainStep) /\ WF_serviceVars(WebStep) /\ WF_serviceVars(NtripStep)
    /\ \A p \in Caller : WF_serviceVars(StopStep(p))
----------------------------------------------------------------------------
ServiceTypeOK ==
    /\ main \in {"forwarder", "web", "push", "webThread", "caster", "ntrip",
                 "startEnter", "startWait", "setRunning", "finally", "leaving",
                 "exited"} \cup Loop
    /\ frames \in Seq({"call", "locked", "await", "return"} \cup Cleaning)
    /\ other \in {"none", "call", "locked", "await", "return", "done"} \cup Cleaning
    /\ asked \in [signals : 0..MaxSignals, request : BOOLEAN]
    /\ lock \in {"free"} \cup Caller /\ owner \in {"nobody"} \cup Caller
    /\ started \in BOOLEAN
    /\ running \in BOOLEAN /\ event \in BOOLEAN /\ complete \in BOOLEAN
    /\ raised \in SUBSET Guarded
    /\ up \in SUBSET {"forwarder", "push"}
    /\ web \in [manager : BOOLEAN, requested : BOOLEAN,
                thread : {"none", "run", "made", "serving", "told", "ended"}]
    /\ ntrip \in [caster : BOOLEAN, thread : {"none", "bind", "announce", "listen", "ended"},
                  socket : {"none", "open"}, running : BOOLEAN, stopped : BOOLEAN,
                  pool : BOOLEAN]

(* However many signals come, nested in one another or beside the web       *)
(* request, one call cleans up, and none does so again when it is done.     *)
CleanedOnce ==
    LET cleaners == {i \in DOMAIN frames : frames[i] \in Cleaning}
    IN  /\ Cardinality(cleaners) + (IF other \in Cleaning THEN 1 ELSE 0)
              <= (IF complete THEN 0 ELSE 1)
        /\ complete \/ cleaners # {} \/ other \in Cleaning \/ owner = "nobody"

(* A shutdown that begins when the start is over stops each part whose own  *)
(* stop does not raise, whichever other part's does (_cleanup_component).   *)
OnlyRaisersStayUp ==
    complete /\ started =>
        /\ "push" \in up => "push" \in raised
        /\ "forwarder" \in up => "forwarder" \in raised
        /\ web.thread = "serving" => "webRequest" \in raised
        /\ ntrip.socket = "none" /\ ~ntrip.running
        /\ ntrip.pool => "caster" \in raised

(* A shutdown that begins when the start is over ends the program, unless a *)
(* signal comes: its handler may wait for ever for a lock of its own thread.*)
ShutdownEnds ==
    owner # "nobody" /\ started ~> main = "exited" \/ asked.signals > 0
=============================================================================

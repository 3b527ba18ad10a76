----------------------------- MODULE CasterPool -----------------------------
(***************************************************************************)
(* NTRIPCaster in src/ntrip.py: the listener thread accepts connections    *)
(* and queues them, the connection handler thread takes them out and       *)
(* submits them to the thread pool, a worker serves each and closes it.    *)
(* client_sockets lists the accepted sockets for the shutdown, which       *)
(* main.py's ServiceManager drives: stop_accepting and                     *)
(* close_client_connections first, then stop, which does both again.       *)
(* The thread pool and the queue are Python's; the pool takes its pending  *)
(* tasks in any order here.                                                *)
(***************************************************************************)
EXTENDS Integers, Sequences, FiniteSets

CONSTANTS
    Session,         \* connections that clients make
    NoOne,           \* no connection
    MaxConnections,  \* MAX_CONNECTIONS
    MaxWorkers,      \* MAX_WORKERS
    QueueSize        \* CONNECTION_QUEUE_SIZE

ASSUME PoolAssumption ==
    /\ NoOne \notin Session
    /\ {MaxConnections, MaxWorkers, QueueSize} \subseteq Nat \ {0}

VARIABLES
    running,     \* the flag both threads look at
    sock,        \* of a connection: none, open, closed
    registered,  \* client_sockets
    listener,    \* the listener thread: its step and the connection it holds
    queue,       \* connection_queue
    dispatcher,  \* the connection handler thread, likewise
    poolUp,      \* the pool takes tasks
    task,        \* of a connection: none, pending, serving, leaving (counted
                 \* off), done, cancelled
    active,      \* active_connections
    stop         \* the shutdown: its step and the sockets it has still to close

poolVars == <<running, sock, registered, listener, queue, dispatcher, poolUp,
          task, active, stop>>

Thread(step, s) == [step |-> step, conn |-> s]
Close(s) == sock' = [sock EXCEPT ![s] = "closed"]
Unregister(s) == registered' = registered \ {s}

PoolInit ==
    /\ running = TRUE
    /\ sock = [s \in Session |-> "none"]
    /\ registered = {}
    /\ listener = Thread("accept", NoOne)
    /\ queue = <<>>
    /\ dispatcher = Thread("get", NoOne)
    /\ poolUp = TRUE
    /\ task = [s \in Session |-> "none"]
    /\ active = 0
    /\ stop = [step |-> "run", left |-> {}]

----------------------------------------------------------------------------
(* The listener thread. *)

(* accept succeeds as long as the listening socket is open. *)
Accept(s) ==
    /\ listener.step = "accept" /\ running
    /\ sock[s] = "none"
    /\ sock' = [sock EXCEPT ![s] = "open"]
    /\ listener' = Thread("register", s)
    /\ UNCHANGED <<running, registered, queue, dispatcher, poolUp, task, active, stop>>

RegisterSocket ==
    /\ listener.step = "register"
    /\ registered' = registered \cup {listener.conn}
    /\ listener' = Thread("check", listener.conn)
    /\ UNCHANGED <<running, sock, queue, dispatcher, poolUp, task, active, stop>>

(* Mutant: the limit is reported and the connection taken all the same. *)
CheckLimitLets ==
    /\ listener.step = "check"
    /\ listener' = Thread("put", listener.conn)
    /\ UNCHANGED <<running, sock, registered, queue, dispatcher, poolUp, task, active, stop>>

(* The connection limit: looked at, and refused, under connection_lock. *)
CheckLimit ==
    /\ listener.step = "check"
    /\ IF active >= MaxConnections
       THEN /\ Close(listener.conn) /\ Unregister(listener.conn)
            /\ listener' = Thread("accept", NoOne)
       ELSE /\ listener' = Thread("put", listener.conn)
            /\ UNCHANGED <<sock, registered>>
    /\ UNCHANGED <<running, queue, dispatcher, poolUp, task, active, stop>>

PutQueued ==
    /\ listener.step = "put" /\ Len(queue) < QueueSize
    /\ queue' = Append(queue, listener.conn)
    /\ listener' = Thread("accept", NoOne)
    /\ UNCHANGED <<running, sock, registered, dispatcher, poolUp, task, active, stop>>

(* Mutant: the refused socket is forgotten and stays open. *)
PutFullForgets ==
    /\ listener.step = "put" /\ Len(queue) = QueueSize
    /\ Unregister(listener.conn)
    /\ listener' = Thread("accept", NoOne)
    /\ UNCHANGED <<running, sock, queue, dispatcher, poolUp, task, active, stop>>

(* The queue stays full for a second. *)
PutFull ==
    /\ listener.step = "put" /\ Len(queue) = QueueSize
    /\ Close(listener.conn) /\ Unregister(listener.conn)
    /\ listener' = Thread("accept", NoOne)
    /\ UNCHANGED <<running, queue, dispatcher, poolUp, task, active, stop>>

(* The loop sees running, or accept fails on the closed listening socket. *)
ListenerEnds ==
    /\ listener.step = "accept" /\ ~running
    /\ listener' = Thread("ended", NoOne)
    /\ UNCHANGED <<running, sock, registered, queue, dispatcher, poolUp, task, active, stop>>

----------------------------------------------------------------------------
(* The connection handler thread. *)

(* It may be inside get when running is cleared. *)
Get ==
    /\ dispatcher.step = "get" /\ queue # <<>>
    /\ dispatcher' = Thread("submit", Head(queue))
    /\ queue' = Tail(queue)
    /\ UNCHANGED <<running, sock, registered, listener, poolUp, task, active, stop>>

(* A pool that is gone raises; the connection is then closed. *)
Submit ==
    /\ dispatcher.step = "submit"
    /\ IF poolUp
       THEN /\ task' = [task EXCEPT ![dispatcher.conn] = "pending"]
            /\ dispatcher' = Thread("count", dispatcher.conn)
            /\ UNCHANGED <<sock, registered>>
       ELSE /\ Close(dispatcher.conn) /\ Unregister(dispatcher.conn)
            /\ dispatcher' = Thread("loop", NoOne)
            /\ UNCHANGED task
    /\ UNCHANGED <<running, listener, queue, poolUp, active, stop>>

(* Counted only after the submission: the worker may have counted it off.   *)
Count ==
    /\ dispatcher.step = "count"
    /\ active' = active + 1
    /\ dispatcher' = Thread("loop", NoOne)
    /\ UNCHANGED <<running, sock, registered, listener, queue, poolUp, task, stop>>

(* Mutant: the loop does not look at running. *)
DispatcherLoopsForever ==
    /\ \/ dispatcher.step = "loop"
       \/ dispatcher.step = "get" /\ queue = <<>>
    /\ dispatcher' = Thread("get", NoOne)
    /\ UNCHANGED <<running, sock, registered, listener, queue, poolUp, task, active, stop>>

(* The loop goes on while running; get gives up on an empty queue after a   *)
(* second.                                                                  *)
DispatcherLoops ==
    /\ \/ dispatcher.step = "loop"
       \/ dispatcher.step = "get" /\ queue = <<>>
    /\ dispatcher' = Thread(IF running THEN "get" ELSE "ended", NoOne)
    /\ UNCHANGED <<running, sock, registered, listener, queue, poolUp, task, active, stop>>

----------------------------------------------------------------------------
(* The workers. *)

StartTask(s) ==
    /\ task[s] = "pending"
    /\ Cardinality({t \in Session : task[t] \in {"serving", "leaving"}}) < MaxWorkers
    /\ task' = [task EXCEPT ![s] = "serving"]
    /\ UNCHANGED <<running, sock, registered, listener, queue, dispatcher, poolUp, active, stop>>

(* Mutant: a worker that fails is not counted off. *)
HandlerReturnsUncounted(s) ==
    /\ task[s] = "serving"
    /\ active' = IF sock[s] = "closed" THEN active ELSE active - 1
    /\ task' = [task EXCEPT ![s] = "leaving"]
    /\ UNCHANGED <<running, sock, registered, listener, queue, dispatcher, poolUp, stop>>

(* The handler has returned, for whatever reason: counted off first, ... *)
HandlerReturns(s) ==
    /\ task[s] = "serving"
    /\ active' = active - 1
    /\ task' = [task EXCEPT ![s] = "leaving"]
    /\ UNCHANGED <<running, sock, registered, listener, queue, dispatcher, poolUp, stop>>

(* ... then closed and unregistered. *)
WorkerCloses(s) ==
    /\ task[s] = "leaving"
    /\ Close(s) /\ Unregister(s)
    /\ task' = [task EXCEPT ![s] = "done"]
    /\ UNCHANGED <<running, listener, queue, dispatcher, poolUp, active, stop>>

----------------------------------------------------------------------------
(* The shutdown. *)

StopAccepting ==
    /\ stop.step = "run"
    /\ running' = FALSE
    /\ stop' = [stop EXCEPT !.step = "accepting"]
    /\ UNCHANGED <<sock, registered, listener, queue, dispatcher, poolUp, task, active>>

(* close_client_connections takes the list and empties it, twice in all. *)
CloseClientConnections ==
    /\ stop.step \in {"accepting", "closing"} /\ stop.left = {}
    /\ stop' = [step |-> IF stop.step = "accepting" THEN "closing" ELSE "again",
                left |-> registered]
    /\ registered' = {}
    /\ UNCHANGED <<running, sock, listener, queue, dispatcher, poolUp, task, active>>

CloseClient(s) ==
    /\ s \in stop.left
    /\ Close(s)
    /\ stop' = [stop EXCEPT !.left = @ \ {s}]
    /\ UNCHANGED <<running, registered, listener, queue, dispatcher, poolUp, task, active>>

(* _close_queued_connections: what is registered in the queue is closed. *)
DrainQueue ==
    /\ stop.step = "again" /\ stop.left = {}
    /\ IF queue = <<>>
       THEN /\ stop' = [stop EXCEPT !.step = "joining"]
            /\ UNCHANGED <<queue, sock, registered>>
       ELSE /\ queue' = Tail(queue)
            /\ IF Head(queue) \in registered THEN Close(Head(queue)) ELSE UNCHANGED sock
            /\ Unregister(Head(queue))
            /\ UNCHANGED stop
    /\ UNCHANGED <<running, listener, dispatcher, poolUp, task, active>>

(* The connection handler thread is waited for, for a limited time; then    *)
(* the pool stops taking tasks and cancels the pending ones.                *)
ShutdownPool ==
    /\ stop.step = "joining"
    /\ poolUp' = FALSE
    /\ task' = [s \in Session |-> IF task[s] = "pending" THEN "cancelled" ELSE task[s]]
    /\ stop' = [stop EXCEPT !.step = "stopped"]
    /\ UNCHANGED <<running, sock, registered, listener, queue, dispatcher, active>>

StopStep ==
    CloseClientConnections \/ (\E s \in Session : CloseClient(s))
                           \/ DrainQueue \/ ShutdownPool

----------------------------------------------------------------------------
ListenerStep ==
    RegisterSocket \/ CheckLimit \/ PutQueued \/ PutFull \/ ListenerEnds

DispatcherStep == Get \/ Submit \/ Count \/ DispatcherLoops

PoolNext ==
    \/ \E s \in Session : \/ Accept(s) \/ StartTask(s)
                         \/ HandlerReturns(s) \/ WorkerCloses(s)
    \/ ListenerStep \/ DispatcherStep
    \/ StopAccepting \/ StopStep

PoolSpec == PoolInit /\ [][PoolNext]_poolVars

(* The threads run; nothing is assumed of when a handler returns, except    *)
(* that it does so once its socket is closed.                               *)
PoolFairSpec ==
    /\ PoolSpec
    /\ WF_poolVars(ListenerStep) /\ WF_poolVars(DispatcherStep) /\ WF_poolVars(StopStep)
    /\ \A s \in Session : /\ WF_poolVars(StartTask(s)) /\ WF_poolVars(WorkerCloses(s))
                          /\ WF_poolVars(sock[s] = "closed" /\ HandlerReturns(s))
----------------------------------------------------------------------------
PoolTypeOK ==
    /\ running \in BOOLEAN /\ poolUp \in BOOLEAN
    /\ sock \in [Session -> {"none", "open", "closed"}]
    /\ registered \in SUBSET Session
    /\ listener \in [step : {"accept", "register", "check", "put", "ended"},
                     conn : Session \cup {NoOne}]
    /\ queue \in Seq(Session) /\ Len(queue) <= QueueSize
    /\ dispatcher \in [step : {"get", "submit", "count", "loop", "ended"},
                       conn : Session \cup {NoOne}]
    /\ task \in [Session -> {"none", "pending", "serving", "leaving", "done", "cancelled"}]
    /\ active \in Int
    /\ stop \in [step : {"run", "accepting", "closing", "again", "joining", "stopped"},
                 left : SUBSET Session]

(* active_connections is the number of tasks that are not over, up to the   *)
(* one the dispatcher has submitted and not counted; while that one is out, *)
(* the number can be -1.  Whatever the pool refuses or a worker runs into,  *)
(* the limit is compared with a number that does not drift.                 *)
Unfinished == {s \in Session : task[s] \in {"pending", "serving", "cancelled"}}
CountDoesNotDrift ==
    active = Cardinality(Unfinished) - (IF dispatcher.step = "count" THEN 1 ELSE 0)

(* While the service runs, an accepted connection that is open is known to  *)
(* client_sockets from its registration on, so that the shutdown closes it. *)
OpenSocketIsRegistered ==
    \A s \in Session :
        sock[s] = "open" /\ stop.step \in {"run", "accepting"}
        /\ listener # Thread("register", s) => s \in registered

(* A shutdown ends: both threads stop, and so does every worker whose       *)
(* socket was closed.                                                       *)
StopEnds ==
    stop.step # "run" ~>
        /\ stop.step = "stopped" /\ listener.step = "ended" /\ dispatcher.step = "ended"
        /\ \A s \in Session : sock[s] = "closed" =>
              task[s] \in {"none", "done", "cancelled"}

(* MAX_CONNECTIONS is compared with a number that leaves out what is queued *)
(* or being submitted: it is exceeded by those at most, one at the          *)
(* listener, one at the dispatcher and a full queue.                        *)
ActiveIsBounded == active <= MaxConnections + QueueSize + 1
=============================================================================

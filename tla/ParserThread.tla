---------------------------- MODULE ParserThread ----------------------------
(***************************************************************************)
(* RTCMParserThread of src/rtcm2.py beside the upload handler it listens   *)
(* to: the start that the handler waits for, the subscription in           *)
(* src/forwarder.py under subscriber_lock, and the socket pair in between. *)
(*                                                                         *)
(* _send_to_subscribers sends with subscriber_lock held and blocks when    *)
(* the pair is full; the thread needs the same lock to unsubscribe.  A     *)
(* time-out of the buffered stream on the pair is final: every later read  *)
(* raises, the loop takes that for another time-out and goes on (deaf).    *)
(***************************************************************************)
EXTENDS Naturals, FiniteSets

CONSTANTS
    Mount,      \* mount points, each with its source and one parser thread
    Free,       \* subscriber_lock is held by nobody, or a mount point's source
    PipeSize,   \* chunks the socket pair takes
    MaxChunks   \* bound: [Mount -> Nat], chunks each source uploads

ASSUME ParserThreadAssumption ==
    Free \notin Mount /\ PipeSize \in Nat \ {0} /\ MaxChunks \in [Mount -> Nat]

VARIABLES
    thread,      \* where the parser thread is
    running,     \* its running event
    startup,     \* _startup_state
    stopping,    \* a call of stop: no, cleared (running), done
    subscribed,  \* mount points whose parser is in the forwarder's subscribers
    pipe,        \* chunks in the socket pair
    handler,     \* where the upload handler is
    told,        \* what wait_for_startup told it
    sent,        \* chunks it has uploaded
    reached,     \* those among them that went to the parser
    lock         \* the holder of subscriber_lock, while it sends

threadVars == <<thread, running, startup, stopping, subscribed>>
handlerVars == <<handler, told, sent, reached, lock>>
vars == <<threadVars, pipe, handlerVars>>

At(m, label) == thread' = [thread EXCEPT ![m] = label]
Looping == {"reading", "deaf"}

(* _complete_startup: only the first of all calls has an effect. *)
Complete(m, state) ==
    startup' = [startup EXCEPT ![m] = IF @ = "pending" THEN state ELSE @]

Init ==
    /\ thread = [m \in Mount |-> "none"]
    /\ running = [m \in Mount |-> TRUE]
    /\ startup = [m \in Mount |-> "pending"]
    /\ stopping = [m \in Mount |-> "no"]
    /\ subscribed = {}
    /\ pipe = [m \in Mount |-> 0]
    /\ handler = [m \in Mount |-> "accepted"]
    /\ told = [m \in Mount |-> "nothing"]
    /\ sent = [m \in Mount |-> 0]
    /\ reached = [m \in Mount |-> 0]
    /\ lock = Free

----------------------------------------------------------------------------
(* The upload handler. *)

(* start_parser succeeds in making the thread, or does not. *)
StartParser(m) ==
    /\ handler[m] = "accepted"
    /\ handler' = [handler EXCEPT ![m] = "waiting"]
    /\ \/ At(m, "new") /\ UNCHANGED startup
       \/ Complete(m, "failed") /\ UNCHANGED thread
    /\ UNCHANGED <<running, stopping, subscribed, pipe, told, sent, reached, lock>>

(* Without an STR correction the handler receives at once. *)
AcceptOnly(m) ==
    /\ handler[m] = "accepted"
    /\ handler' = [handler EXCEPT ![m] = "recv"]
    /\ UNCHANGED <<threadVars, pipe, told, sent, reached, lock>>

(* start_web_parser, for a page that looks at a mount point which has no    *)
(* correction; who gets the slot of both is ParserManager's subject.        *)
StartWeb(m) ==
    /\ handler[m] # "accepted" /\ thread[m] = "none" /\ startup[m] = "pending"
    /\ At(m, "new")
    /\ UNCHANGED <<running, startup, stopping, subscribed, pipe, handlerVars>>

(* wait_for_startup, with the handler's time-out. *)
WaitForStartup(m) ==
    /\ handler[m] = "waiting"
    /\ told' = [told EXCEPT ![m] = IF startup[m] = "pending" THEN "timeout" ELSE startup[m]]
    /\ handler' = [handler EXCEPT ![m] = "recv"]
    /\ UNCHANGED <<threadVars, pipe, sent, reached, lock>>

(* A chunk has come, upload_data has put it in the mount buffer. *)
Upload(m) ==
    /\ handler[m] = "recv" /\ sent[m] < MaxChunks[m]
    /\ handler' = [handler EXCEPT ![m] = "deliver"]
    /\ UNCHANGED <<threadVars, pipe, told, sent, reached, lock>>

TakeLock(m) ==
    /\ handler[m] = "deliver" /\ lock = Free
    /\ lock' = m
    /\ handler' = [handler EXCEPT ![m] = "sending"]
    /\ UNCHANGED <<threadVars, pipe, told, sent, reached>>

(* _send_to_subscribers; a full pair blocks the sender. *)
Deliver(m) ==
    /\ handler[m] = "sending"
    /\ IF m \in subscribed
       THEN /\ pipe[m] < PipeSize
            /\ pipe' = [pipe EXCEPT ![m] = @ + 1]
            /\ reached' = [reached EXCEPT ![m] = @ + 1]
       ELSE UNCHANGED <<pipe, reached>>
    /\ sent' = [sent EXCEPT ![m] = @ + 1]
    /\ lock' = Free
    /\ handler' = [handler EXCEPT ![m] = "recv"]
    /\ UNCHANGED <<threadVars, told>>

----------------------------------------------------------------------------
(* The parser thread. *)

(* run looks at running, makes the stream and the reader, which may fail,   *)
(* and looks again.                                                         *)
MakeReader(m) ==
    /\ thread[m] = "new"
    /\ \/ running[m] /\ At(m, "built") /\ UNCHANGED startup
       \/ running[m] /\ At(m, "closing") /\ Complete(m, "failed")
       \/ ~running[m] /\ At(m, "closing") /\ Complete(m, "stopped")
    /\ UNCHANGED <<running, stopping, subscribed, pipe, handlerVars>>

CheckRunning(m) ==
    /\ thread[m] = "built"
    /\ \/ running[m] /\ At(m, "subscribing") /\ UNCHANGED startup
       \/ ~running[m] /\ At(m, "closing") /\ Complete(m, "stopped")
    /\ UNCHANGED <<running, stopping, subscribed, pipe, handlerVars>>

(* Mutant: the start is announced before the subscription. *)
SubscribeAnnounced(m) ==
    /\ thread[m] = "subscribing" /\ lock = Free
    /\ IF startup[m] = "pending"
       THEN Complete(m, "ready") /\ UNCHANGED <<thread, subscribed>>
       ELSE /\ subscribed' = subscribed \cup {m} /\ At(m, "reading")
            /\ UNCHANGED startup
    /\ UNCHANGED <<running, stopping, pipe, handlerVars>>

Subscribe(m) ==
    /\ thread[m] = "subscribing" /\ lock = Free
    /\ subscribed' = subscribed \cup {m}
    /\ At(m, "subscribed")
    /\ UNCHANGED <<running, startup, stopping, pipe, handlerVars>>

(* Mutant: a thread stopped just now ends without unsubscribing. *)
AnnounceOrClose(m) ==
    /\ thread[m] = "subscribed"
    /\ Complete(m, "ready")
    /\ At(m, IF startup[m] = "pending" THEN "reading" ELSE "closing")
    /\ UNCHANGED <<running, stopping, subscribed, pipe, handlerVars>>

(* Ready, unless stop came first; then the thread ends. *)
AnnounceReady(m) ==
    /\ thread[m] = "subscribed"
    /\ Complete(m, "ready")
    /\ At(m, IF startup[m] = "pending" THEN "reading" ELSE "leaving")
    /\ UNCHANGED <<running, stopping, subscribed, pipe, handlerVars>>

Read(m) ==
    /\ thread[m] = "reading" /\ pipe[m] > 0
    /\ pipe' = [pipe EXCEPT ![m] = @ - 1]
    /\ UNCHANGED <<threadVars, handlerVars>>

(* Nothing came for five seconds: no read of this stream succeeds again. *)
Silence(m) ==
    /\ thread[m] = "reading" /\ pipe[m] = 0
    /\ At(m, "deaf")
    /\ UNCHANGED <<running, startup, stopping, subscribed, pipe, handlerVars>>

(* The duration of an STR correction is over. *)
DurationOver(m) ==
    /\ thread[m] \in Looping
    /\ At(m, "leaving")
    /\ UNCHANGED <<running, startup, stopping, subscribed, pipe, handlerVars>>

LoopEnds(m) ==
    /\ thread[m] \in Looping /\ ~running[m]
    /\ At(m, "leaving")
    /\ UNCHANGED <<running, startup, stopping, subscribed, pipe, handlerVars>>

Unsubscribe(m) ==
    /\ thread[m] = "leaving" /\ lock = Free
    /\ subscribed' = subscribed \ {m}
    /\ At(m, "closing")
    /\ UNCHANGED <<running, startup, stopping, pipe, handlerVars>>

ClosePair(m) ==
    /\ thread[m] = "closing"
    /\ At(m, "ended")
    /\ UNCHANGED <<running, startup, stopping, subscribed, pipe, handlerVars>>

----------------------------------------------------------------------------
(* stop, called by the parser manager. *)

StopClears(m) ==
    /\ thread[m] # "none" /\ stopping[m] = "no"
    /\ running' = [running EXCEPT ![m] = FALSE]
    /\ stopping' = [stopping EXCEPT ![m] = "cleared"]
    /\ UNCHANGED <<thread, startup, subscribed, pipe, handlerVars>>

StopCompletes(m) ==
    /\ stopping[m] = "cleared"
    /\ Complete(m, "stopped")
    /\ stopping' = [stopping EXCEPT ![m] = "done"]
    /\ UNCHANGED <<thread, running, subscribed, pipe, handlerVars>>

----------------------------------------------------------------------------
Starting(m) == MakeReader(m) \/ CheckRunning(m) \/ Subscribe(m) \/ AnnounceReady(m)
Ending(m) == Unsubscribe(m) \/ ClosePair(m)
ThreadStep(m) == Starting(m) \/ Read(m) \/ LoopEnds(m) \/ Ending(m)

HandlerStep(m) ==
    StartParser(m) \/ AcceptOnly(m) \/ WaitForStartup(m) \/ TakeLock(m) \/ Deliver(m)

Next ==
    \E m \in Mount :
        \/ ThreadStep(m) \/ Silence(m) \/ DurationOver(m)
        \/ HandlerStep(m) \/ StartWeb(m) \/ Upload(m)
        \/ StopClears(m) \/ StopCompletes(m)

Spec == Init /\ [][Next]_vars

(* Threads that can run do run, and get a lock that is free again and again. *)
FairSpec ==
    Spec /\ \A m \in Mount : SF_vars(ThreadStep(m)) /\ SF_vars(HandlerStep(m))
----------------------------------------------------------------------------
TypeOK ==
    /\ thread \in [Mount -> {"none", "new", "built", "subscribing", "subscribed",
                             "reading", "deaf", "leaving", "closing", "ended"}]
    /\ running \in [Mount -> BOOLEAN]
    /\ startup \in [Mount -> {"pending", "ready", "failed", "stopped"}]
    /\ stopping \in [Mount -> {"no", "cleared", "done"}]
    /\ subscribed \in SUBSET Mount
    /\ pipe \in [Mount -> 0..PipeSize]
    /\ handler \in [Mount -> {"accepted", "waiting", "recv", "deliver", "sending"}]
    /\ told \in [Mount -> {"nothing", "ready", "failed", "stopped", "timeout"}]
    /\ sent \in [Mount -> Nat] /\ reached \in [Mount -> Nat]
    /\ lock \in Mount \cup {Free}

(* A thread that is past its clean-up is not subscribed, however the start, *)
(* a failure and stop were interleaved: nobody sends to a closed pair.      *)
EndedIsUnsubscribed ==
    \A m \in Mount : thread[m] \in {"none", "closing", "ended"} => m \notin subscribed

(* ntrip.py: when the STR correction fails, receiving RTCM goes on.  The    *)
(* run that checks this finds an upload blocked for ever by its parser.     *)
UploadGoesOn ==
    \A m \in Mount : handler[m] = "deliver" ~> handler[m] = "recv"
=============================================================================

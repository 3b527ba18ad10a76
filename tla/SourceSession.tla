--------------------------- MODULE SourceSession ---------------------------
(***************************************************************************)
(* The life of the RTCM sources: NTRIPHandler.handle_upload in             *)
(* src/ntrip.py, the mount table of ConnectionManager in src/connection.py *)
(* and the mount buffers of the forwarder in src/forwarder.py.             *)
(*                                                                         *)
(* A session is one accepted TCP connection, with its handler thread and   *)
(* its socket object; it is used once.  Everything a handler does while it *)
(* holds mount_lock or buffer_lock is one action; everything it does       *)
(* between two critical sections is an action of its own, so that the      *)
(* other handlers, the administration pages and the shutdown interleave    *)
(* there as the threads do.                                                *)
(***************************************************************************)
EXTENDS Naturals, FiniteSets

CONSTANTS
    Session,      \* accepted source connections
    Mount,        \* mount points
    IpOf,         \* [Session -> address]: the address a session comes from
    MountOf,      \* [Session -> Mount]: the mount point it asks for
    LocalIp,      \* the address api_initialize_mount registers, 127.0.0.1
    NoEntry,      \* a mount point that is not in online_mounts
    Initialized,  \* a MountInfo without a socket (api_initialize_mount)
    MaxChunks,    \* bound: recv results per session
    MaxAdmin      \* bound: requests to the administration pages

Entry == Session \cup {Initialized}

ASSUME ConstantsAssumption ==
    /\ IsFiniteSet(Mount)
    /\ NoEntry \notin Session /\ Initialized \notin Session
    /\ NoEntry # Initialized
    /\ MountOf \in [Session -> Mount]
    /\ MaxChunks \in Nat /\ MaxAdmin \in Nat

VARIABLES
    pc,         \* where each handler is
    sock,       \* the caster's socket object of each session: none yet, open,
                \* open with the source gone at the other end, or closed
    suspects,   \* the snapshot cleanup_zombie_connections works through
    seen,       \* size of online_mounts when force_refresh_connections began
    chunks,     \* recv results a session has appended to a buffer
    online,     \* online_mounts: the registered entry of a mount point
    dataCount,  \* MountInfo.data_count of that entry
    buf,        \* mount_buffers: whether the mount point has a buffer
    db,         \* mount points in the database
    admin,      \* the mount point a DELETE request is working on, and its step
    adminOps,   \* administration requests so far
    shut        \* progress of the service shutdown

handlerVars == <<pc, sock, suspects, seen, chunks>>
tableVars == <<online, dataCount, buf>>
adminVars == <<db, admin, adminOps>>
vars == <<handlerVars, tableVars, adminVars, shut>>

----------------------------------------------------------------------------
(* The handler has registered the mount point (mount_connection_established) *)
(* and has not yet reached the forwarder's part of _cleanup.                 *)
Feeding == {"starting", "recv", "check", "create", "append", "stats", "stats2"}
Established == Feeding \cup {"cleanup", "dropBuffer"}
Arriving == {"accepted", "sweeping", "refreshing", "verifying", "registering"}
PC == {"idle", "done", "closing"} \cup Arriving \cup Established

EntryIp(e) == IF e = Initialized THEN LocalIp ELSE IpOf[e]

Close(S) == [s \in Session |-> IF s \in S THEN "closed" ELSE sock[s]]

(* Mutant: the removal does not ask whose entry it is. *)
RemovesUnchecked(m, expected) == online[m] # NoEntry

(* remove_mount_connection under mount_lock: an expected socket that is no  *)
(* longer the registered one makes the call a no-op, no expected socket     *)
(* (Initialized stands for None) matches whatever is registered.            *)
Removes(m, expected) ==
    /\ online[m] # NoEntry
    /\ expected \in Session => online[m] = expected

RemoveMount(m, expected, closeSocket) ==
    IF Removes(m, expected)
    THEN /\ online' = [online EXCEPT ![m] = NoEntry]
         /\ sock' = IF closeSocket THEN Close({online[m]}) ELSE sock
    ELSE UNCHANGED <<online, sock>>

Goto(s, label) == pc' = [pc EXCEPT ![s] = label]

----------------------------------------------------------------------------
Init ==
    /\ pc = [s \in Session |-> "idle"]
    /\ sock = [s \in Session |-> "none"]
    /\ suspects = [s \in Session |-> {}]
    /\ seen = [s \in Session |-> 0]
    /\ chunks = [s \in Session |-> 0]
    /\ online = [m \in Mount |-> NoEntry]
    /\ dataCount = [m \in Mount |-> 0]
    /\ buf = [m \in Mount |-> "absent"]
    /\ db = Mount
    /\ admin = [step |-> "idle", mount |-> NoEntry]
    /\ adminOps = 0
    /\ shut = [phase |-> "run", socks |-> {}, entries |-> {}]

(* A source connects; the service accepts until it shuts down. *)
Connect(s) ==
    /\ pc[s] = "idle" /\ shut.phase = "run"
    /\ Goto(s, "accepted")
    /\ sock' = [sock EXCEPT ![s] = "open"]
    /\ UNCHANGED <<suspects, seen, chunks, tableVars, adminVars, shut>>

(* The first critical section of cleanup_zombie_connections.  The operating *)
(* system's list of connections may miss any of them, or be unavailable.    *)
SweepSnapshot(s) ==
    /\ pc[s] = "accepted"
    /\ \E S \in SUBSET {m \in Mount : online[m] # NoEntry} :
          suspects' = [suspects EXCEPT ![s] = {<<m, online[m]>> : m \in S}]
    /\ Goto(s, "sweeping")
    /\ UNCHANGED <<sock, seen, chunks, tableVars, adminVars, shut>>

(* Mutant: every suspect goes, closed or not. *)
SweepOneUnchecked(s) ==
    /\ pc[s] = "sweeping"
    /\ \E p \in suspects[s] :
          /\ suspects' = [suspects EXCEPT ![s] = @ \ {p}]
          /\ RemoveMount(p[1], p[2], TRUE)
    /\ UNCHANGED <<pc, seen, chunks, dataCount, buf, adminVars, shut>>

(* One suspect: its entry goes if the snapshot's socket is closed or None. *)
SweepOne(s) ==
    /\ pc[s] = "sweeping"
    /\ \E p \in suspects[s] :
          /\ suspects' = [suspects EXCEPT ![s] = @ \ {p}]
          /\ IF p[2] = Initialized \/ sock[p[2]] = "closed"
             THEN RemoveMount(p[1], p[2], TRUE)
             ELSE UNCHANGED <<online, sock>>
    /\ UNCHANGED <<pc, seen, chunks, dataCount, buf, adminVars, shut>>

(* force_refresh_connections starts iterating over online_mounts, unlocked. *)
SweepDone(s) ==
    /\ pc[s] = "sweeping" /\ suspects[s] = {}
    /\ seen' = [seen EXCEPT ![s] = Cardinality({m \in Mount : online[m] # NoEntry})]
    /\ Goto(s, "refreshing")
    /\ UNCHANGED <<sock, suspects, chunks, tableVars, adminVars, shut>>

(* The iteration raises when the table's size has changed meanwhile; the    *)
(* request is then answered with a 500.                                     *)
Refresh(s) ==
    /\ pc[s] = "refreshing"
    /\ seen' = [seen EXCEPT ![s] = 0]
    /\ Goto(s, IF seen[s] = Cardinality({m \in Mount : online[m] # NoEntry})
               THEN "verifying" ELSE "closing")
    /\ UNCHANGED <<sock, suspects, chunks, tableVars, adminVars, shut>>

(* verify_user: the database must know the mount point; the credentials may *)
(* be wrong in any case, and then the socket is closed at once.             *)
Verify(s) ==
    /\ pc[s] = "verifying"
    /\ \/ MountOf[s] \in db /\ Goto(s, "registering") /\ UNCHANGED sock
       \/ Goto(s, "closing") /\ sock' = Close({s})
    /\ UNCHANGED <<suspects, seen, chunks, tableVars, adminVars, shut>>

----------------------------------------------------------------------------
(* The critical section of handle_upload under mount_lock. *)

(* Mutant: a source from anywhere may take the mount point over. *)
MayTakeAny(s, e) == TRUE

MayTake(s, e) == e # NoEntry => EntryIp(e) = IpOf[s]

(* A mount point held from another address is refused with a 409. *)
RegisterRefused(s) ==
    LET e == online[MountOf[s]] IN
    /\ pc[s] = "registering"
    /\ ~MayTake(s, e)
    /\ Goto(s, "closing")
    /\ UNCHANGED <<sock, suspects, seen, chunks, tableVars, adminVars, shut>>

(* The two outcomes of sending the success response. *)
Accepted(s, m) ==
    /\ sock[s] # "closed"
    /\ online' = [online EXCEPT ![m] = s]
    /\ Goto(s, "starting")

(* Mutant: the entry stays when the response cannot be sent. *)
NotAcceptedKeepsEntry(s, m) ==
    /\ online' = [online EXCEPT ![m] = s]
    /\ Goto(s, "closing")

NotAccepted(s, m) ==
    /\ online' = [online EXCEPT ![m] = NoEntry]
    /\ Goto(s, "closing")

(* Otherwise an entry of the same address is removed and its socket closed, *)
(* the new entry is added and the success response is sent; when that fails *)
(* the entry is removed again.                                              *)
Register(s) ==
    LET m == MountOf[s]
        e == online[m]
    IN
    /\ pc[s] = "registering"
    /\ MayTake(s, e)
    /\ sock' = Close({e} \cap Session)
    /\ dataCount' = [dataCount EXCEPT ![m] = 0]
    /\ Accepted(s, m) \/ NotAccepted(s, m)
    /\ UNCHANGED <<suspects, seen, chunks, buf, adminVars, shut>>

----------------------------------------------------------------------------
(* start_str_correction does not touch this state; then _receive_rtcm_data  *)
(* begins, with the bytes that came behind the request header if any.       *)
StartReceiving(s) ==
    /\ pc[s] = "starting"
    /\ \/ Goto(s, "recv")
       \/ chunks[s] < MaxChunks /\ Goto(s, "check")
    /\ UNCHANGED <<sock, suspects, seen, chunks, tableVars, adminVars, shut>>

Receive(s) ==
    /\ pc[s] = "recv"
    /\ sock[s] \in {"open", "hungup"} /\ chunks[s] < MaxChunks
    /\ Goto(s, "check")
    /\ UNCHANGED <<sock, suspects, seen, chunks, tableVars, adminVars, shut>>

(* Mutant: the handler returns without _cleanup. *)
ReceiveEndNoCleanup(s) ==
    /\ pc[s] = "recv"
    /\ sock[s] \in {"hungup", "closed"}
    /\ Goto(s, "closing")
    /\ UNCHANGED <<sock, suspects, seen, chunks, tableVars, adminVars, shut>>

(* recv returns no data, or fails on the closed socket. *)
ReceiveEnd(s) ==
    /\ pc[s] = "recv"
    /\ sock[s] \in {"hungup", "closed"}
    /\ Goto(s, "cleanup")
    /\ UNCHANGED <<sock, suspects, seen, chunks, tableVars, adminVars, shut>>

(* recv times out: a timeout is an OSError, so the first except clause      *)
(* takes it and the loop ends; the clause that would go on is never reached.*)
ReceiveTimeout(s) ==
    /\ pc[s] = "recv"
    /\ Goto(s, "cleanup")
    /\ UNCHANGED <<sock, suspects, seen, chunks, tableVars, adminVars, shut>>

(* upload_data looks for the buffer before it takes buffer_lock ... *)
UploadCheck(s) ==
    /\ pc[s] = "check"
    /\ Goto(s, IF buf[MountOf[s]] = "present" THEN "append" ELSE "create")
    /\ UNCHANGED <<sock, suspects, seen, chunks, tableVars, adminVars, shut>>

(* ... creates it if it was missing (create_mount_buffer) ... *)
UploadCreate(s) ==
    /\ pc[s] = "create"
    /\ buf' = [buf EXCEPT ![MountOf[s]] = "present"]
    /\ Goto(s, "append")
    /\ UNCHANGED <<sock, suspects, seen, chunks, online, dataCount, adminVars, shut>>

(* ... and appends.  A buffer removed in between is a KeyError, which ends  *)
(* the receive loop.                                                        *)
UploadAppend(s) ==
    /\ pc[s] = "append"
    /\ IF buf[MountOf[s]] = "present"
       THEN chunks' = [chunks EXCEPT ![s] = @ + 1] /\ Goto(s, "stats")
       ELSE Goto(s, "cleanup") /\ UNCHANGED chunks
    /\ UNCHANGED <<sock, suspects, seen, tableVars, adminVars, shut>>

(* update_mount_data_stats counts the packet for whatever entry is there:   *)
(* once from upload_data, once more from _receive_rtcm_data.                *)
Count(m) ==
    dataCount' = IF online[m] = NoEntry THEN dataCount
                 ELSE [dataCount EXCEPT ![m] = @ + 1]

UpdateStats(s) ==
    /\ \/ pc[s] = "stats" /\ Goto(s, "stats2")
       \/ pc[s] = "stats2" /\ Goto(s, "recv")
    /\ Count(MountOf[s])
    /\ UNCHANGED <<sock, suspects, seen, chunks, online, buf, adminVars, shut>>

(* Mutant: a session that lost its mount point skips the rest of _cleanup. *)
CleanupMountIfOwned(s) ==
    /\ pc[s] = "cleanup"
    /\ RemoveMount(MountOf[s], s, FALSE)
    /\ Goto(s, IF Removes(MountOf[s], s) THEN "dropBuffer" ELSE "closing")
    /\ UNCHANGED <<suspects, seen, chunks, dataCount, buf, adminVars, shut>>

(* _cleanup: the mount entry goes only if it still is this session's ...    *)
CleanupMount(s) ==
    /\ pc[s] = "cleanup"
    /\ RemoveMount(MountOf[s], s, FALSE)
    /\ Goto(s, "dropBuffer")
    /\ UNCHANGED <<suspects, seen, chunks, dataCount, buf, adminVars, shut>>

(* ... but the buffer goes in any case. *)
CleanupBuffer(s) ==
    /\ pc[s] = "dropBuffer"
    /\ buf' = [buf EXCEPT ![MountOf[s]] = "absent"]
    /\ Goto(s, "closing")
    /\ UNCHANGED <<sock, suspects, seen, chunks, online, dataCount, adminVars, shut>>

(* The handler returns and the worker thread closes the socket. *)
CloseSocket(s) ==
    /\ pc[s] = "closing"
    /\ sock' = Close({s})
    /\ Goto(s, "done")
    /\ UNCHANGED <<suspects, seen, chunks, tableVars, adminVars, shut>>

PeerHangsUp(s) ==
    /\ sock[s] = "open"
    /\ sock' = [sock EXCEPT ![s] = "hungup"]
    /\ UNCHANGED <<pc, suspects, seen, chunks, tableVars, adminVars, shut>>

----------------------------------------------------------------------------
(* The administration pages. *)

AdminCall == adminOps < MaxAdmin /\ adminOps' = adminOps + 1

(* /api/mount/initialize: an entry without a socket. *)
InitializeMount(m) ==
    /\ AdminCall
    /\ online[m] = NoEntry
    /\ online' = [online EXCEPT ![m] = Initialized]
    /\ dataCount' = [dataCount EXCEPT ![m] = 0]
    /\ UNCHANGED <<handlerVars, buf, db, admin, shut>>

(* POST: a row for the mount point. *)
CreateRow(m) ==
    /\ AdminCall
    /\ db' = db \cup {m}
    /\ UNCHANGED <<handlerVars, tableVars, admin, shut>>

(* PUT and DELETE begin with force_disconnect_mount, which drops the buffer *)
(* and leaves the source's entry alone; a DELETE asks for the row before.   *)
AdminDisconnect(m) ==
    /\ AdminCall
    /\ admin.step = "idle"
    /\ buf' = [buf EXCEPT ![m] = "absent"]
    /\ \/ admin' = [step |-> "update", mount |-> m]
       \/ m \in db /\ admin' = [step |-> "row", mount |-> m]
    /\ UNCHANGED <<handlerVars, online, dataCount, db, shut>>

(* PUT: the row, if there is one, may be given another name that is free,   *)
(* of a mount point here (new) or of one that does not matter.              *)
UpdateRow ==
    /\ admin.step = "update"
    /\ \/ UNCHANGED db
       \/ /\ admin.mount \in db
          /\ \E new \in {{}} \cup {{m} : m \in Mount \ db} :
                db' = (db \ {admin.mount}) \cup new
    /\ admin' = [step |-> "idle", mount |-> NoEntry]
    /\ UNCHANGED <<handlerVars, tableVars, adminOps, shut>>

(* DELETE: the row goes, and then whatever entry the mount point has. *)
DeleteRow ==
    /\ admin.step = "row"
    /\ db' = db \ {admin.mount}
    /\ admin' = [admin EXCEPT !.step = "entry"]
    /\ UNCHANGED <<handlerVars, tableVars, adminOps, shut>>

DeleteEntry ==
    /\ admin.step = "entry"
    /\ RemoveMount(admin.mount, Initialized, TRUE)
    /\ admin' = [step |-> "idle", mount |-> NoEntry]
    /\ UNCHANGED <<pc, suspects, seen, chunks, dataCount, buf, db, adminOps, shut>>

Admin ==
    \/ \E m \in Mount : InitializeMount(m) \/ CreateRow(m) \/ AdminDisconnect(m)
    \/ UpdateRow \/ DeleteRow \/ DeleteEntry

----------------------------------------------------------------------------
(* Shutdown: close_client_connections closes every accepted socket, then    *)
(* close_all_connections works through a snapshot of online_mounts.         *)

ShutdownBegin ==
    /\ shut.phase = "run"
    /\ shut' = [shut EXCEPT !.phase = "sockets",
                            !.socks = {s \in Session : pc[s] \notin {"idle", "done"}}]
    /\ UNCHANGED <<handlerVars, tableVars, adminVars>>

(* Mutant: the sockets of the sessions stay open. *)
ShutdownSocketForgets(s) ==
    /\ s \in shut.socks
    /\ shut' = [shut EXCEPT !.socks = @ \ {s}]
    /\ UNCHANGED <<handlerVars, tableVars, adminVars>>

ShutdownSocket(s) ==
    /\ s \in shut.socks
    /\ sock' = Close({s})
    /\ shut' = [shut EXCEPT !.socks = @ \ {s}]
    /\ UNCHANGED <<pc, suspects, seen, chunks, tableVars, adminVars>>

ShutdownSnapshot ==
    /\ shut.phase = "sockets" /\ shut.socks = {}
    /\ shut' = [shut EXCEPT !.phase = "entries",
          !.entries = {<<m, online[m]>> : m \in {n \in Mount : online[n] # NoEntry}}]
    /\ UNCHANGED <<handlerVars, tableVars, adminVars>>

(* The entry goes under mount_lock; its socket is closed after that. *)
ShutdownEntry ==
    /\ shut.socks = {}
    /\ \E p \in shut.entries :
          /\ online' = IF Removes(p[1], p[2]) THEN [online EXCEPT ![p[1]] = NoEntry]
                       ELSE online
          /\ shut' = [shut EXCEPT !.entries = @ \ {p}, !.socks = {p[2]} \cap Session]
    /\ UNCHANGED <<handlerVars, dataCount, buf, adminVars>>

ShutdownProgress ==
    (\E s \in Session : ShutdownSocket(s)) \/ ShutdownSnapshot \/ ShutdownEntry

----------------------------------------------------------------------------
(* The steps a handler thread takes by itself. *)
HandlerStep(s) ==
    \/ SweepSnapshot(s) \/ SweepOne(s) \/ SweepDone(s) \/ Refresh(s)
    \/ Verify(s) \/ RegisterRefused(s) \/ Register(s) \/ StartReceiving(s)
    \/ ReceiveEnd(s) \/ UploadCheck(s) \/ UploadCreate(s) \/ UploadAppend(s)
    \/ UpdateStats(s) \/ CleanupMount(s) \/ CleanupBuffer(s) \/ CloseSocket(s)

(* What the network does to it. *)
Network(s) == Connect(s) \/ Receive(s) \/ ReceiveTimeout(s) \/ PeerHangsUp(s)

Next ==
    \/ \E s \in Session : HandlerStep(s) \/ Network(s)
    \/ Admin
    \/ ShutdownBegin \/ ShutdownProgress

Spec == Init /\ [][Next]_vars

(* Threads that can run do run; a shutdown that began goes on. *)
FairSpec ==
    /\ Spec
    /\ \A s \in Session : WF_vars(HandlerStep(s))
    /\ WF_vars(ShutdownProgress)
----------------------------------------------------------------------------
TypeOK ==
    /\ pc \in [Session -> PC]
    /\ sock \in [Session -> {"none", "open", "hungup", "closed"}]
    /\ suspects \in [Session -> SUBSET (Mount \X Entry)]
    /\ seen \in [Session -> Nat]
    /\ chunks \in [Session -> Nat]
    /\ online \in [Mount -> Entry \cup {NoEntry}]
    /\ dataCount \in [Mount -> Nat]
    /\ buf \in [Mount -> {"absent", "present"}]
    /\ db \in SUBSET Mount
    /\ admin \in [step : {"idle", "update", "row", "entry"}, mount : Mount \cup {NoEntry}]
    /\ admin.step # "idle" => admin.mount \in Mount
    /\ adminOps \in Nat
    /\ shut \in [phase : {"run", "sockets", "entries"},
                 socks : SUBSET Session, entries : SUBSET (Mount \X Entry)]

(* A source whose handler is receiving and whose socket nobody has closed.  *)
Live(s) == pc[s] \in Feeding /\ sock[s] \in {"open", "hungup"}

(* The entry of a mount point is that of the source being received: no      *)
(* sequence of takeovers, late cleanups, zombie sweeps, deletions and       *)
(* shutdown steps leaves a source feeding a mount point that is offline or  *)
(* that another session holds (remove_mount_connection's ownership check).  *)
LiveSourceOwnsMount == \A s \in Session : Live(s) => online[MountOf[s]] = s

(* An entry never outlives the handler that will remove it: the handler of  *)
(* a registered session still has its _cleanup ahead (handle_upload rolls a *)
(* failed success response back).                                           *)
NoLeakedMount ==
    \A m \in Mount : online[m] \in Session =>
        /\ MountOf[online[m]] = m
        /\ pc[online[m]] \in Feeding \cup {"cleanup"}

(* Nor does a buffer: whoever created it, some handler of the mount point   *)
(* will still run remove_mount_buffer.  This is what the unconditional      *)
(* removal in _cleanup buys.                                                *)
NoLeakedBuffer ==
    \A m \in Mount : buf[m] = "present" =>
        \E s \in Session : MountOf[s] = m /\ pc[s] \in Established

(* The socket of a live source is closed by nobody but a takeover from its  *)
(* own address, a DELETE of its mount point, the shutdown, or a zombie      *)
(* sweep that had seen a socketless entry in its place.                     *)
LiveSourceClosedOnlyBy ==
    [][\A s \in Session : Live(s) /\ sock'[s] = "closed" =>
         \/ \E t \in Session : /\ pc[t] = "registering" /\ pc'[t] # pc[t]
                               /\ MountOf[t] = MountOf[s] /\ IpOf[t] = IpOf[s]
         \/ admin = [step |-> "entry", mount |-> MountOf[s]]
         \/ s \in shut.socks
         \/ \E t \in Session : /\ <<MountOf[s], Initialized>> \in suspects[t]
                               /\ suspects'[t] # suspects[t]]_vars

(* A source that is gone, or whose socket was closed, gives up its mount    *)
(* point, so the next source is not refused for ever.                       *)
DepartedSourceReleasesMount ==
    \A s \in Session :
        sock[s] \in {"hungup", "closed"} ~> online[MountOf[s]] # s

(* A shutdown ends with every handler returned and no source registered.    *)
ShutdownDrains ==
    shut.phase # "run" ~> /\ \A s \in Session : pc[s] \in {"idle", "done"}
                          /\ \A m \in Mount : online[m] \notin Session

(* connection.py: the late cleanup of an old handler must not take the      *)
(* source that reconnected: its receive loop goes on while its socket is    *)
(* open and the mount point is its own.  The run that checks this finds it  *)
(* ended by the KeyError of a buffer the old handler removed.               *)
StaleCleanupSparesSource ==
    [][\A s \in Session : pc[s] = "append" /\ Live(s) /\ online[MountOf[s]] = s
                           => pc'[s] # "cleanup"]_vars
=============================================================================

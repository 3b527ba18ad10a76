-------------------------- MODULE DownloadSession --------------------------
(***************************************************************************)
(* The life of the rovers of one mount point: NTRIPHandler.handle_download *)
(* in src/ntrip.py, the user table of src/connection.py (online_users and  *)
(* user_connection_count under user_lock) and the client registry of       *)
(* src/forwarder.py (under client_lock), which know the same connections   *)
(* and are updated one after the other.                                    *)
(*                                                                         *)
(* A client can be removed by its own handler, by a newer connection of    *)
(* its user, by the broadcast thread and by the administration pages.      *)
(* Whoever finds it in the registry owns the rest of its removal: the      *)
(* entry of the user table, then the socket.  The newcomer, the broadcast  *)
(* thread and force_disconnect_mount keep client_lock meanwhile.           *)
(* Which connection of a user is its oldest is left open.                  *)
(***************************************************************************)
EXTENDS Naturals, FiniteSets

CONSTANTS
    Session,    \* accepted rover connections
    User,
    UserOf,     \* [Session -> User]
    MaxConns,   \* MAX_CONNECTIONS_PER_USER
    PerMount,   \* MAX_USERS_PER_MOUNT
    Free,       \* client_lock is held by nobody,
    Thread,     \*   the broadcast thread,
    Page,       \*   force_disconnect_mount, or a session that evicts another
    MaxAdmin    \* bound: requests to the administration pages

ASSUME DownloadAssumption ==
    /\ UserOf \in [Session -> User]
    /\ MaxConns \in Nat \ {0} /\ PerMount \in Nat \ {0} /\ MaxAdmin \in Nat
    /\ {Free, Thread, Page} \cap Session = {}
    /\ Free # Thread /\ Free # Page /\ Thread # Page

VARIABLES
    pc,        \* where each handler is
    sock,      \* none, open, hungup (the rover is gone), closed
    conns,     \* online_users: the sessions that have an entry
    count,     \* user_connection_count
    clients,   \* forwarder.clients: the sessions registered
    removal,   \* of a client: no, unlist and close (in progress), done
    lock,      \* the holder of client_lock
    victim,    \* the client it is removing
    users,     \* users in the database
    page,      \* a DELETE of a user: its step, the user, the clients it has
               \* still to remove and the one it is removing
    adminOps,  \* administration requests so far
    burst,     \* history: the most sessions of a user that were at once between
               \* their check of the limit and their entry
    shut       \* phase of the shutdown, and sockets it has still to close

registries == <<conns, count, clients, removal, lock, victim>>
adminVars == <<users, page, adminOps>>
vars == <<pc, sock, registries, adminVars, burst, shut>>

PC == {"idle", "verify", "limit", "register", "add", "evict", "respond",
       "activate", "stream", "ended", "cleanup", "removing", "unlist", "closing", "done"}
NoPage == [step |-> "idle", user |-> Free, left |-> {}, busy |-> Free]
Of(S, u) == {s \in S : UserOf[s] = u}
Goto(s, label) == pc' = [pc EXCEPT ![s] = label]
Close(s) == sock' = [sock EXCEPT ![s] = "closed"]

(* Mutant: the count goes down whether or not the entry was there. *)
UnlistBlindly(s) ==
    /\ conns' = conns \ {s}
    /\ count' = [count EXCEPT ![UserOf[s]] = IF @ > 0 THEN @ - 1 ELSE 0]

(* remove_user_connection: the entry goes and the count with it, if the     *)
(* entry is there.                                                          *)
Unlist(s) ==
    /\ conns' = conns \ {s}
    /\ count' = [count EXCEPT ![UserOf[s]] = IF s \in conns THEN @ - 1 ELSE @]

Init ==
    /\ pc = [s \in Session |-> "idle"]
    /\ sock = [s \in Session |-> "none"]
    /\ conns = {} /\ clients = {} /\ lock = Free /\ victim = Free
    /\ count = [u \in User |-> 0]
    /\ removal = [s \in Session |-> "no"]
    /\ users = User
    /\ page = NoPage
    /\ adminOps = 0
    /\ burst = [u \in User |-> 0]
    /\ shut = [phase |-> "run", left |-> {}]

Connect(s) ==
    /\ pc[s] = "idle" /\ shut.phase = "run"
    /\ Goto(s, "verify")
    /\ sock' = [sock EXCEPT ![s] = "open"]
    /\ UNCHANGED <<registries, adminVars, burst, shut>>

----------------------------------------------------------------------------
(* The handler up to the stream. *)

(* verify_user looks for user and password, which may be wrong, ...         *)
Verify(s) ==
    /\ pc[s] = "verify"
    /\ \/ UserOf[s] \in users /\ Goto(s, "limit")
       \/ Goto(s, "closing")
    /\ UNCHANGED <<sock, registries, adminVars, burst, shut>>

Registering(u) == {s \in Of(Session, u) : pc[s] = "register"}
Passes(s) ==
    /\ Goto(s, "register")
    /\ burst' = [burst EXCEPT ![UserOf[s]] =
                   LET n == Cardinality(Registering(UserOf[s])) + 1 IN IF @ > n THEN @ ELSE n]

(* Mutant: one more than the limit may pass. *)
CheckLimitOneMore(s) ==
    /\ pc[s] = "limit"
    /\ IF count[UserOf[s]] <= MaxConns THEN Passes(s) ELSE Goto(s, "closing") /\ UNCHANGED burst
    /\ UNCHANGED <<sock, registries, adminVars, shut>>

(* ... and then at the number of connections the user has now. *)
CheckLimit(s) ==
    /\ pc[s] = "limit"
    /\ IF count[UserOf[s]] < MaxConns THEN Passes(s) ELSE Goto(s, "closing") /\ UNCHANGED burst
    /\ UNCHANGED <<sock, registries, adminVars, shut>>

(* add_user_connection. *)
AddUserConnection(s) ==
    /\ pc[s] = "register"
    /\ conns' = conns \cup {s}
    /\ count' = [count EXCEPT ![UserOf[s]] = @ + 1]
    /\ Goto(s, "add")
    /\ UNCHANGED <<sock, clients, removal, lock, victim, adminVars, burst, shut>>

(* remove_client finds s in the registry, under client_lock; what is left of *)
(* the removal goes on without it.                                          *)
Deregister(s) ==
    /\ clients' = clients \ {s}
    /\ removal' = [removal EXCEPT ![s] = "unlist"]

(* Mutant: only clients that have been activated count for the limit. *)
AddClientOnActive(s) ==
    LET mine == {d \in Of(clients, UserOf[s]) : pc[d] \in {"stream", "ended"}} IN
    /\ pc[s] = "add" /\ lock = Free
    /\ IF Cardinality(mine) < PerMount
       THEN /\ clients' = clients \cup {s}
            /\ Goto(s, "respond")
            /\ UNCHANGED <<removal, lock, victim>>
       ELSE /\ \E old \in mine : Deregister(old) /\ victim' = old
            /\ lock' = s
            /\ Goto(s, "evict")
    /\ UNCHANGED <<sock, conns, count, adminVars, burst, shut>>

(* add_client fails at once on a socket that is closed; registers; or has   *)
(* to make room, in which case client_lock is kept.                         *)
AddClient(s) ==
    LET mine == Of(clients, UserOf[s]) IN
    /\ pc[s] = "add"
    /\ \/ /\ sock[s] = "closed"
          /\ Goto(s, "unlist")
          /\ UNCHANGED <<clients, removal, lock, victim>>
       \/ /\ lock = Free /\ Cardinality(mine) < PerMount
          /\ clients' = clients \cup {s}
          /\ Goto(s, "respond")
          /\ UNCHANGED <<removal, lock, victim>>
       \/ /\ lock = Free /\ Cardinality(mine) >= PerMount
          /\ \E old \in mine : Deregister(old) /\ victim' = old
          /\ lock' = s
          /\ Goto(s, "evict")
    /\ UNCHANGED <<sock, conns, count, adminVars, burst, shut>>

(* When the oldest is gone the newcomer is registered.  If no client at all *)
(* is left, the list of the mount point went with the last of them, and the *)
(* KeyError closes the newcomer's socket; there may be clients that are not *)
(* among these sessions.                                                    *)
Evicted(s) ==
    /\ pc[s] = "evict" /\ removal[victim] = "done"
    /\ lock' = Free /\ victim' = Free
    /\ \/ clients' = clients \cup {s} /\ Goto(s, "respond") /\ UNCHANGED sock
       \/ /\ clients = {}
          /\ Close(s) /\ Goto(s, "unlist") /\ UNCHANGED clients
    /\ UNCHANGED <<conns, count, removal, adminVars, burst, shut>>

(* The success response reaches the socket or raises. *)
Respond(s) ==
    /\ pc[s] = "respond"
    /\ \/ sock[s] # "closed" /\ Goto(s, "activate")
       \/ sock[s] # "open" /\ Goto(s, "cleanup")
    /\ UNCHANGED <<sock, registries, adminVars, burst, shut>>

(* activate_client raises for a client that was removed meanwhile. *)
Activate(s) ==
    /\ pc[s] = "activate" /\ lock = Free
    /\ Goto(s, IF s \in clients THEN "stream" ELSE "cleanup")
    /\ UNCHANGED <<sock, registries, adminVars, burst, shut>>

(* Mutant: only the rover's own end of stream is noticed. *)
StreamEndsOnEof(s) ==
    /\ pc[s] = "stream" /\ sock[s] = "hungup"
    /\ Goto(s, "ended")
    /\ UNCHANGED <<sock, registries, adminVars, burst, shut>>

(* _keep_connection_alive ends when recv does, or finds the client removed  *)
(* after a time-out.                                                        *)
StreamEnds(s) ==
    /\ pc[s] = "stream"
    /\ sock[s] # "open" \/ removal[s] # "no"
    /\ Goto(s, "ended")
    /\ UNCHANGED <<sock, registries, adminVars, burst, shut>>

(* Mutant: the handler leaves the user table to whoever removed its client. *)
CleanupTrustsRemover(s) ==
    /\ pc[s] \in {"cleanup", "ended"} /\ lock = Free
    /\ IF s \in clients
       THEN Deregister(s) /\ Goto(s, "removing")
       ELSE Goto(s, "closing") /\ UNCHANGED <<clients, removal>>
    /\ UNCHANGED <<sock, conns, count, lock, victim, adminVars, burst, shut>>

(* _cleanup_download_connection: the handler is the remover if nobody was ... *)
Cleanup(s) ==
    /\ pc[s] \in {"cleanup", "ended"} /\ lock = Free
    /\ IF s \in clients
       THEN Deregister(s) /\ Goto(s, "removing")
       ELSE Goto(s, "unlist") /\ UNCHANGED <<clients, removal>>
    /\ UNCHANGED <<sock, conns, count, lock, victim, adminVars, burst, shut>>

Removed(s) ==
    /\ pc[s] = "removing" /\ removal[s] = "done"
    /\ Goto(s, "unlist")
    /\ UNCHANGED <<sock, registries, adminVars, burst, shut>>

(* ... and takes the entry of the user table away itself if it is still     *)
(* there when remove_client did not do it.                                  *)
UnlistOwn(s) ==
    /\ pc[s] = "unlist"
    /\ Unlist(s)
    /\ Goto(s, "closing")
    /\ UNCHANGED <<sock, clients, removal, lock, victim, adminVars, burst, shut>>

CloseSocket(s) ==
    /\ pc[s] = "closing"
    /\ Close(s)
    /\ Goto(s, "done")
    /\ UNCHANGED <<registries, adminVars, burst, shut>>

RoverHangsUp(s) ==
    /\ sock[s] = "open"
    /\ sock' = [sock EXCEPT ![s] = "hungup"]
    /\ UNCHANGED <<pc, registries, adminVars, burst, shut>>

----------------------------------------------------------------------------
(* The rest of a removal, whoever does it: the user table, the socket. *)

RemovalUnlists(s) ==
    /\ removal[s] = "unlist"
    /\ Unlist(s)
    /\ removal' = [removal EXCEPT ![s] = "close"]
    /\ UNCHANGED <<pc, sock, clients, lock, victim, adminVars, burst, shut>>

RemovalCloses(s) ==
    /\ removal[s] = "close"
    /\ Close(s)
    /\ removal' = [removal EXCEPT ![s] = "done"]
    /\ UNCHANGED <<pc, conns, count, clients, lock, victim, adminVars, burst, shut>>

(* The broadcast thread could not send to an active client. *)
SendFailed(s) ==
    /\ shut.phase = "run" /\ lock = Free
    /\ s \in clients /\ pc[s] \in {"stream", "ended"} /\ sock[s] # "open"
    /\ lock' = Thread /\ victim' = s
    /\ Deregister(s)
    /\ UNCHANGED <<pc, sock, conns, count, adminVars, burst, shut>>

ThreadReleases ==
    /\ lock = Thread /\ removal[victim] = "done"
    /\ lock' = Free /\ victim' = Free
    /\ UNCHANGED <<pc, sock, conns, count, clients, removal, adminVars, burst, shut>>

----------------------------------------------------------------------------
(* The administration pages. *)

AdminCall == adminOps < MaxAdmin /\ adminOps' = adminOps + 1

(* force_disconnect_mount removes every client and keeps client_lock. *)
DisconnectMount ==
    /\ lock = Free /\ clients # {}
    /\ AdminCall
    /\ \E s \in clients : Deregister(s) /\ victim' = s
    /\ lock' = Page
    /\ UNCHANGED <<pc, sock, conns, count, users, page, burst, shut>>

DisconnectNext ==
    /\ lock = Page /\ removal[victim] = "done"
    /\ \/ \E s \in clients : Deregister(s) /\ victim' = s /\ UNCHANGED lock
       \/ /\ clients = {} /\ lock' = Free /\ victim' = Free
          /\ UNCHANGED <<clients, removal>>
    /\ UNCHANGED <<pc, sock, conns, count, adminVars, burst, shut>>

(* DELETE of a user: force_disconnect_user lists its clients under          *)
(* client_lock, removes them one at a time, and then the row goes.          *)
DeleteUserBegin(u) ==
    /\ page.step = "idle" /\ lock = Free
    /\ AdminCall
    /\ page' = [step |-> "remove", user |-> u, left |-> Of(clients, u), busy |-> Free]
    /\ UNCHANGED <<pc, sock, registries, users, burst, shut>>

DeleteUserRemove(s) ==
    /\ s \in page.left /\ lock = Free
    /\ page.busy # Free => removal[page.busy] = "done"
    /\ IF s \in clients
       THEN Deregister(s) /\ page' = [page EXCEPT !.left = @ \ {s}, !.busy = s]
       ELSE /\ page' = [page EXCEPT !.left = @ \ {s}]
            /\ UNCHANGED <<clients, removal>>
    /\ UNCHANGED <<pc, sock, conns, count, lock, victim, users, adminOps, burst, shut>>

DeleteUserRow ==
    /\ page.step = "remove" /\ page.left = {}
    /\ page.busy # Free => removal[page.busy] = "done"
    /\ users' = users \ {page.user}
    /\ page' = NoPage
    /\ UNCHANGED <<pc, sock, registries, adminOps, burst, shut>>

----------------------------------------------------------------------------
(* Shutdown: forwarder.stop empties the registry and closes its sockets,    *)
(* close_client_connections closes every accepted socket, and               *)
(* close_all_connections empties the user table.                            *)

StopForwarder ==
    /\ shut.phase = "run" /\ lock = Free
    /\ clients' = {}
    /\ shut' = [phase |-> "forwarder", left |-> clients]
    /\ UNCHANGED <<pc, sock, conns, count, removal, lock, victim, adminVars, burst>>

StopCloses(s) ==
    /\ s \in shut.left
    /\ Close(s)
    /\ shut' = [shut EXCEPT !.left = @ \ {s}]
    /\ UNCHANGED <<pc, registries, adminVars, burst>>

CloseClientConnections ==
    /\ shut.phase = "forwarder" /\ shut.left = {}
    /\ shut' = [phase |-> "sockets",
                left |-> {s \in Session : pc[s] \notin {"idle", "done"}}]
    /\ UNCHANGED <<pc, sock, registries, adminVars, burst>>

CloseAllConnections ==
    /\ shut.phase = "sockets" /\ shut.left = {}
    /\ conns' = {} /\ count' = [u \in User |-> 0]
    /\ shut' = [shut EXCEPT !.phase = "end"]
    /\ UNCHANGED <<pc, sock, clients, removal, lock, victim, adminVars, burst>>

Shutdown ==
    \/ CloseClientConnections \/ CloseAllConnections
    \/ \E s \in Session : StopCloses(s)

----------------------------------------------------------------------------
HandlerStep(s) ==
    \/ Verify(s) \/ CheckLimit(s) \/ AddUserConnection(s) \/ AddClient(s)
    \/ Evicted(s) \/ Respond(s) \/ Activate(s) \/ StreamEnds(s) \/ Cleanup(s)
    \/ Removed(s) \/ UnlistOwn(s) \/ CloseSocket(s)

RemovalStep(s) == RemovalUnlists(s) \/ RemovalCloses(s)

LockRelease == ThreadReleases \/ DisconnectNext

Next ==
    \/ \E s \in Session : \/ Connect(s) \/ HandlerStep(s) \/ RoverHangsUp(s)
                         \/ RemovalStep(s) \/ SendFailed(s) \/ DeleteUserRemove(s)
    \/ LockRelease \/ DisconnectMount \/ DeleteUserRow
    \/ \E u \in User : DeleteUserBegin(u)
    \/ StopForwarder \/ Shutdown

Spec == Init /\ [][Next]_vars

(* Threads that can run do run.  A handler that waits for client_lock gets  *)
(* it in the end (strong fairness): who holds it does a bounded piece of    *)
(* work, and the broadcast thread sleeps between its passes.                *)
FairSpec ==
    /\ Spec
    /\ \A s \in Session : SF_vars(HandlerStep(s)) /\ WF_vars(RemovalStep(s))
    /\ WF_vars(LockRelease) /\ WF_vars(Shutdown)
----------------------------------------------------------------------------
TypeOK ==
    /\ pc \in [Session -> PC]
    /\ sock \in [Session -> {"none", "open", "hungup", "closed"}]
    /\ conns \in SUBSET Session /\ clients \in SUBSET Session
    /\ count \in [User -> Nat]
    /\ removal \in [Session -> {"no", "unlist", "close", "done"}]
    /\ lock \in {Free, Thread, Page} \cup Session
    /\ victim \in {Free} \cup Session /\ (lock = Free <=> victim = Free)
    /\ users \in SUBSET User
    /\ page \in [step : {"idle", "remove"}, user : User \cup {Free},
                 left : SUBSET Session, busy : Session \cup {Free}]
    /\ adminOps \in Nat /\ burst \in [User -> Nat]
    /\ shut \in [phase : {"run", "forwarder", "sockets", "end"}, left : SUBSET Session]

(* The count that admits a user is the number of its entries, through every *)
(* double removal and the emptying of the table at shutdown.                *)
CountIsEntries == \A u \in User : count[u] = Cardinality(Of(conns, u))

(* A user never has more clients on the mount point than allowed: whoever   *)
(* is registered counts, activated or not, or a burst would overshoot, and  *)
(* the newcomer is added only when the one it replaces is gone.             *)
UserWithinLimit == \A u \in User : Cardinality(Of(clients, u)) <= PerMount

(* The limit is looked at in one critical section and the entry made in a   *)
(* later one: a user exceeds it by no more than the number of connections   *)
(* that were between the two at the same time, whatever is removed, twice   *)
(* or at the shutdown, meanwhile.                                           *)
OvershootIsBurst ==
    \A u \in User : count[u] + Cardinality(Registering(u))
                       <= MaxConns - 1 + (IF burst[u] = 0 THEN 1 ELSE burst[u])

(* A handler that has returned leaves nothing behind in either registry,    *)
(* whichever of the removers it raced with, and at any step it failed at.   *)
NothingLeftBehind ==
    \A s \in Session : pc[s] = "done" =>
        s \notin conns /\ s \notin clients /\ sock[s] = "closed"

(* A rover that is gone, was removed or closed is forgotten everywhere.     *)
DepartedRoverIsForgotten ==
    \A s \in Session : (sock[s] \in {"hungup", "closed"} \/ removal[s] # "no")
                        ~> pc[s] = "done"
=============================================================================

----------------------- MODULE DownloadSession_proofs -----------------------
(***************************************************************************)
(* Proofs about DownloadSession, for any rovers, users and limits: the     *)
(* count of a user's connections is exact, its limits are kept as far as   *)
(* the code keeps them, and a handler that has returned leaves nothing.    *)
(***************************************************************************)
EXTENDS DownloadSession, FiniteSetTheorems, TLAPS

(* Which handlers have an entry in the user table, and which a client.      *)
(* NothingLeftBehind is the last step of it; the first ones say that        *)
(* add_user_connection makes an entry where there is none.                  *)
EntryStages ==
    \A s \in conns : pc[s] \notin {"idle", "verify", "limit", "register", "closing", "done"}
ClientStages ==
    \A s \in clients : pc[s] \in {"respond", "activate", "stream", "ended", "cleanup"}
ReturnedIsClosed == \A s \in Session : pc[s] = "done" => sock[s] = "closed"

(* The count, as long as the table is finite, which it is. *)
CountIsExact == IsFiniteSet(conns) /\ CountIsEntries

(* client_lock is with a newcomer exactly while it evicts, and there is     *)
(* then room for it; nobody else adds a client meanwhile.                   *)
EvictorHasRoom ==
    \A s \in Session :
        /\ pc[s] = "evict" <=> lock = s
        /\ lock = s => Cardinality(Of(clients, UserOf[s])) < PerMount
LimitIsKept == IsFiniteSet(clients) /\ UserWithinLimit /\ EvictorHasRoom

(* The overshoot: who has passed the check counts as well. *)
BurstIsBound == (\A u \in User : IsFiniteSet(Registering(u))) /\ OvershootIsBurst

IInv ==
    /\ TypeOK /\ EntryStages /\ ClientStages /\ ReturnedIsClosed
    /\ CountIsExact /\ LimitIsKept /\ BurstIsBound

----------------------------------------------------------------------------
(* One more and one less of a user's sessions. *)
LEMMA OneMore ==
    ASSUME NEW S \in SUBSET Session, IsFiniteSet(S), NEW s \in Session, NEW u \in User
    PROVE  /\ IsFiniteSet(S \cup {s})
           /\ Cardinality(Of(S, u)) \in Nat
           /\ Cardinality(Of(S \cup {s}, u)) =
                 Cardinality(Of(S, u)) + (IF UserOf[s] = u /\ s \notin S THEN 1 ELSE 0)
<1>1. IsFiniteSet(S \cup {s})
  BY FS_AddElement
<1>2. IsFiniteSet(Of(S, u))
  BY FS_Subset DEF Of
<1>3. Cardinality(Of(S, u)) \in Nat
  BY <1>2, FS_CardinalityType
<1>4. CASE UserOf[s] = u
  <2>1. Of(S \cup {s}, u) = Of(S, u) \cup {s} /\ (s \in Of(S, u) <=> s \in S)
    BY <1>4 DEF Of
  <2>2. Cardinality(Of(S, u) \cup {s}) =
           IF s \in Of(S, u) THEN Cardinality(Of(S, u)) ELSE Cardinality(Of(S, u)) + 1
    BY <1>2, FS_AddElement
  <2>3. CASE s \in S
    BY <1>1, <1>3, <1>4, <2>1, <2>2, <2>3
  <2>4. CASE s \notin S
    BY <1>1, <1>3, <1>4, <2>1, <2>2, <2>4
  <2> QED
    BY <2>3, <2>4
<1>5. CASE UserOf[s] # u
  <2>1. Of(S \cup {s}, u) = Of(S, u)
    BY <1>5 DEF Of
  <2> QED
    BY <1>1, <1>3, <1>5, <2>1
<1> QED
  BY <1>4, <1>5

LEMMA OneLess ==
    ASSUME NEW S \in SUBSET Session, IsFiniteSet(S), NEW s \in Session, NEW u \in User
    PROVE  /\ IsFiniteSet(S \ {s})
           /\ Cardinality(Of(S, u)) \in Nat
           /\ Cardinality(Of(S \ {s}, u)) \in Nat
           /\ Cardinality(Of(S \ {s}, u)) =
                 Cardinality(Of(S, u)) - (IF UserOf[s] = u /\ s \in S THEN 1 ELSE 0)
<1>1. IsFiniteSet(S \ {s})
  BY FS_RemoveElement
<1>2. IsFiniteSet(Of(S, u)) /\ IsFiniteSet(Of(S \ {s}, u))
  BY <1>1, FS_Subset DEF Of
<1>3. Cardinality(Of(S, u)) \in Nat /\ Cardinality(Of(S \ {s}, u)) \in Nat
  BY <1>2, FS_CardinalityType
<1>4. CASE UserOf[s] = u
  <2>1. Of(S \ {s}, u) = Of(S, u) \ {s} /\ (s \in Of(S, u) <=> s \in S)
    BY <1>4 DEF Of
  <2>2. Cardinality(Of(S, u) \ {s}) =
           IF s \in Of(S, u) THEN Cardinality(Of(S, u)) - 1 ELSE Cardinality(Of(S, u))
    BY <1>2, FS_RemoveElement
  <2>3. CASE s \in S
    BY <1>1, <1>3, <1>4, <2>1, <2>2, <2>3
  <2>4. CASE s \notin S
    BY <1>1, <1>3, <1>4, <2>1, <2>2, <2>4
  <2> QED
    BY <2>3, <2>4
<1>5. CASE UserOf[s] # u
  <2>1. Of(S \ {s}, u) = Of(S, u)
    BY <1>5 DEF Of
  <2> QED
    BY <1>1, <1>3, <1>5, <2>1
<1> QED
  BY <1>4, <1>5

----------------------------------------------------------------------------
LEMMA TypeInit == Init => TypeOK
BY DownloadAssumption DEF Init, TypeOK, PC, NoPage

LEMMA TypeStep == TypeOK /\ CountIsExact /\ BurstIsBound /\ [Next]_vars => TypeOK'
<1> SUFFICES ASSUME TypeOK, CountIsExact, BurstIsBound, [Next]_vars PROVE TypeOK'
  OBVIOUS
<1> USE DownloadAssumption
    DEF TypeOK, PC, Goto, Close, registries, adminVars, Deregister, NoPage
<1>a. \A s \in conns : count[UserOf[s]] - 1 \in Nat
  <2> SUFFICES ASSUME NEW s \in conns PROVE count[UserOf[s]] - 1 \in Nat
    OBVIOUS
  <2>1. s \in Of(conns, UserOf[s]) /\ UserOf[s] \in User
    BY DEF Of
  <2>2. IsFiniteSet(Of(conns, UserOf[s]))
    BY FS_Subset DEF Of, CountIsExact
  <2>3. Cardinality(Of(conns, UserOf[s])) \in Nat \ {0}
    BY <2>1, <2>2, FS_CardinalityType, FS_EmptySet
  <2> QED
    BY <2>1, <2>3 DEF CountIsExact, CountIsEntries
<1>1. CASE UNCHANGED vars
  BY <1>1 DEF vars
<1>2. ASSUME NEW s \in Session, Connect(s) \/ Verify(s) \/ Respond(s) \/ Activate(s)
             \/ StreamEnds(s) \/ Removed(s) \/ CloseSocket(s) \/ RoverHangsUp(s)
      PROVE  TypeOK'
  BY <1>2 DEF Connect, Verify, Respond, Activate, StreamEnds, Removed, CloseSocket, RoverHangsUp
<1>3. ASSUME NEW s \in Session, CheckLimit(s) PROVE TypeOK'
  <2>1. Cardinality(Registering(UserOf[s])) + 1 \in Nat
    BY FS_CardinalityType DEF BurstIsBound
  <2>2. CASE count[UserOf[s]] < MaxConns
    <3> DEFINE n == Cardinality(Registering(UserOf[s])) + 1
    <3>1. burst' = [burst EXCEPT ![UserOf[s]] = IF @ > n THEN @ ELSE n]
      BY <1>3, <2>2 DEF CheckLimit, Passes
    <3> HIDE DEF n
    <3>2. burst' \in [User -> Nat]
      BY <2>1, <3>1 DEF n
    <3> QED
      BY <1>3, <2>2, <3>2 DEF CheckLimit, Passes
  <2>3. CASE ~(count[UserOf[s]] < MaxConns)
    BY <1>3, <2>3 DEF CheckLimit
  <2> QED
    BY <2>2, <2>3
<1>4. ASSUME NEW s \in Session, AddUserConnection(s) PROVE TypeOK'
  BY <1>4 DEF AddUserConnection
<1>5. ASSUME NEW s \in Session, AddClient(s) PROVE TypeOK'
  BY <1>5 DEF AddClient, Of
<1>6. ASSUME NEW s \in Session, Evicted(s) PROVE TypeOK'
  BY <1>6 DEF Evicted
<1>7. ASSUME NEW s \in Session, Cleanup(s) PROVE TypeOK'
  BY <1>7 DEF Cleanup
<1>8. ASSUME NEW s \in Session, UnlistOwn(s) \/ RemovalUnlists(s) PROVE TypeOK'
  BY <1>8, <1>a DEF UnlistOwn, RemovalUnlists, Unlist
<1>9. ASSUME NEW s \in Session, RemovalCloses(s) \/ SendFailed(s) PROVE TypeOK'
  BY <1>9 DEF RemovalCloses, SendFailed
<1>10. ASSUME NEW s \in Session, DeleteUserRemove(s) PROVE TypeOK'
  <2>1. /\ page' \in [step : {"idle", "remove"}, user : User \cup {Free},
                      left : SUBSET Session, busy : Session \cup {Free}]
        /\ clients' \in SUBSET Session
    <3>1. CASE s \in clients
      <4>1. /\ page' = [page EXCEPT !.left = @ \ {s}, !.busy = s]
            /\ clients' = clients \ {s}
        BY <1>10, <3>1 DEF DeleteUserRemove
      <4> QED
        BY <4>1
    <3>2. CASE s \notin clients
      BY <1>10, <3>2 DEF DeleteUserRemove
    <3> QED
      BY <3>1, <3>2
  <2>2. removal' \in [Session -> {"no", "unlist", "close", "done"}]
    BY <1>10 DEF DeleteUserRemove
  <2> QED
    BY <1>10, <2>1, <2>2 DEF DeleteUserRemove
<1>11. CASE ThreadReleases
  BY <1>11 DEF ThreadReleases
<1>12. CASE DisconnectNext \/ DisconnectMount
  BY <1>12 DEF DisconnectNext, DisconnectMount, AdminCall
<1>13. CASE DeleteUserRow
  BY <1>13 DEF DeleteUserRow
<1>14. ASSUME NEW u \in User, DeleteUserBegin(u) PROVE TypeOK'
  BY <1>14 DEF DeleteUserBegin, AdminCall, Of
<1>15. CASE StopForwarder \/ CloseClientConnections \/ CloseAllConnections
  BY <1>15 DEF StopForwarder, CloseClientConnections, CloseAllConnections
<1>16. ASSUME NEW s \in Session, StopCloses(s) PROVE TypeOK'
  BY <1>16 DEF StopCloses
<1> QED
  BY <1>1, <1>2, <1>3, <1>4, <1>5, <1>6, <1>7, <1>8, <1>9, <1>10, <1>11, <1>12, <1>13,
     <1>14, <1>15, <1>16 DEF Next, HandlerStep, RemovalStep, LockRelease, Shutdown

----------------------------------------------------------------------------
(* The stages of a handler. *)
LEMMA StagesStep ==
    TypeOK /\ EntryStages /\ ClientStages /\ ReturnedIsClosed /\ [Next]_vars
      => EntryStages' /\ ClientStages' /\ ReturnedIsClosed'
<1> SUFFICES ASSUME TypeOK, EntryStages, ClientStages, ReturnedIsClosed, [Next]_vars
             PROVE  EntryStages' /\ ClientStages' /\ ReturnedIsClosed'
  OBVIOUS
<1> DEFINE Stages == EntryStages /\ ClientStages /\ ReturnedIsClosed
<1> USE DownloadAssumption
    DEF TypeOK, PC, Goto, Close, registries, adminVars, Deregister, Unlist,
        EntryStages, ClientStages, ReturnedIsClosed
<1>1. CASE UNCHANGED vars
  BY <1>1 DEF vars
<1>2. ASSUME NEW s \in Session, Connect(s) \/ Verify(s) \/ Respond(s) \/ Activate(s)
             \/ StreamEnds(s) \/ Removed(s) \/ CloseSocket(s) \/ RoverHangsUp(s)
      PROVE  Stages'
  BY <1>2 DEF Connect, Verify, Respond, Activate, StreamEnds, Removed, CloseSocket, RoverHangsUp
<1>3. ASSUME NEW s \in Session, CheckLimit(s) PROVE Stages'
  BY <1>3 DEF CheckLimit, Passes
<1>4. ASSUME NEW s \in Session, AddUserConnection(s) PROVE Stages'
  BY <1>4 DEF AddUserConnection
<1>5. ASSUME NEW s \in Session, AddClient(s) PROVE Stages'
  BY <1>5 DEF AddClient
<1>6. ASSUME NEW s \in Session, Evicted(s) PROVE Stages'
  BY <1>6 DEF Evicted
<1>7. ASSUME NEW s \in Session, Cleanup(s) PROVE Stages'
  BY <1>7 DEF Cleanup
<1>8. ASSUME NEW s \in Session, UnlistOwn(s) \/ RemovalUnlists(s) PROVE Stages'
  BY <1>8 DEF UnlistOwn, RemovalUnlists
<1>9. ASSUME NEW s \in Session, RemovalCloses(s) \/ SendFailed(s) \/ StopCloses(s) PROVE Stages'
  BY <1>9 DEF RemovalCloses, SendFailed, StopCloses
<1>10. ASSUME NEW s \in Session, DeleteUserRemove(s) PROVE Stages'
  BY <1>10 DEF DeleteUserRemove
<1>11. CASE ThreadReleases \/ DisconnectNext \/ DisconnectMount \/ DeleteUserRow
  BY <1>11 DEF ThreadReleases, DisconnectNext, DisconnectMount, AdminCall, DeleteUserRow
<1>12. ASSUME NEW u \in User, DeleteUserBegin(u) PROVE Stages'
  BY <1>12 DEF DeleteUserBegin
<1>13. CASE StopForwarder \/ CloseClientConnections \/ CloseAllConnections
  BY <1>13 DEF StopForwarder, CloseClientConnections, CloseAllConnections
<1> QED
  BY <1>1, <1>2, <1>3, <1>4, <1>5, <1>6, <1>7, <1>8, <1>9, <1>10, <1>11, <1>12, <1>13
     DEF Next, HandlerStep, RemovalStep, LockRelease, Shutdown

----------------------------------------------------------------------------
(* The count of a user's connections. *)

(* remove_user_connection may find the entry or not. *)
LEMMA UnlistKeepsCount ==
    ASSUME TypeOK, CountIsExact, NEW s \in Session, Unlist(s)
    PROVE  CountIsExact'
<1>1. /\ conns \in SUBSET Session /\ IsFiniteSet(conns) /\ count \in [User -> Nat]
      /\ UserOf[s] \in User
      /\ conns' = conns \ {s}
      /\ count' = [count EXCEPT ![UserOf[s]] = IF s \in conns THEN @ - 1 ELSE @]
      /\ \A u \in User : count[u] = Cardinality(Of(conns, u))
  BY DownloadAssumption DEF TypeOK, CountIsExact, CountIsEntries, Unlist
<1>2. IsFiniteSet(conns')
  BY <1>1, FS_RemoveElement
<1>3. ASSUME NEW u \in User PROVE count'[u] = Cardinality(Of(conns', u))
  <2>1. Cardinality(Of(conns', u)) =
           Cardinality(Of(conns, u)) - (IF UserOf[s] = u /\ s \in conns THEN 1 ELSE 0)
    BY <1>1, OneLess
  <2>2. CASE UserOf[s] = u /\ s \in conns
    BY <1>1, <2>1, <2>2
  <2>3. CASE ~(UserOf[s] = u /\ s \in conns)
    <3>1. count'[u] = count[u]
      BY <1>1, <2>3
    <3>2. Cardinality(Of(conns, u)) \in Nat
      BY <1>1
    <3> QED
      BY <1>1, <2>1, <2>3, <3>1, <3>2
  <2> QED
    BY <2>2, <2>3
<1> QED
  BY <1>2, <1>3 DEF CountIsExact, CountIsEntries, Of

LEMMA CountStep ==
    TypeOK /\ EntryStages /\ CountIsExact /\ [Next]_vars => CountIsExact'
<1> SUFFICES ASSUME TypeOK, EntryStages, CountIsExact, [Next]_vars PROVE CountIsExact'
  OBVIOUS
<1>1. CASE UNCHANGED <<conns, count>>
  BY <1>1 DEF CountIsExact, CountIsEntries, Of
<1>2. ASSUME NEW s \in Session, AddUserConnection(s) PROVE CountIsExact'
  <2>1. /\ conns \in SUBSET Session /\ IsFiniteSet(conns) /\ count \in [User -> Nat]
        /\ UserOf[s] \in User /\ s \notin conns
        /\ conns' = conns \cup {s}
        /\ count' = [count EXCEPT ![UserOf[s]] = @ + 1]
        /\ \A u \in User : count[u] = Cardinality(Of(conns, u))
    BY <1>2, DownloadAssumption
       DEF TypeOK, EntryStages, CountIsExact, CountIsEntries, AddUserConnection
  <2>2. IsFiniteSet(conns')
    BY <2>1, FS_AddElement
  <2>3. ASSUME NEW u \in User PROVE count'[u] = Cardinality(Of(conns', u))
    <3>1. Cardinality(Of(conns', u)) =
             Cardinality(Of(conns, u)) + (IF UserOf[s] = u /\ s \notin conns THEN 1 ELSE 0)
      BY <2>1, OneMore
    <3>2. CASE UserOf[s] = u
      BY <2>1, <3>1, <3>2
    <3>3. CASE UserOf[s] # u
      BY <2>1, <3>1, <3>3
    <3> QED
      BY <3>2, <3>3
  <2> QED
    BY <2>2, <2>3 DEF CountIsExact, CountIsEntries, Of
<1>3. ASSUME NEW s \in Session, UnlistOwn(s) PROVE CountIsExact'
  BY <1>3, UnlistKeepsCount DEF UnlistOwn
<1>4. ASSUME NEW s \in Session, RemovalUnlists(s) PROVE CountIsExact'
  BY <1>4, UnlistKeepsCount DEF RemovalUnlists
<1>5. CASE CloseAllConnections
  <2>1. conns' = {} /\ count' = [u \in User |-> 0]
    BY <1>5 DEF CloseAllConnections
  <2>2. \A u \in User : Of(conns', u) = {}
    BY <2>1 DEF Of
  <2> QED
    BY <2>1, <2>2, FS_EmptySet DEF CountIsExact, CountIsEntries, Of
<1>6. ASSUME NEW s \in Session,
             \/ HandlerStep(s) \/ RemovalStep(s) \/ Connect(s) \/ RoverHangsUp(s)
             \/ SendFailed(s) \/ DeleteUserRemove(s) \/ StopCloses(s)
      PROVE  CountIsExact'
  BY <1>1, <1>2, <1>3, <1>4, <1>6
     DEF HandlerStep, Verify, CheckLimit, AddClient, Evicted, Respond, Activate, StreamEnds,
         Cleanup, Removed, CloseSocket, RemovalStep, RemovalCloses, Connect, RoverHangsUp,
         SendFailed, DeleteUserRemove, StopCloses, registries
<1>7. ASSUME NEW u \in User, DeleteUserBegin(u) PROVE CountIsExact'
  BY <1>1, <1>7 DEF DeleteUserBegin, registries
<1> QED
  BY <1>1, <1>5, <1>6, <1>7
     DEF Next, vars, registries, LockRelease, ThreadReleases, DisconnectNext, DisconnectMount,
         DeleteUserRow, StopForwarder, Shutdown, CloseClientConnections

----------------------------------------------------------------------------
(* The limit of a mount point. *)

(* remove_client only makes room. *)
LEMMA DeregisterKeepsLimit ==
    ASSUME TypeOK, IsFiniteSet(clients), UserWithinLimit, NEW s \in Session, Deregister(s)
    PROVE  /\ IsFiniteSet(clients)' /\ UserWithinLimit'
           /\ s \in clients => Cardinality(Of(clients, UserOf[s])') < PerMount
           /\ \A u \in User : Cardinality(Of(clients, u)') <= Cardinality(Of(clients, u))
<1>1. /\ clients \in SUBSET Session /\ UserOf[s] \in User /\ PerMount \in Nat
      /\ clients' = clients \ {s}
  BY DownloadAssumption DEF TypeOK, Deregister
<1>2. \A u \in User : /\ Cardinality(Of(clients, u)) \in Nat
                      /\ Cardinality(Of(clients', u)) \in Nat
                      /\ Cardinality(Of(clients', u)) = Cardinality(Of(clients, u))
                            - (IF UserOf[s] = u /\ s \in clients THEN 1 ELSE 0)
  BY <1>1, OneLess
<1>3. \A u \in User : /\ Cardinality(Of(clients', u)) <= Cardinality(Of(clients, u))
                      /\ Cardinality(Of(clients, u)) <= PerMount
                      /\ Cardinality(Of(clients', u)) <= PerMount
  BY <1>1, <1>2 DEF UserWithinLimit
<1>4. s \in clients => Cardinality(Of(clients', UserOf[s])) < PerMount
  BY <1>1, <1>2, <1>3
<1>5. IsFiniteSet(clients')
  BY <1>1, FS_RemoveElement
<1> QED
  BY <1>3, <1>4, <1>5 DEF UserWithinLimit, Of

(* There is room for a newcomer. *)
LEMMA AddKeepsLimit ==
    ASSUME TypeOK, IsFiniteSet(clients), UserWithinLimit, NEW s \in Session,
           Cardinality(Of(clients, UserOf[s])) < PerMount, clients' = clients \cup {s}
    PROVE  IsFiniteSet(clients)' /\ UserWithinLimit'
<1>1. /\ clients \in SUBSET Session /\ UserOf[s] \in User /\ PerMount \in Nat
  BY DownloadAssumption DEF TypeOK
<1>2. \A u \in User : /\ Cardinality(Of(clients, u)) \in Nat
                      /\ Cardinality(Of(clients', u)) = Cardinality(Of(clients, u))
                            + (IF UserOf[s] = u /\ s \notin clients THEN 1 ELSE 0)
  BY <1>1, OneMore
<1>3. \A u \in User : Cardinality(Of(clients', u)) <= PerMount
  BY <1>1, <1>2 DEF UserWithinLimit
<1>4. IsFiniteSet(clients')
  BY <1>1, FS_AddElement
<1> QED
  BY <1>3, <1>4 DEF UserWithinLimit, Of

(* While client_lock is free no newcomer evicts; what then happens to the   *)
(* registry concerns the limit alone.                                       *)
LEMMA FreeLockHasNoEvictor ==
    ASSUME TypeOK, EvictorHasRoom, lock \notin Session
    PROVE  \A s \in Session : pc[s] # "evict"
BY DEF EvictorHasRoom

LEMMA LimitStep == TypeOK /\ LimitIsKept /\ [Next]_vars => LimitIsKept'
<1> SUFFICES ASSUME TypeOK, LimitIsKept, [Next]_vars PROVE LimitIsKept'
  OBVIOUS
<1>a. /\ IsFiniteSet(clients) /\ UserWithinLimit /\ EvictorHasRoom
      /\ pc \in [Session -> PC] /\ clients \in SUBSET Session
      /\ Free \notin Session /\ Thread \notin Session /\ Page \notin Session
      /\ \A s \in Session : UserOf[s] \in User
      /\ PerMount \in Nat
  BY DownloadAssumption DEF LimitIsKept, TypeOK
(* A step that leaves registry and lock alone, and no handler at "evict". *)
<1>1. ASSUME UNCHANGED <<clients, lock>>,
             \A s \in Session : pc'[s] = "evict" <=> pc[s] = "evict"
      PROVE  LimitIsKept'
  BY <1>1 DEF LimitIsKept, UserWithinLimit, EvictorHasRoom, Of
(* A step of the registry with no evictor before or after. *)
<1>2. ASSUME lock \notin Session, lock' \notin Session,
             \A s \in Session : pc'[s] = "evict" => pc[s] = "evict",
             IsFiniteSet(clients)', UserWithinLimit'
      PROVE  LimitIsKept'
  BY <1>2, <1>a, FreeLockHasNoEvictor DEF LimitIsKept, EvictorHasRoom
<1>3. CASE UNCHANGED vars
  BY <1>1, <1>3 DEF vars, registries
<1>4. ASSUME NEW s \in Session, Connect(s) \/ Verify(s) \/ CheckLimit(s) \/ AddUserConnection(s)
             \/ Respond(s) \/ Activate(s) \/ StreamEnds(s) \/ Removed(s) \/ UnlistOwn(s)
             \/ CloseSocket(s)
      PROVE  LimitIsKept'
  <2>1. /\ UNCHANGED <<clients, lock>> /\ pc[s] # "evict"
        /\ \E l \in PC \ {"evict"} : pc' = [pc EXCEPT ![s] = l]
    BY <1>4 DEF Connect, Verify, CheckLimit, Passes, AddUserConnection, Respond, Activate,
                StreamEnds, Removed, UnlistOwn, CloseSocket, Goto, PC, registries
  <2>2. \A t \in Session : pc'[t] = "evict" <=> pc[t] = "evict"
    BY <1>a, <2>1
  <2> QED
    BY <1>1, <2>1, <2>2
<1>5. ASSUME NEW s \in Session, RoverHangsUp(s) \/ RemovalStep(s) \/ StopCloses(s)
      PROVE  LimitIsKept'
  BY <1>1, <1>5 DEF RoverHangsUp, RemovalStep, RemovalUnlists, RemovalCloses, StopCloses,
                    registries
<1>6. CASE DeleteUserRow \/ CloseClientConnections \/ CloseAllConnections
  BY <1>1, <1>6 DEF DeleteUserRow, CloseClientConnections, CloseAllConnections, registries
<1>7. ASSUME NEW u \in User, DeleteUserBegin(u) PROVE LimitIsKept'
  BY <1>1, <1>7 DEF DeleteUserBegin, registries
<1>8. ASSUME NEW s \in Session, AddClient(s) PROVE LimitIsKept'
  <2>1. CASE sock[s] = "closed" /\ Goto(s, "unlist") /\ UNCHANGED <<clients, removal, lock, victim>>
    <3>1. \A t \in Session : pc'[t] = "evict" <=> pc[t] = "evict"
      BY <1>a, <1>8, <2>1 DEF Goto, AddClient
    <3> QED
      BY <1>1, <2>1, <3>1
  <2>2. CASE /\ lock = Free /\ Cardinality(Of(clients, UserOf[s])) < PerMount
             /\ clients' = clients \cup {s} /\ Goto(s, "respond")
             /\ UNCHANGED <<removal, lock, victim>>
    <3>1. IsFiniteSet(clients)' /\ UserWithinLimit'
      BY <1>a, <2>2, AddKeepsLimit
    <3>2. \A t \in Session : pc'[t] = "evict" => pc[t] = "evict"
      BY <1>a, <2>2 DEF Goto
    <3> QED
      BY <1>2, <1>a, <2>2, <3>1, <3>2
  <2>3. CASE /\ lock = Free /\ Cardinality(Of(clients, UserOf[s])) >= PerMount
             /\ \E old \in Of(clients, UserOf[s]) : Deregister(old) /\ victim' = old
             /\ lock' = s /\ Goto(s, "evict")
    <3>1. PICK old \in Of(clients, UserOf[s]) : Deregister(old)
      BY <2>3
    <3>2. old \in Session /\ old \in clients /\ UserOf[old] = UserOf[s]
      BY <1>a, <3>1 DEF Of
    <3>3. /\ IsFiniteSet(clients)' /\ UserWithinLimit'
          /\ Cardinality(Of(clients, UserOf[s])') < PerMount
      BY <1>a, <3>1, <3>2, DeregisterKeepsLimit
    <3>4. \A t \in Session : pc'[t] = "evict" <=> t = s
      BY <1>a, <2>3, FreeLockHasNoEvictor DEF Goto
    <3> QED
      BY <1>a, <2>3, <3>3, <3>4 DEF LimitIsKept, EvictorHasRoom
  <2> QED
    BY <1>8, <2>1, <2>2, <2>3 DEF AddClient
<1>9. ASSUME NEW s \in Session, Evicted(s) PROVE LimitIsKept'
  <2>1. lock = s /\ Cardinality(Of(clients, UserOf[s])) < PerMount /\ lock' = Free
    BY <1>a, <1>9 DEF Evicted, EvictorHasRoom
  <2>2. IsFiniteSet(clients)' /\ UserWithinLimit'
    <3>1. CASE clients' = clients \cup {s}
      BY <1>a, <2>1, <3>1, AddKeepsLimit
    <3>2. CASE clients' = clients
      BY <1>a, <3>2 DEF UserWithinLimit, Of
    <3> QED
      BY <1>9, <3>1, <3>2 DEF Evicted
  <2>3. \A t \in Session : pc'[t] # "evict"
    <3>1. \A t \in Session \ {s} : pc[t] # "evict"
      BY <1>a, <2>1 DEF EvictorHasRoom
    <3> QED
      BY <1>a, <1>9, <3>1 DEF Evicted, Goto
  <2> QED
    BY <1>a, <2>1, <2>2, <2>3 DEF LimitIsKept, EvictorHasRoom
<1>10. ASSUME NEW s \in Session, Cleanup(s) PROVE LimitIsKept'
  <2>1. lock = Free /\ lock' = lock /\ \A t \in Session : pc'[t] = "evict" => pc[t] = "evict"
    BY <1>a, <1>10 DEF Cleanup, Goto
  <2>2. IsFiniteSet(clients)' /\ UserWithinLimit'
    <3>1. CASE s \in clients
      BY <1>a, <1>10, <3>1, DeregisterKeepsLimit DEF Cleanup
    <3>2. CASE s \notin clients
      BY <1>a, <1>10, <3>2 DEF Cleanup, UserWithinLimit, Of
    <3> QED
      BY <3>1, <3>2
  <2> QED
    BY <1>2, <1>a, <2>1, <2>2
<1>11. ASSUME NEW s \in Session, SendFailed(s) \/ DeleteUserRemove(s) PROVE LimitIsKept'
  <2>1. lock = Free /\ lock' \in {Free, Thread} /\ pc' = pc
    BY <1>11 DEF SendFailed, DeleteUserRemove
  <2>2. IsFiniteSet(clients)' /\ UserWithinLimit'
    <3>1. CASE Deregister(s)
      BY <1>a, <3>1, DeregisterKeepsLimit
    <3>2. CASE clients' = clients
      BY <1>a, <3>2 DEF UserWithinLimit, Of
    <3> QED
      BY <1>11, <3>1, <3>2 DEF SendFailed, DeleteUserRemove
  <2> QED
    BY <1>2, <1>a, <2>1, <2>2
<1>12. CASE ThreadReleases
  BY <1>2, <1>a, <1>12 DEF ThreadReleases, UserWithinLimit, Of
<1>13. CASE DisconnectMount \/ DisconnectNext
  <2>1. lock \in {Free, Page} /\ lock' \in {Free, Page} /\ pc' = pc
    BY <1>13 DEF DisconnectMount, DisconnectNext
  <2>2. IsFiniteSet(clients)' /\ UserWithinLimit'
    <3>1. ASSUME NEW s \in clients, Deregister(s) PROVE IsFiniteSet(clients)' /\ UserWithinLimit'
      BY <1>a, <3>1, DeregisterKeepsLimit
    <3>2. CASE clients' = clients
      BY <1>a, <3>2 DEF UserWithinLimit, Of
    <3> QED
      BY <1>13, <3>1, <3>2 DEF DisconnectMount, DisconnectNext
  <2> QED
    BY <1>2, <1>a, <2>1, <2>2
<1>14. CASE StopForwarder
  <2>1. clients' = {} /\ lock = Free /\ lock' = Free /\ pc' = pc
    BY <1>14 DEF StopForwarder
  <2>2. \A u \in User : Of(clients', u) = {}
    BY <2>1 DEF Of
  <2>3. IsFiniteSet(clients)' /\ UserWithinLimit'
    BY <1>a, <2>1, <2>2, FS_EmptySet DEF UserWithinLimit, Of
  <2> QED
    BY <1>2, <1>a, <2>1, <2>3
<1> QED
  BY <1>3, <1>4, <1>5, <1>6, <1>7, <1>8, <1>9, <1>10, <1>11, <1>12, <1>13, <1>14
     DEF Next, HandlerStep, LockRelease, Shutdown

----------------------------------------------------------------------------
(* The limit of a user. *)

(* Who is between the check and the entry, after a step of one handler. *)
LEMMA RegisteringGrows ==
    ASSUME TypeOK, NEW s \in Session, pc[s] # "register", Goto(s, "register"), NEW u \in User
    PROVE  Registering(u)' = IF UserOf[s] = u THEN Registering(u) \cup {s} ELSE Registering(u)
BY DEF TypeOK, Goto, Registering, Of

LEMMA RegisteringShrinks ==
    ASSUME TypeOK, NEW s \in Session, NEW l \in PC \ {"register"}, Goto(s, l), NEW u \in User
    PROVE  Registering(u)' = IF UserOf[s] = u THEN Registering(u) \ {s} ELSE Registering(u)
BY DEF TypeOK, Goto, Registering, Of

LEMMA RegisteringIsUnchanged ==
    ASSUME \A s \in Session : pc'[s] = "register" <=> pc[s] = "register", NEW u \in User
    PROVE  Registering(u)' = Registering(u)
BY DEF Registering, Of

LEMMA BurstStep == TypeOK /\ CountIsExact /\ BurstIsBound /\ [Next]_vars => BurstIsBound'
<1> SUFFICES ASSUME TypeOK, CountIsExact, BurstIsBound, [Next]_vars PROVE BurstIsBound'
  OBVIOUS
<1> DEFINE Slack(b) == IF b = 0 THEN 1 ELSE b
           R(u) == Cardinality(Registering(u))
<1>a. /\ pc \in [Session -> PC] /\ count \in [User -> Nat] /\ burst \in [User -> Nat]
      /\ MaxConns \in Nat \ {0}
      /\ \A s \in Session : UserOf[s] \in User
  BY DownloadAssumption DEF TypeOK
<1>b. \A u \in User : /\ IsFiniteSet(Registering(u)) /\ R(u) \in Nat
                      /\ count[u] + R(u) <= MaxConns - 1 + Slack(burst[u])
  BY FS_CardinalityType DEF BurstIsBound, OvershootIsBurst
(* Who is registering stays, and the count does not rise. *)
<1>1. ASSUME burst' = burst, \A s \in Session : pc'[s] = "register" <=> pc[s] = "register",
             \A u \in User : count'[u] \in Nat /\ count'[u] <= count[u]
      PROVE  BurstIsBound'
  <2>1. \A u \in User : Registering(u)' = Registering(u)
    BY <1>1, RegisteringIsUnchanged
  <2>2. ASSUME NEW u \in User PROVE count'[u] + R(u) <= MaxConns - 1 + Slack(burst[u])
    <3> DEFINE b == MaxConns - 1 + Slack(burst[u])
    <3>1. b \in Nat
      BY <1>a
    <3>2. /\ R(u) \in Nat /\ count[u] \in Nat /\ count'[u] \in Nat
          /\ count'[u] <= count[u] /\ count[u] + R(u) <= b
      BY <1>a, <1>b, <1>1
    <3> HIDE DEF b, R
    <3> QED
      BY <3>1, <3>2 DEF b
  <2> QED
    BY <1>b, <1>1, <2>1, <2>2 DEF BurstIsBound, OvershootIsBurst
<1>2. CASE UNCHANGED <<pc, count, burst>>
  BY <1>1, <1>2, <1>a
<1>3. ASSUME NEW s \in Session, NEW l \in PC \ {"register"}, pc[s] # "register", Goto(s, l),
             burst' = burst, \A u \in User : count'[u] \in Nat /\ count'[u] <= count[u]
      PROVE  BurstIsBound'
  <2>1. \A t \in Session : pc'[t] = "register" <=> pc[t] = "register"
    BY <1>3, <1>a DEF Goto
  <2> QED
    BY <1>1, <1>3, <2>1
<1>4. \A u \in User : UNCHANGED count => count'[u] \in Nat /\ count'[u] <= count[u]
  BY <1>a
<1>5. ASSUME NEW s \in Session, Unlist(s)
      PROVE  \A u \in User : count'[u] \in Nat /\ count'[u] <= count[u]
  <2>1. CASE s \in conns
    <3>1. Cardinality(Of(conns, UserOf[s])) \in Nat \ {0}
      <4>1. s \in Of(conns, UserOf[s]) /\ IsFiniteSet(Of(conns, UserOf[s]))
        BY <2>1, FS_Subset DEF Of, CountIsExact
      <4> QED
        BY <4>1, FS_CardinalityType, FS_EmptySet
    <3>2. count[UserOf[s]] - 1 \in Nat
      BY <1>a, <3>1 DEF CountIsExact, CountIsEntries
    <3> QED
      BY <1>a, <1>5, <2>1, <3>2 DEF Unlist
  <2>2. CASE s \notin conns
    BY <1>a, <1>5, <2>2 DEF Unlist
  <2> QED
    BY <2>1, <2>2
<1>6. ASSUME NEW s \in Session, CheckLimit(s) PROVE BurstIsBound'
  <2>1. CASE ~(count[UserOf[s]] < MaxConns)
    <3>1. Goto(s, "closing") /\ pc[s] # "register" /\ burst' = burst /\ UNCHANGED count
      BY <1>6, <2>1 DEF CheckLimit, registries
    <3> QED
      BY <1>3, <1>4, <3>1 DEF PC
  <2>2. CASE count[UserOf[s]] < MaxConns
    <3> DEFINE v == UserOf[s]
               n == R(v) + 1
    <3>1. /\ Goto(s, "register") /\ pc[s] # "register" /\ UNCHANGED count
          /\ burst' = [burst EXCEPT ![v] = IF @ > n THEN @ ELSE n]
      BY <1>6, <2>2 DEF CheckLimit, Passes, registries
    <3>2. \A u \in User :
             Registering(u)' = IF v = u THEN Registering(u) \cup {s} ELSE Registering(u)
      BY <3>1, RegisteringGrows
    <3>3. v \in User /\ s \notin Registering(v)
      BY <1>a, <3>1 DEF Registering
    <3>4. /\ IsFiniteSet(Registering(v) \cup {s})
          /\ Cardinality(Registering(v) \cup {s}) = n
      BY <1>b, <3>3, FS_AddElement
    <3>5. ASSUME NEW u \in User
          PROVE  /\ IsFiniteSet(Registering(u)')
                 /\ count'[u] + Cardinality(Registering(u)') <= MaxConns - 1 + Slack(burst'[u])
      <4>1. CASE u = v
        <5>1. n \in Nat \ {0} /\ burst'[v] \in Nat /\ burst'[v] >= n /\ burst'[v] # 0
          <6> HIDE DEF v
          <6>1. n \in Nat \ {0}
            BY <1>b, <3>3
          <6> HIDE DEF n
          <6> QED
            BY <1>a, <3>1, <3>3, <6>1
        <5>2. count'[v] = count[v] /\ count[v] \in Nat /\ count[v] < MaxConns
          BY <1>a, <2>2, <3>1, <3>3
        <5>3. Cardinality(Registering(u)') = n /\ IsFiniteSet(Registering(u)')
          BY <3>2, <3>4, <4>1
        <5>4. Slack(burst'[v]) = burst'[v]
          BY <5>1
        <5> HIDE DEF n, v, Slack
        <5>5. count'[v] + n <= MaxConns - 1 + burst'[v]
          BY <1>a, <5>1, <5>2
        <5> QED
          BY <4>1, <5>3, <5>4, <5>5
      <4>2. CASE u # v
        <5>1. Registering(u)' = Registering(u) /\ burst'[u] = burst[u] /\ count'[u] = count[u]
          BY <1>a, <3>1, <3>2, <4>2
        <5> QED
          BY <1>b, <5>1
      <4> QED
        BY <4>1, <4>2
    <3> QED
      BY <3>5 DEF BurstIsBound, OvershootIsBurst
  <2> QED
    BY <2>1, <2>2
<1>7. ASSUME NEW s \in Session, AddUserConnection(s) PROVE BurstIsBound'
  <2> DEFINE v == UserOf[s]
  <2>1. /\ Goto(s, "add") /\ pc[s] = "register" /\ burst' = burst
        /\ count' = [count EXCEPT ![v] = @ + 1]
    BY <1>7 DEF AddUserConnection
  <2>2. \A u \in User :
           Registering(u)' = IF v = u THEN Registering(u) \ {s} ELSE Registering(u)
    BY <2>1, RegisteringShrinks DEF PC
  <2>3. v \in User /\ s \in Registering(v)
    BY <1>a, <2>1 DEF Registering, Of
  <2>4. /\ IsFiniteSet(Registering(v) \ {s})
        /\ Cardinality(Registering(v) \ {s}) = R(v) - 1
    BY <1>b, <2>3, FS_RemoveElement
  <2>5. ASSUME NEW u \in User
        PROVE  /\ IsFiniteSet(Registering(u)')
               /\ count'[u] + Cardinality(Registering(u)') <= MaxConns - 1 + Slack(burst'[u])
    <3>1. CASE u = v
      <4>1. /\ Cardinality(Registering(u)') = R(v) - 1 /\ IsFiniteSet(Registering(u)')
            /\ count'[v] = count[v] + 1 /\ count[v] \in Nat /\ R(v) \in Nat
        BY <1>a, <1>b, <2>1, <2>2, <2>3, <2>4, <3>1
      <4>2. count[v] + R(v) <= MaxConns - 1 + Slack(burst'[v])
        BY <1>b, <2>1, <2>3
      <4> HIDE DEF v, Slack, R
      <4>3. (count[v] + 1) + (R(v) - 1) = count[v] + R(v)
        BY <4>1
      <4> QED
        BY <3>1, <4>1, <4>2, <4>3
    <3>2. CASE u # v
      <4>1. Registering(u)' = Registering(u) /\ burst'[u] = burst[u] /\ count'[u] = count[u]
        BY <1>a, <2>1, <2>2, <3>2
      <4> QED
        BY <1>b, <4>1
    <3> QED
      BY <3>1, <3>2
  <2> QED
    BY <2>5 DEF BurstIsBound, OvershootIsBurst
<1>8. ASSUME NEW s \in Session, Connect(s) \/ Verify(s) \/ Respond(s) \/ Activate(s)
             \/ StreamEnds(s) \/ Removed(s) \/ CloseSocket(s) \/ AddClient(s)
             \/ Evicted(s) \/ Cleanup(s)
      PROVE  BurstIsBound'
  <2>1. /\ UNCHANGED <<count, burst>> /\ pc[s] # "register"
        /\ \E l \in PC \ {"register"} : Goto(s, l)
    BY <1>8 DEF Connect, Verify, Respond, Activate, StreamEnds, Removed, CloseSocket, AddClient,
                Evicted, Cleanup, Goto, PC, registries
  <2> QED
    BY <1>3, <1>4, <2>1
<1>9. ASSUME NEW s \in Session, UnlistOwn(s) PROVE BurstIsBound'
  <2>1. Goto(s, "closing") /\ pc[s] # "register" /\ burst' = burst /\ Unlist(s)
    BY <1>9 DEF UnlistOwn
  <2> QED
    BY <1>3, <1>5, <2>1 DEF PC
<1>10. ASSUME NEW s \in Session, RemovalUnlists(s) PROVE BurstIsBound'
  <2>1. pc' = pc /\ burst' = burst /\ Unlist(s)
    BY <1>10 DEF RemovalUnlists
  <2> QED
    BY <1>1, <1>5, <2>1
<1>11. CASE CloseAllConnections
  <2>1. pc' = pc /\ burst' = burst /\ count' = [u \in User |-> 0]
    BY <1>11 DEF CloseAllConnections, adminVars
  <2> QED
    BY <1>1, <1>a, <2>1
<1>12. ASSUME NEW s \in Session, RoverHangsUp(s) \/ RemovalCloses(s) \/ StopCloses(s)
              \/ SendFailed(s) \/ DeleteUserRemove(s)
       PROVE  BurstIsBound'
  BY <1>2, <1>12 DEF RoverHangsUp, RemovalCloses, StopCloses, SendFailed, DeleteUserRemove,
                     registries
<1>13. ASSUME NEW u \in User, DeleteUserBegin(u) PROVE BurstIsBound'
  BY <1>2, <1>13 DEF DeleteUserBegin, registries
<1> QED
  BY <1>2, <1>6, <1>7, <1>8, <1>9, <1>10, <1>11, <1>12, <1>13
     DEF Next, HandlerStep, RemovalStep, LockRelease, Shutdown, vars, registries,
         ThreadReleases, DisconnectNext, DisconnectMount, DeleteUserRow, StopForwarder,
         CloseClientConnections

----------------------------------------------------------------------------
LEMMA InvInit == Init => IInv
<1> SUFFICES ASSUME Init PROVE IInv
  OBVIOUS
<1>1. \A u \in User : Of(conns, u) = {} /\ Of(clients, u) = {} /\ Registering(u) = {}
  BY DEF Init, Registering, Of
<1>a. IsFiniteSet({}) /\ Cardinality({}) = 0
  BY FS_EmptySet
<1>b. CountIsExact
  BY <1>1, <1>a DEF Init, CountIsExact, CountIsEntries
<1>c. UserWithinLimit
  BY <1>1, <1>a, DownloadAssumption DEF UserWithinLimit
<1>d. EvictorHasRoom
  BY DownloadAssumption DEF Init, EvictorHasRoom
<1>e. BurstIsBound
  <2>1. ASSUME NEW u \in User
        PROVE  count[u] + Cardinality(Registering(u))
                  <= MaxConns - 1 + (IF burst[u] = 0 THEN 1 ELSE burst[u])
    <3>1. count[u] = 0 /\ burst[u] = 0 /\ Cardinality(Registering(u)) = 0
      BY <1>1, <1>a DEF Init
    <3>2. MaxConns \in Nat \ {0}
      BY DownloadAssumption
    <3> QED
      BY <3>1, <3>2
  <2> QED
    BY <1>1, <1>a, <2>1 DEF BurstIsBound, OvershootIsBurst
<1>2. CountIsExact /\ LimitIsKept /\ BurstIsBound
  BY <1>a, <1>b, <1>c, <1>d, <1>e DEF Init, LimitIsKept
<1>3. EntryStages /\ ClientStages /\ ReturnedIsClosed
  BY DEF Init, EntryStages, ClientStages, ReturnedIsClosed
<1> QED
  BY <1>2, <1>3, TypeInit DEF IInv

LEMMA Invariant == Spec => []IInv
<1>1. IInv /\ [Next]_vars => IInv'
  BY TypeStep, StagesStep, CountStep, LimitStep, BurstStep DEF IInv
<1> QED
  BY InvInit, <1>1, PTL DEF Spec

(* Every variable keeps its type: the count of a user's connections, which  *)
(* two removers take down, never falls below zero.                          *)
THEOREM TypesHold == Spec => []TypeOK
<1>1. IInv => TypeOK
  BY DEF IInv
<1> QED
  BY Invariant, <1>1, PTL

(* The count that admits a user is the number of its entries in the user    *)
(* table, whoever removes the connection, and after the shutdown.           *)
THEOREM CountsAreEntries == Spec => []CountIsEntries
<1>1. IInv => CountIsEntries
  BY DEF IInv, CountIsExact
<1> QED
  BY Invariant, <1>1, PTL

(* A user never has more than MAX_USERS_PER_MOUNT clients on a mount point: *)
(* a newcomer keeps client_lock from the check to its registration, through *)
(* the removal of the client it replaces.                                   *)
THEOREM UsersKeepTheirLimit == Spec => []UserWithinLimit
<1>1. IInv => UserWithinLimit
  BY DEF IInv, LimitIsKept
<1> QED
  BY Invariant, <1>1, PTL

(* MAX_CONNECTIONS_PER_USER is exceeded by no more than the connections     *)
(* that were at once between verify_user and add_user_connection.           *)
THEOREM OvershootsAreBursts == Spec => []OvershootIsBurst
<1>1. IInv => OvershootIsBurst
  BY DEF IInv, BurstIsBound
<1> QED
  BY Invariant, <1>1, PTL

(* A download handler that has returned has no entry in the user table, no  *)
(* client in the registry and no open socket.                               *)
THEOREM NothingIsLeftBehind == Spec => []NothingLeftBehind
<1>1. IInv => NothingLeftBehind
  BY DEF IInv, EntryStages, ClientStages, ReturnedIsClosed, TypeOK, NothingLeftBehind
<1> QED
  BY Invariant, <1>1, PTL
=============================================================================

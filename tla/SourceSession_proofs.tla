------------------------ MODULE SourceSession_proofs ------------------------
(***************************************************************************)
(* Proofs about SourceSession, for every set of sessions and mount points. *)
(***************************************************************************)
EXTENDS SourceSession, FiniteSetTheorems, TLAPS

(* A handler that has not begun or has returned holds no open socket. *)
SocketFollowsHandler ==
    \A s \in Session : pc[s] \in {"idle", "done"} => sock[s] \in {"none", "closed"}

(* The shutdown has closed every socket, or has it on its list, before it   *)
(* looks at the mount table.                                                *)
ShutdownGoesInOrder ==
    /\ shut.phase # "entries" => shut.entries = {}
    /\ shut.phase = "sockets" =>
          \A s \in Session : s \in shut.socks \/ sock[s] \in {"none", "closed"}
    /\ shut.phase = "entries" => \A s \in Session : sock[s] \in {"none", "closed"}

(* The inductive invariant. *)
IInv ==
    /\ TypeOK
    /\ SocketFollowsHandler
    /\ ShutdownGoesInOrder
    /\ LiveSourceOwnsMount
    /\ NoLeakedMount
    /\ NoLeakedBuffer

USE DEF Goto, Close, AdminCall

(* The number of registered mount points is a number. *)
LEMMA TableSize == Cardinality({m \in Mount : online[m] # NoEntry}) \in Nat
BY FS_CardinalityType, FS_Subset, ConstantsAssumption

(* Every definition of the model keeps the types of the variables. *)
LEMMA TypeStep == TypeOK /\ [Next]_vars => TypeOK'
<1> SUFFICES ASSUME TypeOK, [Next]_vars PROVE TypeOK'
  OBVIOUS
<1> USE ConstantsAssumption, TableSize
    DEF TypeOK, PC, Arriving, Established, Feeding, Entry,
        handlerVars, tableVars, adminVars
<1>1. CASE \E s \in Session : HandlerStep(s)
  <2> PICK s \in Session : HandlerStep(s)
    BY <1>1
  <2>1. CASE SweepSnapshot(s)
    BY <2>1 DEF SweepSnapshot
  <2>2. CASE SweepOne(s)
    BY <2>2 DEF SweepOne, RemoveMount
  <2>3. CASE SweepDone(s)
    BY <2>3 DEF SweepDone
  <2>4. CASE Refresh(s)
    BY <2>4 DEF Refresh
  <2>5. CASE Verify(s) \/ RegisterRefused(s)
    BY <2>5 DEF Verify, RegisterRefused
  <2>6. CASE Register(s)
    <3>1. MountOf[s] \in Mount /\ UNCHANGED <<suspects, seen, chunks, buf, adminVars, shut>>
      BY <2>6 DEF Register
    <3>2. sock' \in [Session -> {"none", "open", "hungup", "closed"}]
      BY <2>6 DEF Register
    <3>3. dataCount' \in [Mount -> Nat]
      BY <2>6, <3>1 DEF Register
    <3>4. pc' \in [Session -> PC] /\ online' \in [Mount -> Entry \cup {NoEntry}]
      BY <2>6, <3>1 DEF Register, Accepted, NotAccepted
    <3> QED
      BY <3>1, <3>2, <3>3, <3>4
  <2>7. CASE StartReceiving(s) \/ ReceiveEnd(s)
    BY <2>7 DEF StartReceiving, ReceiveEnd
  <2>8. CASE UploadCheck(s) \/ UploadCreate(s) \/ UploadAppend(s)
    BY <2>8 DEF UploadCheck, UploadCreate, UploadAppend
  <2>9. CASE UpdateStats(s)
    BY <2>9 DEF UpdateStats, Count
  <2>10. CASE CleanupMount(s) \/ CleanupBuffer(s)
    BY <2>10 DEF CleanupMount, CleanupBuffer, RemoveMount
  <2>11. CASE CloseSocket(s)
    BY <2>11 DEF CloseSocket
  <2> QED
    BY <2>1, <2>2, <2>3, <2>4, <2>5, <2>6, <2>7, <2>8, <2>9, <2>10, <2>11
       DEF HandlerStep
<1>2. CASE \E s \in Session : Network(s)
  BY <1>2 DEF Network, Connect, Receive, ReceiveTimeout, PeerHangsUp
<1>3. CASE Admin
  <2>1. CASE \E m \in Mount : InitializeMount(m) \/ CreateRow(m) \/ AdminDisconnect(m)
    BY <2>1 DEF InitializeMount, CreateRow, AdminDisconnect
  <2>2. CASE UpdateRow \/ DeleteRow
    BY <2>2 DEF UpdateRow, DeleteRow
  <2>3. CASE DeleteEntry
    BY <2>3 DEF DeleteEntry, RemoveMount
  <2> QED
    BY <1>3, <2>1, <2>2, <2>3 DEF Admin
<1>4. CASE ShutdownBegin
  BY <1>4 DEF ShutdownBegin
<1>5. CASE ShutdownProgress
  <2>1. CASE \E s \in Session : ShutdownSocket(s)
    BY <2>1 DEF ShutdownSocket
  <2>2. CASE ShutdownSnapshot
    <3>1. {<<m, online[m]>> : m \in {n \in Mount : online[n] # NoEntry}}
             \in SUBSET (Mount \X Entry)
      OBVIOUS
    <3>2. shut' \in [phase : {"run", "sockets", "entries"},
                     socks : SUBSET Session, entries : SUBSET (Mount \X Entry)]
      BY <2>2, <3>1 DEF ShutdownSnapshot
    <3> QED
      BY <2>2, <3>2 DEF ShutdownSnapshot
  <2>3. CASE ShutdownEntry
    <3>1. PICK p \in shut.entries :
            /\ online' = IF Removes(p[1], p[2]) THEN [online EXCEPT ![p[1]] = NoEntry]
                         ELSE online
            /\ shut' = [shut EXCEPT !.entries = @ \ {p}, !.socks = {p[2]} \cap Session]
      BY <2>3 DEF ShutdownEntry
    <3>2. shut' \in [phase : {"run", "sockets", "entries"},
                     socks : SUBSET Session, entries : SUBSET (Mount \X Entry)]
      BY <3>1
    <3>3. online' \in [Mount -> Entry \cup {NoEntry}]
      BY <3>1
    <3> QED
      BY <2>3, <3>2, <3>3 DEF ShutdownEntry
  <2> QED
    BY <1>5, <2>1, <2>2, <2>3 DEF ShutdownProgress
<1>6. CASE UNCHANGED vars
  BY <1>6 DEF vars
<1> QED
  BY <1>1, <1>2, <1>3, <1>4, <1>5, <1>6 DEF Next

(* A socket is opened for a handler, and closed before that returns. *)
LEMMA SocketStep == TypeOK /\ SocketFollowsHandler /\ [Next]_vars => SocketFollowsHandler'
<1> SUFFICES ASSUME TypeOK, SocketFollowsHandler, [Next]_vars PROVE SocketFollowsHandler'
  OBVIOUS
<1> USE ConstantsAssumption DEF TypeOK, SocketFollowsHandler, PC, Arriving, Established, Feeding, Entry,
       handlerVars, tableVars, adminVars
<1>1. CASE \E s \in Session : HandlerStep(s)
  <2> PICK s \in Session : HandlerStep(s)
    BY <1>1
  <2>1. CASE SweepSnapshot(s) \/ SweepDone(s) \/ Refresh(s) \/ RegisterRefused(s)
    BY <2>1 DEF SweepSnapshot, SweepDone, Refresh, RegisterRefused
  <2>2. CASE SweepOne(s)
    BY <2>2 DEF SweepOne, RemoveMount, Removes
  <2>3. CASE Verify(s) \/ CloseSocket(s)
    BY <2>3 DEF Verify, CloseSocket
  <2>4. CASE Register(s)
    BY <2>4 DEF Register, Accepted, NotAccepted
  <2>5. CASE StartReceiving(s) \/ ReceiveEnd(s) \/ UpdateStats(s)
    BY <2>5 DEF StartReceiving, ReceiveEnd, UpdateStats
  <2>6. CASE UploadCheck(s) \/ UploadCreate(s) \/ UploadAppend(s)
    BY <2>6 DEF UploadCheck, UploadCreate, UploadAppend
  <2>7. CASE CleanupMount(s) \/ CleanupBuffer(s)
    BY <2>7 DEF CleanupMount, CleanupBuffer, RemoveMount, Removes
  <2> QED
    BY <2>1, <2>2, <2>3, <2>4, <2>5, <2>6, <2>7 DEF HandlerStep
<1>2. CASE \E s \in Session : Network(s)
  BY <1>2 DEF Network, Connect, Receive, ReceiveTimeout, PeerHangsUp
<1>3. CASE Admin
  BY <1>3 DEF Admin, InitializeMount, CreateRow, AdminDisconnect, UpdateRow, DeleteRow,
              DeleteEntry, RemoveMount, Removes
<1>4. CASE ShutdownBegin \/ ShutdownProgress
  <2>1. CASE ShutdownBegin
    BY <2>1 DEF ShutdownBegin
  <2>2. CASE (\E s \in Session : ShutdownSocket(s)) \/ ShutdownSnapshot
    BY <2>2 DEF ShutdownSocket, ShutdownSnapshot
  <2>3. CASE ShutdownEntry
    BY <2>3 DEF ShutdownEntry, Removes
  <2> QED
    BY <1>4, <2>1, <2>2, <2>3 DEF ShutdownProgress
<1>5. CASE UNCHANGED vars
  BY <1>5 DEF vars
<1> QED
  BY <1>1, <1>2, <1>3, <1>4, <1>5 DEF Next

(* Nothing is accepted or put on the list once the shutdown has begun. *)
LEMMA ShutdownStep == TypeOK /\ SocketFollowsHandler /\ ShutdownGoesInOrder /\ [Next]_vars => ShutdownGoesInOrder'
<1> SUFFICES ASSUME TypeOK, SocketFollowsHandler, ShutdownGoesInOrder, [Next]_vars PROVE ShutdownGoesInOrder'
  OBVIOUS
<1> USE ConstantsAssumption DEF TypeOK, SocketFollowsHandler, ShutdownGoesInOrder, PC, Arriving, Established, Feeding, Entry,
       handlerVars, tableVars, adminVars
<1>1. CASE \E s \in Session : HandlerStep(s)
  <2> PICK s \in Session : HandlerStep(s)
    BY <1>1
  <2>1. CASE SweepSnapshot(s) \/ SweepDone(s) \/ Refresh(s) \/ RegisterRefused(s)
    BY <2>1 DEF SweepSnapshot, SweepDone, Refresh, RegisterRefused
  <2>2. CASE SweepOne(s)
    BY <2>2 DEF SweepOne, RemoveMount, Removes
  <2>3. CASE Verify(s) \/ CloseSocket(s)
    BY <2>3 DEF Verify, CloseSocket
  <2>4. CASE Register(s)
    BY <2>4 DEF Register, Accepted, NotAccepted
  <2>5. CASE StartReceiving(s) \/ ReceiveEnd(s) \/ UpdateStats(s)
    BY <2>5 DEF StartReceiving, ReceiveEnd, UpdateStats
  <2>6. CASE UploadCheck(s) \/ UploadCreate(s) \/ UploadAppend(s)
    BY <2>6 DEF UploadCheck, UploadCreate, UploadAppend
  <2>7. CASE CleanupMount(s) \/ CleanupBuffer(s)
    BY <2>7 DEF CleanupMount, CleanupBuffer, RemoveMount, Removes
  <2> QED
    BY <2>1, <2>2, <2>3, <2>4, <2>5, <2>6, <2>7 DEF HandlerStep
<1>2. CASE \E s \in Session : Network(s)
  BY <1>2 DEF Network, Connect, Receive, ReceiveTimeout, PeerHangsUp
<1>3. CASE Admin
  BY <1>3 DEF Admin, InitializeMount, CreateRow, AdminDisconnect, UpdateRow, DeleteRow,
              DeleteEntry, RemoveMount, Removes
<1>4. CASE ShutdownBegin \/ ShutdownProgress
  <2>1. CASE ShutdownBegin
    BY <2>1 DEF ShutdownBegin
  <2>2. CASE (\E s \in Session : ShutdownSocket(s)) \/ ShutdownSnapshot
    <3>1. CASE \E s \in Session : ShutdownSocket(s)
      BY <3>1 DEF ShutdownSocket
    <3>2. CASE ShutdownSnapshot
      BY <3>2 DEF ShutdownSnapshot
    <3> QED
      BY <2>2, <3>1, <3>2
  <2>3. CASE ShutdownEntry
    BY <2>3 DEF ShutdownEntry, Removes
  <2> QED
    BY <1>4, <2>1, <2>2, <2>3 DEF ShutdownProgress
<1>5. CASE UNCHANGED vars
  BY <1>5 DEF vars
<1> QED
  BY <1>1, <1>2, <1>3, <1>4, <1>5 DEF Next

(* An entry is made before its handler's receive loop, and is gone after   *)
(* its _cleanup.                                                            *)
LEMMA LeakStep == TypeOK /\ NoLeakedMount /\ [Next]_vars => NoLeakedMount'
<1> SUFFICES ASSUME TypeOK, NoLeakedMount, [Next]_vars PROVE NoLeakedMount'
  OBVIOUS
<1> USE ConstantsAssumption DEF TypeOK, NoLeakedMount, PC, Arriving, Established, Feeding, Entry,
       handlerVars, tableVars, adminVars
<1>1. CASE \E s \in Session : HandlerStep(s)
  <2> PICK s \in Session : HandlerStep(s)
    BY <1>1
  <2>1. CASE SweepSnapshot(s) \/ SweepDone(s) \/ Refresh(s) \/ RegisterRefused(s)
    BY <2>1 DEF SweepSnapshot, SweepDone, Refresh, RegisterRefused
  <2>2. CASE SweepOne(s)
    BY <2>2 DEF SweepOne, RemoveMount, Removes
  <2>3. CASE Verify(s) \/ CloseSocket(s)
    BY <2>3 DEF Verify, CloseSocket
  <2>4. CASE Register(s)
    BY <2>4 DEF Register, Accepted, NotAccepted
  <2>5. CASE StartReceiving(s) \/ ReceiveEnd(s) \/ UpdateStats(s)
    BY <2>5 DEF StartReceiving, ReceiveEnd, UpdateStats
  <2>6. CASE UploadCheck(s) \/ UploadCreate(s) \/ UploadAppend(s)
    BY <2>6 DEF UploadCheck, UploadCreate, UploadAppend
  <2>7. CASE CleanupMount(s) \/ CleanupBuffer(s)
    BY <2>7 DEF CleanupMount, CleanupBuffer, RemoveMount, Removes
  <2> QED
    BY <2>1, <2>2, <2>3, <2>4, <2>5, <2>6, <2>7 DEF HandlerStep
<1>2. CASE \E s \in Session : Network(s)
  BY <1>2 DEF Network, Connect, Receive, ReceiveTimeout, PeerHangsUp
<1>3. CASE Admin
  BY <1>3 DEF Admin, InitializeMount, CreateRow, AdminDisconnect, UpdateRow, DeleteRow,
              DeleteEntry, RemoveMount, Removes
<1>4. CASE ShutdownBegin \/ ShutdownProgress
  <2>1. CASE ShutdownBegin
    BY <2>1 DEF ShutdownBegin
  <2>2. CASE (\E s \in Session : ShutdownSocket(s)) \/ ShutdownSnapshot
    BY <2>2 DEF ShutdownSocket, ShutdownSnapshot
  <2>3. CASE ShutdownEntry
    BY <2>3 DEF ShutdownEntry, Removes
  <2> QED
    BY <1>4, <2>1, <2>2, <2>3 DEF ShutdownProgress
<1>5. CASE UNCHANGED vars
  BY <1>5 DEF vars
<1> QED
  BY <1>1, <1>2, <1>3, <1>4, <1>5 DEF Next

(* A buffer is made by a handler that will still remove one. *)
LEMMA BufferStep == TypeOK /\ NoLeakedBuffer /\ [Next]_vars => NoLeakedBuffer'
<1> SUFFICES ASSUME TypeOK, NoLeakedBuffer, [Next]_vars PROVE NoLeakedBuffer'
  OBVIOUS
<1> USE ConstantsAssumption DEF TypeOK, NoLeakedBuffer, PC, Arriving, Established, Feeding, Entry,
       handlerVars, tableVars, adminVars
<1>1. CASE \E s \in Session : HandlerStep(s)
  <2> PICK s \in Session : HandlerStep(s)
    BY <1>1
  <2>1. CASE SweepSnapshot(s) \/ SweepDone(s) \/ Refresh(s) \/ RegisterRefused(s)
    BY <2>1 DEF SweepSnapshot, SweepDone, Refresh, RegisterRefused
  <2>2. CASE SweepOne(s)
    BY <2>2 DEF SweepOne, RemoveMount, Removes
  <2>3. CASE Verify(s) \/ CloseSocket(s)
    BY <2>3 DEF Verify, CloseSocket
  <2>4. CASE Register(s)
    BY <2>4 DEF Register, Accepted, NotAccepted
  <2>5. CASE StartReceiving(s) \/ ReceiveEnd(s) \/ UpdateStats(s)
    BY <2>5 DEF StartReceiving, ReceiveEnd, UpdateStats
  <2>6. CASE UploadCheck(s) \/ UploadCreate(s) \/ UploadAppend(s)
    BY <2>6 DEF UploadCheck, UploadCreate, UploadAppend
  <2>7. CASE CleanupMount(s) \/ CleanupBuffer(s)
    BY <2>7 DEF CleanupMount, CleanupBuffer, RemoveMount, Removes
  <2> QED
    BY <2>1, <2>2, <2>3, <2>4, <2>5, <2>6, <2>7 DEF HandlerStep
<1>2. CASE \E s \in Session : Network(s)
  BY <1>2 DEF Network, Connect, Receive, ReceiveTimeout, PeerHangsUp
<1>3. CASE Admin
  BY <1>3 DEF Admin, InitializeMount, CreateRow, AdminDisconnect, UpdateRow, DeleteRow,
              DeleteEntry, RemoveMount, Removes
<1>4. CASE ShutdownBegin \/ ShutdownProgress
  <2>1. CASE ShutdownBegin
    BY <2>1 DEF ShutdownBegin
  <2>2. CASE (\E s \in Session : ShutdownSocket(s)) \/ ShutdownSnapshot
    BY <2>2 DEF ShutdownSocket, ShutdownSnapshot
  <2>3. CASE ShutdownEntry
    BY <2>3 DEF ShutdownEntry, Removes
  <2> QED
    BY <1>4, <2>1, <2>2, <2>3 DEF ShutdownProgress
<1>5. CASE UNCHANGED vars
  BY <1>5 DEF vars
<1> QED
  BY <1>1, <1>2, <1>3, <1>4, <1>5 DEF Next

(* An entry is removed with its socket closed, or by its own handler. *)
LEMMA OwnerStep == TypeOK /\ ShutdownGoesInOrder /\ NoLeakedMount /\ LiveSourceOwnsMount /\ [Next]_vars => LiveSourceOwnsMount'
<1> SUFFICES ASSUME TypeOK, ShutdownGoesInOrder, NoLeakedMount, LiveSourceOwnsMount, [Next]_vars PROVE LiveSourceOwnsMount'
  OBVIOUS
<1> USE ConstantsAssumption DEF TypeOK, ShutdownGoesInOrder, NoLeakedMount, LiveSourceOwnsMount,
       Live, PC, Arriving, Established, Feeding, Entry,
       handlerVars, tableVars, adminVars
<1>1. CASE \E s \in Session : HandlerStep(s)
  <2> PICK s \in Session : HandlerStep(s)
    BY <1>1
  <2>1. CASE SweepSnapshot(s) \/ SweepDone(s) \/ Refresh(s) \/ RegisterRefused(s)
    BY <2>1 DEF SweepSnapshot, SweepDone, Refresh, RegisterRefused
  <2>2. CASE SweepOne(s)
    BY <2>2 DEF SweepOne, RemoveMount, Removes
  <2>3. CASE Verify(s) \/ CloseSocket(s)
    BY <2>3 DEF Verify, CloseSocket
  <2>4. CASE Register(s)
    BY <2>4 DEF Register, Accepted, NotAccepted
  <2>5. CASE StartReceiving(s) \/ ReceiveEnd(s) \/ UpdateStats(s)
    BY <2>5 DEF StartReceiving, ReceiveEnd, UpdateStats
  <2>6. CASE UploadCheck(s) \/ UploadCreate(s) \/ UploadAppend(s)
    BY <2>6 DEF UploadCheck, UploadCreate, UploadAppend
  <2>7. CASE CleanupMount(s) \/ CleanupBuffer(s)
    BY <2>7 DEF CleanupMount, CleanupBuffer, RemoveMount, Removes
  <2> QED
    BY <2>1, <2>2, <2>3, <2>4, <2>5, <2>6, <2>7 DEF HandlerStep
<1>2. CASE \E s \in Session : Network(s)
  BY <1>2 DEF Network, Connect, Receive, ReceiveTimeout, PeerHangsUp
<1>3. CASE Admin
  BY <1>3 DEF Admin, InitializeMount, CreateRow, AdminDisconnect, UpdateRow, DeleteRow,
              DeleteEntry, RemoveMount, Removes
<1>4. CASE ShutdownBegin \/ ShutdownProgress
  <2>1. CASE ShutdownBegin
    BY <2>1 DEF ShutdownBegin
  <2>2. CASE (\E s \in Session : ShutdownSocket(s)) \/ ShutdownSnapshot
    BY <2>2 DEF ShutdownSocket, ShutdownSnapshot
  <2>3. CASE ShutdownEntry
    BY <2>3 DEF ShutdownEntry, Removes
  <2> QED
    BY <1>4, <2>1, <2>2, <2>3 DEF ShutdownProgress
<1>5. CASE UNCHANGED vars
  BY <1>5 DEF vars
<1> QED
  BY <1>1, <1>2, <1>3, <1>4, <1>5 DEF Next

(* Closing the socket of a live source is the work of one of the four that  *)
(* LiveSourceClosedOnlyBy names: in every other step the socket closed is   *)
(* that of an entry, and the entry is that of the source, or it is the      *)
(* handler's own.                                                           *)
LEMMA ClosedByStep ==
    ASSUME IInv, [Next]_vars, NEW s \in Session, Live(s), sock'[s] = "closed"
    PROVE  \/ \E t \in Session : /\ pc[t] = "registering" /\ pc'[t] # pc[t]
                                 /\ MountOf[t] = MountOf[s] /\ IpOf[t] = IpOf[s]
           \/ admin = [step |-> "entry", mount |-> MountOf[s]]
           \/ s \in shut.socks
           \/ \E t \in Session : /\ <<MountOf[s], Initialized>> \in suspects[t]
                                 /\ suspects'[t] # suspects[t]
<1> USE ConstantsAssumption
    DEF IInv, TypeOK, LiveSourceOwnsMount, NoLeakedMount, Live, PC, Arriving,
        Established, Feeding, Entry, handlerVars, tableVars, adminVars
<1>1. online[MountOf[s]] = s /\ MountOf[s] \in Mount /\ sock[s] # "closed"
  OBVIOUS
<1>2. CASE \E t \in Session : SweepOne(t)
  <2> PICK t \in Session : SweepOne(t)
    BY <1>2
  <2>1. PICK p \in suspects[t] :
          /\ suspects' = [suspects EXCEPT ![t] = @ \ {p}]
          /\ IF p[2] = Initialized \/ sock[p[2]] = "closed"
             THEN RemoveMount(p[1], p[2], TRUE)
             ELSE UNCHANGED <<online, sock>>
    BY DEF SweepOne
  <2>2. p \in Mount \X Entry
    OBVIOUS
  <2>3. s = online[p[1]] /\ p[2] = Initialized
    BY <1>1, <2>1, <2>2 DEF RemoveMount, Removes
  <2>4. p = <<MountOf[s], Initialized>>
    BY <2>2, <2>3
  <2> QED
    BY <2>1, <2>4
<1>3. CASE \E t \in Session : Register(t)
  <2> PICK t \in Session : Register(t)
    BY <1>3
  <2>1. online[MountOf[t]] = s /\ pc[t] = "registering" /\ pc'[t] # pc[t]
    BY <1>1 DEF Register, Accepted, NotAccepted
  <2>2. IpOf[s] = IpOf[t]
    BY <1>1, <2>1 DEF Register, MayTake, EntryIp
  <2> QED
    BY <2>1, <2>2
<1>4. CASE DeleteEntry
  BY <1>1, <1>4 DEF DeleteEntry, RemoveMount, Removes
<1>5. CASE \E t \in Session : ShutdownSocket(t)
  BY <1>1, <1>5 DEF ShutdownSocket
<1>6. ASSUME NEW t \in Session, HandlerStep(t), ~SweepOne(t), ~Register(t)
      PROVE  FALSE
  BY <1>1, <1>6
     DEF HandlerStep, SweepSnapshot, SweepDone, Refresh, Verify, RegisterRefused,
         StartReceiving, ReceiveEnd, UploadCheck, UploadCreate, UploadAppend, UpdateStats,
         CleanupMount, CleanupBuffer, CloseSocket, RemoveMount
<1>7. ASSUME NEW t \in Session, Network(t) PROVE FALSE
  BY <1>1, <1>7 DEF Network, Connect, Receive, ReceiveTimeout, PeerHangsUp
<1>8. CASE Admin /\ ~DeleteEntry
  BY <1>1, <1>8
     DEF Admin, InitializeMount, CreateRow, AdminDisconnect, UpdateRow, DeleteRow
<1>9. CASE ShutdownBegin \/ ShutdownSnapshot \/ ShutdownEntry \/ UNCHANGED vars
  BY <1>1, <1>9 DEF ShutdownBegin, ShutdownSnapshot, ShutdownEntry, vars
<1> QED
  BY <1>2, <1>3, <1>4, <1>5, <1>6, <1>7, <1>8, <1>9 DEF Next, ShutdownProgress

----------------------------------------------------------------------------
(* The caster starts, with no source connected, in a state of the          *)
(* inductive invariant.                                                     *)
LEMMA InitHolds == Init => IInv
BY ConstantsAssumption
   DEF Init, IInv, TypeOK, SocketFollowsHandler, ShutdownGoesInOrder, LiveSourceOwnsMount,
       NoLeakedMount, NoLeakedBuffer, Live, PC, Arriving, Established, Feeding, Entry

(* No handler, administrator or shutdown step leaves the inductive          *)
(* invariant: the six lemmas above, one per part of it.                     *)
LEMMA StepHolds == IInv /\ [Next]_vars => IInv'
BY TypeStep, SocketStep, ShutdownStep, OwnerStep, LeakStep, BufferStep DEF IInv

(* IInv is an invariant; the theorems below read it off. *)
LEMMA Inductive == Spec => []IInv
BY InitHolds, StepHolds, PTL DEF Spec

(* Every variable keeps its type, however many sessions, mount points,      *)
(* chunks and requests there are.                                           *)
THEOREM TypesHold == Spec => []TypeOK
<1>1. IInv => TypeOK
  BY DEF IInv
<1> QED
  BY <1>1, Inductive, PTL

(* A source that is being received is the registered one of its mount       *)
(* point: no takeover, late cleanup, sweep, deletion or shutdown step       *)
(* leaves it feeding a mount point that is offline or another's.            *)
THEOREM LiveSourcesOwnTheirMounts == Spec => []LiveSourceOwnsMount
<1>1. IInv => LiveSourceOwnsMount
  BY DEF IInv
<1> QED
  BY <1>1, Inductive, PTL

(* An entry of the mount table is the entry of a handler that will still    *)
(* remove it.                                                               *)
THEOREM NoMountIsLeaked == Spec => []NoLeakedMount
<1>1. IInv => NoLeakedMount
  BY DEF IInv
<1> QED
  BY <1>1, Inductive, PTL

(* A mount buffer has a handler that will still remove it.                  *)
THEOREM NoBufferIsLeaked == Spec => []NoLeakedBuffer
<1>1. IInv => NoLeakedBuffer
  BY DEF IInv
<1> QED
  BY <1>1, Inductive, PTL

(* A live source is cut off only by a takeover from its own address, a      *)
(* DELETE, the shutdown, or a sweep that saw a socketless entry before it.  *)
THEOREM LiveSourcesAreClosedOnlyBy == Spec => LiveSourceClosedOnlyBy
<1>1. IInv /\ [Next]_vars =>
        [\A s \in Session : Live(s) /\ sock'[s] = "closed" =>
           \/ \E t \in Session : /\ pc[t] = "registering" /\ pc'[t] # pc[t]
                                 /\ MountOf[t] = MountOf[s] /\ IpOf[t] = IpOf[s]
           \/ admin = [step |-> "entry", mount |-> MountOf[s]]
           \/ s \in shut.socks
           \/ \E t \in Session : /\ <<MountOf[s], Initialized>> \in suspects[t]
                                 /\ suspects'[t] # suspects[t]]_vars
  BY ClosedByStep
<1> QED
  BY <1>1, Inductive, PTL DEF Spec, LiveSourceClosedOnlyBy
=============================================================================

------------------------ MODULE AccountsAndPool_proofs ------------------------
(***************************************************************************)
(* Proofs about two components that share no state.                        *)
(*                                                                         *)
(* Accounts: types, the agreement of the two tables, and which rovers are  *)
(* served on an account that has changed, for any names, passwords,        *)
(* requests and rovers.                                                    *)
(*                                                                         *)
(* CasterPool, for any connections and any limits: the count of            *)
(* connections does not drift, and exceeds its limit by a full queue and   *)
(* one at most; an open socket is registered while the service runs.       *)
(***************************************************************************)
EXTENDS Accounts, CasterPool, FiniteSetTheorems, TLAPS

(***************************************************************************)
(* Accounts.                                                                *)
(***************************************************************************)

Present(c) == rover[c].step \in {"verified", "registered"}

(* A rover that is not excused has its row as it was, and no request that   *)
(* is past the disconnection of its user still has a change to make.        *)
RoversAreCurrent ==
    \A c \in Rover : Present(c) /\ c \notin excused =>
        LET login == rover[c].login IN
        /\ users[login.id] = [name |-> login.name, secret |-> login.secret]
        /\ \A r \in Request : req[r].step \in {"lookupUser", "writeUser"}
                                 => req[r].name # login.name

IInv == TypeOK /\ RowsAgree /\ RoversAreCurrent

(* The initial tables hold one user and one mount point. *)
LEMMA InitHolds == Init => IInv
<1> SUFFICES ASSUME Init PROVE IInv
  OBVIOUS
<1> USE AccountsAssumption DEF Init
<1>1. PICK n \in UserName, p \in Password :
         users = [i \in Id |-> IF i = 1 THEN [name |-> n, secret |-> Hash(Plain(p))] ELSE None]
  OBVIOUS
<1>2. Hash(Plain(p)) \in Secret
  BY DEF Hash, Plain, Secret
<1>3. users \in [Id -> UserRow \cup {None}] /\ Rows(users) \subseteq {1}
  BY <1>1, <1>2 DEF UserRow, Rows
<1>4. PICK m \in [name : MountName, owner : {1, None}] :
         mounts = [i \in Id |-> IF i = 1 THEN m ELSE None]
  OBVIOUS
<1>5. 1 \in Id => m \in MountRow
  BY DEF MountRow
<1>6. mounts \in [Id -> MountRow \cup {None}] /\ Rows(mounts) \subseteq {1}
  BY <1>4, <1>5 DEF Rows
<1>7. req \in [Request -> RequestType] /\ \A r \in Request : Carries(req[r])
  BY DEF NoRequest, RequestType, Carries
<1>8. TypeOK
  BY <1>3, <1>6, <1>7 DEF TypeOK, NoLogin
<1>9. 1 \in Id => 1 \in Rows(users)
  <2>1. [name |-> n, secret |-> Hash(Plain(p))] \in UserRow
    BY <1>2 DEF UserRow
  <2> QED
    BY <1>1, <2>1 DEF Rows
<1>10. RowsAgree
  BY <1>3, <1>4, <1>6, <1>9 DEF RowsAgree, UniqueNames, OwnerExists, Rows
<1>11. RoversAreCurrent
  BY DEF RoversAreCurrent, Present, NoLogin
<1> QED
  BY <1>8, <1>10, <1>11 DEF IInv

(* A request record of the right form keeps the table of requests typed. *)
LEMMA RequestTyped ==
    ASSUME TypeOK, NEW r \in Request, NEW q \in RequestType, Carries(q),
           req' = [req EXCEPT ![r] = q]
    PROVE  req' \in [Request -> RequestType] /\ \A s \in Request : Carries(req'[s])
BY DEF TypeOK

(* The records that Begin and End write. *)
LEMMA EndTyped ==
    ASSUME TypeOK, NEW r \in Request, End(r)
    PROVE  req' \in [Request -> RequestType] /\ \A s \in Request : Carries(req'[s])
<1> DEFINE q == [NoRequest EXCEPT !.step = "done"]
<1>1. q \in RequestType /\ Carries(q)
  BY DEF NoRequest, RequestType, Carries
<1> QED
  BY <1>1, RequestTyped DEF End

(* A page that begins writes a typed record, of a request that has not yet  *)
(* looked for a row.                                                        *)
LEMMA BeginTyped ==
    ASSUME NEW r \in Request,
           AddUser(r) \/ ChangeUser(r) \/ AddMount(r) \/ ChangeMount(r)
    PROVE  \E a \in RequestType :
              /\ Carries(a) /\ Begin(r, a)
              /\ a.step \in {"insertUser", "disconnectUser", "insertMount",
                             "lookupOwner", "disconnectMount"}
<1> DEFINE Good(a) == /\ a \in RequestType /\ Carries(a)
                      /\ a.step \in {"insertUser", "disconnectUser", "insertMount",
                                     "lookupOwner", "disconnectMount"}
<1>1. CASE AddUser(r)
  <2>1. PICK n \in UserName, p \in Password :
           Begin(r, [Asked("add", "insertUser", n, None) EXCEPT !.secret = Plain(p)])
    BY <1>1 DEF AddUser
  <2>2. Good([Asked("add", "insertUser", n, None) EXCEPT !.secret = Plain(p)])
    BY DEF Asked, NoRequest, RequestType, Carries, Plain, Secret
  <2> QED
    BY <2>1, <2>2
<1>2. CASE ChangeUser(r)
  <2>1. PICK n \in UserName :
           \/ \E new \in UserName : Begin(r, Asked("rename", "disconnectUser", n, new))
           \/ \E p \in Password : Begin(r, [Asked("password", "disconnectUser", n, None)
                                              EXCEPT !.secret = Plain(p)])
           \/ Begin(r, Asked("delete", "disconnectUser", n, None))
    BY <1>2 DEF ChangeUser
  <2>2. \A new \in UserName : Good(Asked("rename", "disconnectUser", n, new))
    BY DEF Asked, NoRequest, RequestType, Carries
  <2>3. \A p \in Password :
           Good([Asked("password", "disconnectUser", n, None) EXCEPT !.secret = Plain(p)])
    BY DEF Asked, NoRequest, RequestType, Carries, Plain, Secret
  <2>4. Good(Asked("delete", "disconnectUser", n, None))
    BY DEF Asked, NoRequest, RequestType, Carries
  <2> QED
    BY <2>1, <2>2, <2>3, <2>4
<1>3. CASE AddMount(r)
  <2>1. PICK m \in MountName, o \in Rows(users) \cup {None} :
           Begin(r, [Asked("add", "insertMount", m, None) EXCEPT !.owner = o])
    BY <1>3 DEF AddMount
  <2> DEFINE b == Asked("add", "insertMount", m, None)
             a == [b EXCEPT !.owner = o]
  <2>2. o \in Id \cup {None}
    BY DEF Rows
  <2>3. b \in RequestType /\ b.step = "insertMount" /\ b.name = m
    BY DEF Asked, NoRequest, RequestType
  <2>4. a \in RequestType /\ a.step = "insertMount" /\ a.name = m
    <3> HIDE DEF b
    <3> QED
      BY <2>2, <2>3 DEF RequestType
  <2>5. Carries(a)
    BY <2>4 DEF Carries
  <2> QED
    BY <2>1, <2>4, <2>5
<1>4. CASE ChangeMount(r)
  <2>1. PICK m \in MountName :
           \/ \E new \in MountName \cup {None} :
                 Begin(r, Asked("update", "lookupOwner", m, new))
           \/ Begin(r, Asked("delete", "disconnectMount", m, None))
    BY <1>4 DEF ChangeMount
  <2>2. \A new \in MountName \cup {None} : Good(Asked("update", "lookupOwner", m, new))
    BY DEF Asked, NoRequest, RequestType, Carries
  <2>3. Good(Asked("delete", "disconnectMount", m, None))
    BY DEF Asked, NoRequest, RequestType, Carries
  <2> QED
    BY <2>1, <2>2, <2>3
<1> QED
  BY <1>1, <1>2, <1>3, <1>4

(* Every step keeps the types of the variables. *)
LEMMA TypeStep == TypeOK /\ [Next]_vars => TypeOK'
<1> SUFFICES ASSUME TypeOK, [Next]_vars PROVE TypeOK'
  OBVIOUS
<1> USE AccountsAssumption
<1> DEFINE TablesTyped == /\ users \in [Id -> UserRow \cup {None}]
                          /\ mounts \in [Id -> MountRow \cup {None}]
           RequestsTyped == /\ req \in [Request -> RequestType]
                            /\ \A r \in Request : Carries(req[r])
           RoversTyped ==
             /\ rover \in [Rover -> [step : {"away", "verified", "registered", "gone"},
                                     mount : MountName \cup {None},
                                     login : Login \cup {None}]]
             /\ \A c \in Rover : Present(c) => rover[c].login \in Login
             /\ excused \subseteq Rover
<1>1. TypeOK <=> TablesTyped /\ RequestsTyped /\ RoversTyped
  BY DEF TypeOK, Present
<1>2. TypeOK' <=> TablesTyped' /\ RequestsTyped' /\ RoversTyped'
  BY DEF TypeOK, Present
<1>3. ASSUME NEW r \in Request, RequestStep(r) PROVE TypeOK'
  <2> DEFINE q == req[r]
  <2>1. q \in RequestType /\ Carries(q)
    BY <1>1
  <2>2. CASE AddUser(r) \/ ChangeUser(r) \/ AddMount(r) \/ ChangeMount(r)
    <3>1. RequestsTyped'
      BY <2>2, BeginTyped, RequestTyped DEF Begin
    <3>2. UNCHANGED <<tables, rover, excused>>
      BY <2>2 DEF AddUser, ChangeUser, AddMount, ChangeMount
    <3> QED
      BY <1>1, <1>2, <3>1, <3>2 DEF tables, Present
  <2>3. CASE InsertUser(r)
    <3>1. RequestsTyped'
      BY <2>3, EndTyped DEF InsertUser
    <3>2. q.step = "insertUser" /\ [name |-> q.name, secret |-> Hash(q.secret)] \in UserRow
      BY <2>1, <2>3 DEF InsertUser, Carries, UserRow, Hash, Secret
    <3>3. TablesTyped'
      BY <1>1, <2>3, <3>2 DEF InsertUser
    <3> QED
      BY <1>1, <1>2, <2>3, <3>1, <3>3 DEF InsertUser, Present
  <2>4. CASE DisconnectUser(r)
    <3> DEFINE a == [q EXCEPT !.step = IF q.kind = "password" THEN "writeUser"
                                      ELSE "lookupUser"]
    <3>1. q.step = "disconnectUser" /\ req' = [req EXCEPT ![r] = a]
      BY <1>1, <2>4 DEF DisconnectUser
    <3>2. a \in RequestType /\ Carries(a)
      BY <2>1, <3>1 DEF RequestType, Carries
    <3>3. RequestsTyped'
      BY <3>1, <3>2, RequestTyped
    <3>4. RoversTyped'
      BY <1>1, <2>4 DEF DisconnectUser, NoLogin, Present
    <3> QED
      BY <1>1, <1>2, <2>4, <3>3, <3>4 DEF DisconnectUser, tables
  <2>5. CASE LookupUser(r)
    <3>1. RequestsTyped'
      <4>1. CASE End(r)
        BY <4>1, EndTyped
      <4>2. CASE \E i \in Named(users, q.name) :
                   req' = [req EXCEPT ![r].step = "writeUser", ![r].id = i,
                              ![r].secret = IF q.kind = "rename" THEN users[i].secret
                                            ELSE None]
        <5>1. PICK i \in Id : /\ users[i] # None
                              /\ req' = [req EXCEPT ![r] =
                                    [q EXCEPT !.step = "writeUser", !.id = i,
                                        !.secret = IF q.kind = "rename" THEN users[i].secret
                                                   ELSE None]]
          BY <1>1, <4>2 DEF Named, Rows
        <5> DEFINE a == [q EXCEPT !.step = "writeUser", !.id = i,
                             !.secret = IF q.kind = "rename" THEN users[i].secret ELSE None]
        <5>2. q.step = "lookupUser" /\ users[i].secret \in Secret
          BY <1>1, <2>5, <5>1 DEF LookupUser, UserRow
        <5>3. a \in RequestType /\ Carries(a)
          BY <2>1, <5>2, ZenonT(40) DEF RequestType, Carries
        <5> QED
          BY <5>1, <5>3, RequestTyped
      <4> QED
        BY <2>5, <4>1, <4>2 DEF LookupUser
    <3> QED
      BY <1>1, <1>2, <2>5, <3>1 DEF LookupUser, tables, Present
  <2>6. CASE WriteUser(r)
    <3>1. RequestsTyped'
      BY <2>6, EndTyped DEF WriteUser
    <3>2. q.step = "writeUser"
      BY <2>6 DEF WriteUser
    <3>3. ASSUME q.kind = "rename", UpdateUser(q), UNCHANGED mounts
         PROVE  TablesTyped'
      <4>1. [name |-> q.new, secret |-> Hash(q.secret)] \in UserRow
        BY <2>1, <3>2, <3>3 DEF Carries, UserRow, Hash, Secret
      <4> QED
        BY <1>1, <3>3, <4>1 DEF UpdateUser
    <3>4. ASSUME q.kind = "password", UpdateUserPassword(q), UNCHANGED mounts
         PROVE  TablesTyped'
      <4>1. Hash(q.secret) \in Secret
        BY <2>1, <3>2, <3>4 DEF Carries, Hash, Secret
      <4>2. \A i \in Named(users, q.name) :
               [users[i] EXCEPT !.secret = Hash(q.secret)] \in UserRow
        BY <1>1, <4>1 DEF Named, Rows, UserRow
      <4> QED
        BY <1>1, <3>4, <4>2 DEF UpdateUserPassword
    <3>5. ASSUME users' = [users EXCEPT ![q.id] = None],
                 mounts' = IF users[q.id] = None THEN mounts ELSE Unbind(q.id)
          PROVE  TablesTyped'
      <4>1. Unbind(q.id) \in [Id -> MountRow \cup {None}]
        BY <1>1 DEF Unbind, Rows, MountRow
      <4> QED
        BY <1>1, <3>5, <4>1
    <3>6. TablesTyped'
      BY <2>6, <3>3, <3>4, <3>5 DEF WriteUser
    <3> QED
      BY <1>1, <1>2, <2>6, <3>1, <3>6 DEF WriteUser, Present
  <2>7. CASE InsertMount(r)
    <3>1. RequestsTyped'
      BY <2>7, EndTyped DEF InsertMount
    <3>2. [name |-> q.name, owner |-> q.owner] \in MountRow
      BY <2>1, <2>7 DEF InsertMount, Carries, RequestType, MountRow
    <3>3. TablesTyped'
      BY <1>1, <2>7, <3>2 DEF InsertMount
    <3> QED
      BY <1>1, <1>2, <2>7, <3>1, <3>3 DEF InsertMount, Present
  <2>8. CASE LookupOwner(r)
    <3>1. PICK o \in Id \cup {None} :
             req' = [req EXCEPT ![r] = [q EXCEPT !.step = "disconnectMount", !.owner = o]]
      BY <1>1, <2>8 DEF LookupOwner, Rows
    <3> DEFINE a == [q EXCEPT !.step = "disconnectMount", !.owner = o]
    <3>2. a \in RequestType /\ a.step = "disconnectMount"
          /\ a.kind = q.kind /\ a.new = q.new
      BY <2>1 DEF RequestType
    <3>4. Carries(a)
      BY <2>1, <2>8, <3>2 DEF LookupOwner, Carries
    <3>3. RequestsTyped'
      BY <3>1, <3>2, <3>4, RequestTyped
    <3> QED
      BY <1>1, <1>2, <2>8, <3>3 DEF LookupOwner, tables, Present
  <2>9. CASE DisconnectMount(r)
    <3> DEFINE a == [q EXCEPT !.step = "lookupMount"]
    <3>1. req' = [req EXCEPT ![r] = a]
      BY <1>1, <2>9 DEF DisconnectMount
    <3>5. q.step = "disconnectMount"
      BY <2>9 DEF DisconnectMount
    <3>6. a \in RequestType /\ a.step = "lookupMount" /\ a.kind = q.kind /\ a.new = q.new
      BY <2>1 DEF RequestType
    <3>7. Carries(a)
      BY <2>1, <3>5, <3>6 DEF Carries
    <3>2. a \in RequestType /\ Carries(a)
      BY <3>6, <3>7
    <3>3. RequestsTyped'
      BY <3>1, <3>2, RequestTyped
    <3>4. RoversTyped'
      BY <1>1, <2>9 DEF DisconnectMount, NoLogin, Present
    <3> QED
      BY <1>1, <1>2, <2>9, <3>3, <3>4 DEF DisconnectMount, tables
  <2>10. CASE LookupMount(r)
    <3>1. RequestsTyped'
      <4>1. CASE End(r)
        BY <4>1, EndTyped
      <4>2. CASE \E i \in Named(mounts, q.name) :
                   req' = [req EXCEPT ![r].step = "writeMount", ![r].id = i]
        <5>1. PICK i \in Id :
                 req' = [req EXCEPT ![r] = [q EXCEPT !.step = "writeMount", !.id = i]]
          BY <1>1, <4>2 DEF Named, Rows
        <5> DEFINE a == [q EXCEPT !.step = "writeMount", !.id = i]
        <5>3. q.step = "lookupMount"
          BY <2>10 DEF LookupMount
        <5>4. /\ a \in RequestType /\ a.step = "writeMount" /\ a.id = i
              /\ a.kind = q.kind /\ a.new = q.new
          BY <2>1 DEF RequestType
        <5>5. Carries(a)
          BY <2>1, <5>3, <5>4 DEF Carries
        <5>2. a \in RequestType /\ Carries(a)
          BY <5>4, <5>5
        <5> QED
          BY <5>1, <5>2, RequestTyped
      <4> QED
        BY <2>10, <4>1, <4>2 DEF LookupMount
    <3> QED
      BY <1>1, <1>2, <2>10, <3>1 DEF LookupMount, tables, Present
  <2>11. CASE WriteMount(r)
    <3>1. RequestsTyped'
      BY <2>11, EndTyped DEF WriteMount
    <3>2. q.step = "writeMount" /\ q.id \in Id /\ q.owner \in Id \cup {None}
      BY <2>1, <2>11 DEF WriteMount, Carries, RequestType
    <3>3. CASE q.kind = "update" /\ mounts' # mounts
      <4>1. /\ mounts[q.id] # None
            /\ mounts' = [mounts EXCEPT ![q.id].owner = q.owner,
                             ![q.id].name = IF q.new = None THEN @ ELSE q.new]
        BY <2>11, <3>3 DEF WriteMount
      <4>2. mounts[q.id] \in MountRow /\ (q.new # None => q.new \in MountName)
        BY <1>1, <2>1, <3>2, <3>3, <4>1 DEF Carries
      <4>3. mounts' \in [Id -> MountRow \cup {None}]
        BY <1>1, <3>2, <4>1, <4>2 DEF MountRow
      <4> QED
        BY <1>1, <1>2, <2>11, <3>1, <4>3 DEF WriteMount, Present
    <3>4. CASE q.kind = "delete" \/ mounts' = mounts
      <4>1. mounts' \in [Id -> MountRow \cup {None}]
        BY <1>1, <2>11, <3>4 DEF WriteMount
      <4> QED
        BY <1>1, <1>2, <2>11, <3>1, <4>1 DEF WriteMount, Present
    <3> QED
      BY <2>11, <3>3, <3>4 DEF WriteMount
  <2> QED
    BY <1>3, <2>2, <2>3, <2>4, <2>5, <2>6, <2>7, <2>8, <2>9, <2>10, <2>11
       DEF RequestStep
<1>4. ASSUME NEW c \in Rover, Verify(c) \/ Register(c) \/ Leave(c) PROVE TypeOK'
  <2>1. CASE Verify(c)
    <3>1. PICK i \in Rows(users), j \in Rows(mounts) :
             /\ rover' = [rover EXCEPT ![c] =
                   [step |-> "verified", mount |-> mounts[j].name,
                    login |-> [id |-> i, name |-> users[i].name,
                               secret |-> users[i].secret]]]
             /\ excused' \in {excused, excused \cup {c}}
      BY <2>1 DEF Verify
    <3>2. /\ [id |-> i, name |-> users[i].name, secret |-> users[i].secret] \in Login
          /\ mounts[j].name \in MountName
      BY <1>1 DEF Rows, UserRow, MountRow, Login
    <3>3. RoversTyped'
      BY <1>1, <3>1, <3>2 DEF Present
    <3> QED
      BY <1>1, <1>2, <2>1, <3>3 DEF Verify, tables
  <2>2. CASE Register(c)
    <3>1. RoversTyped'
      BY <1>1, <2>2 DEF Register, Present
    <3> QED
      BY <1>1, <1>2, <2>2, <3>1 DEF Register, tables
  <2>3. CASE Leave(c)
    <3>1. RoversTyped'
      BY <1>1, <2>3 DEF Leave, NoLogin, Present
    <3> QED
      BY <1>1, <1>2, <2>3, <3>1 DEF Leave, tables
  <2> QED
    BY <1>4, <2>1, <2>2, <2>3
<1>5. CASE UNCHANGED vars
  BY <1>5 DEF vars, tables, TypeOK
<1> QED
  BY <1>3, <1>4, <1>5 DEF Next

(* Every step keeps the rows in agreement: an insertion finds its name free *)
(* and its owner there in the same action, and a deletion unbinds.          *)
LEMMA RowsStep == TypeOK /\ RowsAgree /\ [Next]_vars => RowsAgree'
<1> SUFFICES ASSUME TypeOK, RowsAgree, [Next]_vars PROVE RowsAgree'
  OBVIOUS
<1> USE AccountsAssumption
<1>1. /\ users \in [Id -> UserRow \cup {None}] /\ mounts \in [Id -> MountRow \cup {None}]
      /\ users' \in [Id -> UserRow \cup {None}] /\ mounts' \in [Id -> MountRow \cup {None}]
  BY TypeStep DEF TypeOK
<1>2. /\ UniqueNames(users) /\ UniqueNames(mounts)
      /\ \A i \in Rows(mounts) : OwnerExists(mounts[i].owner)
  BY DEF RowsAgree
<1>3. CASE UNCHANGED tables
  BY <1>2, <1>3 DEF tables, RowsAgree, UniqueNames, OwnerExists, Rows
<1>4. ASSUME NEW r \in Request, InsertUser(r) PROVE RowsAgree'
  <2>1. CASE UNCHANGED users
    BY <1>3, <1>4, <2>1 DEF InsertUser, tables
  <2>2. CASE users' # users
    <3>1. PICK i \in Id : users' = [users EXCEPT ![i] =
                              [name |-> req[r].name, secret |-> Hash(req[r].secret)]]
      BY <1>4, <2>2 DEF InsertUser
    <3>2. mounts' = mounts /\ Named(users, req[r].name) = {}
      BY <1>4, <2>2 DEF InsertUser
    <3>3. users'[i].name = req[r].name /\ \A j \in Id \ {i} : users'[j] = users[j]
      BY <1>1, <3>1
    <3>4. i \in Rows(users')
      <4>1. req[r].name \in UserName /\ req[r].secret \in Secret
        BY <1>4 DEF InsertUser, TypeOK, Carries
      <4>2. [name |-> req[r].name, secret |-> Hash(req[r].secret)] \in UserRow
        BY <4>1 DEF UserRow, Hash, Secret
      <4> QED
        BY <1>1, <3>1, <4>2 DEF Rows
    <3>5. \A j \in Rows(users) : users[j].name # req[r].name
      BY <3>2 DEF Named
    <3>6. UniqueNames(users)'
      BY <1>2, <3>3, <3>5 DEF UniqueNames, Rows
    <3>7. Rows(users) \subseteq Rows(users')
      BY <3>3, <3>4 DEF Rows
    <3> QED
      BY <1>2, <3>2, <3>6, <3>7 DEF RowsAgree, UniqueNames, OwnerExists, Rows
  <2> QED
    BY <2>1, <2>2
<1>5. ASSUME NEW r \in Request, WriteUser(r) PROVE RowsAgree'
  <2> DEFINE q == req[r]
  <2>0. q.step = "writeUser" /\ Carries(q)
    BY <1>5 DEF WriteUser, TypeOK
  <2>1. CASE q.kind = "rename" /\ UpdateUser(q) /\ UNCHANGED mounts
    <3>1. CASE users' # users
      <4>1. /\ users[q.id] # None /\ Named(users, q.new) \ {q.id} = {}
            /\ users' = [users EXCEPT ![q.id] = [name |-> q.new, secret |-> Hash(q.secret)]]
        BY <2>1, <3>1 DEF UpdateUser
      <4>2. q.id \in Id
        BY <1>1, <3>1, <4>1
      <4>3. users'[q.id].name = q.new /\ \A j \in Id \ {q.id} : users'[j] = users[j]
        BY <1>1, <4>1, <4>2
      <4>4. Rows(users') = Rows(users)
        <5>1. [name |-> q.new, secret |-> Hash(q.secret)] \in UserRow
          BY <2>0, <2>1 DEF Carries, UserRow, Hash, Secret
        <5> QED
          BY <1>1, <4>1, <4>2, <4>3, <5>1 DEF Rows
      <4>5. \A j \in Rows(users) \ {q.id} : users[j].name # q.new
        BY <4>1 DEF Named
      <4>6. UniqueNames(users)'
        BY <1>2, <4>3, <4>4, <4>5 DEF UniqueNames, Rows
      <4> QED
        BY <1>2, <2>1, <4>4, <4>6 DEF RowsAgree, UniqueNames, OwnerExists, Rows
    <3> QED
      BY <1>3, <2>1, <3>1 DEF tables
  <2>2. CASE q.kind = "password" /\ UpdateUserPassword(q) /\ UNCHANGED mounts
    <3>1. Rows(users') = Rows(users) /\ \A i \in Rows(users) : users'[i].name = users[i].name
      <4>1. Hash(q.secret) \in Secret
        BY <2>0, <2>2 DEF Carries, Hash, Secret
      <4>2. \A i \in Rows(users) :
               LET row == [users[i] EXCEPT !.secret = Hash(q.secret)]
               IN  row \in UserRow /\ row.name = users[i].name
        BY <1>1, <4>1 DEF Rows, UserRow
      <4>3. \A i \in Id : users'[i] = IF i \in Named(users, q.name)
                                       THEN [users[i] EXCEPT !.secret = Hash(q.secret)]
                                       ELSE users[i]
        BY <2>2 DEF UpdateUserPassword
      <4>4. Named(users, q.name) \subseteq Rows(users)
        BY DEF Named
      <4> QED
        BY <4>2, <4>3, <4>4 DEF Rows
    <3>2. UniqueNames(users)'
      BY <1>2, <3>1 DEF UniqueNames
    <3> QED
      BY <1>2, <2>2, <3>1, <3>2 DEF RowsAgree, UniqueNames, OwnerExists, Rows
  <2>3. ASSUME q.id \in Id,
               users' = [users EXCEPT ![q.id] = None],
               mounts' = IF users[q.id] = None THEN mounts ELSE Unbind(q.id)
        PROVE  RowsAgree'
    <3>1. CASE q.id \in Id /\ users[q.id] # None
      <4>1. /\ Rows(users') = Rows(users) \ {q.id}
            /\ \A i \in Rows(users') : users'[i] = users[i]
        BY <1>1, <2>3, <3>1 DEF Rows
      <4>2. UniqueNames(users)'
        BY <1>2, <4>1 DEF UniqueNames
      <4>3. mounts' = Unbind(q.id)
        BY <2>3, <3>1
      <4>4. /\ Rows(mounts') = Rows(mounts)
            /\ \A i \in Rows(mounts) :
                  /\ mounts'[i].name = mounts[i].name
                  /\ mounts'[i].owner = IF mounts[i].owner = q.id THEN None
                                        ELSE mounts[i].owner
        <5>1. \A i \in Rows(mounts) : mounts[i] \in MountRow
          BY <1>1 DEF Rows
        <5>2. \A i \in Id : mounts'[i] = IF i \in Rows(mounts) /\ mounts[i].owner = q.id
                                         THEN [mounts[i] EXCEPT !.owner = None]
                                         ELSE mounts[i]
          BY <4>3 DEF Unbind
        <5>3. \A i \in Rows(mounts) : [mounts[i] EXCEPT !.owner = None] \in MountRow
          BY <5>1 DEF MountRow
        <5>4. Rows(mounts') = Rows(mounts)
          BY <5>2, <5>3 DEF Rows
        <5> QED
          BY <5>1, <5>2, <5>4 DEF MountRow, Rows
      <4>5. UniqueNames(mounts)'
        BY <1>2, <4>4 DEF UniqueNames
      <4>6. (\A i \in Rows(mounts) : OwnerExists(mounts[i].owner))'
        BY <1>2, <4>1, <4>4 DEF OwnerExists
      <4> QED
        BY <4>2, <4>5, <4>6 DEF RowsAgree
    <3>2. CASE ~(q.id \in Id /\ users[q.id] # None)
      <4>1. users' = users
        BY <1>1, <2>3, <3>2
      <4> QED
        BY <1>3, <2>3, <3>2, <4>1 DEF tables
    <3> QED
      BY <3>1, <3>2
  <2>4. q.kind = "delete" => q.id \in Id
    BY <1>5 DEF WriteUser, TypeOK, Carries
  <2> QED
    BY <1>5, <2>1, <2>2, <2>3, <2>4 DEF WriteUser
<1>6. ASSUME NEW r \in Request, InsertMount(r) PROVE RowsAgree'
  <2>1. CASE UNCHANGED mounts
    BY <1>3, <1>6, <2>1 DEF InsertMount, tables
  <2>2. CASE mounts' # mounts
    <3>1. PICK i \in Id : mounts' = [mounts EXCEPT ![i] =
                              [name |-> req[r].name, owner |-> req[r].owner]]
      BY <1>6, <2>2 DEF InsertMount
    <3>2. /\ users' = users /\ Named(mounts, req[r].name) = {}
          /\ OwnerExists(req[r].owner)
      BY <1>6, <2>2 DEF InsertMount
    <3>3. /\ mounts'[i].name = req[r].name /\ mounts'[i].owner = req[r].owner
          /\ \A j \in Id \ {i} : mounts'[j] = mounts[j]
      BY <1>1, <3>1
    <3>4. \A j \in Rows(mounts) : mounts[j].name # req[r].name
      BY <3>2 DEF Named
    <3>5. UniqueNames(mounts)'
      BY <1>2, <3>3, <3>4 DEF UniqueNames, Rows
    <3>6. \A j \in Rows(mounts') : OwnerExists(mounts'[j].owner)
      BY <1>2, <3>2, <3>3 DEF Rows
    <3> QED
      BY <1>2, <3>2, <3>5, <3>6 DEF RowsAgree, UniqueNames, OwnerExists, Rows
  <2> QED
    BY <2>1, <2>2
<1>7. ASSUME NEW r \in Request, WriteMount(r) PROVE RowsAgree'
  <2> DEFINE q == req[r]
  <2>1. users' = users /\ q.id \in Id
    BY <1>7 DEF WriteMount, TypeOK, Carries
  <2>2. CASE q.kind = "update" /\ mounts' # mounts
    <3>1. /\ mounts[q.id] # None /\ Named(mounts, q.new) \ {q.id} = {}
          /\ OwnerExists(q.owner)
          /\ mounts' = [mounts EXCEPT ![q.id].owner = q.owner,
                           ![q.id].name = IF q.new = None THEN @ ELSE q.new]
      BY <1>7, <2>2 DEF WriteMount
    <3>2. /\ mounts[q.id] \in MountRow
          /\ \A j \in Id \ {q.id} : mounts'[j] = mounts[j]
      BY <1>1, <2>1, <3>1
    <3>3. /\ mounts'[q.id].name = IF q.new = None THEN mounts[q.id].name ELSE q.new
          /\ mounts'[q.id].owner = q.owner
      BY <1>1, <2>1, <3>1, <3>2 DEF MountRow
    <3>4. \A j \in Rows(mounts) \ {q.id} : mounts[j].name # q.new
      BY <3>1 DEF Named
    <3>5. q.id \in Rows(mounts)
      BY <2>1, <3>1 DEF Rows
    <3>6. UniqueNames(mounts)'
      BY <1>2, <3>2, <3>3, <3>4, <3>5 DEF UniqueNames, Rows
    <3>7. \A j \in Rows(mounts') : OwnerExists(mounts'[j].owner)
      BY <1>2, <3>1, <3>2, <3>3 DEF Rows
    <3> QED
      BY <1>2, <2>1, <3>6, <3>7 DEF RowsAgree, UniqueNames, OwnerExists, Rows
  <2>3. CASE q.kind = "delete" /\ mounts' = [mounts EXCEPT ![q.id] = None]
    <3>1. /\ Rows(mounts') \subseteq Rows(mounts)
          /\ \A i \in Rows(mounts') : mounts'[i] = mounts[i]
      BY <1>1, <2>1, <2>3 DEF Rows
    <3>2. UniqueNames(mounts)'
      BY <1>2, <3>1 DEF UniqueNames
    <3>3. \A j \in Rows(mounts') : OwnerExists(mounts'[j].owner)
      BY <1>2, <3>1
    <3> QED
      BY <1>2, <2>1, <3>2, <3>3 DEF RowsAgree, UniqueNames, OwnerExists, Rows
  <2> QED
    BY <1>3, <1>7, <2>1, <2>2, <2>3 DEF WriteMount, tables
<1>8. ASSUME NEW r \in Request,
             AddUser(r) \/ ChangeUser(r) \/ DisconnectUser(r) \/ LookupUser(r)
             \/ AddMount(r) \/ ChangeMount(r) \/ LookupOwner(r)
             \/ DisconnectMount(r) \/ LookupMount(r)
      PROVE  UNCHANGED tables
  BY <1>8 DEF AddUser, ChangeUser, DisconnectUser, LookupUser, AddMount, ChangeMount,
              LookupOwner, DisconnectMount, LookupMount
<1>9. ASSUME NEW c \in Rover, Verify(c) \/ Register(c) \/ Leave(c)
      PROVE  UNCHANGED tables
  BY <1>9 DEF Verify, Register, Leave
<1>10. CASE UNCHANGED vars
  BY <1>3, <1>10 DEF vars
<1> QED
  BY <1>3, <1>4, <1>5, <1>6, <1>7, <1>8, <1>9, <1>10 DEF Next, RequestStep

(* Every step keeps the rovers current that are not excused. *)
LEMMA RoversStep == TypeOK /\ RoversAreCurrent /\ [Next]_vars => RoversAreCurrent'
<1> SUFFICES ASSUME TypeOK, RoversAreCurrent, [Next]_vars,
                    NEW c \in Rover, Present(c)', c \notin excused'
             PROVE  /\ users'[rover'[c].login.id] =
                         [name |-> rover'[c].login.name, secret |-> rover'[c].login.secret]
                    /\ \A r \in Request : req'[r].step \in {"lookupUser", "writeUser"}
                                             => req'[r].name # rover'[c].login.name
  BY DEF RoversAreCurrent
<1> DEFINE login == rover[c].login
           Past(s) == s \in {"lookupUser", "writeUser"}
           Goal == /\ users'[login.id] = [name |-> login.name, secret |-> login.secret]
                   /\ \A r \in Request : Past(req'[r].step) => req'[r].name # login.name
<1>1. /\ users \in [Id -> UserRow \cup {None}]
      /\ req \in [Request -> RequestType]
      /\ rover \in [Rover -> [step : {"away", "verified", "registered", "gone"},
                              mount : MountName \cup {None}, login : Login \cup {None}]]
  BY DEF TypeOK
<1>2. ASSUME Present(c), c \notin excused
      PROVE  /\ users[login.id] = [name |-> login.name, secret |-> login.secret]
             /\ \A r \in Request : Past(req[r].step) => req[r].name # login.name
             /\ login.id \in Rows(users)
  <2>1. login \in Login
    BY <1>2 DEF TypeOK, Present
  <2>2. [name |-> login.name, secret |-> login.secret] \in UserRow
    BY <2>1 DEF Login, UserRow
  <2> QED
    BY <1>2, <2>1, <2>2, AccountsAssumption DEF RoversAreCurrent, Rows, Login
(* The rover is the same one before the step, except when it is verified. *)
<1>3. ASSUME rover'[c].login = login, Present(c), Goal
      PROVE  /\ users'[rover'[c].login.id] =
                  [name |-> rover'[c].login.name, secret |-> rover'[c].login.secret]
             /\ \A r \in Request : req'[r].step \in {"lookupUser", "writeUser"}
                                      => req'[r].name # rover'[c].login.name
  BY <1>3
<1>4. ASSUME NEW r \in Request, RequestStep(r)
      PROVE  /\ rover'[c] = rover[c] /\ Present(c) /\ c \notin excused /\ Goal
  <2>1. /\ rover'[c] = rover[c] /\ Present(c) /\ c \notin excused
        /\ \/ users' = users \/ InsertUser(r) \/ WriteUser(r)
        /\ \A s \in Request \ {r} : req'[s] = req[s]
    <3>1. CASE AddUser(r) \/ ChangeUser(r) \/ AddMount(r) \/ ChangeMount(r)
      BY <1>1, <3>1 DEF AddUser, ChangeUser, AddMount, ChangeMount, Begin, Present, tables
    <3>2. CASE InsertUser(r) \/ InsertMount(r) \/ WriteUser(r) \/ WriteMount(r)
      BY <1>1, <3>2 DEF InsertUser, InsertMount, WriteUser, WriteMount, End, Present
    <3>3. CASE LookupUser(r) \/ LookupOwner(r) \/ LookupMount(r)
      BY <1>1, <3>3 DEF LookupUser, LookupOwner, LookupMount, End, Present, tables
    <3>4. CASE DisconnectUser(r)
      BY <1>1, <3>4 DEF DisconnectUser, NoLogin, Present, tables
    <3>5. CASE DisconnectMount(r)
      BY <1>1, <3>5 DEF DisconnectMount, NoLogin, Present, tables
    <3> QED
      BY <1>4, <3>1, <3>2, <3>3, <3>4, <3>5 DEF RequestStep
  <2>2. /\ users[login.id] = [name |-> login.name, secret |-> login.secret]
        /\ \A s \in Request : Past(req[s].step) => req[s].name # login.name
        /\ login.id \in Rows(users)
    BY <1>2, <2>1
  <2>3. Past(req'[r].step) => req'[r].name # login.name
    <3>1. CASE AddUser(r) \/ ChangeUser(r) \/ AddMount(r) \/ ChangeMount(r)
      BY <1>1, <3>1, BeginTyped DEF Begin
    <3>2. CASE InsertUser(r) \/ InsertMount(r) \/ WriteUser(r) \/ WriteMount(r)
      BY <1>1, <3>2 DEF InsertUser, InsertMount, WriteUser, WriteMount, End, NoRequest
    <3>3. CASE LookupUser(r)
      <4>1. req[r].step = "lookupUser"
        BY <3>3 DEF LookupUser
      <4>2. CASE End(r)
        BY <1>1, <4>2 DEF End, NoRequest
      <4>3. CASE \E i \in Named(users, req[r].name) :
                    req' = [req EXCEPT ![r].step = "writeUser", ![r].id = i,
                               ![r].secret = IF req[r].kind = "rename" THEN users[i].secret
                                             ELSE None]
        <5>1. req'[r].name = req[r].name
          BY <1>1, <4>3 DEF RequestType
        <5> QED
          BY <2>2, <4>1, <5>1
      <4> QED
        BY <3>3, <4>2, <4>3 DEF LookupUser
    <3>4. CASE LookupOwner(r) \/ DisconnectMount(r)
      BY <1>1, <3>4 DEF LookupOwner, DisconnectMount, RequestType
    <3>5. CASE LookupMount(r)
      <4>1. CASE End(r)
        BY <1>1, <4>1 DEF End, NoRequest
      <4>2. CASE \E i \in Named(mounts, req[r].name) :
                    req' = [req EXCEPT ![r].step = "writeMount", ![r].id = i]
        <5>1. req'[r].step = "writeMount"
          BY <1>1, <4>2 DEF RequestType
        <5> QED
          BY <5>1
      <4> QED
        BY <3>5, <4>1, <4>2 DEF LookupMount
    <3>6. CASE DisconnectUser(r)
      <4>1. req'[r].name = req[r].name
        BY <1>1, <3>6 DEF DisconnectUser, RequestType
      <4>2. CASE rover[c].step = "registered"
        BY <1>1, <2>1, <3>6, <4>1, <4>2 DEF DisconnectUser, NoLogin, Present
      <4>3. CASE rover[c].step = "verified"
        BY <1>1, <3>6, <4>1, <4>3 DEF DisconnectUser
      <4> QED
        BY <2>1, <4>2, <4>3 DEF Present
    <3> QED
      BY <1>4, <3>1, <3>2, <3>3, <3>4, <3>5, <3>6 DEF RequestStep
  <2>4. \A s \in Request : Past(req'[s].step) => req'[s].name # login.name
    BY <2>1, <2>2, <2>3
  <2>5. users'[login.id] = [name |-> login.name, secret |-> login.secret]
    <3>1. CASE users' = users
      BY <2>2, <3>1
    <3>2. CASE InsertUser(r) /\ users' # users
      <4>1. PICK i \in Id :
               /\ IsFresh(users, i)
               /\ users' = [users EXCEPT ![i] =
                     [name |-> req[r].name, secret |-> Hash(req[r].secret)]]
        BY <3>2 DEF InsertUser
      <4>2. i # login.id
        BY <2>2, <4>1, AccountsAssumption DEF IsFresh, Rows, Id
      <4> QED
        BY <1>1, <2>2, <4>1, <4>2 DEF Rows
    <3>3. CASE WriteUser(r)
      <4> DEFINE q == req[r]
      <4>1. q.step = "writeUser" /\ q.name # login.name
        BY <2>2, <3>3 DEF WriteUser
      <4>2. users[login.id].name = login.name
        BY <2>2
      <4>3. login.id # q.id
        BY <2>1, <2>2, <3>3, <4>1, <4>2 DEF WriteUser, Present
      <4>4. login.id \in Id /\ login.id \notin Named(users, q.name)
        BY <2>2, <4>1, <4>2 DEF Rows, Named
      <4>5. CASE UpdateUser(q)
        BY <1>1, <2>2, <4>3, <4>4, <4>5 DEF UpdateUser
      <4>6. CASE UpdateUserPassword(q)
        BY <1>1, <2>2, <4>4, <4>6 DEF UpdateUserPassword
      <4>7. CASE users' = [users EXCEPT ![q.id] = None]
        BY <1>1, <2>2, <4>3, <4>4, <4>7
      <4> QED
        BY <3>3, <4>5, <4>6, <4>7 DEF WriteUser
    <3> QED
      BY <2>1, <3>1, <3>2, <3>3
  <2> QED
    BY <2>1, <2>4, <2>5
<1>5. ASSUME NEW d \in Rover, Verify(d) \/ Register(d) \/ Leave(d), ~(Verify(c) /\ d = c)
      PROVE  /\ rover'[c].login = login /\ Present(c) /\ c \notin excused /\ Goal
  <2>1. /\ rover'[c].login = login /\ Present(c) /\ c \notin excused
        /\ users' = users /\ req' = req
    <3>1. CASE Verify(d)
      <4>1. d # c /\ rover'[c] = rover[c] /\ excused \subseteq excused'
        <5>1. d # c
          BY <1>5, <3>1
        <5> QED
          BY <1>1, <3>1, <5>1 DEF Verify
      <4> QED
        BY <3>1, <4>1 DEF Verify, Present, tables
    <3>2. CASE Register(d)
      BY <1>1, <3>2 DEF Register, Present, tables
    <3>3. CASE Leave(d)
      BY <1>1, <3>3 DEF Leave, NoLogin, Present, tables
    <3> QED
      BY <1>5, <3>1, <3>2, <3>3
  <2> QED
    BY <1>2, <2>1
<1>6. CASE Verify(c)
  <2>1. PICK i \in Rows(users), j \in Rows(mounts) :
           /\ rover' = [rover EXCEPT ![c] =
                 [step |-> "verified", mount |-> mounts[j].name,
                  login |-> [id |-> i, name |-> users[i].name, secret |-> users[i].secret]]]
           /\ excused' = IF \E r \in Request : /\ req[r].step \in {"lookupUser", "writeUser"}
                                               /\ req[r].name = users[i].name
                         THEN excused \cup {c} ELSE excused
    BY <1>6 DEF Verify
  <2>2. rover'[c].login = [id |-> i, name |-> users[i].name, secret |-> users[i].secret]
    BY <1>1, <2>1
  <2>3. users[i] = [name |-> users[i].name, secret |-> users[i].secret]
    BY <1>1 DEF Rows, UserRow
  <2>4. users' = users /\ req' = req
    BY <1>6 DEF Verify, tables
  <2>5. \A r \in Request : Past(req[r].step) => req[r].name # users[i].name
    BY <2>1
  <2> QED
    BY <2>2, <2>3, <2>4, <2>5
<1>7. CASE UNCHANGED vars
  <2>1. /\ rover' = rover /\ excused' = excused /\ users' = users /\ req' = req
        /\ Present(c)
    BY <1>7 DEF vars, tables, Present
  <2> QED
    BY <1>2, <1>3, <2>1
<1> QED
  BY <1>3, <1>4, <1>5, <1>6, <1>7 DEF Next

----------------------------------------------------------------------------
LEMMA Inductive == IInv /\ [Next]_vars => IInv'
BY TypeStep, RowsStep, RoversStep DEF IInv

LEMMA Invariance == Spec => []IInv
<1>1. Init => IInv
  BY InitHolds
<1>2. IInv /\ [Next]_vars => IInv'
  BY Inductive
<1> QED
  BY <1>1, <1>2, PTL DEF Spec

(* Every state is of the declared types, and a request always has what it   *)
(* is about to use.                                                         *)
THEOREM TypesHold == Spec => []TypeOK
<1>1. IInv => TypeOK
  BY DEF IInv
<1> QED
  BY <1>1, Invariance, PTL

(* Names are unique and the owner of a mount point exists, however many     *)
(* requests look rows up and write them by id.                              *)
THEOREM RowsAlwaysAgree == Spec => []RowsAgree
<1>1. IInv => RowsAgree
  BY DEF IInv
<1> QED
  BY <1>1, Invariance, PTL

(* A rover is served on an account that has changed only for the causes     *)
(* that excuse it.                                                          *)
THEOREM RoversAreStaleOnlyBy == Spec => []StaleRoverOnlyBy
<1>1. IInv => StaleRoverOnlyBy
  BY DEF IInv, RoversAreCurrent, StaleRoverOnlyBy, Present
<1> QED
  BY <1>1, Invariance, PTL

----------------------------------------------------------------------------
(***************************************************************************)
(* CasterPool.                                                              *)
(***************************************************************************)

(* An accepted connection is with the listener, in the queue once, or with  *)
(* the dispatcher, until the pool has it; nobody holds one that has not     *)
(* been accepted.  Without this a connection could be submitted twice, and  *)
(* counted once.                                                            *)
Fresh(s) == s \in Session /\ task[s] = "none" /\ sock[s] # "none"
Held(s) == dispatcher.step = "submit" /\ dispatcher.conn = s

ConnectionsAreHeldOnce ==
    /\ listener.step \in {"register", "check", "put"} =>
          /\ Fresh(listener.conn) /\ ~Held(listener.conn)
          /\ \A i \in 1..Len(queue) : queue[i] # listener.conn
    /\ \A i \in 1..Len(queue) : Fresh(queue[i]) /\ ~Held(queue[i])
    /\ \A i, j \in 1..Len(queue) : queue[i] = queue[j] => i = j
    /\ dispatcher.step = "submit" => Fresh(dispatcher.conn)
    /\ \A s \in Session : sock[s] = "none" => task[s] = "none"

(* What the listener has let pass and the count does not show yet. *)
AtDispatcher == IF dispatcher.step \in {"submit", "count"} THEN 1 ELSE 0
AtListener == IF listener.step = "put" THEN 1 ELSE 0

TransitIsBounded ==
    active + Len(queue) + AtDispatcher + AtListener <= MaxConnections + QueueSize + 1

(* Only tasks that were submitted are unfinished, one at a time. *)
CountIsExact == IsFiniteSet(Unfinished) /\ CountDoesNotDrift

PoolIInv ==
    /\ PoolTypeOK /\ ConnectionsAreHeldOnce
    /\ CountIsExact /\ OpenSocketIsRegistered /\ TransitIsBounded

----------------------------------------------------------------------------
(* What the first element of a queue is taken from, and what is left of it. *)
LEMMA QueueParts ==
    ASSUME NEW q \in Seq(Session), q # <<>>
    PROVE  /\ Head(q) \in Session /\ Head(q) = q[1]
           /\ Tail(q) \in Seq(Session) /\ Len(Tail(q)) = Len(q) - 1
           /\ \A i \in 1..Len(Tail(q)) : Tail(q)[i] = q[i + 1]
           /\ Len(q) \in Nat \ {0}
OBVIOUS

LEMMA QueueGrows ==
    ASSUME NEW q \in Seq(Session), NEW s \in Session
    PROVE  /\ Append(q, s) \in Seq(Session) /\ Len(Append(q, s)) = Len(q) + 1
           /\ \A i \in 1..Len(q) : Append(q, s)[i] = q[i]
           /\ Append(q, s)[Len(q) + 1] = s
           /\ Len(q) \in Nat
OBVIOUS

LEMMA TypeInit == PoolInit => PoolTypeOK
BY PoolAssumption DEF PoolInit, PoolTypeOK, Thread

LEMMA PoolTypeStep == PoolTypeOK /\ ConnectionsAreHeldOnce /\ [PoolNext]_poolVars => PoolTypeOK'
<1> SUFFICES ASSUME PoolTypeOK, ConnectionsAreHeldOnce, [PoolNext]_poolVars PROVE PoolTypeOK'
  OBVIOUS
<1>a. listener.step \in {"register", "check", "put"} => listener.conn \in Session
  BY DEF ConnectionsAreHeldOnce, Fresh
<1> USE PoolAssumption DEF PoolTypeOK, Thread, Close, Unregister
<1>1. CASE UNCHANGED poolVars
  BY <1>1 DEF poolVars
<1>2. ASSUME NEW s \in Session, Accept(s) PROVE PoolTypeOK'
  BY <1>2 DEF Accept
<1>3. CASE RegisterSocket
  BY <1>3, <1>a DEF RegisterSocket
<1>4. CASE CheckLimit
  BY <1>4 DEF CheckLimit
<1>5. CASE PutQueued
  <2>1. /\ queue' = Append(queue, listener.conn) /\ queue \in Seq(Session)
        /\ listener.conn \in Session
        /\ Len(queue) < QueueSize
    BY <1>5, <1>a DEF PutQueued
  <2>2. queue' \in Seq(Session) /\ Len(queue') <= QueueSize
    BY <2>1, QueueGrows
  <2> QED
    BY <1>5, <2>2 DEF PutQueued
<1>6. CASE PutFull
  BY <1>6 DEF PutFull
<1>7. CASE ListenerEnds
  BY <1>7 DEF ListenerEnds
<1>8. CASE Get
  BY <1>8, QueueParts DEF Get
<1>9. CASE Submit
  BY <1>9 DEF Submit
<1>10. CASE Count
  BY <1>10 DEF Count
<1>11. CASE DispatcherLoops
  BY <1>11 DEF DispatcherLoops
<1>12. ASSUME NEW s \in Session, StartTask(s) \/ HandlerReturns(s) \/ WorkerCloses(s)
       PROVE  PoolTypeOK'
  BY <1>12 DEF StartTask, HandlerReturns, WorkerCloses
<1>13. CASE StopAccepting
  BY <1>13 DEF StopAccepting
<1>14. CASE CloseClientConnections
  BY <1>14 DEF CloseClientConnections
<1>15. ASSUME NEW s \in Session, CloseClient(s) PROVE PoolTypeOK'
  BY <1>15 DEF CloseClient
<1>16. CASE DrainQueue
  <2>1. CASE queue = <<>>
    BY <1>16, <2>1 DEF DrainQueue
  <2>2. CASE queue # <<>>
    <3>1. /\ Head(queue) \in Session /\ Tail(queue) \in Seq(Session)
          /\ Len(Tail(queue)) <= QueueSize
      BY <2>2, QueueParts
    <3> QED
      BY <1>16, <2>2, <3>1 DEF DrainQueue
  <2> QED
    BY <2>1, <2>2
<1>17. CASE ShutdownPool
  BY <1>17 DEF ShutdownPool
<1> QED
  BY <1>1, <1>2, <1>3, <1>4, <1>5, <1>6, <1>7, <1>8, <1>9, <1>10, <1>11, <1>12, <1>13,
     <1>14, <1>15, <1>16, <1>17 DEF PoolNext, ListenerStep, DispatcherStep, StopStep

----------------------------------------------------------------------------
LEMMA HeldInit == PoolInit => ConnectionsAreHeldOnce
BY DEF PoolInit, ConnectionsAreHeldOnce, Thread, Held

LEMMA HeldStep == PoolTypeOK /\ ConnectionsAreHeldOnce /\ [PoolNext]_poolVars => ConnectionsAreHeldOnce'
<1> SUFFICES ASSUME PoolTypeOK, ConnectionsAreHeldOnce, [PoolNext]_poolVars PROVE ConnectionsAreHeldOnce'
  OBVIOUS
<1> USE PoolAssumption DEF PoolTypeOK, ConnectionsAreHeldOnce, Fresh, Held, Thread, Close, Unregister
<1>1. CASE UNCHANGED poolVars
  BY <1>1 DEF poolVars
<1>2. ASSUME NEW s \in Session, Accept(s) PROVE ConnectionsAreHeldOnce'
  BY <1>2 DEF Accept
<1>3. CASE RegisterSocket
  BY <1>3 DEF RegisterSocket
<1>4. CASE CheckLimit
  BY <1>4 DEF CheckLimit
<1>5. CASE PutQueued
  <2>1. /\ queue \in Seq(Session) /\ listener.conn \in Session
        /\ queue' = Append(queue, listener.conn)
    BY <1>5 DEF PutQueued
  <2>2. /\ Len(queue') = Len(queue) + 1 /\ Len(queue) \in Nat
        /\ \A i \in 1..Len(queue) : queue'[i] = queue[i]
        /\ queue'[Len(queue')] = listener.conn
    BY <2>1, QueueGrows
  <2>3. \A i \in 1..Len(queue') : i \in 1..Len(queue) \/ i = Len(queue')
    BY <2>2
  <2> HIDE DEF PoolTypeOK
  <2> QED
    BY <1>5, <2>1, <2>2, <2>3 DEF PutQueued
<1>6. CASE PutFull
  BY <1>6 DEF PutFull
<1>7. CASE ListenerEnds
  BY <1>7 DEF ListenerEnds
<1>8. CASE Get
  <2>1. /\ queue \in Seq(Session) /\ queue # <<>> /\ queue' = Tail(queue)
        /\ dispatcher' = Thread("submit", Head(queue)) /\ dispatcher.step = "get"
        /\ UNCHANGED <<listener, sock, task>>
    BY <1>8 DEF Get
  <2>2. /\ Head(queue) = queue[1] /\ Len(queue) \in Nat \ {0}
        /\ Len(queue') = Len(queue) - 1
        /\ \A i \in 1..Len(queue') : queue'[i] = queue[i + 1] /\ i + 1 \in 1..Len(queue) /\ i + 1 # 1
        /\ 1 \in 1..Len(queue)
    BY <2>1, QueueParts
  <2> HIDE DEF PoolTypeOK
  <2> QED
    BY <2>1, <2>2
<1>9. CASE Submit
  BY <1>9 DEF Submit
<1>10. CASE Count
  BY <1>10 DEF Count
<1>11. CASE DispatcherLoops
  BY <1>11 DEF DispatcherLoops
<1>12. ASSUME NEW s \in Session, StartTask(s) \/ HandlerReturns(s) \/ WorkerCloses(s)
       PROVE  ConnectionsAreHeldOnce'
  BY <1>12 DEF StartTask, HandlerReturns, WorkerCloses
<1>13. CASE StopAccepting
  BY <1>13 DEF StopAccepting
<1>14. CASE CloseClientConnections
  BY <1>14 DEF CloseClientConnections
<1>15. ASSUME NEW s \in Session, CloseClient(s) PROVE ConnectionsAreHeldOnce'
  BY <1>15 DEF CloseClient
<1>16. CASE DrainQueue
  <2>1. CASE queue = <<>>
    BY <1>16, <2>1 DEF DrainQueue
  <2>2. CASE queue # <<>>
    <3>1. /\ queue \in Seq(Session) /\ queue' = Tail(queue)
          /\ UNCHANGED <<listener, dispatcher, task>>
          /\ \A s \in Session : sock'[s] = "none" <=> sock[s] = "none"
      BY <1>16, <2>2, QueueParts DEF DrainQueue
    <3>2. /\ Len(queue) \in Nat \ {0} /\ Len(queue') = Len(queue) - 1
          /\ \A i \in 1..Len(queue') : queue'[i] = queue[i + 1] /\ i + 1 \in 1..Len(queue)
      BY <2>2, <3>1, QueueParts
    <3> HIDE DEF PoolTypeOK
    <3> QED
      BY <3>1, <3>2
  <2> QED
    BY <2>1, <2>2
<1>17. CASE ShutdownPool
  BY <1>17 DEF ShutdownPool
<1> QED
  BY <1>1, <1>2, <1>3, <1>4, <1>5, <1>6, <1>7, <1>8, <1>9, <1>10, <1>11, <1>12, <1>13,
     <1>14, <1>15, <1>16, <1>17 DEF PoolNext, ListenerStep, DispatcherStep, StopStep

----------------------------------------------------------------------------
(* The count: up one step after the submission, down with each return. *)

LEMMA CountInit == PoolInit => CountIsExact
<1> SUFFICES ASSUME PoolInit PROVE CountIsExact
  OBVIOUS
<1>1. Unfinished = {} /\ active = 0 /\ dispatcher.step # "count"
  BY DEF PoolInit, Unfinished, Thread
<1> QED
  BY <1>1, FS_EmptySet DEF CountIsExact, CountDoesNotDrift

(* A step that neither submits, counts nor returns changes nothing of it. *)
LEMMA CountKept ==
    ASSUME CountIsExact, Unfinished' = Unfinished, active' = active,
           dispatcher.step # "count", dispatcher'.step # "count"
    PROVE  CountIsExact'
BY DEF CountIsExact, CountDoesNotDrift

LEMMA CountStep ==
    PoolTypeOK /\ ConnectionsAreHeldOnce /\ CountIsExact /\ [PoolNext]_poolVars => CountIsExact'
<1> SUFFICES ASSUME PoolTypeOK, ConnectionsAreHeldOnce, CountIsExact, [PoolNext]_poolVars
             PROVE  CountIsExact'
  OBVIOUS
<1> USE PoolAssumption DEF Thread
<1> DEFINE Same == UNCHANGED <<active, dispatcher>> /\ Unfinished' = Unfinished
<1>1. /\ task \in [Session -> {"none", "pending", "serving", "leaving", "done", "cancelled"}]
      /\ active \in Int /\ IsFiniteSet(Unfinished) /\ Cardinality(Unfinished) \in Nat
      /\ active = Cardinality(Unfinished) - (IF dispatcher.step = "count" THEN 1 ELSE 0)
  BY FS_CardinalityType DEF PoolTypeOK, CountIsExact, CountDoesNotDrift
<1>2. CASE Same
  BY <1>2 DEF CountIsExact, CountDoesNotDrift
<1>3. CASE UNCHANGED poolVars
  BY <1>2, <1>3 DEF poolVars, Unfinished
<1>4. ASSUME NEW s \in Session, Accept(s) PROVE CountIsExact'
  BY <1>2, <1>4 DEF Accept, Unfinished
<1>5. CASE ListenerStep
  BY <1>2, <1>5 DEF ListenerStep, RegisterSocket, CheckLimit, PutQueued, PutFull,
                    ListenerEnds, Unfinished
<1>6. CASE StopAccepting
  BY <1>2, <1>6 DEF StopAccepting, Unfinished
<1>7. CASE CloseClientConnections \/ DrainQueue
  BY <1>2, <1>7 DEF CloseClientConnections, DrainQueue, Unfinished
<1>8. ASSUME NEW s \in Session, CloseClient(s) PROVE CountIsExact'
  BY <1>2, <1>8 DEF CloseClient, Unfinished
(* Pending tasks that the pool cancels stay counted. *)
<1>9. CASE ShutdownPool
  <2>1. Unfinished' = Unfinished
    BY <1>1, <1>9 DEF ShutdownPool, Unfinished
  <2> QED
    BY <1>2, <1>9, <2>1 DEF ShutdownPool
<1>10. ASSUME NEW s \in Session, StartTask(s) \/ WorkerCloses(s) PROVE CountIsExact'
  <2>1. Unfinished' = Unfinished
    BY <1>1, <1>10 DEF StartTask, WorkerCloses, Unfinished
  <2> QED
    BY <1>2, <1>10, <2>1 DEF StartTask, WorkerCloses
<1>11. ASSUME NEW s \in Session, HandlerReturns(s) PROVE CountIsExact'
  <2>1. /\ s \in Unfinished /\ Unfinished' = Unfinished \ {s}
        /\ active' = active - 1 /\ dispatcher' = dispatcher
    BY <1>1, <1>11 DEF HandlerReturns, Unfinished
  <2>2. IsFiniteSet(Unfinished') /\ Cardinality(Unfinished') = Cardinality(Unfinished) - 1
    BY <1>1, <2>1, FS_RemoveElement
  <2> QED
    BY <1>1, <2>1, <2>2 DEF CountIsExact, CountDoesNotDrift
<1>12. CASE Get \/ DispatcherLoops
  BY <1>12, CountKept DEF Get, DispatcherLoops, Unfinished
<1>13. CASE Submit
  <2>1. CASE poolUp
    <3> DEFINE s == dispatcher.conn
    <3>1. /\ dispatcher.step = "submit" /\ dispatcher'.step = "count" /\ active' = active
          /\ task' = [task EXCEPT ![s] = "pending"]
      BY <1>13, <2>1 DEF Submit
    <3>2. s \in Session /\ task[s] = "none"
      BY <3>1 DEF ConnectionsAreHeldOnce, Fresh
    <3> HIDE DEF s
    <3>3. s \notin Unfinished /\ Unfinished' = Unfinished \cup {s}
      BY <1>1, <3>1, <3>2 DEF Unfinished
    <3>4. IsFiniteSet(Unfinished') /\ Cardinality(Unfinished') = Cardinality(Unfinished) + 1
      BY <1>1, <3>3, FS_AddElement
    <3> QED
      BY <1>1, <3>1, <3>4 DEF CountIsExact, CountDoesNotDrift
  <2>2. CASE ~poolUp
    BY <1>13, <2>2, CountKept DEF Submit, Unfinished
  <2> QED
    BY <2>1, <2>2
<1>14. CASE Count
  <2>1. /\ Unfinished' = Unfinished /\ active' = active + 1
        /\ dispatcher.step = "count" /\ dispatcher'.step # "count"
    BY <1>14 DEF Count, Unfinished
  <2> QED
    BY <1>1, <2>1 DEF CountIsExact, CountDoesNotDrift
<1> QED
  BY <1>3, <1>4, <1>5, <1>6, <1>7, <1>8, <1>9, <1>10, <1>11, <1>12, <1>13, <1>14
     DEF PoolNext, DispatcherStep, StopStep

----------------------------------------------------------------------------
(* The register: who takes a socket out closes it, until the shutdown. *)

LEMMA RegisteredStep ==
    PoolTypeOK /\ OpenSocketIsRegistered /\ [PoolNext]_poolVars => OpenSocketIsRegistered'
<1> SUFFICES ASSUME PoolTypeOK, OpenSocketIsRegistered, [PoolNext]_poolVars,
                    NEW s \in Session, sock'[s] = "open",
                    stop'.step \in {"run", "accepting"}, listener' # Thread("register", s)
             PROVE  s \in registered'
  BY DEF OpenSocketIsRegistered, Thread
<1> USE PoolAssumption DEF PoolTypeOK, OpenSocketIsRegistered, Thread, Close, Unregister
<1>1. CASE UNCHANGED poolVars
  BY <1>1 DEF poolVars
<1>2. ASSUME NEW t \in Session, Accept(t) PROVE s \in registered'
  BY <1>2 DEF Accept
<1>3. CASE RegisterSocket
  BY <1>3 DEF RegisterSocket
<1>4. CASE CheckLimit \/ PutQueued \/ PutFull \/ ListenerEnds
  BY <1>4 DEF CheckLimit, PutQueued, PutFull, ListenerEnds
<1>5. CASE Get \/ Submit \/ Count \/ DispatcherLoops
  BY <1>5 DEF Get, Submit, Count, DispatcherLoops
<1>6. ASSUME NEW t \in Session, StartTask(t) \/ HandlerReturns(t) \/ WorkerCloses(t)
      PROVE  s \in registered'
  BY <1>6 DEF StartTask, HandlerReturns, WorkerCloses
<1>7. CASE StopAccepting
  BY <1>7 DEF StopAccepting
<1>8. CASE CloseClientConnections \/ DrainQueue \/ ShutdownPool
  BY <1>8 DEF CloseClientConnections, DrainQueue, ShutdownPool
<1>9. ASSUME NEW t \in Session, CloseClient(t) PROVE s \in registered'
  BY <1>9 DEF CloseClient
<1> QED
  BY <1>1, <1>2, <1>3, <1>4, <1>5, <1>6, <1>7, <1>8, <1>9
     DEF PoolNext, ListenerStep, DispatcherStep, StopStep

----------------------------------------------------------------------------
(* The limit: a connection in transit is counted in TransitIsBounded from   *)
(* the check that let it pass.                                              *)
LEMMA TransitStep ==
    PoolTypeOK /\ TransitIsBounded /\ [PoolNext]_poolVars => TransitIsBounded'
<1> SUFFICES ASSUME PoolTypeOK, TransitIsBounded, [PoolNext]_poolVars PROVE TransitIsBounded'
  OBVIOUS
<1>a. /\ active \in Int /\ queue \in Seq(Session) /\ Len(queue) \in Nat
      /\ Len(queue) <= QueueSize /\ MaxConnections \in Nat /\ QueueSize \in Nat
      /\ AtDispatcher \in 0..1 /\ AtListener \in 0..1
      /\ AtDispatcher' \in 0..1 /\ AtListener' \in 0..1
  BY PoolAssumption DEF PoolTypeOK, AtDispatcher, AtListener
<1> USE DEF TransitIsBounded
<1>1. CASE UNCHANGED <<active, queue, dispatcher, listener>>
  BY <1>1 DEF AtDispatcher, AtListener
<1>2. CASE /\ UNCHANGED <<active, queue>>
           /\ AtDispatcher' = AtDispatcher /\ AtListener' <= AtListener
  BY <1>2, <1>a
<1>3. ASSUME NEW s \in Session, Accept(s) PROVE TransitIsBounded'
  BY <1>2, <1>3, <1>a DEF Accept, AtDispatcher, AtListener, Thread
<1>4. CASE RegisterSocket \/ PutFull \/ ListenerEnds
  BY <1>2, <1>4, <1>a DEF RegisterSocket, PutFull, ListenerEnds, AtDispatcher, AtListener, Thread
(* The check is what the bound comes from. *)
<1>5. CASE CheckLimit
  <2>1. CASE active >= MaxConnections
    BY <1>2, <1>5, <2>1, <1>a DEF CheckLimit, AtDispatcher, AtListener, Thread
  <2>2. CASE active < MaxConnections
    <3>1. UNCHANGED <<active, queue>>
      BY <1>5 DEF CheckLimit
    <3> QED
      BY <1>a, <2>2, <3>1
  <2> QED
    BY <1>a, <2>1, <2>2
<1>6. CASE PutQueued
  <2>1. /\ Len(queue') = Len(queue) + 1 /\ active' = active /\ AtDispatcher' = AtDispatcher
        /\ AtListener = 1 /\ AtListener' = 0
    BY <1>6, <1>a DEF PutQueued, AtDispatcher, AtListener, Thread
  <2> QED
    BY <1>a, <2>1
<1>7. CASE Get
  <2>1. /\ Len(queue') = Len(queue) - 1 /\ active' = active /\ AtListener' = AtListener
        /\ AtDispatcher = 0 /\ AtDispatcher' = 1
    BY <1>7, <1>a DEF Get, AtDispatcher, AtListener, Thread
  <2> QED
    BY <1>a, <2>1
<1>8. CASE Submit \/ DispatcherLoops
  <2>1. /\ UNCHANGED <<active, queue>> /\ AtListener' = AtListener
        /\ AtDispatcher' <= AtDispatcher
    BY <1>8, <1>a DEF Submit, DispatcherLoops, AtDispatcher, AtListener, Thread
  <2> QED
    BY <1>a, <2>1
<1>9. CASE Count
  <2>1. /\ queue' = queue /\ active' = active + 1 /\ AtListener' = AtListener
        /\ AtDispatcher = 1 /\ AtDispatcher' = 0
    BY <1>9, <1>a DEF Count, AtDispatcher, AtListener, Thread
  <2> QED
    BY <1>a, <2>1
<1>10. ASSUME NEW s \in Session, HandlerReturns(s) PROVE TransitIsBounded'
  <2>1. /\ queue' = queue /\ Len(queue') = Len(queue) /\ active' = active - 1
        /\ active' \in Int
        /\ AtListener' = AtListener /\ AtDispatcher' = AtDispatcher
    BY <1>10, <1>a DEF HandlerReturns, AtDispatcher, AtListener
  <2> QED
    BY <1>a, <2>1
<1>11. CASE DrainQueue
  <2>1. Len(queue') <= Len(queue) /\ Len(queue') \in Nat
    <3>1. CASE queue = <<>>
      BY <1>11, <1>a, <3>1 DEF DrainQueue
    <3>2. CASE queue # <<>>
      BY <1>11, <1>a, <3>2 DEF DrainQueue
    <3> QED
      BY <3>1, <3>2
  <2>2. /\ active' = active
        /\ AtListener' = AtListener /\ AtDispatcher' = AtDispatcher
    BY <1>11 DEF DrainQueue, AtDispatcher, AtListener
  <2> QED
    BY <1>a, <2>1, <2>2
<1> QED
  BY <1>1, <1>3, <1>4, <1>5, <1>6, <1>7, <1>8, <1>9, <1>10, <1>11
     DEF PoolNext, ListenerStep, DispatcherStep, StopStep, poolVars, StartTask, WorkerCloses,
         StopAccepting, CloseClientConnections, CloseClient, ShutdownPool

LEMMA PoolInvariant == PoolSpec => []PoolIInv
<1>1. PoolInit => PoolIInv
  <2>1. PoolInit => OpenSocketIsRegistered
    BY DEF PoolInit, OpenSocketIsRegistered
  <2>2. PoolInit => TransitIsBounded
    BY PoolAssumption DEF PoolInit, TransitIsBounded, AtDispatcher, AtListener, Thread
  <2> QED
    BY <2>1, <2>2, TypeInit, HeldInit, CountInit DEF PoolIInv
<1>2. PoolIInv /\ [PoolNext]_poolVars => PoolIInv'
  BY PoolTypeStep, HeldStep, CountStep, RegisteredStep, TransitStep DEF PoolIInv
<1> QED
  BY <1>1, <1>2, PTL DEF PoolSpec

----------------------------------------------------------------------------
(* The variables have their types in every state. *)
THEOREM PoolTypesHold == PoolSpec => []PoolTypeOK
<1>1. PoolIInv => PoolTypeOK
  BY DEF PoolIInv
<1> QED
  BY <1>1, PoolInvariant, PTL

(* active_connections is the number of unfinished tasks, up to the one that *)
(* is submitted and not counted yet.                                        *)
THEOREM CountNeverDrifts == PoolSpec => []CountDoesNotDrift
<1>1. PoolIInv => CountDoesNotDrift
  BY DEF PoolIInv, CountIsExact
<1> QED
  BY <1>1, PoolInvariant, PTL

(* While the service runs, client_sockets knows every open connection. *)
THEOREM OpenSocketsAreRegistered == PoolSpec => []OpenSocketIsRegistered
<1>1. PoolIInv => OpenSocketIsRegistered
  BY DEF PoolIInv
<1> QED
  BY <1>1, PoolInvariant, PTL

(* MAX_CONNECTIONS is exceeded by a full queue and one connection at most. *)
THEOREM LimitIsExceededByQueueOnly == PoolSpec => []ActiveIsBounded
<1>1. PoolIInv => ActiveIsBounded
  <2> SUFFICES ASSUME PoolIInv PROVE ActiveIsBounded
    OBVIOUS
  <2>1. /\ active \in Int /\ Len(queue) \in Nat /\ MaxConnections \in Nat
        /\ QueueSize \in Nat /\ AtDispatcher \in 0..1 /\ AtListener \in 0..1
    BY PoolAssumption DEF PoolIInv, PoolTypeOK, AtDispatcher, AtListener
  <2> QED
    BY <2>1 DEF PoolIInv, TransitIsBounded, ActiveIsBounded
<1> QED
  BY <1>1, PoolInvariant, PTL
=============================================================================

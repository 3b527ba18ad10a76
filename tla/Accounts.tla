------------------------------ MODULE Accounts ------------------------------
(***************************************************************************)
(* Users and mount points: the tables of src/database.py, the requests of  *)
(* the administration pages that change them (api_users, api_user_detail,  *)
(* api_mounts, api_mount_detail in src/web.py), and the rovers that log in *)
(* meanwhile.                                                              *)
(*                                                                         *)
(* Every call of the database is one action, under db_lock; a page makes   *)
(* several, and keeps what it has read.  Rows have SQLite's row ids, which *)
(* are given out again.  Passwords of mount points are not looked at here. *)
(* A stored password is the one it was made of, hashed a number of times.  *)
(***************************************************************************)
EXTENDS Naturals

CONSTANTS
    UserName, MountName, Password,
    Request,    \* requests of the pages that change something, each used once
    Rover,      \* rovers, each of which logs in once
    MaxId,      \* bound: row ids
    None        \* no row, no id, no name

VARIABLES
    users,    \* row id -> user or None
    mounts,   \* row id -> mount point or None
    req,      \* how far the requests are, and what they have read
    rover,    \* the rovers: step, mount point, and the user row they logged in with
    excused   \* history: rovers that a request could not have disconnected

tables == <<users, mounts>>
vars == <<tables, req, rover, excused>>

Id == 1..MaxId
Secret == [of : Password, times : Nat]
UserRow == [name : UserName, secret : Secret]
MountRow == [name : MountName, owner : Id \cup {None}]
Login == [id : Id, name : UserName, secret : Secret]

ASSUME AccountsAssumption ==
    /\ MaxId \in Nat
    /\ None \notin UserName \cup MountName \cup Id
    /\ None \notin UserRow \cup MountRow

Rows(table) == {i \in Id : table[i] # None}
Named(table, name) == {i \in Rows(table) : table[i].name = name}

(* INTEGER PRIMARY KEY: one more than the highest id in use. *)
IsFresh(table, i) ==
    /\ \A j \in Rows(table) : j < i
    /\ i = 1 \/ i - 1 \in Rows(table)

(* hash_password *)
Hash(secret) == [secret EXCEPT !.times = @ + 1]
Plain(password) == [of |-> password, times |-> 0]

NoLogin == [step |-> "away", mount |-> None, login |-> None]
NoRequest == [step |-> "idle", kind |-> "none", name |-> None, new |-> None,
              id |-> None, owner |-> None, secret |-> None]

Init ==
    /\ users \in {[i \in Id |-> IF i = 1 THEN u ELSE None] :
                     u \in {[name |-> n, secret |-> Hash(Plain(p))] :
                               n \in UserName, p \in Password}}
    /\ mounts \in {[i \in Id |-> IF i = 1 THEN m ELSE None] :
                     m \in [name : MountName, owner : {1, None}]}
    /\ req = [r \in Request |-> NoRequest]
    /\ rover = [c \in Rover |-> NoLogin]
    /\ excused = {}

----------------------------------------------------------------------------
(* Requests.  A refused one changes nothing and is left out. *)

Begin(r, record) ==
    /\ req[r].step = "idle"
    /\ req' = [req EXCEPT ![r] = record]

End(r) == req' = [req EXCEPT ![r] = [NoRequest EXCEPT !.step = "done"]]

Asked(kind, step, name, new) ==
    [NoRequest EXCEPT !.kind = kind, !.step = step, !.name = name, !.new = new]

(* POST /api/users, for a name that is not in the list. *)
AddUser(r) ==
    /\ \E n \in UserName, p \in Password :
          /\ Named(users, n) = {}
          /\ Begin(r, [Asked("add", "insertUser", n, None) EXCEPT !.secret = Plain(p)])
    /\ UNCHANGED <<tables, rover, excused>>

(* add_user looks for the name again. *)
InsertUser(r) ==
    /\ req[r].step = "insertUser"
    /\ \/ Named(users, req[r].name) # {} /\ UNCHANGED users
       \/ /\ Named(users, req[r].name) = {}
          /\ \E i \in Id :
                /\ IsFresh(users, i)
                /\ users' = [users EXCEPT ![i] =
                                [name |-> req[r].name, secret |-> Hash(req[r].secret)]]
    /\ End(r)
    /\ UNCHANGED <<mounts, rover, excused>>

(* PUT /api/users/n with a name nobody else has, or else with a password;   *)
(* DELETE.                                                                  *)
ChangeUser(r) ==
    /\ \E n \in UserName :
          \/ \E new \in UserName :
                /\ Named(users, new) = {} \/ new = n
                /\ Begin(r, Asked("rename", "disconnectUser", n, new))
          \/ \E p \in Password :
                Begin(r, [Asked("password", "disconnectUser", n, None)
                             EXCEPT !.secret = Plain(p)])
          \/ Begin(r, Asked("delete", "disconnectUser", n, None))
    /\ UNCHANGED <<tables, rover, excused>>

(* Mutant: the user's clients stay. *)
DisconnectNobody(r) ==
    /\ req[r].step = "disconnectUser"
    /\ excused' = excused \cup {c \in Rover : /\ rover[c].step = "verified"
                                              /\ rover[c].login.name = req[r].name}
    /\ req' = [req EXCEPT ![r].step = IF req[r].kind = "password" THEN "writeUser"
                                      ELSE "lookupUser"]
    /\ UNCHANGED <<tables, rover>>

(* force_disconnect_user: the clients registered under the name go (one     *)
(* step; nothing here can tell); one that is verified and not registered    *)
(* yet stays.                                                               *)
DisconnectUser(r) ==
    LET n == req[r].name
        Of(step) == {c \in Rover : rover[c].step = step /\ rover[c].login.name = n}
    IN
    /\ req[r].step = "disconnectUser"
    /\ rover' = [c \in Rover |-> IF c \in Of("registered")
                                 THEN [NoLogin EXCEPT !.step = "gone"] ELSE rover[c]]
    /\ excused' = excused \cup Of("verified")
    /\ req' = [req EXCEPT ![r].step = IF req[r].kind = "password" THEN "writeUser"
                                      ELSE "lookupUser"]
    /\ UNCHANGED tables

(* Mutant: a name that is not in the list is not noticed. *)
LookupUserUnchecked(r) ==
    /\ req[r].step = "lookupUser"
    /\ LET found == Named(users, req[r].name) IN
       req' = [req EXCEPT ![r].step = "writeUser",
                          ![r].id = IF found = {} THEN None ELSE CHOOSE i \in found : TRUE]
    /\ UNCHANGED <<tables, rover, excused>>

(* The list again, for the row's id and the stored password. *)
LookupUser(r) ==
    /\ req[r].step = "lookupUser"
    /\ IF Named(users, req[r].name) = {} THEN End(r)
       ELSE \E i \in Named(users, req[r].name) :
               req' = [req EXCEPT ![r].step = "writeUser", ![r].id = i,
                          ![r].secret = IF req[r].kind = "rename" THEN users[i].secret
                                        ELSE None]
    /\ UNCHANGED <<tables, rover, excused>>

(* update_user by id.  The page passes the stored password as the password, *)
(* which is hashed once more unless the row's is already the hash of it.    *)
UpdateUser(q) ==
    LET row == users[q.id] IN
    users' = IF row = None \/ Named(users, q.new) \ {q.id} # {} THEN users
             ELSE [users EXCEPT ![q.id] = [name |-> q.new, secret |-> Hash(q.secret)]]

(* update_user_password by name. *)
UpdateUserPassword(q) ==
    users' = [i \in Id |-> IF i \in Named(users, q.name)
                           THEN [users[i] EXCEPT !.secret = Hash(q.secret)] ELSE users[i]]

(* Mutant: the mount points of the user stay bound. *)
UnbindNobody(id) == mounts

(* delete_user by id takes the user's mount points from it. *)
Unbind(id) ==
    [i \in Id |-> IF i \in Rows(mounts) /\ mounts[i].owner = id
                  THEN [mounts[i] EXCEPT !.owner = None] ELSE mounts[i]]

(* The row that an id stands for may be another one by now; the rovers of   *)
(* that row were not disconnected.                                          *)
WriteUser(r) ==
    LET q == req[r]
        Others == {c \in Rover : /\ rover[c].step \in {"verified", "registered"}
                                 /\ rover[c].login.id = q.id
                                 /\ q.id \in Rows(users) /\ users[q.id].name # q.name}
    IN
    /\ q.step = "writeUser"
    /\ \/ q.kind = "rename" /\ UpdateUser(q) /\ UNCHANGED mounts
       \/ q.kind = "password" /\ UpdateUserPassword(q) /\ UNCHANGED mounts
       \/ /\ q.kind = "delete"
          /\ users' = [users EXCEPT ![q.id] = None]
          /\ mounts' = IF users[q.id] = None THEN mounts ELSE Unbind(q.id)
    /\ excused' = excused \cup Others
    /\ End(r)
    /\ UNCHANGED rover

(* POST /api/mounts: an owner that exists and a name that is free. *)
AddMount(r) ==
    /\ \E m \in MountName, o \in Rows(users) \cup {None} :
          /\ Named(mounts, m) = {}
          /\ Begin(r, [Asked("add", "insertMount", m, None) EXCEPT !.owner = o])
    /\ UNCHANGED <<tables, rover, excused>>

OwnerExists(o) == o = None \/ o \in Rows(users)

(* add_mount looks for both again. *)
InsertMount(r) ==
    /\ req[r].step = "insertMount"
    /\ LET refused == Named(mounts, req[r].name) # {} \/ ~OwnerExists(req[r].owner) IN
       \/ refused /\ UNCHANGED mounts
       \/ /\ ~refused
          /\ \E i \in Id :
                /\ IsFresh(mounts, i)
                /\ mounts' = [mounts EXCEPT ![i] =
                                 [name |-> req[r].name, owner |-> req[r].owner]]
    /\ End(r)
    /\ UNCHANGED <<users, rover, excused>>

(* PUT /api/mounts/m, with or without a name; the owner is looked up, and   *)
(* cleared if none is given.  DELETE.                                       *)
ChangeMount(r) ==
    /\ \E m \in MountName :
          \/ \E new \in MountName \cup {None} :
                /\ Named(mounts, new) = {} \/ new = m
                /\ Begin(r, Asked("update", "lookupOwner", m, new))
          \/ Named(mounts, m) # {} /\ Begin(r, Asked("delete", "disconnectMount", m, None))
    /\ UNCHANGED <<tables, rover, excused>>

LookupOwner(r) ==
    /\ req[r].step = "lookupOwner"
    /\ \E o \in Rows(users) \cup {None} :
          req' = [req EXCEPT ![r].step = "disconnectMount", ![r].owner = o]
    /\ UNCHANGED <<tables, rover, excused>>

(* force_disconnect_mount *)
DisconnectMount(r) ==
    /\ req[r].step = "disconnectMount"
    /\ rover' = [c \in Rover |->
                   IF rover[c].step = "registered" /\ rover[c].mount = req[r].name
                   THEN [NoLogin EXCEPT !.step = "gone"] ELSE rover[c]]
    /\ req' = [req EXCEPT ![r].step = "lookupMount"]
    /\ UNCHANGED <<tables, excused>>

LookupMount(r) ==
    /\ req[r].step = "lookupMount"
    /\ IF Named(mounts, req[r].name) = {} THEN End(r)
       ELSE \E i \in Named(mounts, req[r].name) :
               req' = [req EXCEPT ![r].step = "writeMount", ![r].id = i]
    /\ UNCHANGED <<tables, rover, excused>>

(* update_mount and delete_mount by id. *)
WriteMount(r) ==
    LET q == req[r]
        refused == \/ mounts[q.id] = None
                   \/ Named(mounts, q.new) \ {q.id} # {}
                   \/ ~OwnerExists(q.owner)
    IN
    /\ q.step = "writeMount"
    /\ \/ /\ q.kind = "update"
          /\ mounts' = IF refused THEN mounts
                       ELSE [mounts EXCEPT ![q.id].owner = q.owner,
                                  ![q.id].name = IF q.new = None THEN @ ELSE q.new]
       \/ /\ q.kind = "delete"
          /\ mounts' = [mounts EXCEPT ![q.id] = None]
    /\ End(r)
    /\ UNCHANGED <<users, rover, excused>>

----------------------------------------------------------------------------
(* Rovers. *)

(* verify_download_user: the mount point exists, the user's password is     *)
(* right.  A request that has disconnected the user by then and not written *)
(* its row yet will not disconnect this rover.                              *)
Verify(c) ==
    /\ rover[c].step = "away"
    /\ \E i \in Rows(users), j \in Rows(mounts), p \in Password :
          /\ users[i].secret = Hash(Plain(p))
          /\ rover' = [rover EXCEPT ![c] =
                [step |-> "verified", mount |-> mounts[j].name,
                 login |-> [id |-> i, name |-> users[i].name, secret |-> users[i].secret]]]
          /\ excused' = IF \E r \in Request : /\ req[r].step \in {"lookupUser", "writeUser"}
                                              /\ req[r].name = users[i].name
                        THEN excused \cup {c} ELSE excused
    /\ UNCHANGED <<tables, req>>

(* add_client *)
Register(c) ==
    /\ rover[c].step = "verified"
    /\ rover' = [rover EXCEPT ![c].step = "registered"]
    /\ UNCHANGED <<tables, req, excused>>

Leave(c) ==
    /\ rover[c].step \in {"verified", "registered"}
    /\ rover' = [rover EXCEPT ![c] = [NoLogin EXCEPT !.step = "gone"]]
    /\ UNCHANGED <<tables, req, excused>>

RequestStep(r) ==
    \/ AddUser(r) \/ InsertUser(r) \/ ChangeUser(r) \/ DisconnectUser(r)
    \/ LookupUser(r) \/ WriteUser(r)
    \/ AddMount(r) \/ InsertMount(r) \/ ChangeMount(r) \/ LookupOwner(r)
    \/ DisconnectMount(r) \/ LookupMount(r) \/ WriteMount(r)

Next ==
    \/ \E r \in Request : RequestStep(r)
    \/ \E c \in Rover : Verify(c) \/ Register(c) \/ Leave(c)

Spec == Init /\ [][Next]_vars
----------------------------------------------------------------------------
RequestType ==
    [step : {"idle", "insertUser", "disconnectUser", "lookupUser", "writeUser",
             "insertMount", "lookupOwner", "disconnectMount", "lookupMount",
             "writeMount", "done"},
     kind : {"none", "add", "rename", "password", "update", "delete"},
     name : UserName \cup MountName \cup {None},
     new : UserName \cup MountName \cup {None},
     id : Id \cup {None}, owner : Id \cup {None}, secret : Secret \cup {None}]

(* What a request has read is there when it is used. *)
Carries(q) ==
    /\ q.step = "insertUser" => q.name \in UserName /\ q.secret \in Secret
    /\ q.step \in {"disconnectUser", "lookupUser", "writeUser"} =>
          /\ q.name \in UserName
          /\ q.kind = "rename" => q.new \in UserName
    /\ q.step = "lookupUser" => q.kind # "password"
    /\ q.step \in {"disconnectUser", "writeUser"} /\ q.kind = "password" => q.secret \in Secret
    /\ q.step = "writeUser" /\ q.kind = "rename" => q.secret \in Secret
    /\ q.step = "writeUser" /\ q.kind # "password" => q.id \in Id
    /\ q.step = "insertMount" => q.name \in MountName
    /\ q.step \in {"lookupOwner", "disconnectMount", "lookupMount", "writeMount"}
          /\ q.kind = "update" => q.new \in MountName \cup {None}
    /\ q.step = "writeMount" => q.id \in Id

(* Types; a request that is about to write by id has found one. *)
TypeOK ==
    /\ users \in [Id -> UserRow \cup {None}]
    /\ mounts \in [Id -> MountRow \cup {None}]
    /\ req \in [Request -> RequestType]
    /\ \A r \in Request : Carries(req[r])
    /\ rover \in [Rover -> [step : {"away", "verified", "registered", "gone"},
                            mount : MountName \cup {None}, login : Login \cup {None}]]
    /\ \A c \in Rover : rover[c].step \in {"verified", "registered"} => rover[c].login \in Login
    /\ excused \subseteq Rover

UniqueNames(table) ==
    \A i, j \in Rows(table) : table[i].name = table[j].name => i = j

(* However the pages' look-ups and writes are mixed: no two rows have the   *)
(* same name, and a mount point belongs to nobody or to a row that exists.  *)
(* The latter keeps a new user, who may get the id of a deleted one, from   *)
(* getting that user's mount points with it.                                *)
RowsAgree ==
    /\ UniqueNames(users) /\ UniqueNames(mounts)
    /\ \A i \in Rows(mounts) : OwnerExists(mounts[i].owner)

(* A rover is served with a name and a password that are no longer right    *)
(* only if it logged in while the request that changed them was between     *)
(* the disconnection and the write, or was on its way then, or if the       *)
(* request hit its row by an id that had been another user's.               *)
StaleRoverOnlyBy ==
    \A c \in Rover : rover[c].step = "registered" /\ c \notin excused =>
        LET login == rover[c].login IN
        users[login.id] = [name |-> login.name, secret |-> login.secret]
=============================================================================

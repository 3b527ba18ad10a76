----------------------------- MODULE UserImport -----------------------------
(***************************************************************************)
(* The administrators' logins of WebManager (src/web.py) and the import of *)
(* user accounts bound to them (src/user_import_web.py): a file is shown   *)
(* as a preview, which one confirmation with the same file consumes; the   *)
(* import then waits for the database with neither the login nor the       *)
(* preview being safe from a logout, a cancellation or a newer preview.    *)
(*                                                                         *)
(* A file stands for the accounts in it.  Locks are taken in the order     *)
(* db_lock, _admin_lock; what happens under _admin_lock alone is one       *)
(* action.  A login's or preview's time being up is a flag, set at any     *)
(* moment and looked at where the code reads the clock.                    *)
(***************************************************************************)
EXTENDS Naturals, FiniteSets

CONSTANTS
    Request,     \* requests to /api/users/import, each used once
    Login,       \* login ids, each issued once
    Socket,      \* Socket.IO connections
    User,        \* account names
    File,        \* files: sets of account names
    Slots,       \* requests that may read and parse at a time (2)
    MaxLogins,   \* _max_admin_logins
    MaxPreviews, \* previews kept at a time (32)
    None,        \* no login, no preview
    Free         \* a lock nobody holds

ASSUME ImportAssumption ==
    /\ File \subseteq SUBSET User
    /\ Slots \in Nat /\ MaxLogins \in Nat /\ MaxPreviews \in Nat
    /\ None \notin Login /\ Free \notin Request

VARIABLES
    grants,   \* _admin_logins: "new" (not issued), "live", "expired" (time is
              \* up, not pruned yet), "gone"
    epoch,    \* import_epoch of a grant
    previews, \* previews of a login: its token (the request that made it),
              \* its file, and whether its time is up
    sids,     \* sids of a grant
    sockets,  \* _socket_logins
    auth,     \* the holder of _admin_lock, across actions
    dbLock,   \* the holder of db_lock
    users,    \* accounts in the database
    req,      \* the requests, as far as they got
    shown     \* history: the previews that were answered

loginVars == <<grants, epoch, previews, sids, sockets>>
vars == <<loginVars, auth, dbLock, users, req, shown>>

Preview == [token : Request, file : File, late : BOOLEAN]
InSlot == {"body", "lookup", "guard", "database", "insert", "inserted", "commit"}
NoRequest == [pc |-> "idle", login |-> None, action |-> "none", epoch |-> 0,
              consumed |-> None, file |-> {}, conflict |-> FALSE]

Init ==
    /\ grants = [l \in Login |-> "new"]
    /\ epoch = [l \in Login |-> 0]
    /\ previews = [l \in Login |-> None]
    /\ sids = [l \in Login |-> {}]
    /\ sockets = [s \in Socket |-> None]
    /\ auth = Free /\ dbLock = Free
    /\ users = {}
    /\ req = [r \in Request |-> NoRequest]
    /\ shown = {}

----------------------------------------------------------------------------
(* Logins. *)

Expired == {l \in Login : grants[l] = "expired"}
Issued == {l \in Login : grants[l] # "new"}

(* The previews whose time is not up. *)
InTime == [l \in Login |-> IF previews[l] # None /\ previews[l].late
                           THEN None ELSE previews[l]]

(* Mutant: previews are left to their own deadline. *)
TablesKeepPreviews(gone, issued, kept) ==
    /\ grants' = [l \in Login |-> IF l \in issued THEN "live"
                                  ELSE IF l \in gone THEN "gone" ELSE grants[l]]
    /\ sids' = [l \in Login |-> IF l \in gone THEN {} ELSE sids[l]]
    /\ sockets' = [s \in Socket |-> IF sockets[s] \in gone THEN None ELSE sockets[s]]
    /\ previews' = kept

(* _revoke_login_locked for some logins, another one being issued. *)
Tables(gone, issued, kept) ==
    /\ grants' = [l \in Login |-> IF l \in issued THEN "live"
                                  ELSE IF l \in gone THEN "gone" ELSE grants[l]]
    /\ sids' = [l \in Login |-> IF l \in gone THEN {} ELSE sids[l]]
    /\ sockets' = [s \in Socket |-> IF sockets[s] \in gone THEN None ELSE sockets[s]]
    /\ previews' = [l \in Login |-> IF l \in gone THEN None ELSE kept[l]]

(* _prune_logins_locked, which every look at a login begins with. *)
Prune ==
    /\ auth = Free
    /\ Tables(Expired, {}, InTime)
    /\ UNCHANGED <<epoch, auth, dbLock, users, req, shown>>

(* _begin_admin_login, in a browser that may have had a login before. *)
BeginAdminLogin(l) ==
    /\ auth = Free /\ grants[l] = "new"
    /\ \E old \in Issued \cup {None} :
          LET alive == {k \in Login : grants[k] = "live"} IN
          /\ old \in alive \/ Cardinality(alive) < MaxLogins
          /\ Tables(Expired \cup ({old} \cap alive), {l}, InTime)
    /\ UNCHANGED <<epoch, auth, dbLock, users, req, shown>>

Logout(l) ==
    /\ auth = Free /\ grants[l] \in {"live", "expired"}
    /\ Tables({l}, {}, previews)
    /\ UNCHANGED <<epoch, auth, dbLock, users, req, shown>>

(* handle_connect, with the login of the browser. *)
SocketConnects(s, l) ==
    /\ auth = Free /\ sockets[s] = None /\ grants[l] = "live"
    /\ sids' = [k \in Login |-> IF k \in Expired THEN {}
                                ELSE IF k = l THEN sids[k] \cup {s} ELSE sids[k]]
    /\ sockets' = [t \in Socket |-> IF t = s THEN l
                                    ELSE IF sockets[t] \in Expired THEN None ELSE sockets[t]]
    /\ grants' = [k \in Login |-> IF k \in Expired THEN "gone" ELSE grants[k]]
    /\ previews' = [k \in Login |-> IF k \in Expired THEN None ELSE InTime[k]]
    /\ UNCHANGED <<epoch, auth, dbLock, users, req, shown>>

SocketDisconnects(s) ==
    /\ auth = Free /\ sockets[s] # None
    /\ sids' = [sids EXCEPT ![sockets[s]] = @ \ {s}]
    /\ sockets' = [sockets EXCEPT ![s] = None]
    /\ UNCHANGED <<grants, epoch, previews, auth, dbLock, users, req, shown>>

(* The clock. *)
TimePasses ==
    /\ \/ \E l \in Login : /\ grants[l] = "live"
                           /\ grants' = [grants EXCEPT ![l] = "expired"]
                           /\ UNCHANGED <<previews, req>>
       \/ \E l \in Login : /\ previews[l] # None /\ ~previews[l].late
                           /\ previews' = [previews EXCEPT ![l].late = TRUE]
                           /\ UNCHANGED <<grants, req>>
       \/ \E r \in Request : /\ req[r].consumed # None /\ ~req[r].consumed.late
                             /\ req[r].pc \in InSlot \cup {"admitted"}
                             /\ req' = [req EXCEPT ![r].consumed.late = TRUE]
                             /\ UNCHANGED <<grants, previews>>
    /\ UNCHANGED <<epoch, sids, sockets, auth, dbLock, users, shown>>

----------------------------------------------------------------------------
(* A request, UserImport.dispatch. *)

Goto(r, label) == req' = [req EXCEPT ![r].pc = label]

(* The answer, whatever it is; the slot is given back. *)
End(r) == req' = [req EXCEPT ![r] = [NoRequest EXCEPT !.pc = "done"]]

(* auth_guard gives up after two seconds. *)
AuthBusy(r) ==
    /\ req[r].pc \in {"idle", "guard"} /\ auth # Free
    /\ End(r)
    /\ UNCHANGED <<loginVars, auth, dbLock, users, shown>>

(* The matching preview is consumed, before anything else is looked at. *)
Without(l) == [InTime EXCEPT ![l] = None]

Admitted(l, action, e, old) ==
    [pc |-> "admitted", login |-> l, action |-> action, epoch |-> e,
     consumed |-> old, file |-> {}, conflict |-> FALSE]

(* The login is looked at.  A cancellation and a new preview take away the  *)
(* preview and its epoch; a confirmation takes the preview with it, unless  *)
(* it has no or another preview's token.                                    *)
Admit(r) ==
    /\ req[r].pc = "idle" /\ auth = Free
    /\ \E l \in Issued, action \in {"cancel", "preview", "confirm"} :
          \/ /\ grants[l] # "live" \/ action = "confirm"
             /\ Tables(Expired, {}, InTime)
             /\ End(r) /\ UNCHANGED epoch
          \/ /\ grants[l] = "live" /\ action # "confirm"
             /\ Tables(Expired, {}, Without(l))
             /\ epoch' = [epoch EXCEPT ![l] = @ + 1]
             /\ IF action = "cancel" THEN End(r)
                ELSE req' = [req EXCEPT ![r] = Admitted(l, action, epoch[l] + 1, None)]
          \/ /\ grants[l] = "live" /\ action = "confirm" /\ InTime[l] # None
             /\ Tables(Expired, {}, Without(l))
             /\ req' = [req EXCEPT ![r] = Admitted(l, action, epoch[l], InTime[l])]
             /\ UNCHANGED epoch
    /\ UNCHANGED <<auth, dbLock, users, shown>>

TakeSlot(r) ==
    /\ req[r].pc = "admitted"
    /\ IF Cardinality({q \in Request : req[q].pc \in InSlot}) < Slots
       THEN Goto(r, "body") ELSE End(r)
    /\ UNCHANGED <<loginVars, auth, dbLock, users, shown>>

(* Mutant: a confirmation is not compared with its preview. *)
ReadBodyOfAnyFile(r) ==
    /\ req[r].pc = "body"
    /\ \/ End(r)
       \/ \E file \in File : req' = [req EXCEPT ![r].file = file, ![r].pc = "lookup"]
    /\ UNCHANGED <<loginVars, auth, dbLock, users, shown>>

(* read_body, the digest of a confirmation, parse_users. *)
ReadBody(r) ==
    /\ req[r].pc = "body"
    /\ \/ End(r)
       \/ \E file \in File :
             /\ req[r].action = "confirm" => file = req[r].consumed.file
             /\ req' = [req EXCEPT ![r].file = file, ![r].pc = "lookup"]
    /\ UNCHANGED <<loginVars, auth, dbLock, users, shown>>

(* existing_import_users, without db_lock. *)
Lookup(r) ==
    /\ req[r].pc = "lookup"
    /\ req' = [req EXCEPT ![r].conflict = req[r].file \cap users # {}, ![r].pc = "guard"]
    /\ UNCHANGED <<loginVars, auth, dbLock, users, shown>>

(* commit_guard: the login, no cancellation or newer preview since, and the *)
(* preview's deadline.                                                      *)
MayCommit(r) ==
    LET q == req[r] IN
    /\ grants[q.login] = "live" /\ epoch[q.login] = q.epoch
    /\ q.action = "confirm" => ~q.consumed.late

Guard(r) ==
    LET q == req[r]
        preview == [token |-> r, file |-> q.file, late |-> FALSE]
        full == Cardinality({l \in Login : InTime[l] # None /\ l \notin Expired}) >= MaxPreviews
        answers == MayCommit(r) /\ ~q.conflict /\ q.action = "preview" /\ ~full
    IN  /\ q.pc = "guard" /\ auth = Free
        /\ Tables(Expired, {}, IF answers THEN [InTime EXCEPT ![q.login] = preview] ELSE InTime)
        /\ shown' = IF answers THEN shown \cup {[token |-> r, login |-> q.login, file |-> q.file]}
                    ELSE shown
        /\ IF MayCommit(r) /\ ~q.conflict /\ q.action = "confirm"
           THEN Goto(r, "database") ELSE End(r)
        /\ UNCHANGED <<epoch, auth, dbLock, users>>

(* import_users_atomic waits two seconds for db_lock, ... *)
TakeDatabase(r) ==
    /\ req[r].pc = "database"
    /\ IF dbLock = Free THEN dbLock' = r /\ Goto(r, "insert")
       ELSE End(r) /\ UNCHANGED dbLock
    /\ UNCHANGED <<loginVars, auth, users, shown>>

(* ... looks for conflicts again and inserts, uncommitted, ... *)
Insert(r) ==
    /\ req[r].pc = "insert"
    /\ IF req[r].file \cap users = {}
       THEN Goto(r, "inserted") /\ UNCHANGED dbLock
       ELSE End(r) /\ dbLock' = Free
    /\ UNCHANGED <<loginVars, auth, users, shown>>

(* Mutant: what the request was admitted with is not looked at again. *)
EnterCommitGuardUnchecked(r) ==
    /\ req[r].pc = "inserted"
    /\ \/ auth = Free /\ Tables(Expired, {}, InTime) /\ Goto(r, "commit")
          /\ auth' = r /\ UNCHANGED dbLock
       \/ auth # Free /\ End(r) /\ dbLock' = Free
          /\ UNCHANGED <<auth, grants, previews, sids, sockets>>
    /\ UNCHANGED <<epoch, users, shown>>

(* ... enters commit_guard, or rolls back, ... *)
EnterCommitGuard(r) ==
    /\ req[r].pc = "inserted"
    /\ \/ /\ auth = Free
          /\ Tables(Expired, {}, InTime)
          /\ IF MayCommit(r) THEN Goto(r, "commit") /\ auth' = r /\ UNCHANGED dbLock
             ELSE End(r) /\ dbLock' = Free /\ UNCHANGED auth
       \/ /\ auth # Free
          /\ End(r) /\ dbLock' = Free
          /\ UNCHANGED <<auth, grants, previews, sids, sockets>>
    /\ UNCHANGED <<epoch, users, shown>>

(* ... and commits, or rolls back when that fails. *)
Commit(r) ==
    /\ req[r].pc = "commit"
    /\ \/ users' = users \cup req[r].file /\ Goto(r, "imported")
       \/ UNCHANGED users /\ End(r)
    /\ auth' = Free /\ dbLock' = Free
    /\ UNCHANGED <<loginVars, shown>>

(* The users page adds and deletes accounts, each under db_lock. *)
AddUser(u) ==
    /\ dbLock = Free /\ u \notin users
    /\ users' = users \cup {u}
    /\ UNCHANGED <<loginVars, auth, dbLock, req, shown>>

DeleteUser(u) ==
    /\ dbLock = Free /\ u \in users
    /\ users' = users \ {u}
    /\ UNCHANGED <<loginVars, auth, dbLock, req, shown>>

RequestStep(r) ==
    \/ AuthBusy(r) \/ Admit(r) \/ TakeSlot(r) \/ ReadBody(r) \/ Lookup(r) \/ Guard(r)
    \/ TakeDatabase(r) \/ Insert(r) \/ EnterCommitGuard(r) \/ Commit(r)

Next ==
    \/ \E r \in Request : RequestStep(r)
    \/ \E l \in Login : BeginAdminLogin(l) \/ Logout(l)
    \/ Prune \/ TimePasses
    \/ \E s \in Socket : SocketDisconnects(s) \/ \E l \in Login : SocketConnects(s, l)
    \/ \E u \in User : AddUser(u) \/ DeleteUser(u)

Spec == Init /\ [][Next]_vars
----------------------------------------------------------------------------
(* Types, and whom the two locks belong to. *)
TypeOK ==
    /\ grants \in [Login -> {"new", "live", "expired", "gone"}]
    /\ epoch \in [Login -> Nat]
    /\ previews \in [Login -> Preview \cup {None}]
    /\ sids \in [Login -> SUBSET Socket]
    /\ sockets \in [Socket -> Login \cup {None}]
    /\ users \in SUBSET User
    /\ req \in [Request -> [pc : {"idle", "admitted", "imported", "done"} \cup InSlot,
                            login : Login \cup {None},
                            action : {"none", "preview", "confirm"},
                            epoch : Nat, consumed : Preview \cup {None},
                            file : File \cup {{}}, conflict : BOOLEAN]]
    /\ shown \subseteq [token : Request, login : Login, file : File]
    /\ auth \in {Free} \cup {r \in Request : req[r].pc = "commit"}
    /\ dbLock \in {Free} \cup {r \in Request : req[r].pc \in {"insert", "inserted", "commit"}}

(* Whatever hangs on a login ends with it, by logout, by a new login in the *)
(* same browser or by pruning: its preview and its sockets; and the two     *)
(* tables of sockets agree (_admin_logins, _socket_logins, previews).       *)
NothingOutlivesItsLogin ==
    /\ \A l \in Login :
         /\ grants[l] \in {"new", "gone"} => previews[l] = None
         /\ sids[l] = {s \in Socket : sockets[s] = l}
    /\ \A s \in Socket : sockets[s] # None => grants[sockets[s]] \in {"live", "expired"}

(* What is imported is a file that the same login was shown the preview of, *)
(* and no preview is imported twice, however many confirmations race.       *)
ImportIsItsPreview ==
    \A r \in Request : req[r].pc = "imported" =>
        LET q == req[r] IN
        /\ [token |-> q.consumed.token, login |-> q.login, file |-> q.file] \in shown
        /\ \A s \in Request \ {r} :
              req[s].pc = "imported" => req[s].consumed.token # q.consumed.token

(* An import commits only while its login has not been revoked, no          *)
(* cancellation and no newer preview has come in since, and none of its     *)
(* accounts exists, although it was waiting for the database in between.    *)
CommitIsStillWanted ==
    [][\A r \in Request : req[r].pc # "imported" /\ req'[r].pc = "imported" =>
         /\ grants[req[r].login] \in {"live", "expired"}
         /\ epoch[req[r].login] = req[r].epoch
         /\ req[r].file \cap users = {}]_vars
=============================================================================

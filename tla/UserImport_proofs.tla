------------------------- MODULE UserImport_proofs -------------------------
(***************************************************************************)
(* Proofs about UserImport, for any requests, logins, sockets, files and   *)
(* limits: what hangs on a login ends with it, an import is a preview that *)
(* the same login was shown, once, and it is still wanted when it commits. *)
(***************************************************************************)
EXTENDS UserImport, TLAPS

(* What a request carries: its login, and a confirmation its preview, whose *)
(* file it is from the body on.  Only confirmations reach the database.     *)
Carries ==
    \A r \in Request :
        /\ req[r].pc \in InSlot \cup {"admitted", "imported"} => req[r].login \in Login
        /\ req[r].pc \in {"idle", "done"} => req[r].action = "none"
        /\ req[r].pc \in {"database", "insert", "inserted", "commit", "imported"} =>
              req[r].action = "confirm"
        /\ req[r].pc \in {"lookup", "guard"} => req[r].file \in File
        /\ req[r].action = "confirm" =>
              /\ req[r].consumed \in Preview
              /\ req[r].pc \in (InSlot \ {"body"}) \cup {"imported"} =>
                    req[r].file = req[r].consumed.file

(* Who is inside the two locks holds them. *)
LocksAreHeld ==
    \A r \in Request :
        /\ req[r].pc \in {"insert", "inserted", "commit"} => dbLock = r
        /\ req[r].pc = "commit" => auth = r

(* The accounts to be inserted do not exist while db_lock is held, and the  *)
(* login and its epoch stand while _admin_lock is.                          *)
CommitIsDue ==
    \A r \in Request :
        /\ req[r].pc \in {"inserted", "commit"} => req[r].file \cap users = {}
        /\ req[r].pc = "commit" => /\ grants[req[r].login] \in {"live", "expired"}
                                   /\ epoch[req[r].login] = req[r].epoch

(* A preview, and a confirmation's, was answered to its login. *)
PreviewsWereShown ==
    /\ \A l \in Login : previews[l] # None =>
          [token |-> previews[l].token, login |-> l, file |-> previews[l].file] \in shown
    /\ \A r \in Request : req[r].action = "confirm" =>
          [token |-> req[r].consumed.token, login |-> req[r].login,
           file |-> req[r].consumed.file] \in shown

(* A token is in one place: with one login, or with one confirmation; and   *)
(* the request that made it is over.                                        *)
TokensAreUnique ==
    /\ \A l \in Login : previews[l] # None =>
          /\ req[previews[l].token].pc = "done"
          /\ \A k \in Login \ {l} : previews[k] # None => previews[k].token # previews[l].token
          /\ \A r \in Request : req[r].action = "confirm" =>
                req[r].consumed.token # previews[l].token
    /\ \A r \in Request : req[r].action = "confirm" =>
          /\ req[req[r].consumed.token].pc = "done"
          /\ \A s \in Request \ {r} : req[s].action = "confirm" =>
                req[s].consumed.token # req[r].consumed.token

IInv ==
    /\ TypeOK /\ Carries /\ LocksAreHeld /\ CommitIsDue
    /\ NothingOutlivesItsLogin /\ PreviewsWereShown /\ TokensAreUnique

----------------------------------------------------------------------------
PCs == {"idle", "admitted", "imported", "done"} \cup InSlot
Requests == [pc : PCs, login : Login \cup {None}, action : {"none", "preview", "confirm"},
             epoch : Nat, consumed : Preview \cup {None}, file : File \cup {{}},
             conflict : BOOLEAN]

LEMMA RequestTypes == TypeOK => req \in [Request -> Requests]
BY DEF TypeOK, Requests, PCs

(* A request goes on, or ends. *)
LEMMA Goes ==
    ASSUME req \in [Request -> Requests], NEW r \in Request, NEW label \in PCs, Goto(r, label)
    PROVE  /\ req' \in [Request -> Requests]
           /\ req'[r] = [req[r] EXCEPT !.pc = label]
           /\ req'[r].pc = label
           /\ req'[r].login = req[r].login /\ req'[r].action = req[r].action
           /\ req'[r].epoch = req[r].epoch /\ req'[r].consumed = req[r].consumed
           /\ req'[r].file = req[r].file
           /\ \A s \in Request : s # r => req'[s] = req[s]
<1>1. req'[r] = [req[r] EXCEPT !.pc = label] /\ req[r] \in Requests
  BY DEF Goto
<1>2. req'[r] \in Requests
  BY <1>1 DEF Requests
<1> QED
  BY <1>1, <1>2 DEF Goto, Requests

LEMMA Ends ==
    ASSUME req \in [Request -> Requests], NEW r \in Request, End(r)
    PROVE  /\ req' \in [Request -> Requests]
           /\ req'[r].pc = "done" /\ req'[r].action = "none"
           /\ \A s \in Request : s # r => req'[s] = req[s]
<1>1. req'[r] = [NoRequest EXCEPT !.pc = "done"]
  BY DEF End
<1>2. req'[r] = [pc |-> "done", login |-> None, action |-> "none", epoch |-> 0,
                 consumed |-> None, file |-> {}, conflict |-> FALSE]
  BY <1>1 DEF NoRequest
<1>3. req'[r] \in Requests
  BY <1>2 DEF Requests, PCs
<1>4. req'[r].pc = "done" /\ req'[r].action = "none"
  BY <1>2
<1> QED
  BY <1>3, <1>4 DEF End

(* The tables of logins keep their types. *)
Kept == [Login -> Preview \cup {None}]
TablesTyped ==
    /\ grants \in [Login -> {"new", "live", "expired", "gone"}]
    /\ previews \in Kept
    /\ sids \in [Login -> SUBSET Socket]
    /\ sockets \in [Socket -> Login \cup {None}]

LEMMA InTimeIsKept == TypeOK => InTime \in Kept /\ \A l \in Login : Without(l) \in Kept
BY DEF TypeOK, InTime, Without, Kept

LEMMA TablesKeepTypes ==
    ASSUME TablesTyped, NEW gone, NEW issued, NEW kept \in Kept, Tables(gone, issued, kept)
    PROVE  TablesTyped'
BY DEF TablesTyped, Tables, Kept

LEMMA TypeInit == Init => TypeOK
<1> SUFFICES ASSUME Init PROVE TypeOK
  OBVIOUS
<1>1. NoRequest \in Requests
  BY DEF NoRequest, Requests, PCs
<1>2. req \in [Request -> Requests]
  BY <1>1 DEF Init
<1> QED
  BY <1>2 DEF Init, TypeOK, Requests, PCs

(* The types by parts; that the locks are held by whom TypeOK says is left  *)
(* to each action.                                                          *)
Typed ==
    /\ TablesTyped
    /\ epoch \in [Login -> Nat] /\ users \in SUBSET User
    /\ req \in [Request -> Requests]
    /\ shown \subseteq [token : Request, login : Login, file : File]
    /\ auth \in {Free} \cup {r \in Request : req[r].pc = "commit"}
    /\ dbLock \in {Free} \cup {r \in Request : req[r].pc \in {"insert", "inserted", "commit"}}

LEMMA TypeParts == (TypeOK <=> Typed) /\ (TypeOK' <=> Typed')
BY DEF TypeOK, Typed, TablesTyped, Requests, PCs, Kept

(* The admission and the clock change more of a request. *)
LEMMA Admits ==
    ASSUME req \in [Request -> Requests], NEW r \in Request, NEW l \in Login,
           NEW action \in {"preview", "confirm"}, NEW e \in Nat,
           NEW old \in Preview \cup {None},
           req' = [req EXCEPT ![r] = Admitted(l, action, e, old)]
    PROVE  /\ req' \in [Request -> Requests]
           /\ req'[r].pc = "admitted" /\ req'[r].login = l /\ req'[r].action = action
           /\ req'[r].epoch = e /\ req'[r].consumed = old
           /\ \A s \in Request : s # r => req'[s] = req[s]
<1>1. Admitted(l, action, e, old) \in Requests
  BY DEF Admitted, Requests, PCs
<1> QED
  BY <1>1 DEF Admitted

(* What Admit does, by the request's action. *)
Refused(r) == End(r) /\ Tables(Expired, {}, InTime) /\ UNCHANGED epoch
Cancels(r, l) ==
    /\ grants[l] = "live" /\ End(r) /\ Tables(Expired, {}, Without(l))
    /\ epoch' = [epoch EXCEPT ![l] = @ + 1]
Previews(r, l) ==
    /\ grants[l] = "live" /\ Tables(Expired, {}, Without(l))
    /\ epoch' = [epoch EXCEPT ![l] = @ + 1]
    /\ req' = [req EXCEPT ![r] = Admitted(l, "preview", epoch[l] + 1, None)]
Confirms(r, l) ==
    /\ grants[l] = "live" /\ Tables(Expired, {}, Without(l)) /\ UNCHANGED epoch
    /\ InTime[l] # None
    /\ req' = [req EXCEPT ![r] = Admitted(l, "confirm", epoch[l], InTime[l])]

LEMMA AdmitCases ==
    ASSUME NEW r \in Request, Admit(r)
    PROVE  /\ req[r].pc = "idle" /\ auth = Free /\ UNCHANGED <<auth, dbLock, users, shown>>
           /\ Refused(r) \/ \E l \in Login : Cancels(r, l) \/ Previews(r, l) \/ Confirms(r, l)
BY DEF Admit, Refused, Cancels, Previews, Confirms, Issued

(* What the clock does: to a login, to its preview, or to a confirmation's. *)
LoginExpires(l) ==
    /\ grants[l] = "live" /\ grants' = [grants EXCEPT ![l] = "expired"]
    /\ UNCHANGED <<previews, req>>
PreviewExpires(l) ==
    /\ previews[l] # None /\ previews' = [previews EXCEPT ![l].late = TRUE]
    /\ UNCHANGED <<grants, req>>
ConfirmationExpires(r) ==
    /\ req[r].consumed # None /\ req' = [req EXCEPT ![r].consumed.late = TRUE]
    /\ UNCHANGED <<grants, previews>>

LEMMA TimeCases ==
    ASSUME TimePasses
    PROVE  /\ UNCHANGED <<epoch, sids, sockets, auth, dbLock, users, shown>>
           /\ \/ \E l \in Login : LoginExpires(l) \/ PreviewExpires(l)
              \/ \E r \in Request : ConfirmationExpires(r)
BY DEF TimePasses, LoginExpires, PreviewExpires, ConfirmationExpires

LEMMA PreviewGetsLate ==
    ASSUME previews \in Kept, NEW l \in Login, PreviewExpires(l)
    PROVE  /\ previews' \in Kept /\ previews[l] \in Preview /\ previews'[l] \in Preview
           /\ previews'[l].token = previews[l].token /\ previews'[l].file = previews[l].file
           /\ \A k \in Login : k # l => previews'[k] = previews[k]
<1>1. previews[l] \in Preview /\ previews'[l] = [previews[l] EXCEPT !.late = TRUE]
  BY DEF PreviewExpires, Kept
<1>2. previews'[l] \in Preview
  BY <1>1 DEF Preview
<1> QED
  BY <1>1, <1>2 DEF PreviewExpires, Kept, Preview

LEMMA ConfirmationGetsLate ==
    ASSUME req \in [Request -> Requests], NEW r \in Request, ConfirmationExpires(r)
    PROVE  /\ req' \in [Request -> Requests]
           /\ req[r].consumed \in Preview /\ req'[r].consumed \in Preview
           /\ req'[r].consumed.token = req[r].consumed.token
           /\ req'[r].consumed.file = req[r].consumed.file
           /\ req'[r].pc = req[r].pc /\ req'[r].login = req[r].login
           /\ req'[r].action = req[r].action /\ req'[r].epoch = req[r].epoch
           /\ req'[r].file = req[r].file
           /\ \A s \in Request : s # r => req'[s] = req[s]
<1> DEFINE late == [req[r].consumed EXCEPT !.late = TRUE]
<1>1. req[r] \in Requests /\ req[r].consumed \in Preview
  BY DEF ConfirmationExpires, Requests
<1>2. late \in Preview /\ late.token = req[r].consumed.token /\ late.file = req[r].consumed.file
  BY <1>1 DEF Preview
<1>3. /\ req'[r] = [req[r] EXCEPT !.consumed = late]
      /\ \A s \in Request : s # r => req'[s] = req[s]
      /\ req' = [req EXCEPT ![r] = [req[r] EXCEPT !.consumed = late]]
  BY DEF ConfirmationExpires
<1> HIDE DEF late
<1>4. req'[r] \in Requests
  BY <1>1, <1>2, <1>3 DEF Requests
<1> QED
  BY <1>1, <1>2, <1>3, <1>4 DEF Requests

(* What a step does to the request that makes it. *)
IsEnded(r) == req'[r].pc = "done" /\ req'[r].action = "none"
MovesOn(r) ==
    /\ req[r].pc \in {"admitted", "body", "lookup", "guard", "database", "insert", "inserted",
                      "commit"}
    /\ req'[r].pc \in InSlot \cup {"imported"}
    /\ req'[r].pc \in {"database", "insert", "inserted", "commit", "imported"} =>
          \/ req[r].pc \in {"database", "insert", "inserted", "commit"}
          \/ req[r].action = "confirm"
    /\ req'[r].login = req[r].login /\ req'[r].action = req[r].action
    /\ req'[r].epoch = req[r].epoch /\ req'[r].consumed = req[r].consumed
    /\ req'[r].pc \in {"lookup", "guard"} => req[r].pc \in {"body", "lookup"}
    /\ \/ req'[r].pc = "body"
       \/ req[r].pc \in InSlot \ {"body"} /\ req'[r].file = req[r].file
       \/ /\ req[r].pc = "body" /\ req'[r].file \in File
          /\ req[r].action = "confirm" => req'[r].file = req[r].consumed.file
OnlyMoves(r) == req' \in [Request -> Requests] /\ \A s \in Request : s # r => req'[s] = req[s]

LEMMA Reads ==
    ASSUME req \in [Request -> Requests], NEW r \in Request, NEW file \in File,
           req' = [req EXCEPT ![r].file = file, ![r].pc = "lookup"]
    PROVE  /\ OnlyMoves(r) /\ req'[r].pc = "lookup" /\ req'[r].file = file
           /\ req'[r].login = req[r].login /\ req'[r].action = req[r].action
           /\ req'[r].epoch = req[r].epoch /\ req'[r].consumed = req[r].consumed
<1>1. req'[r] = [[req[r] EXCEPT !.file = file] EXCEPT !.pc = "lookup"]
  OBVIOUS
<1>2. req[r] \in Requests
  OBVIOUS
<1>3. req'[r] = [pc |-> "lookup", login |-> req[r].login, action |-> req[r].action,
                 epoch |-> req[r].epoch, consumed |-> req[r].consumed, file |-> file,
                 conflict |-> req[r].conflict]
  BY <1>1, <1>2 DEF Requests
<1>4. req'[r] \in Requests
  BY <1>2, <1>3 DEF Requests, PCs, InSlot
<1> QED
  BY <1>3, <1>4 DEF OnlyMoves

LEMMA LooksUp ==
    ASSUME req \in [Request -> Requests], NEW r \in Request, NEW found \in BOOLEAN,
           req' = [req EXCEPT ![r].conflict = found, ![r].pc = "guard"]
    PROVE  /\ OnlyMoves(r) /\ req'[r].pc = "guard" /\ req'[r].file = req[r].file
           /\ req'[r].login = req[r].login /\ req'[r].action = req[r].action
           /\ req'[r].epoch = req[r].epoch /\ req'[r].consumed = req[r].consumed
<1>1. req'[r] = [[req[r] EXCEPT !.conflict = found] EXCEPT !.pc = "guard"]
  OBVIOUS
<1>2. req[r] \in Requests
  OBVIOUS
<1>3. req'[r] = [pc |-> "guard", login |-> req[r].login, action |-> req[r].action,
                 epoch |-> req[r].epoch, consumed |-> req[r].consumed, file |-> req[r].file,
                 conflict |-> found]
  BY <1>1, <1>2 DEF Requests
<1>4. req'[r] \in Requests
  BY <1>2, <1>3 DEF Requests, PCs, InSlot
<1> QED
  BY <1>3, <1>4 DEF OnlyMoves

LEMMA GoesOn ==
    ASSUME req \in [Request -> Requests], NEW r \in Request,
           NEW label \in {"body", "database", "insert", "inserted", "commit", "imported"},
           Goto(r, label), label = "body" => req[r].pc = "admitted",
           label # "body" => \/ req[r].pc \in {"database", "insert", "inserted", "commit"}
                             \/ req[r].pc = "guard" /\ req[r].action = "confirm"
    PROVE  OnlyMoves(r) /\ MovesOn(r)
<1>1. label \in PCs /\ label \in InSlot \cup {"imported"}
  BY DEF PCs, InSlot
<1>2. /\ OnlyMoves(r) /\ req'[r].pc = label
      /\ req'[r].login = req[r].login /\ req'[r].action = req[r].action
      /\ req'[r].epoch = req[r].epoch /\ req'[r].consumed = req[r].consumed
      /\ req'[r].file = req[r].file
  BY <1>1, Goes DEF OnlyMoves
<1>3. req[r].pc # "admitted" => req[r].pc \in InSlot \ {"body"}
  BY DEF InSlot
<1>4. req'[r].pc \in {"lookup", "guard"} => req[r].pc \in {"body", "lookup"}
  BY <1>2
<1> QED
  BY <1>1, <1>2, <1>3, <1>4 DEF MovesOn

LEMMA Advances ==
    ASSUME TypeOK, NEW r \in Request, RequestStep(r), ~Admit(r)
    PROVE  OnlyMoves(r) /\ req[r].pc # "done" /\ (IsEnded(r) \/ MovesOn(r))
<1> req \in [Request -> Requests]
  BY RequestTypes
<1>1. ASSUME End(r), req[r].pc # "done" PROVE OnlyMoves(r) /\ IsEnded(r)
  BY <1>1, Ends DEF OnlyMoves, IsEnded
<1>2. CASE AuthBusy(r)
  BY <1>1, <1>2 DEF AuthBusy
<1>3. CASE TakeSlot(r)
  <2>1. CASE Goto(r, "body")
    BY <2>1, <1>3, GoesOn DEF TakeSlot
  <2> QED
    BY <2>1, <1>1, <1>3 DEF TakeSlot
<1>4. CASE ReadBody(r)
  <2>1. ASSUME NEW file \in File, req[r].action = "confirm" => file = req[r].consumed.file,
               req' = [req EXCEPT ![r].file = file, ![r].pc = "lookup"]
        PROVE  OnlyMoves(r) /\ MovesOn(r)
    BY <2>1, <1>4, Reads, ZenonT(40) DEF ReadBody, MovesOn, InSlot
  <2> QED
    BY <2>1, <1>1, <1>4 DEF ReadBody
<1>5. CASE Lookup(r)
  <2>1. (req[r].file \cap users # {}) \in BOOLEAN
    OBVIOUS
  <2> QED
    BY <2>1, <1>5, LooksUp DEF Lookup, MovesOn, InSlot
<1>6. CASE Guard(r)
  <2>1. CASE Goto(r, "database") /\ req[r].action = "confirm"
    BY <2>1, <1>6, GoesOn DEF Guard
  <2> QED
    BY <2>1, <1>1, <1>6 DEF Guard
<1>7. CASE TakeDatabase(r)
  <2>1. CASE Goto(r, "insert")
    BY <2>1, <1>7, GoesOn DEF TakeDatabase
  <2> QED
    BY <2>1, <1>1, <1>7 DEF TakeDatabase
<1>8. CASE Insert(r)
  <2>1. CASE Goto(r, "inserted")
    BY <2>1, <1>8, GoesOn DEF Insert
  <2> QED
    BY <2>1, <1>1, <1>8 DEF Insert
<1>9. CASE EnterCommitGuard(r)
  <2>1. CASE Goto(r, "commit")
    BY <2>1, <1>9, GoesOn DEF EnterCommitGuard
  <2> QED
    BY <2>1, <1>1, <1>9 DEF EnterCommitGuard
<1>10. CASE Commit(r)
  <2>1. CASE Goto(r, "imported")
    BY <2>1, <1>10, GoesOn DEF Commit
  <2> QED
    BY <2>1, <1>1, <1>10 DEF Commit
<1> QED
  BY <1>2, <1>3, <1>4, <1>5, <1>6, <1>7, <1>8, <1>9, <1>10 DEF RequestStep

----------------------------------------------------------------------------
(* Who holds a lock, when one request moves. *)
LEMMA LocksStep == TypeOK /\ LocksAreHeld /\ [Next]_vars => LocksAreHeld'
<1> SUFFICES ASSUME TypeOK, LocksAreHeld, [Next]_vars PROVE LocksAreHeld'
  OBVIOUS
<1> req \in [Request -> Requests] /\ Free \notin Request
  BY RequestTypes, ImportAssumption
<1>1. ASSUME NEW r \in Request, RequestStep(r) PROVE LocksAreHeld'
  <2>1. CASE Admit(r)
    <3>1. /\ UNCHANGED <<auth, dbLock>>
          /\ \A s \in Request : s # r => req'[s] = req[s]
          /\ req'[r].pc \in {"admitted", "done"}
      <4>1. CASE Refused(r)
        BY <2>1, <4>1, AdmitCases, Ends DEF Refused
      <4>2. ASSUME NEW l \in Login, Cancels(r, l) \/ Previews(r, l) \/ Confirms(r, l)
            PROVE  /\ \A s \in Request : s # r => req'[s] = req[s]
                   /\ req'[r].pc \in {"admitted", "done"}
        BY <4>2, Ends DEF Cancels, Previews, Confirms, Admitted
      <4> QED
        BY <2>1, <4>1, <4>2, AdmitCases
    <3> QED
      BY <3>1 DEF LocksAreHeld
  <2>2. CASE ~Admit(r)
    <3>1. OnlyMoves(r)
      BY <1>1, <2>2, Advances
    <3>2. ASSUME req'[r].pc \notin {"insert", "inserted", "commit"}, UNCHANGED <<auth, dbLock>>
          PROVE  LocksAreHeld'
      BY <3>1, <3>2 DEF OnlyMoves, LocksAreHeld
    <3>3. CASE AuthBusy(r) \/ TakeSlot(r) \/ ReadBody(r) \/ Lookup(r) \/ Guard(r)
      <4>1. UNCHANGED <<auth, dbLock>>
        BY <3>3 DEF AuthBusy, TakeSlot, ReadBody, Lookup, Guard
      <4>2. /\ End(r) => req'[r].pc = "done"
            /\ Goto(r, "body") => req'[r].pc = "body"
            /\ Goto(r, "database") => req'[r].pc = "database"
        BY Ends, Goes DEF PCs, InSlot
      <4>3. req'[r].pc \notin {"insert", "inserted", "commit"}
        <5>1. CASE AuthBusy(r)
          BY <5>1, <4>2 DEF AuthBusy
        <5>2. CASE TakeSlot(r)
          BY <5>2, <4>2 DEF TakeSlot
        <5>3. CASE ReadBody(r)
          BY <5>3, <4>2, Reads DEF ReadBody
        <5>4. CASE Lookup(r)
          <6>1. (req[r].file \cap users # {}) \in BOOLEAN
            OBVIOUS
          <6> QED
            BY <6>1, <5>4, LooksUp DEF Lookup
        <5>5. CASE Guard(r)
          BY <5>5, <4>2 DEF Guard
        <5> QED
          BY <3>3, <5>1, <5>2, <5>3, <5>4, <5>5
      <4> QED
        BY <3>2, <4>1, <4>3
    <3>4. CASE TakeDatabase(r)
      <4>1. CASE dbLock = Free
        <5>1. req'[r].pc = "insert" /\ dbLock' = r /\ auth' = auth
          BY <3>4, <4>1, Goes DEF TakeDatabase, PCs, InSlot
        <5> QED
          BY <5>1, <4>1, <3>1 DEF OnlyMoves, LocksAreHeld
      <4>2. CASE dbLock # Free
        BY <3>2, <3>4, <4>2, Ends DEF TakeDatabase
      <4> QED
        BY <4>1, <4>2
    <3>5. ASSUME req[r].pc \in {"insert", "inserted", "commit"}, dbLock' = Free, auth' \in {auth, Free},
                 req[r].pc # "commit" => auth' = auth, req'[r].pc \in {"done", "imported"}
          PROVE  LocksAreHeld'
      BY <3>5, <3>1 DEF OnlyMoves, LocksAreHeld
    <3>6. CASE Insert(r)
      <4>1. CASE Goto(r, "inserted") /\ UNCHANGED dbLock
        <5>1. req'[r].pc = "inserted" /\ auth' = auth /\ req[r].pc = "insert"
          BY <3>6, <4>1, Goes DEF Insert, PCs, InSlot
        <5> QED
          BY <5>1, <4>1, <3>1 DEF OnlyMoves, LocksAreHeld
      <4> QED
        BY <4>1, <3>5, <3>6, Ends DEF Insert
    <3>7. CASE EnterCommitGuard(r)
      <4>1. CASE auth = Free /\ Goto(r, "commit") /\ auth' = r /\ UNCHANGED dbLock
        <5>1. req'[r].pc = "commit" /\ req[r].pc = "inserted"
          BY <3>7, <4>1, Goes DEF EnterCommitGuard, PCs, InSlot
        <5> QED
          BY <5>1, <4>1, <3>1 DEF OnlyMoves, LocksAreHeld
      <4> QED
        BY <4>1, <3>5, <3>7, Ends DEF EnterCommitGuard
    <3>8. CASE Commit(r)
      <4>1. req'[r].pc \in {"done", "imported"}
        BY <3>8, Goes, Ends DEF Commit, PCs
      <4> QED
        BY <4>1, <3>5, <3>8 DEF Commit
    <3> QED
      BY <1>1, <2>2, <3>3, <3>4, <3>6, <3>7, <3>8 DEF RequestStep
  <2> QED
    BY <2>1, <2>2
<1>2. ASSUME UNCHANGED <<auth, dbLock>>, \A r \in Request : req'[r].pc = req[r].pc
      PROVE  LocksAreHeld'
  BY <1>2 DEF LocksAreHeld
<1>3. CASE TimePasses
  <2>1. \A r \in Request : req'[r].pc = req[r].pc
    BY <1>3, TimeCases, ConfirmationGetsLate DEF LoginExpires, PreviewExpires
  <2> QED
    BY <2>1, <1>2, <1>3 DEF TimePasses
<1>4. CASE \/ \E l \in Login : BeginAdminLogin(l) \/ Logout(l)
           \/ Prune
           \/ \E s \in Socket : SocketDisconnects(s) \/ \E l \in Login : SocketConnects(s, l)
           \/ \E u \in User : AddUser(u) \/ DeleteUser(u)
           \/ UNCHANGED vars
  BY <1>4, <1>2 DEF BeginAdminLogin, Logout, Prune, SocketDisconnects, SocketConnects,
                    AddUser, DeleteUser, vars
<1> QED
  BY <1>1, <1>3, <1>4 DEF Next

LEMMA CarriesStep == TypeOK /\ Carries /\ [Next]_vars => Carries'
<1> SUFFICES ASSUME TypeOK, Carries, [Next]_vars PROVE Carries'
  OBVIOUS
<1> req \in [Request -> Requests] /\ None \notin Login
  BY RequestTypes, ImportAssumption
<1> DEFINE Right(q) ==
        /\ q.pc \in InSlot \cup {"admitted", "imported"} => q.login \in Login
        /\ q.pc \in {"idle", "done"} => q.action = "none"
        /\ q.pc \in {"database", "insert", "inserted", "commit", "imported"} => q.action = "confirm"
        /\ q.pc \in {"lookup", "guard"} => q.file \in File
        /\ q.action = "confirm" =>
              /\ q.consumed \in Preview
              /\ q.pc \in (InSlot \ {"body"}) \cup {"imported"} => q.file = q.consumed.file
<1>0. /\ \A r \in Request : Right(req[r])
      /\ (\A r \in Request : Right(req'[r])) => Carries'
  BY DEF Carries
<1>1. ASSUME NEW r \in Request, RequestStep(r) PROVE Carries'
  <2>1. CASE Admit(r)
    <3>1. CASE End(r)
      <4>1. Right(req'[r])
        BY <3>1, Ends DEF InSlot
      <4>2. \A s \in Request : s # r => req'[s] = req[s]
        BY <3>1, Ends
      <4> QED
        BY <4>1, <4>2, <1>0
    <3>2. ASSUME NEW l \in Login, Previews(r, l) \/ Confirms(r, l)
          PROVE  Carries'
      <4>1. /\ req'[r].pc = "admitted" /\ req'[r].login = l
            /\ req'[r].action = "confirm" => req'[r].consumed = InTime[l] /\ InTime[l] # None
            /\ \A s \in Request : s # r => req'[s] = req[s]
        BY <3>2 DEF Previews, Confirms, Admitted
      <4>2. InTime[l] \in Preview \cup {None}
        BY InTimeIsKept DEF Kept
      <4>3. Right(req'[r])
        BY <4>1, <4>2 DEF InSlot
      <4> QED
        BY <4>1, <4>3, <1>0
    <3> QED
      BY <2>1, <3>1, <3>2, AdmitCases DEF Refused, Cancels
  <2>2. CASE ~Admit(r)
    <3>1. OnlyMoves(r) /\ (IsEnded(r) \/ MovesOn(r))
      BY <1>1, <2>2, Advances
    <3>2. Right(req[r])
      BY <1>0
    <3>3. CASE IsEnded(r)
      <4>1. Right(req'[r])
        BY <3>3 DEF IsEnded, InSlot
      <4> QED
        BY <4>1, <3>1, <1>0 DEF OnlyMoves
    <3>4. CASE MovesOn(r)
      <4>1. Right(req'[r])
        BY <3>4, <3>2 DEF MovesOn, InSlot
      <4> QED
        BY <4>1, <3>1, <1>0 DEF OnlyMoves
    <3> QED
      BY <3>1, <3>3, <3>4
  <2> QED
    BY <2>1, <2>2
<1>2. CASE TimePasses
  <2>1. CASE UNCHANGED req
    BY <2>1 DEF Carries
  <2>2. ASSUME NEW r \in Request, ConfirmationExpires(r) PROVE Carries'
    <3>1. Right(req'[r])
      <4>1. Right(req[r])
        BY <1>0
      <4> QED
        BY <4>1, <2>2, ConfirmationGetsLate
    <3> QED
      BY <3>1, <1>0, <2>2, ConfirmationGetsLate
  <2> QED
    BY <1>2, <2>1, <2>2, TimeCases DEF LoginExpires, PreviewExpires
<1>3. CASE \/ \E l \in Login : BeginAdminLogin(l) \/ Logout(l)
           \/ Prune
           \/ \E s \in Socket : SocketDisconnects(s) \/ \E l \in Login : SocketConnects(s, l)
           \/ \E u \in User : AddUser(u) \/ DeleteUser(u)
           \/ UNCHANGED vars
  <2>1. UNCHANGED req
    BY <1>3 DEF BeginAdminLogin, Logout, Prune, SocketDisconnects, SocketConnects,
                AddUser, DeleteUser, vars
  <2> QED
    BY <2>1 DEF Carries
<1> QED
  BY <1>1, <1>2, <1>3 DEF Next

----------------------------------------------------------------------------
(* Types.  Those of the locks follow from who holds them. *)
LEMMA LockTypes ==
    ASSUME TypeOK, [Next]_vars
    PROVE  /\ auth' \in {Free} \cup {r \in Request : req'[r].pc = "commit"}
           /\ dbLock' \in {Free} \cup {r \in Request : req'[r].pc \in {"insert", "inserted", "commit"}}
<1> DEFINE AtCommit == {r \in Request : req[r].pc = "commit"}
           AtDatabase == {r \in Request : req[r].pc \in {"insert", "inserted", "commit"}}
<1> USE RequestTypes
<1>0. /\ auth \in {Free} \cup AtCommit
      /\ dbLock \in {Free} \cup AtDatabase
      /\ req \in [Request -> Requests] /\ Free \notin Request
  BY ImportAssumption DEF TypeOK
<1>1. ASSUME UNCHANGED <<auth, dbLock>>,
             \A r \in AtDatabase : req'[r].pc = req[r].pc
      PROVE  auth' \in {Free} \cup AtCommit' /\ dbLock' \in {Free} \cup AtDatabase'
  BY <1>0, <1>1
<1>2. ASSUME NEW r \in Request, RequestStep(r)
      PROVE  auth' \in {Free} \cup AtCommit' /\ dbLock' \in {Free} \cup AtDatabase'
  <2>1. CASE Admit(r)
    <3>1. \A s \in Request : s # r => req'[s] = req[s]
      BY <1>0, <2>1, AdmitCases, Ends DEF Refused, Cancels, Previews, Confirms
    <3>2. req[r].pc = "idle" /\ UNCHANGED <<auth, dbLock>>
      BY <2>1, AdmitCases
    <3> QED
      BY <3>1, <3>2, <1>1
  <2>2. CASE ~Admit(r)
    <3>1. \A s \in Request : s # r => req'[s] = req[s]
      BY <1>2, <2>2, Advances DEF OnlyMoves
    <3>2. CASE AuthBusy(r) \/ TakeSlot(r) \/ ReadBody(r) \/ Lookup(r) \/ Guard(r)
      <4>1. UNCHANGED <<auth, dbLock>>
        BY <3>2 DEF AuthBusy, TakeSlot, ReadBody, Lookup, Guard
      <4>2. r \notin AtDatabase
        BY <3>2 DEF AuthBusy, TakeSlot, ReadBody, Lookup, Guard
      <4> QED
        BY <4>1, <4>2, <3>1, <1>1
    <3>3. CASE TakeDatabase(r)
      <4>1. CASE dbLock = Free
        <5>1. req'[r].pc = "insert" /\ dbLock' = r /\ auth' = auth /\ r \notin AtCommit
          BY <3>3, <4>1, <1>0, Goes DEF TakeDatabase, PCs, InSlot
        <5> QED
          BY <5>1, <3>1, <1>0
      <4>2. CASE dbLock # Free
        BY <4>2, <3>3, <3>1, <1>1 DEF TakeDatabase
      <4> QED
        BY <4>1, <4>2
    <3>4. CASE Insert(r)
      <4>1. CASE Goto(r, "inserted") /\ UNCHANGED dbLock
        <5>1. req'[r].pc = "inserted" /\ auth' = auth /\ r \notin AtCommit
          BY <3>4, <4>1, <1>0, Goes, ZenonT(40) DEF Insert, PCs, InSlot
        <5> QED
          BY <5>1, <4>1, <3>1, <1>0
      <4>2. CASE dbLock' = Free
        BY <4>2, <3>4, <3>1, <1>0 DEF Insert
      <4> QED
        BY <4>1, <4>2, <3>4 DEF Insert
    <3>5. CASE EnterCommitGuard(r)
      <4>1. CASE Goto(r, "commit") /\ auth' = r /\ UNCHANGED dbLock
        <5>1. req'[r].pc = "commit"
          BY <4>1, <1>0, Goes DEF PCs, InSlot
        <5> QED
          BY <5>1, <4>1, <3>1, <1>0
      <4>2. CASE dbLock' = Free /\ UNCHANGED auth
        BY <4>2, <3>5, <3>1, <1>0 DEF EnterCommitGuard
      <4> QED
        BY <4>1, <4>2, <3>5 DEF EnterCommitGuard
    <3>6. CASE Commit(r)
      BY <3>6 DEF Commit
    <3> QED
      BY <1>2, <2>2, <3>2, <3>3, <3>4, <3>5, <3>6 DEF RequestStep
  <2> QED
    BY <2>1, <2>2
<1>3. CASE TimePasses
  <2>1. \A r \in Request : req'[r].pc = req[r].pc
    BY <1>0, <1>3, TimeCases, ConfirmationGetsLate DEF LoginExpires, PreviewExpires
  <2> QED
    BY <2>1, <1>1, <1>3 DEF TimePasses
<1>4. CASE \/ \E l \in Login : BeginAdminLogin(l) \/ Logout(l)
           \/ Prune
           \/ \E s \in Socket : SocketDisconnects(s) \/ \E l \in Login : SocketConnects(s, l)
           \/ \E u \in User : AddUser(u) \/ DeleteUser(u)
           \/ UNCHANGED vars
  BY <1>4, <1>1 DEF BeginAdminLogin, Logout, Prune, SocketDisconnects, SocketConnects,
                    AddUser, DeleteUser, vars
<1> QED
  BY <1>2, <1>3, <1>4 DEF Next

LEMMA TypeStep == TypeOK /\ Carries /\ [Next]_vars => TypeOK'
<1> SUFFICES ASSUME TypeOK, Carries, [Next]_vars PROVE TypeOK'
  OBVIOUS
<1> DEFINE Rest == /\ epoch \in [Login -> Nat] /\ users \in SUBSET User
                   /\ req \in [Request -> Requests]
                   /\ shown \subseteq [token : Request, login : Login, file : File]
<1>0. /\ TablesTyped /\ Rest
      /\ InTime \in Kept /\ \A l \in Login : Without(l) \in Kept
      /\ None \notin Login /\ File \subseteq SUBSET User
  BY TypeParts, InTimeIsKept, ImportAssumption DEF Typed
<1> SUFFICES TablesTyped' /\ Rest'
  BY LockTypes, TypeParts DEF Typed
<1>1. ASSUME NEW gone, NEW issued, NEW kept \in Kept, Tables(gone, issued, kept)
      PROVE  TablesTyped'
  BY <1>0, <1>1, TablesKeepTypes
<1>2. ASSUME UNCHANGED <<grants, previews, sids, sockets>> PROVE TablesTyped'
  BY <1>0, <1>2 DEF TablesTyped
<1>3. ASSUME UNCHANGED <<epoch, users, req, shown>> PROVE Rest'
  BY <1>0, <1>3
<1>4. ASSUME NEW r \in Request, RequestStep(r) PROVE TablesTyped' /\ Rest'
  <2>1. CASE Admit(r)
    <3>1. TablesTyped'
      BY <1>0, <1>1, <2>1, AdmitCases DEF Refused, Cancels, Previews, Confirms
    <3>2. epoch' \in [Login -> Nat]
      BY <1>0, <2>1, AdmitCases DEF Refused, Cancels, Previews, Confirms
    <3>3. req' \in [Request -> Requests]
      <4>1. ASSUME NEW l \in Login, Previews(r, l) PROVE req' \in [Request -> Requests]
        <5>1. epoch[l] + 1 \in Nat /\ "preview" \in {"preview", "confirm"}
          BY <1>0
        <5> QED
          BY <1>0, <4>1, <5>1, Admits DEF Previews
      <4>2. ASSUME NEW l \in Login, Confirms(r, l) PROVE req' \in [Request -> Requests]
        <5>1. /\ epoch[l] \in Nat /\ "confirm" \in {"preview", "confirm"}
              /\ InTime[l] \in Preview \cup {None}
          BY <1>0 DEF Kept
        <5> QED
          BY <1>0, <4>2, <5>1, Admits DEF Confirms
      <4> QED
        BY <1>0, <2>1, <4>1, <4>2, AdmitCases, Ends DEF Refused, Cancels
    <3> QED
      BY <1>0, <3>1, <3>2, <3>3, <2>1, AdmitCases
  <2>2. CASE ~Admit(r)
    <3>1. req' \in [Request -> Requests]
      BY <1>4, <2>2, Advances DEF OnlyMoves
    <3>2. CASE Guard(r)
      <4> DEFINE q == req[r]
                 preview == [token |-> r, file |-> q.file, late |-> FALSE]
      <4>1. q.login \in Login /\ q.file \in File
        BY <3>2 DEF Guard, Carries, InSlot
      <4>2. [InTime EXCEPT ![q.login] = preview] \in Kept
        BY <4>1, <1>0 DEF Kept, Preview
      <4>3. TablesTyped'
        BY <4>2, <3>2, <1>0, <1>1 DEF Guard
      <4>4. shown' \subseteq [token : Request, login : Login, file : File]
        BY <4>1, <3>2, <1>0 DEF Guard
      <4> QED
        BY <4>3, <4>4, <3>1, <3>2, <1>0 DEF Guard
    <3>3. CASE EnterCommitGuard(r)
      <4>1. TablesTyped'
        BY <3>3, <1>0, <1>1, <1>2 DEF EnterCommitGuard
      <4> QED
        BY <4>1, <3>1, <3>3, <1>0 DEF EnterCommitGuard
    <3>4. CASE Commit(r)
      <4>1. users' \in SUBSET User
        <5>1. req[r].file \in File \cup {{}}
          BY <1>0 DEF Requests
        <5> QED
          BY <5>1, <3>4, <1>0 DEF Commit
      <4> QED
        BY <4>1, <3>1, <3>4, <1>0, <1>2 DEF Commit, loginVars
    <3>5. CASE AuthBusy(r) \/ TakeSlot(r) \/ ReadBody(r) \/ Lookup(r) \/ TakeDatabase(r) \/ Insert(r)
      <4>1. UNCHANGED <<loginVars, users, shown>>
        BY <3>5 DEF AuthBusy, TakeSlot, ReadBody, Lookup, TakeDatabase, Insert
      <4> QED
        BY <4>1, <3>1, <1>0, <1>2 DEF loginVars
    <3> QED
      BY <1>4, <2>2, <3>2, <3>3, <3>4, <3>5 DEF RequestStep
  <2> QED
    BY <2>1, <2>2
<1>5. ASSUME NEW l \in Login, BeginAdminLogin(l) \/ Logout(l) PROVE TablesTyped' /\ Rest'
  <2>1. previews \in Kept
    BY <1>0 DEF TablesTyped
  <2> QED
    BY <1>0, <1>1, <1>3, <1>5, <2>1 DEF BeginAdminLogin, Logout
<1>6. CASE Prune
  BY <1>0, <1>1, <1>3, <1>6 DEF Prune
<1>7. ASSUME NEW s \in Socket, SocketDisconnects(s) PROVE TablesTyped' /\ Rest'
  BY <1>0, <1>3, <1>7 DEF SocketDisconnects, TablesTyped
<1>8. ASSUME NEW s \in Socket, NEW l \in Login, SocketConnects(s, l) PROVE TablesTyped' /\ Rest'
  <2>1. \A k \in Login : InTime[k] \in Preview \cup {None}
    BY <1>0 DEF Kept
  <2> QED
    BY <1>0, <1>3, <1>8, <2>1 DEF SocketConnects, TablesTyped, Kept
<1>9. CASE TimePasses
  <2>1. ASSUME NEW l \in Login, LoginExpires(l) PROVE TablesTyped' /\ Rest'
    BY <1>0, <1>3, <1>9, <2>1, TimeCases DEF LoginExpires, TablesTyped
  <2>2. ASSUME NEW l \in Login, PreviewExpires(l) PROVE TablesTyped' /\ Rest'
    <3>1. previews' \in Kept
      BY <1>0, <2>2, PreviewGetsLate DEF TablesTyped
    <3> QED
      BY <1>0, <1>3, <1>9, <2>2, <3>1, TimeCases DEF PreviewExpires, TablesTyped
  <2>3. ASSUME NEW r \in Request, ConfirmationExpires(r) PROVE TablesTyped' /\ Rest'
    BY <1>0, <1>2, <1>9, <2>3, TimeCases, ConfirmationGetsLate DEF ConfirmationExpires
  <2> QED
    BY <1>9, <2>1, <2>2, <2>3, TimeCases
<1>10. ASSUME NEW u \in User, AddUser(u) \/ DeleteUser(u) PROVE TablesTyped' /\ Rest'
  BY <1>0, <1>2, <1>10 DEF AddUser, DeleteUser, loginVars
<1>11. CASE UNCHANGED vars
  BY <1>2, <1>3, <1>11 DEF vars, loginVars
<1> QED
  BY <1>4, <1>5, <1>6, <1>7, <1>8, <1>9, <1>10, <1>11 DEF Next

----------------------------------------------------------------------------
(* What hangs on a login.  Previews are kept by logins that are issued and  *)
(* not gone; _revoke_login_locked takes all of a login's.                   *)
LEMMA TablesRevoke ==
    ASSUME TablesTyped, NothingOutlivesItsLogin, NEW gone, NEW issued, NEW kept \in Kept,
           \A l \in Login : kept[l] # None => grants[l] \in {"live", "expired"},
           \A l \in Login : l \in issued => grants[l] = "new",
           Tables(gone, issued, kept)
    PROVE  NothingOutlivesItsLogin'
<1> None \notin Login
  BY ImportAssumption
<1>1. ASSUME NEW l \in Login
      PROVE  /\ grants'[l] \in {"new", "gone"} => previews'[l] = None
             /\ sids'[l] = {s \in Socket : sockets'[s] = l}
  BY <1>1 DEF TablesTyped, NothingOutlivesItsLogin, Tables, Kept
<1>2. ASSUME NEW s \in Socket, sockets'[s] # None PROVE grants'[sockets'[s]] \in {"live", "expired"}
  BY <1>2 DEF TablesTyped, NothingOutlivesItsLogin, Tables
<1> QED
  BY <1>1, <1>2 DEF NothingOutlivesItsLogin

LEMMA InTimeIsHeld ==
    ASSUME TypeOK, NothingOutlivesItsLogin, NEW l \in Login
    PROVE  /\ InTime[l] # None => InTime[l] = previews[l] /\ grants[l] \in {"live", "expired"}
           /\ \A k \in Login : Without(l)[k] # None => Without(l)[k] = InTime[k]
           /\ Without(l)[l] = None
<1>1. InTime[l] = IF previews[l] # None /\ previews[l].late THEN None ELSE previews[l]
  BY DEF InTime
<1>2. previews[l] # None => grants[l] \in {"live", "expired"}
  BY DEF TypeOK, NothingOutlivesItsLogin
<1>3. InTime = [k \in Login |-> InTime[k]]
  BY DEF InTime
<1> QED
  BY <1>1, <1>2, <1>3 DEF Without

LEMMA LoginStep ==
    TypeOK /\ Carries /\ NothingOutlivesItsLogin /\ [Next]_vars => NothingOutlivesItsLogin'
<1> SUFFICES ASSUME TypeOK, Carries, NothingOutlivesItsLogin, [Next]_vars
             PROVE  NothingOutlivesItsLogin'
  OBVIOUS
<1>0. /\ TablesTyped
      /\ InTime \in Kept /\ \A l \in Login : Without(l) \in Kept
      /\ None \notin Login /\ File \subseteq SUBSET User
  BY TypeParts, InTimeIsKept, ImportAssumption DEF Typed
<1>a. \A l \in Login : InTime[l] # None => grants[l] \in {"live", "expired"}
  BY InTimeIsHeld
<1>b. \A l, k \in Login : Without(l)[k] # None => grants[k] \in {"live", "expired"}
  BY <1>a, InTimeIsHeld
<1>1. CASE \E gone : Tables(gone, {}, InTime)
  BY <1>0, <1>a, <1>1, TablesRevoke
<1>2. CASE \E l \in Login : Tables(Expired, {}, Without(l))
  BY <1>0, <1>b, <1>2, TablesRevoke
<1>3. ASSUME UNCHANGED <<grants, previews, sids, sockets>> PROVE NothingOutlivesItsLogin'
  BY <1>3 DEF NothingOutlivesItsLogin
<1>4. ASSUME NEW r \in Request, RequestStep(r) PROVE NothingOutlivesItsLogin'
  <2>1. CASE Admit(r)
    BY <2>1, <1>1, <1>2, AdmitCases DEF Refused, Cancels, Previews, Confirms
  <2>2. CASE Guard(r)
    <3> DEFINE q == req[r]
               preview == [token |-> r, file |-> q.file, late |-> FALSE]
               kept == [InTime EXCEPT ![q.login] = preview]
    <3>1. q.login \in Login /\ q.file \in File
      BY <2>2 DEF Guard, Carries, InSlot
    <3>2. kept \in Kept
      BY <3>1, <1>0 DEF Kept, Preview
    <3>3. CASE Tables(Expired, {}, kept) /\ MayCommit(r)
      <4>1. grants[q.login] = "live"
        BY <3>3 DEF MayCommit
      <4>2. \A l \in Login : kept[l] # None => grants[l] \in {"live", "expired"}
        BY <4>1, <3>1, <1>0, <1>a DEF Kept
      <4> HIDE DEF kept
      <4> QED
        BY <4>2, <3>2, <3>3, <1>0, TablesRevoke
    <3> QED
      BY <3>3, <2>2, <1>1 DEF Guard
  <2>3. CASE EnterCommitGuard(r)
    BY <2>3, <1>1, <1>3 DEF EnterCommitGuard
  <2>4. CASE \/ AuthBusy(r) \/ TakeSlot(r) \/ ReadBody(r) \/ Lookup(r)
             \/ TakeDatabase(r) \/ Insert(r) \/ Commit(r)
    BY <2>4, <1>3 DEF AuthBusy, TakeSlot, ReadBody, Lookup, TakeDatabase, Insert, Commit, loginVars
  <2> QED
    BY <1>4, <2>1, <2>2, <2>3, <2>4 DEF RequestStep
<1>5. ASSUME NEW l \in Login, BeginAdminLogin(l) PROVE NothingOutlivesItsLogin'
  <2>1. PICK gone : Tables(gone, {l}, InTime)
    BY <1>5 DEF BeginAdminLogin
  <2>2. grants[l] = "new"
    BY <1>5 DEF BeginAdminLogin
  <2>3. \A k \in Login : k \in {l} => grants[k] = "new"
    BY <2>2
  <2> QED
    BY <2>1, <2>3, <1>0, <1>a, TablesRevoke
<1>6. ASSUME NEW l \in Login, Logout(l) PROVE NothingOutlivesItsLogin'
  <2>1. previews \in Kept /\ \A k \in Login : previews[k] # None => grants[k] \in {"live", "expired"}
    BY <1>0 DEF TablesTyped, NothingOutlivesItsLogin
  <2> QED
    BY <2>1, <1>0, <1>6, TablesRevoke DEF Logout
<1>7. CASE Prune
  BY <1>7, <1>1 DEF Prune
<1>8. ASSUME NEW s \in Socket, SocketDisconnects(s) PROVE NothingOutlivesItsLogin'
  <2>1. sockets[s] \in Login
    BY <1>0, <1>8 DEF SocketDisconnects, TablesTyped
  <2>2. \A l \in Login : sids'[l] = {t \in Socket : sockets'[t] = l}
    BY <2>1, <1>0, <1>8 DEF SocketDisconnects, TablesTyped, NothingOutlivesItsLogin
  <2> QED
    BY <2>1, <2>2, <1>0, <1>8 DEF SocketDisconnects, TablesTyped, NothingOutlivesItsLogin
<1>9. ASSUME NEW s \in Socket, NEW l \in Login, SocketConnects(s, l) PROVE NothingOutlivesItsLogin'
  <2>0. l \notin Expired /\ grants[l] = "live" /\ sockets[s] = None
    BY <1>9 DEF SocketConnects, Expired
  <2>1. ASSUME NEW k \in Login
        PROVE  /\ grants'[k] \in {"new", "gone"} => previews'[k] = None
               /\ sids'[k] = {t \in Socket : sockets'[t] = k}
    <3>1. grants'[k] \in {"new", "gone"} => previews'[k] = None
      BY <2>1, <1>9, <1>a, <1>0 DEF SocketConnects, TablesTyped
    <3>2. sids[k] = {t \in Socket : sockets[t] = k}
      BY <2>1 DEF NothingOutlivesItsLogin
    <3>3. sids'[k] = {t \in Socket : sockets'[t] = k}
      BY <2>0, <2>1, <3>2, <1>9, <1>0 DEF SocketConnects, TablesTyped
    <3> QED
      BY <3>1, <3>3
  <2>2. ASSUME NEW t \in Socket, sockets'[t] # None
        PROVE  grants'[sockets'[t]] \in {"live", "expired"}
    BY <2>0, <2>2, <1>9, <1>0 DEF SocketConnects, TablesTyped, NothingOutlivesItsLogin
  <2> QED
    BY <2>1, <2>2 DEF NothingOutlivesItsLogin
<1>10. CASE TimePasses
  <2>1. ASSUME NEW l \in Login, LoginExpires(l) PROVE NothingOutlivesItsLogin'
    BY <1>0, <1>10, <2>1, TimeCases DEF LoginExpires, TablesTyped, NothingOutlivesItsLogin
  <2>2. ASSUME NEW l \in Login, PreviewExpires(l) PROVE NothingOutlivesItsLogin'
    <3>1. /\ \A k \in Login : previews'[k] # None => previews[k] # None
          /\ UNCHANGED <<grants, sids, sockets>>
      BY <1>0, <1>10, <2>2, TimeCases, PreviewGetsLate DEF PreviewExpires, TablesTyped
    <3> QED
      BY <3>1 DEF NothingOutlivesItsLogin
  <2>3. ASSUME NEW r \in Request, ConfirmationExpires(r) PROVE NothingOutlivesItsLogin'
    BY <1>3, <1>10, <2>3, TimeCases DEF ConfirmationExpires
  <2> QED
    BY <1>10, <2>1, <2>2, <2>3, TimeCases
<1>11. CASE (\E u \in User : AddUser(u) \/ DeleteUser(u)) \/ UNCHANGED vars
  BY <1>3, <1>11 DEF AddUser, DeleteUser, loginVars, vars
<1> QED
  BY <1>4, <1>5, <1>6, <1>7, <1>8, <1>9, <1>10, <1>11 DEF Next

----------------------------------------------------------------------------
(* Previews and confirmations.  All steps but two leave each preview with   *)
(* its login or drop it, and add no confirmation.                           *)
PreviewsStay ==
    \A l \in Login : previews'[l] # None =>
        /\ previews[l] # None
        /\ previews'[l].token = previews[l].token /\ previews'[l].file = previews[l].file
ConfirmationStays(r) ==
    /\ req[r].pc = "done" => req'[r].pc = "done"
    /\ req'[r].action = "confirm" =>
          /\ req[r].action = "confirm" /\ req'[r].login = req[r].login
          /\ req'[r].consumed.token = req[r].consumed.token
          /\ req'[r].consumed.file = req[r].consumed.file
Stays == PreviewsStay /\ (\A r \in Request : ConfirmationStays(r)) /\ UNCHANGED shown

(* The two: a confirmation takes a preview, and a preview is answered. *)
TakesPreview(r, l) ==
    /\ req[r].pc = "idle" /\ previews[l] # None
    /\ req'[r].action = "confirm" /\ req'[r].login = l /\ req'[r].consumed = previews[l]
    /\ previews'[l] = None /\ PreviewsStay /\ UNCHANGED shown
    /\ \A s \in Request : s # r => ConfirmationStays(s)
AnswersPreview(r, l) ==
    /\ req[r].pc = "guard" /\ req'[r].pc = "done" /\ req'[r].action = "none"
    /\ previews'[l].token = r
    /\ shown' = shown \cup {[token |-> r, login |-> l, file |-> previews'[l].file]}
    /\ \A k \in Login : k # l /\ previews'[k] # None =>
          /\ previews[k] # None
          /\ previews'[k].token = previews[k].token /\ previews'[k].file = previews[k].file
    /\ \A s \in Request : s # r => ConfirmationStays(s)

LEMMA TablesStay ==
    ASSUME TypeOK, NothingOutlivesItsLogin, NEW gone, NEW issued,
           \/ Tables(gone, issued, InTime) \/ Tables(gone, issued, previews)
           \/ \E l \in Login : Tables(gone, issued, Without(l))
    PROVE  PreviewsStay
<1>1. ASSUME NEW l \in Login
      PROVE  previews'[l] # None => previews[l] # None /\ previews'[l] = previews[l]
  <2>1. CASE Tables(gone, issued, InTime) \/ Tables(gone, issued, previews)
    BY <2>1, InTimeIsHeld DEF Tables
  <2>2. ASSUME NEW k \in Login, Tables(gone, issued, Without(k))
        PROVE  previews'[l] # None => previews[l] # None /\ previews'[l] = previews[l]
    <3>1. Without(k)[l] # None => Without(k)[l] = InTime[l]
      BY InTimeIsHeld
    <3> QED
      BY <2>2, <3>1, InTimeIsHeld DEF Tables
  <2> QED
    BY <2>1, <2>2
<1> QED
  BY <1>1 DEF PreviewsStay

LEMMA OthersStay ==
    ASSUME NEW r \in Request, req'[r] = req[r]
    PROVE  ConfirmationStays(r)
BY DEF ConfirmationStays

LEMMA StepStays ==
    ASSUME TypeOK, Carries, NothingOutlivesItsLogin, [Next]_vars
    PROVE  Stays \/ \E r \in Request, l \in Login : TakesPreview(r, l) \/ AnswersPreview(r, l)
<1> req \in [Request -> Requests]
  BY RequestTypes
<1>a. ASSUME UNCHANGED req PROVE \A r \in Request : ConfirmationStays(r)
  BY <1>a, OthersStay
<1>b. ASSUME UNCHANGED previews PROVE PreviewsStay
  BY <1>b DEF PreviewsStay
<1>1. ASSUME NEW r \in Request, RequestStep(r)
      PROVE  Stays \/ \E l \in Login : TakesPreview(r, l) \/ AnswersPreview(r, l)
  <2>1. CASE Admit(r)
    <3>0. req[r].pc = "idle" /\ UNCHANGED shown
      BY <2>1, AdmitCases
    <3>1. PreviewsStay
      BY <2>1, AdmitCases, TablesStay DEF Refused, Cancels, Previews, Confirms
    <3>2. \A s \in Request : s # r => ConfirmationStays(s)
      <4>1. \A s \in Request : s # r => req'[s] = req[s]
        BY <2>1, AdmitCases, Ends DEF Refused, Cancels, Previews, Confirms
      <4> QED
        BY <4>1, OthersStay
    <3>3. ASSUME req'[r].action # "confirm" PROVE Stays
      <4>1. ConfirmationStays(r)
        BY <3>0, <3>3 DEF ConfirmationStays
      <4> QED
        BY <3>0, <3>1, <3>2, <4>1 DEF Stays
    <3>4. CASE End(r)
      BY <3>3, <3>4, Ends
    <3>5. ASSUME NEW l \in Login, Previews(r, l) PROVE Stays
      BY <3>3, <3>5 DEF Previews, Admitted
    <3>6. ASSUME NEW l \in Login, Confirms(r, l) PROVE TakesPreview(r, l)
      <4>1. /\ req'[r].action = "confirm" /\ req'[r].login = l /\ req'[r].consumed = InTime[l]
            /\ InTime[l] # None
        BY <3>6 DEF Confirms, Admitted
      <4>2. InTime[l] = previews[l]
        BY <4>1, InTimeIsHeld
      <4>3. previews'[l] = None
        BY <3>6, InTimeIsHeld DEF Confirms, Tables
      <4> QED
        BY <3>0, <3>1, <3>2, <4>1, <4>2, <4>3 DEF TakesPreview
    <3> QED
      BY <2>1, <3>4, <3>5, <3>6, AdmitCases DEF Refused, Cancels
  <2>2. CASE ~Admit(r)
    <3>0. OnlyMoves(r) /\ req[r].pc # "done" /\ (IsEnded(r) \/ MovesOn(r))
      BY <1>1, <2>2, Advances
    <3>1. \A s \in Request : s # r => ConfirmationStays(s)
      BY <3>0, OthersStay DEF OnlyMoves
    <3>2. ConfirmationStays(r)
      BY <3>0 DEF ConfirmationStays, IsEnded, MovesOn
    <3>3. ASSUME PreviewsStay, UNCHANGED shown PROVE Stays
      BY <3>1, <3>2, <3>3 DEF Stays
    <3>4. CASE Guard(r)
      <4> DEFINE q == req[r]
                 preview == [token |-> r, file |-> q.file, late |-> FALSE]
                 kept == [InTime EXCEPT ![q.login] = preview]
      <4>1. q.login \in Login /\ req[r].pc = "guard"
        BY <3>4 DEF Guard, Carries, InSlot
      <4>2. CASE Tables(Expired, {}, InTime) /\ UNCHANGED shown
        BY <4>2, <3>3, TablesStay
      <4>3. CASE /\ Tables(Expired, {}, kept) /\ MayCommit(r) /\ q.action = "preview"
                 /\ shown' = shown \cup {[token |-> r, login |-> q.login, file |-> q.file]}
        <5>1. End(r)
          BY <4>3, <3>4 DEF Guard
        <5>2. q.login \notin Expired
          BY <4>3 DEF MayCommit, Expired
        <5>3. kept[q.login] = preview /\ \A k \in Login : k # q.login => kept[k] = InTime[k]
          BY <4>1 DEF InTime
        <5> HIDE DEF kept
        <5>4. previews'[q.login] = preview
          BY <4>1, <4>3, <5>2, <5>3 DEF Tables
        <5>5. previews'[q.login].token = r /\ previews'[q.login].file = q.file
          BY <5>4
        <5>6. \A k \in Login : k # q.login /\ previews'[k] # None =>
                 previews[k] # None /\ previews'[k] = previews[k]
          BY <4>3, <5>3, InTimeIsHeld DEF Tables
        <5>7. AnswersPreview(r, q.login)
          BY <3>1, <4>1, <4>3, <5>1, <5>5, <5>6, Ends DEF AnswersPreview
        <5> QED
          BY <4>1, <5>7
      <4> QED
        BY <4>2, <4>3, <3>4 DEF Guard
    <3>5. CASE EnterCommitGuard(r)
      BY <3>3, <3>5, <1>b, TablesStay DEF EnterCommitGuard
    <3>6. CASE \/ AuthBusy(r) \/ TakeSlot(r) \/ ReadBody(r) \/ Lookup(r)
               \/ TakeDatabase(r) \/ Insert(r) \/ Commit(r)
      BY <3>3, <3>6, <1>b DEF AuthBusy, TakeSlot, ReadBody, Lookup, TakeDatabase, Insert, Commit,
                             loginVars
    <3> QED
      BY <1>1, <2>2, <3>4, <3>5, <3>6 DEF RequestStep
  <2> QED
    BY <2>1, <2>2
<1>2. ASSUME UNCHANGED <<req, shown>>, PreviewsStay PROVE Stays
  BY <1>2, <1>a DEF Stays
<1>3. CASE (\E l \in Login : BeginAdminLogin(l) \/ Logout(l)) \/ Prune
  BY <1>2, <1>3, TablesStay DEF BeginAdminLogin, Logout, Prune
<1>4. ASSUME NEW s \in Socket, SocketDisconnects(s) \/ \E l \in Login : SocketConnects(s, l)
      PROVE  Stays
  <2>1. CASE SocketDisconnects(s)
    BY <2>1, <1>2, <1>b DEF SocketDisconnects
  <2>2. ASSUME NEW l \in Login, SocketConnects(s, l) PROVE Stays
    <3>1. \A k \in Login : previews'[k] # None => previews[k] # None /\ previews'[k] = previews[k]
      BY <2>2, InTimeIsHeld DEF SocketConnects
    <3> QED
      BY <2>2, <3>1, <1>2 DEF SocketConnects, PreviewsStay
  <2> QED
    BY <1>4, <2>1, <2>2
<1>5. CASE TimePasses
  <2>0. UNCHANGED shown
    BY <1>5, TimeCases
  <2>1. ASSUME NEW l \in Login, LoginExpires(l) PROVE Stays
    BY <2>0, <2>1, <1>2, <1>b DEF LoginExpires
  <2>2. ASSUME NEW l \in Login, PreviewExpires(l) PROVE Stays
    <3>1. previews \in Kept
      BY TypeParts DEF Typed, TablesTyped
    <3>2. PreviewsStay
      BY <2>2, <3>1, PreviewGetsLate DEF PreviewExpires, PreviewsStay
    <3> QED
      BY <2>0, <2>2, <3>2, <1>2 DEF PreviewExpires
  <2>3. ASSUME NEW r \in Request, ConfirmationExpires(r) PROVE Stays
    <3>1. \A s \in Request : ConfirmationStays(s)
      BY <2>3, ConfirmationGetsLate, OthersStay DEF ConfirmationStays
    <3> QED
      BY <2>0, <2>3, <3>1, <1>b DEF ConfirmationExpires, Stays
  <2> QED
    BY <1>5, <2>1, <2>2, <2>3, TimeCases
<1>6. CASE (\E u \in User : AddUser(u) \/ DeleteUser(u)) \/ UNCHANGED vars
  BY <1>6, <1>2, <1>b DEF AddUser, DeleteUser, vars, loginVars
<1> QED
  BY <1>1, <1>3, <1>4, <1>5, <1>6 DEF Next

LEMMA ShownStep ==
    /\ TypeOK /\ Carries /\ NothingOutlivesItsLogin /\ PreviewsWereShown /\ [Next]_vars
    => PreviewsWereShown'
<1> SUFFICES ASSUME TypeOK, Carries, NothingOutlivesItsLogin, PreviewsWereShown, [Next]_vars
             PROVE  PreviewsWereShown'
  OBVIOUS
<1>1. CASE Stays
  BY <1>1 DEF Stays, PreviewsStay, ConfirmationStays, PreviewsWereShown
<1>2. ASSUME NEW r \in Request, NEW l \in Login, TakesPreview(r, l) PROVE PreviewsWereShown'
  BY <1>2 DEF TakesPreview, PreviewsStay, ConfirmationStays, PreviewsWereShown
<1>3. ASSUME NEW r \in Request, NEW l \in Login, AnswersPreview(r, l) PROVE PreviewsWereShown'
  <2>1. ASSUME NEW k \in Login, previews'[k] # None
        PROVE  [token |-> previews'[k].token, login |-> k, file |-> previews'[k].file] \in shown'
    BY <1>3, <2>1 DEF AnswersPreview, PreviewsWereShown
  <2>2. ASSUME NEW s \in Request, req'[s].action = "confirm"
        PROVE  [token |-> req'[s].consumed.token, login |-> req'[s].login,
                file |-> req'[s].consumed.file] \in shown'
    BY <1>3, <2>2 DEF AnswersPreview, ConfirmationStays, PreviewsWereShown
  <2> QED
    BY <2>1, <2>2 DEF PreviewsWereShown
<1> QED
  BY <1>1, <1>2, <1>3, StepStays

LEMMA TokensStep ==
    /\ TypeOK /\ Carries /\ NothingOutlivesItsLogin /\ TokensAreUnique /\ [Next]_vars
    => TokensAreUnique'
<1> SUFFICES ASSUME TypeOK, Carries, NothingOutlivesItsLogin, TokensAreUnique, [Next]_vars
             PROVE  TokensAreUnique'
  OBVIOUS
<1>0. /\ \A l \in Login : previews[l] # None => previews[l].token \in Request
      /\ \A r \in Request : req[r].action = "confirm" => req[r].consumed.token \in Request
  BY DEF TypeOK, Carries, Preview
<1>1. CASE Stays
  BY <1>0, <1>1 DEF Stays, PreviewsStay, ConfirmationStays, TokensAreUnique
<1>2. ASSUME NEW r \in Request, NEW l \in Login, TakesPreview(r, l) PROVE TokensAreUnique'
  <2>1. \A t \in Request : req[t].pc = "done" => t # r /\ req'[t].pc = "done"
    BY <1>2 DEF TakesPreview, ConfirmationStays
  <2>2. ASSUME NEW k \in Login, previews'[k] # None
        PROVE  /\ k # l /\ previews[k] # None /\ previews'[k].token = previews[k].token
               /\ previews'[k].token # previews[l].token
    BY <1>2, <2>2 DEF TakesPreview, PreviewsStay, TokensAreUnique
  <2>3. ASSUME NEW s \in Request, s # r, req'[s].action = "confirm"
        PROVE  /\ req[s].action = "confirm" /\ req'[s].consumed.token = req[s].consumed.token
               /\ req'[s].consumed.token # previews[l].token
    BY <1>2, <2>3 DEF TakesPreview, ConfirmationStays, TokensAreUnique
  <2>4. req'[r].consumed.token = previews[l].token /\ req[previews[l].token].pc = "done"
    BY <1>2 DEF TakesPreview, TokensAreUnique
  <2> QED
    BY <1>0, <1>2, <2>1, <2>2, <2>3, <2>4 DEF TakesPreview, TokensAreUnique
<1>3. ASSUME NEW r \in Request, NEW l \in Login, AnswersPreview(r, l) PROVE TokensAreUnique'
  <2>1. /\ req'[r].pc = "done"
        /\ \A t \in Request : req[t].pc = "done" => t # r /\ req'[t].pc = "done"
    BY <1>3 DEF AnswersPreview, ConfirmationStays
  <2>2. ASSUME NEW k \in Login, k # l, previews'[k] # None
        PROVE  /\ previews[k] # None /\ previews'[k].token = previews[k].token
               /\ previews[k].token # r
    BY <1>3, <2>1, <2>2, <1>0 DEF AnswersPreview, TokensAreUnique
  <2>3. ASSUME NEW s \in Request, req'[s].action = "confirm"
        PROVE  /\ req[s].action = "confirm" /\ req'[s].consumed.token = req[s].consumed.token
               /\ req[s].consumed.token # r
    BY <1>3, <2>1, <2>3, <1>0 DEF AnswersPreview, ConfirmationStays, TokensAreUnique
  <2>4. previews'[l].token = r
    BY <1>3 DEF AnswersPreview
  <2> QED
    BY <1>0, <2>1, <2>2, <2>3, <2>4 DEF TokensAreUnique
<1> QED
  BY <1>1, <1>2, <1>3, StepStays

----------------------------------------------------------------------------
(* What a request waits for with the two locks stays as it was.             *)
Due(r) ==
    /\ req[r].pc \in {"inserted", "commit"} => req[r].file \cap users = {}
    /\ req[r].pc = "commit" => /\ grants[req[r].login] \in {"live", "expired"}
                               /\ epoch[req[r].login] = req[r].epoch

LEMMA StaysDue ==
    ASSUME Carries, CommitIsDue, LocksAreHeld, NEW r \in Request,
           req'[r].pc = req[r].pc, req'[r].file = req[r].file,
           req'[r].login = req[r].login, req'[r].epoch = req[r].epoch,
           dbLock = r => UNCHANGED users,
           auth = r => /\ UNCHANGED epoch
                       /\ \A l \in Login : grants[l] \in {"live", "expired"} =>
                                               grants'[l] \in {"live", "expired"}
    PROVE  Due(r)'
BY DEF Carries, CommitIsDue, LocksAreHeld, Due, InSlot

LEMMA OthersAreDue ==
    ASSUME TypeOK, Carries, CommitIsDue, LocksAreHeld, NEW r \in Request, OnlyMoves(r),
           dbLock \notin {r, Free} => UNCHANGED users, 
           auth \notin {r, Free} => UNCHANGED <<grants, epoch>>,
           Due(r)'
    PROVE  CommitIsDue'
<1> Free \notin Request
  BY ImportAssumption
<1>1. ASSUME NEW s \in Request, s # r PROVE Due(s)'
  BY <1>1, StaysDue DEF OnlyMoves
<1> QED
  BY <1>1 DEF CommitIsDue, Due

LEMMA DueStep ==
    TypeOK /\ Carries /\ LocksAreHeld /\ CommitIsDue /\ [Next]_vars => CommitIsDue'
<1> SUFFICES ASSUME TypeOK, Carries, LocksAreHeld, CommitIsDue, [Next]_vars PROVE CommitIsDue'
  OBVIOUS
<1> req \in [Request -> Requests] /\ Free \notin Request /\ TablesTyped
  BY RequestTypes, ImportAssumption, TypeParts DEF Typed
<1>1. ASSUME NEW r \in Request, RequestStep(r) PROVE CommitIsDue'
  <2>1. OnlyMoves(r) /\ (Admit(r) => req'[r].pc \in {"admitted", "done"})
    <3>1. CASE Admit(r)
      <4>1. ASSUME NEW l \in Login, Previews(r, l)
            PROVE  OnlyMoves(r) /\ req'[r].pc \in {"admitted", "done"}
        <5>1. epoch[l] + 1 \in Nat /\ "preview" \in {"preview", "confirm"}
          BY DEF TypeOK
        <5> QED
          BY <4>1, <5>1, Admits DEF Previews, OnlyMoves
      <4>2. ASSUME NEW l \in Login, Confirms(r, l)
            PROVE  OnlyMoves(r) /\ req'[r].pc \in {"admitted", "done"}
        <5>1. /\ epoch[l] \in Nat /\ "confirm" \in {"preview", "confirm"}
              /\ InTime[l] \in Preview \cup {None}
          BY InTimeIsKept DEF TypeOK, Kept
        <5> QED
          BY <4>2, <5>1, Admits DEF Confirms, OnlyMoves
      <4> QED
        BY <3>1, <4>1, <4>2, AdmitCases, Ends DEF Refused, Cancels, OnlyMoves
    <3> QED
      BY <1>1, <3>1, Advances
  <2>2. ASSUME req'[r].pc \notin {"inserted", "commit"}, UNCHANGED users,
               auth \notin {r, Free} => UNCHANGED <<grants, epoch>>
        PROVE  CommitIsDue'
    <3>1. Due(r)'
      BY <2>2 DEF Due
    <3> QED
      BY <2>1, <2>2, <3>1, OthersAreDue
  <2>3. /\ End(r) => req'[r].pc = "done"
        /\ \A label \in PCs : Goto(r, label) => /\ req'[r].pc = label
                                               /\ req'[r].file = req[r].file
                                               /\ req'[r].login = req[r].login
                                               /\ req'[r].epoch = req[r].epoch
    BY Ends, Goes
  <2>4. {"body", "database", "insert", "inserted", "commit", "imported"} \subseteq PCs
    BY DEF PCs, InSlot
  <2>5. CASE Admit(r)
    BY <2>1, <2>2, <2>5, AdmitCases
  <2>6. CASE AuthBusy(r) \/ TakeSlot(r)
    BY <2>2, <2>3, <2>4, <2>6 DEF AuthBusy, TakeSlot, loginVars
  <2>7. CASE ReadBody(r)
    BY <2>2, <2>3, <2>7, Reads DEF ReadBody, loginVars
  <2>8. CASE Lookup(r)
    <3>1. (req[r].file \cap users # {}) \in BOOLEAN
      OBVIOUS
    <3> QED
      BY <2>2, <2>8, <3>1, LooksUp DEF Lookup, loginVars
  <2>9. CASE Guard(r)
    <3>1. UNCHANGED users /\ auth = Free /\ req'[r].pc \in {"database", "done"}
      BY <2>3, <2>4, <2>9 DEF Guard
    <3> QED
      BY <2>2, <3>1
  <2>10. CASE TakeDatabase(r)
    BY <2>2, <2>3, <2>4, <2>10 DEF TakeDatabase, loginVars
  <2>11. CASE Insert(r)
    <3>1. CASE Goto(r, "inserted") /\ req[r].file \cap users = {}
      <4>1. req'[r].pc = "inserted" /\ req'[r].file = req[r].file
        BY <3>1, <2>3, <2>4
      <4>2. Due(r)'
        BY <4>1, <3>1, <2>11 DEF Due, Insert
      <4> QED
        BY <4>2, <2>1, <2>11, OthersAreDue DEF Insert, loginVars
    <3> QED
      BY <3>1, <2>2, <2>3, <2>11 DEF Insert, loginVars
  <2>12. CASE EnterCommitGuard(r)
    <3>1. CASE /\ auth = Free /\ Tables(Expired, {}, InTime) /\ MayCommit(r)
               /\ Goto(r, "commit") /\ UNCHANGED <<epoch, users>>
      <4>1. req'[r].pc = "commit" /\ UNCHANGED <<req[r].file, req[r].login, req[r].epoch>>
        BY <3>1, <2>3, <2>4
      <4>2. req[r].pc = "inserted" /\ req[r].login \in Login
        BY <2>12 DEF EnterCommitGuard, Carries, InSlot
      <4>3. grants'[req[r].login] = "live"
        BY <3>1, <4>2 DEF MayCommit, Tables, Expired, TablesTyped
      <4>4. Due(r)'
        BY <3>1, <4>1, <4>2, <4>3 DEF Due, CommitIsDue, MayCommit
      <4> QED
        BY <4>4, <3>1, <2>1, OthersAreDue
    <3>2. CASE End(r)
      <4>1. req'[r].pc = "done" /\ UNCHANGED users
        BY <3>2, <2>3, <2>12 DEF EnterCommitGuard
      <4>2. auth = Free \/ UNCHANGED <<grants, epoch>>
        BY <2>12 DEF EnterCommitGuard
      <4> QED
        BY <4>1, <4>2, <2>2
    <3> QED
      BY <3>1, <3>2, <2>12 DEF EnterCommitGuard
  <2>13. CASE Commit(r)
    <3>1. req'[r].pc \in {"imported", "done"} /\ dbLock = r /\ UNCHANGED <<grants, epoch>>
      BY <2>3, <2>4, <2>13 DEF Commit, LocksAreHeld, loginVars
    <3>2. Due(r)'
      BY <3>1 DEF Due
    <3> QED
      BY <3>1, <3>2, <2>1, OthersAreDue
  <2> QED
    BY <1>1, <2>5, <2>6, <2>7, <2>8, <2>9, <2>10, <2>11, <2>12, <2>13 DEF RequestStep
<1>2. ASSUME UNCHANGED req, auth = Free \/ UNCHANGED <<grants, epoch>>,
             dbLock = Free \/ UNCHANGED users
      PROVE  CommitIsDue'
  <2>1. ASSUME NEW r \in Request PROVE Due(r)'
    BY <1>2, StaysDue
  <2> QED
    BY <2>1 DEF CommitIsDue, Due
<1>3. CASE \/ \E l \in Login : BeginAdminLogin(l) \/ Logout(l)
           \/ Prune
           \/ \E s \in Socket : SocketDisconnects(s) \/ \E l \in Login : SocketConnects(s, l)
           \/ \E u \in User : AddUser(u) \/ DeleteUser(u)
           \/ UNCHANGED vars
  BY <1>2, <1>3 DEF BeginAdminLogin, Logout, Prune, SocketDisconnects, SocketConnects,
                    AddUser, DeleteUser, vars, loginVars
<1>4. CASE TimePasses
  <2>0. UNCHANGED <<epoch, users>>
    BY <1>4, TimeCases
  <2>1. ASSUME NEW l \in Login, LoginExpires(l) PROVE CommitIsDue'
    <3>1. /\ UNCHANGED req
          /\ \A k \in Login : grants[k] \in {"live", "expired"} => grants'[k] \in {"live", "expired"}
      BY <2>1 DEF LoginExpires, TablesTyped
    <3>2. ASSUME NEW r \in Request PROVE Due(r)'
      BY <2>0, <3>1, StaysDue
    <3> QED
      BY <3>2 DEF CommitIsDue, Due
  <2>2. ASSUME NEW l \in Login, PreviewExpires(l) PROVE CommitIsDue'
    BY <2>0, <2>2, <1>2 DEF PreviewExpires
  <2>3. ASSUME NEW q \in Request, ConfirmationExpires(q) PROVE CommitIsDue'
    <3>1. UNCHANGED grants
      BY <2>3 DEF ConfirmationExpires
    <3>2. ASSUME NEW r \in Request PROVE Due(r)'
      <4>1. /\ req'[r].pc = req[r].pc /\ req'[r].file = req[r].file
            /\ req'[r].login = req[r].login /\ req'[r].epoch = req[r].epoch
        BY <2>3, ConfirmationGetsLate
      <4> QED
        BY <2>0, <3>1, <4>1, StaysDue
    <3> QED
      BY <3>2 DEF CommitIsDue, Due
  <2> QED
    BY <1>4, <2>1, <2>2, <2>3, TimeCases
<1> QED
  BY <1>1, <1>3, <1>4 DEF Next

LEMMA OnlyCommitsImport ==
    ASSUME TypeOK, Next, NEW r \in Request, req[r].pc # "imported", req'[r].pc = "imported"
    PROVE  req[r].pc = "commit"
<1> req \in [Request -> Requests]
  BY RequestTypes
<1>1. ASSUME NEW s \in Request, RequestStep(s) PROVE req[r].pc = "commit"
  <2>1. CASE Admit(s)
    BY <2>1, AdmitCases, Ends DEF Refused, Cancels, Previews, Confirms, Admitted
  <2>2. CASE ~Admit(s)
    <3>1. r = s /\ MovesOn(s)
      BY <1>1, <2>2, Advances DEF OnlyMoves, IsEnded
    <3>2. /\ \A label \in PCs : Goto(s, label) => req'[s].pc = label
          /\ End(s) => req'[s].pc = "done"
          /\ {"body", "database", "insert", "inserted", "commit"} \subseteq PCs
      BY Goes, Ends DEF PCs, InSlot
    <3>3. CASE ReadBody(s)
      BY <3>1, <3>2, <3>3, Reads DEF ReadBody
    <3>4. CASE Lookup(s)
      <4>1. (req[s].file \cap users # {}) \in BOOLEAN
        OBVIOUS
      <4> QED
        BY <3>1, <3>4, <4>1, LooksUp DEF Lookup
    <3>5. CASE AuthBusy(s) \/ TakeSlot(s) \/ Guard(s)
      BY <3>1, <3>2, <3>5 DEF AuthBusy, TakeSlot, Guard
    <3>6. CASE TakeDatabase(s) \/ Insert(s) \/ EnterCommitGuard(s)
      BY <3>1, <3>2, <3>6 DEF TakeDatabase, Insert, EnterCommitGuard
    <3>7. CASE Commit(s)
      BY <3>1, <3>7 DEF Commit
    <3> QED
      BY <1>1, <2>2, <3>3, <3>4, <3>5, <3>6, <3>7 DEF RequestStep
  <2> QED
    BY <2>1, <2>2
<1>2. CASE TimePasses
  BY <1>2, TimeCases, ConfirmationGetsLate DEF LoginExpires, PreviewExpires
<1>3. CASE \/ \E l \in Login : BeginAdminLogin(l) \/ Logout(l)
           \/ Prune
           \/ \E s \in Socket : SocketDisconnects(s) \/ \E l \in Login : SocketConnects(s, l)
           \/ \E u \in User : AddUser(u) \/ DeleteUser(u)
  BY <1>3 DEF BeginAdminLogin, Logout, Prune, SocketDisconnects, SocketConnects,
              AddUser, DeleteUser
<1> QED
  BY <1>1, <1>2, <1>3 DEF Next

----------------------------------------------------------------------------
LEMMA InvInit == Init => IInv
<1> SUFFICES ASSUME Init PROVE IInv
  OBVIOUS
<1>1. TypeOK
  BY TypeInit
<1>2. \A r \in Request : req[r].pc = "idle" /\ req[r].action = "none"
  BY DEF Init, NoRequest
<1>3. Carries /\ LocksAreHeld /\ CommitIsDue
  BY <1>2 DEF Carries, LocksAreHeld, CommitIsDue, InSlot
<1>4. NothingOutlivesItsLogin
  BY ImportAssumption DEF Init, NothingOutlivesItsLogin
<1>5. PreviewsWereShown /\ TokensAreUnique
  BY <1>2 DEF Init, PreviewsWereShown, TokensAreUnique
<1> QED
  BY <1>1, <1>3, <1>4, <1>5 DEF IInv

LEMMA Invariant == Spec => []IInv
<1>1. IInv /\ [Next]_vars => IInv'
  BY TypeStep, CarriesStep, LocksStep, DueStep, LoginStep, ShownStep, TokensStep DEF IInv
<1> QED
  BY InvInit, <1>1, PTL DEF Spec

(* Every variable keeps its type, and each lock is with a request that is   *)
(* where the code holds it.                                                 *)
THEOREM TypesHold == Spec => []TypeOK
<1>1. IInv => TypeOK
  BY DEF IInv
<1> QED
  BY Invariant, <1>1, PTL

(* Whatever ends a login, its preview and its sockets end with it           *)
(* (_revoke_login_locked), and the two tables of sockets agree.             *)
THEOREM NothingOutlivesLogins == Spec => []NothingOutlivesItsLogin
<1>1. IInv => NothingOutlivesItsLogin
  BY DEF IInv
<1> QED
  BY Invariant, <1>1, PTL

(* What is imported is a file that the same login was shown the preview of, *)
(* and no preview is imported twice: a token is with one login or with one  *)
(* confirmation.                                                            *)
THEOREM ImportsArePreviews == Spec => []ImportIsItsPreview
<1>1. IInv => ImportIsItsPreview
  <2> SUFFICES ASSUME IInv, NEW r \in Request, req[r].pc = "imported"
               PROVE  /\ [token |-> req[r].consumed.token, login |-> req[r].login,
                           file |-> req[r].file] \in shown
                      /\ \A s \in Request \ {r} :
                            req[s].pc = "imported" => req[s].consumed.token # req[r].consumed.token
    BY DEF ImportIsItsPreview
  <2>1. \A s \in Request : req[s].pc = "imported" =>
           req[s].action = "confirm" /\ req[s].file = req[s].consumed.file
    BY DEF IInv, Carries
  <2> QED
    BY <2>1 DEF IInv, PreviewsWereShown, TokensAreUnique
<1> QED
  BY Invariant, <1>1, PTL

(* An import commits only while its login stands, nothing newer has come in *)
(* and none of its accounts exists: the locks keep what was looked at.      *)
THEOREM CommitsAreStillWanted == Spec => CommitIsStillWanted
<1> DEFINE Wanted ==
        \A r \in Request : req[r].pc # "imported" /\ req'[r].pc = "imported" =>
            /\ grants[req[r].login] \in {"live", "expired"}
            /\ epoch[req[r].login] = req[r].epoch
            /\ req[r].file \cap users = {}
<1>1. IInv /\ [Next]_vars => [Wanted]_vars
  <2> SUFFICES ASSUME IInv, Next, NEW r \in Request, req[r].pc # "imported",
                      req'[r].pc = "imported"
               PROVE  /\ grants[req[r].login] \in {"live", "expired"}
                      /\ epoch[req[r].login] = req[r].epoch
                      /\ req[r].file \cap users = {}
    OBVIOUS
  <2>1. req[r].pc = "commit"
    BY OnlyCommitsImport DEF IInv
  <2> QED
    BY <2>1 DEF IInv, CommitIsDue
<1> QED
  BY Invariant, <1>1, PTL DEF Spec, CommitIsStillWanted
=============================================================================

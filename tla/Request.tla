------------------------------ MODULE Request ------------------------------
(***************************************************************************)
(* NTRIPHandler in src/ntrip.py from the first byte to the stream: reading  *)
(* the header, parsing it (RequestSyntax), verifying the client against the *)
(* database, the RTSP commands, answers, and the bytes behind the header,   *)
(* which are the first of an upload or a rover's position (RoverGGA).       *)
(* Meanwhile the pages change mount points (api_mount_detail in web.py).    *)
(*                                                                         *)
(* What a client sends is fixed from the start; how it is cut into pieces   *)
(* is not.  Who may take over a mount point and everything after the        *)
(* registration are SourceSession's and DownloadSession's subjects.         *)
(***************************************************************************)
EXTENDS Integers, FiniteSets, SequencesExt, RequestSyntax, RoverGGA

CONSTANTS
    Handler,
    Byte,
    Conversations,  \* what the handlers' clients may send, together: each one
                    \*   Silence, or a request with its head, whole (the
                    \*   header's end is sent) and tail
    Mount, User,
    Database,       \* the initial database
    Password,       \* of mount points
    Edits,          \* what a PUT of the pages may ask for, of all Edit
    BUFFER_SIZE, MAX_INITIAL_HEADER_SIZE, MAX_CONNECTIONS_PER_USER,
    MaxEdits        \* bound: requests to the pages

Row == [password : Password, owner : User \cup {None}]
(* A name or password of None is kept, an owner of None is taken away. *)
Edit == [mount : Mount \cup {None}, password : Password \cup {None}, owner : User \cup {None}]
INITIAL_HEADER_DELIMITER == <<CR, LF, CR, LF>>
Silence == [verb |-> None]
Stream(c) == c.head \o (IF c.whole THEN INITIAL_HEADER_DELIMITER ELSE <<>>) \o c.tail
Ends(bytes, i) == SubSeq(bytes, i, i + 3) = INITIAL_HEADER_DELIMITER

ASSUME RequestAssumption ==
    /\ BUFFER_SIZE \in Nat \ {0} /\ MAX_INITIAL_HEADER_SIZE \in Nat \ {0}
    /\ MAX_CONNECTIONS_PER_USER \in Nat \ {0} /\ MaxEdits \in Nat
    /\ MAX_ACCUMULATOR_SIZE \in Nat /\ MAX_SENTENCE_SIZE < MAX_ACCUMULATOR_SIZE
    /\ SafeMount \subseteq Mount /\ None \notin Mount \cup User \cup {Root}
    /\ {CR, LF} \subseteq Byte /\ Edits \subseteq Edit
    /\ None \notin Row \cup Edit \cup Password

(* The head of a request ends where its first delimiter is. *)
IsRequest(c) ==
    /\ c.head \in Seq(Byte) /\ c.tail \in Seq(Byte) /\ c.whole \in BOOLEAN
    /\ \A i \in 1 .. Len(Stream(c)) - 3 : Ends(Stream(c), i) => c.whole /\ i > Len(c.head)
    /\ c.auth = None \/ c.auth.user \in User \cup {None}
    /\ c.gga = None \/ c.gga \in Seq(Byte)

ASSUME ConversationAssumption ==
    \A c \in Conversations :
        DOMAIN c = Handler /\ \A h \in Handler : c[h] # Silence => IsRequest(c[h])

ASSUME DatabaseAssumption ==
    /\ DOMAIN Database = {"mounts", "users"}
    /\ Database.mounts \in [Mount -> Row \cup {None}] /\ DOMAIN Database.users = User

VARIABLES
    pc,       \* the step of each handler
    conv,     \* what its client sends
    read,     \* bytes taken from the socket
    rest,     \* bytes behind the header that nobody has used yet
    task,     \* upload, download or rtsp: on whose behalf verify_user runs
    key,      \* the password that goes to the database
    answers,  \* status lines sent
    buffer,   \* of the handler's RoverGGAAccumulator
    pos,      \* the position in the rover's entry of online_users
    stored,   \* what upload_data was given
    db,       \* mounts (password and owner) and users (stored password)
    page,     \* a request to api_mount_detail: step, mount point, the edit or
              \*   None for the deletion
    edits,
    seen,     \* history: the rows that verified the client
    late,     \* history: sources registered on a mount point already gone
    moved     \* history: sources under which a mount point was renamed

input == <<conv, read, rest>>
output == <<buffer, pos, stored>>
database == <<db, page, edits>>
history == <<seen, late, moved>>
vars == <<pc, input, task, key, answers, output, database, history>>

NoPage == [step |-> "idle", mount |-> None, edit |-> None]

Init ==
    /\ pc = [h \in Handler |-> "idle"]
    /\ conv \in Conversations
    /\ read = [h \in Handler |-> 0] /\ rest = [h \in Handler |-> <<>>]
    /\ task = [h \in Handler |-> "none"] /\ key = [h \in Handler |-> None]
    /\ answers = [h \in Handler |-> <<>>]
    /\ buffer = [h \in Handler |-> <<>>] /\ pos = [h \in Handler |-> NoFix]
    /\ stored = [h \in Handler |-> <<>>]
    /\ db = Database /\ page = NoPage /\ edits = 0
    /\ seen = [h \in Handler |-> None] /\ late = {} /\ moved = {}

Line(h) == _parse_request_line(conv[h])
Protocol(h) == _determine_ntrip_version(conv[h])
(* The mount point a handler takes its path for: an rtsp URL is taken apart *)
(* for RTSP's commands only, to GET and POST it is a name nobody has.       *)
Name(h) == LET p == Line(h) IN
    IF p.path.scheme = "rtsp" /\ p.method \notin RtspVerbs THEN None ELSE p.path.mount

Goto(h, label) == pc' = [pc EXCEPT ![h] = label]
Dialect(h) == IF SpeaksHttp(Protocol(h)) THEN "HTTP" ELSE "ICY"
Say(h, dialect, code) == answers' = [answers EXCEPT ![h] = Append(@, <<dialect, code>>)]
Finish(h, dialect, code) == Say(h, dialect, code) /\ Goto(h, "closed")
(* send_error_response and send_auth_challenge, after which the handler ends. *)
Refuse(h, code) == Finish(h, Dialect(h), code)
Serving(kind) == {h \in Handler : pc[h] \in {"rover", "serving"} /\ task[h] = kind}

Connect(h) ==
    /\ pc[h] = "idle" /\ conv[h] # Silence
    /\ Goto(h, "recv")
    /\ UNCHANGED <<input, task, key, answers, output, database, history>>

----------------------------------------------------------------------------
(* _receive_initial_request. *)

Least(S) == CHOOSE i \in S : \A j \in S : i <= j
Find(bytes) ==
    LET at == {i \in 1 .. Len(bytes) - 3 : Ends(bytes, i)}
    IN  IF at = {} THEN 0 ELSE Least(at)
Pieces(h, limit) == 1 .. Least({BUFFER_SIZE, limit, Len(Stream(conv[h])) - read[h]})

(* A piece arrives: the header is complete, or too long, or goes on. *)
RecvPiece(h) ==
    \E k \in Pieces(h, MAX_INITIAL_HEADER_SIZE - read[h]) :
        LET bytes == SubSeq(Stream(conv[h]), 1, read[h] + k)
            at    == Find(bytes)
        IN  /\ read' = [read EXCEPT ![h] = @ + k]
            /\ IF at > 0
               THEN rest' = [rest EXCEPT ![h] = SubSeq(bytes, at + 4, Len(bytes))] /\ Goto(h, "handle")
               ELSE /\ Goto(h, IF Len(bytes) >= MAX_INITIAL_HEADER_SIZE THEN "closed" ELSE "recv")
                    /\ UNCHANGED rest
            /\ UNCHANGED answers

(* Mutant: the socket has no time-out. *)
RecvNeverEnds(h) == FALSE

(* The peer is done, which leaves an incomplete line that may or may not    *)
(* parse; or recv times out or finds the connection reset; or it fails      *)
(* otherwise.                                                               *)
RecvEnds(h) ==
    /\ \/ /\ read[h] = Len(Stream(conv[h])) /\ read[h] > 0
          /\ Finish(h, "ICY", 400)
       \/ Goto(h, "closed") /\ UNCHANGED answers
       \/ Finish(h, "ICY", 500)
    /\ UNCHANGED <<read, rest>>

Recv(h) ==
    /\ pc[h] = "recv"
    /\ RecvPiece(h) \/ RecvEnds(h)
    /\ UNCHANGED <<conv, task, key, output, database, history>>

----------------------------------------------------------------------------
(* handle_request with a complete header. *)

Verify(h, kind) == task' = [task EXCEPT ![h] = kind] /\ Goto(h, "verify") /\ UNCHANGED answers

Handle(h) ==
    LET p == Line(h)
        route == Route(p, Protocol(h))
    IN
    /\ pc[h] = "handle"
    /\ CASE ~p.ok -> Finish(h, "ICY", 400) /\ UNCHANGED task
         [] p.ok /\ ~_is_valid_request(conv[h], p, Protocol(h)) -> Refuse(h, 400) /\ UNCHANGED task
         [] p.ok /\ _is_valid_request(conv[h], p, Protocol(h)) ->
              \/ /\ route \in {"upload", "rtsp"} /\ Name(h) = Root
                 /\ Refuse(h, 400) /\ UNCHANGED task
              \/ /\ route \in {"upload", "download", "rtsp"} /\ Name(h) # Root
                 /\ Verify(h, route)
              \/ /\ route = "download" /\ Name(h) = Root
                 /\ Refuse(h, 200) /\ UNCHANGED task
              \/ /\ route = "page" /\ Name(h) = Root
                 /\ Finish(h, "HTTP", 200) /\ UNCHANGED task
              \/ route = "page" /\ Name(h) # Root /\ Refuse(h, 404) /\ UNCHANGED task
              \/ route = "options" /\ Finish(h, "HTTP", 200) /\ UNCHANGED task
              \/ route = "none" /\ Refuse(h, 405) /\ UNCHANGED task
    /\ UNCHANGED <<input, key, output, database, history>>

----------------------------------------------------------------------------
(* verify_user. *)

(* What the client shows counts by the protocol: Authorization for all but  *)
(* NTRIP 0.8, which has only the password of the request line; that one is  *)
(* the next choice of NTRIP 1.0, and the others' if there is no header.     *)
Claim(h) ==
    LET a == conv[h].auth  p == Protocol(h)
        scheme(s) == a # None /\ a.scheme = s
        word == Line(h).password # None
    IN  CASE p = "ntrip0_8" -> IF word THEN "word" ELSE "none"
          [] p # "ntrip0_8" /\ scheme("Basic") -> "Basic"
          [] p \notin {"ntrip0_8", "http"} /\ scheme("Digest") -> "Digest"
          [] OTHER -> IF /\ word
                         /\ \/ p \in {"ntrip1_0", "ntrip1_0_http"}
                            \/ p \in {"ntrip2_0", "rtsp"} /\ a = None
                      THEN "word" ELSE "none"

UserOf(h) == IF conv[h].auth = None THEN None ELSE conv[h].auth.user

(* A Basic header that cannot be decoded has no user in it. *)
VerifyUser(h) ==
    /\ pc[h] = "verify"
    /\ \/ /\ Claim(h) = "none" \/ (Claim(h) # "word" /\ UserOf(h) = None)
          /\ Refuse(h, 401) /\ UNCHANGED key
       \/ /\ Claim(h) = "word" \/ (Claim(h) = "Basic" /\ UserOf(h) # None)
          /\ key' = [key EXCEPT ![h] = IF Claim(h) = "word" THEN Line(h).password
                                       ELSE conv[h].auth.password]
          /\ Goto(h, "rows") /\ UNCHANGED answers
       \/ /\ Claim(h) = "Digest" /\ UserOf(h) # None
          /\ Goto(h, "digest") /\ UNCHANGED <<key, answers>>
    /\ UNCHANGED <<input, task, output, database, history>>

(* _validate_digest_response with the stored text as the password, the      *)
(* method of the request and the mount point's name for the URI.            *)
DigestMatches(h, text) ==
    /\ conv[h].auth.password = text
    /\ conv[h].auth.method = Line(h).method /\ conv[h].auth.uri = Name(h)

(* A user's password is stored as it is, or, by hash_password, as a text    *)
(* with a "$" that nobody takes for another password's.                     *)
Stored(word) == [hashed |-> FALSE, word |-> word]
hash_password(word) == [hashed |-> TRUE, word |-> word]
TextOf(entry) == IF entry.hashed THEN entry ELSE entry.word

(* The first half of _verify_digest_auth; the stored text, a hash as well,  *)
(* goes on as if the client had sent it.                                    *)
Digest(h) ==
    LET entry == db.users[conv[h].auth.user] IN
    /\ pc[h] = "digest"
    /\ IF entry # None /\ DigestMatches(h, TextOf(entry))
       THEN key' = [key EXCEPT ![h] = TextOf(entry)] /\ Goto(h, "rows") /\ UNCHANGED answers
       ELSE Refuse(h, 401) /\ UNCHANGED key
    /\ UNCHANGED <<input, task, output, database, history>>

(* With a "$" the hash of what was given counts, and nothing else does. *)
verify_password(entry, given) ==
    IF entry.hashed THEN hash_password(given) = entry ELSE given = TextOf(entry)

(* verify_mount_and_user of a row and a table of users. *)
verify_mount_and_user(row, users, user, given, version) ==
    /\ row # None
    /\ \/ /\ version = "2.0"
          /\ users[user] # None /\ verify_password(users[user], given)
          /\ row.owner \in {None, user}
       \/ version = "1.0" /\ row.password = given

RowOf(m) == IF m \in Mount THEN db.mounts[m] ELSE None
Asks(h) == IF Claim(h) # "word" /\ Protocol(h) = "ntrip2_0" THEN "2.0" ELSE "1.0"
ToLimit(h) == Goto(h, IF Claim(h) = "word" THEN "accepted" ELSE "limit")
See(h, mounts, users) == seen' = [seen EXCEPT ![h] = [mounts |-> mounts, users |-> users]]

(* Mutant: an owner in the row is not looked at. *)
UploadRowsUnbound(h) ==
    LET row == RowOf(Name(h)) IN
    IF verify_mount_and_user(IF row = None THEN None ELSE [row EXCEPT !.owner = None],
                             db.users, UserOf(h),
                             key[h], Asks(h))
    THEN See(h, db.mounts, db.users) /\ ToLimit(h) /\ UNCHANGED answers
    ELSE Refuse(h, 401) /\ UNCHANGED seen

(* A source, or any RTSP command, is verified under db_lock, ... *)
UploadRows(h) ==
    IF verify_mount_and_user(RowOf(Name(h)), db.users,
                             UserOf(h),
                             key[h], Asks(h))
    THEN See(h, db.mounts, db.users) /\ ToLimit(h) /\ UNCHANGED answers
    ELSE Refuse(h, 401) /\ UNCHANGED seen

(* ... a rover by verify_download_user, with one query after the other. *)
DownloadMountRow(h) ==
    IF RowOf(Name(h)) # None
    THEN See(h, db.mounts, db.users) /\ Goto(h, "user") /\ UNCHANGED answers
    ELSE Refuse(h, 401) /\ UNCHANGED seen

Rows(h) ==
    /\ pc[h] = "rows"
    /\ \/ task[h] \in {"upload", "rtsp"} /\ UploadRows(h)
       \/ task[h] = "download" /\ DownloadMountRow(h)
    /\ UNCHANGED <<input, task, key, output, database, late, moved>>

DownloadUserRow(h) ==
    LET entry == db.users[conv[h].auth.user] IN
    /\ pc[h] = "user"
    /\ IF entry # None /\ verify_password(entry, key[h])
       THEN See(h, seen[h].mounts, db.users) /\ Goto(h, "limit") /\ UNCHANGED answers
       ELSE Refuse(h, 401) /\ UNCHANGED seen
    /\ UNCHANGED <<input, task, key, output, database, late, moved>>

get_user_connection_count(u) == Cardinality({d \in Serving("download") : UserOf(d) = u})

(* The number of the user's connections right now. *)
Limit(h) ==
    /\ pc[h] = "limit"
    /\ IF get_user_connection_count(UserOf(h)) < MAX_CONNECTIONS_PER_USER
       THEN Goto(h, "accepted") /\ UNCHANGED answers
       ELSE Refuse(h, 401)
    /\ UNCHANGED <<input, task, key, output, database, history>>

----------------------------------------------------------------------------
(* What the verified client gets. *)

check_mount_exists(m) == \E d \in Serving("upload") : Name(d) = m

(* handle_rtsp_command: PLAY and RECORD say 200 and then go through         *)
(* handle_download and handle_upload, which verify and answer again.        *)
RtspCommand(h) ==
    LET verb == Line(h).method IN
    /\ task[h] = "rtsp"
    /\ \/ /\ verb \in {"DESCRIBE", "SETUP"} /\ ~check_mount_exists(Name(h))
          /\ Finish(h, IF verb = "SETUP" THEN "RTSP" ELSE "ICY", 404) /\ UNCHANGED task
       \/ /\ verb \in {"DESCRIBE", "SETUP"} /\ check_mount_exists(Name(h))
          /\ Finish(h, "RTSP", 200) /\ UNCHANGED task
       \/ verb \in {"PAUSE", "TEARDOWN"} /\ Finish(h, "RTSP", 200) /\ UNCHANGED task
       \/ /\ verb \in {"PLAY", "RECORD"}
          /\ Say(h, "RTSP", 200) /\ Goto(h, "verify")
          /\ task' = [task EXCEPT ![h] = IF verb = "PLAY" THEN "download" ELSE "upload"]

(* A rover's mount point is looked up once more. *)
Accepted(h) ==
    /\ pc[h] = "accepted"
    /\ \/ RtspCommand(h)
       \/ /\ task[h] = "upload" /\ Goto(h, "register") /\ UNCHANGED <<answers, task>>
       \/ /\ task[h] = "download" /\ db.mounts[Name(h)] # None
          /\ Goto(h, "register") /\ UNCHANGED <<answers, task>>
       \/ /\ task[h] = "download" /\ db.mounts[Name(h)] = None
          /\ Refuse(h, 404) /\ UNCHANGED task
    /\ UNCHANGED <<input, key, output, database, history>>

(* Registration and the 200; a mount point that is taken is refused, and    *)
(* either can fail, which takes it back (SourceSession, DownloadSession).   *)
Register(h) ==
    /\ pc[h] = "register"
    /\ \/ /\ task[h] = "upload" => ~check_mount_exists(Name(h))
          /\ Say(h, Dialect(h), 200)
          /\ Goto(h, IF task[h] = "upload" THEN "serving" ELSE "rover")
          /\ late' = IF task[h] = "upload" /\ db.mounts[Name(h)] = None THEN late \cup {h} ELSE late
       \/ /\ task[h] = "upload" /\ check_mount_exists(Name(h))
          /\ Refuse(h, 409) /\ UNCHANGED late
       \/ Goto(h, "closed") /\ UNCHANGED <<answers, late>>
    /\ UNCHANGED <<input, task, key, output, database, seen, moved>>

(* _consume_rover_gga: update_rover_gga for every sentence that is complete. *)
ConsumeRoverGga(h, bytes) ==
    LET fed   == feed(buffer[h], bytes)
        valid == {i \in DOMAIN fed.parsed : fed.parsed[i] # NoFix}
    IN  /\ buffer' = [buffer EXCEPT ![h] = fed.buffer]
        /\ pos' = [pos EXCEPT ![h] = IF valid = {} THEN @ ELSE fed.parsed[Max(valid)]]

(* The Ntrip-GGA header as a line of its own. *)
GgaLine(c) == IF c.gga = None THEN <<>> ELSE c.gga \o <<CR, LF>>

(* _process_initial_rover_gga: the header, and what followed a GET. *)
InitialRoverGga(h) ==
    /\ pc[h] = "rover"
    /\ ConsumeRoverGga(h, GgaLine(conv[h]) \o (IF Line(h).method = "GET" THEN rest[h] ELSE <<>>))
    /\ rest' = [rest EXCEPT ![h] = <<>>]
    /\ Goto(h, "serving")
    /\ UNCHANGED <<conv, read, task, key, answers, stored, database, history>>

(* Mutant: the bytes that came with the header are not uploaded. *)
UploadPieceSkipsRest(h) ==
    /\ rest' = [rest EXCEPT ![h] = <<>>]
    /\ \E k \in Pieces(h, BUFFER_SIZE) :
          /\ read' = [read EXCEPT ![h] = @ + k]
          /\ stored' = [stored EXCEPT ![h] =
                           @ \o SubSeq(Stream(conv[h]), read[h] + 1, read[h] + k)]

(* _receive_rtcm_data: what came with the header of SOURCE or POST first.   *)
UploadPiece(h) ==
    \/ /\ rest[h] # <<>> /\ Line(h).method # "RECORD"
       /\ stored' = [stored EXCEPT ![h] = @ \o rest[h]]
       /\ rest' = [rest EXCEPT ![h] = <<>>]
       /\ UNCHANGED read
    \/ /\ rest[h] = <<>> \/ Line(h).method = "RECORD"
       /\ \E k \in Pieces(h, BUFFER_SIZE) :
             /\ read' = [read EXCEPT ![h] = @ + k]
             /\ stored' = [stored EXCEPT ![h] =
                              @ \o SubSeq(Stream(conv[h]), read[h] + 1, read[h] + k)]
       /\ UNCHANGED rest

(* _keep_connection_alive: the rover's bytes. *)
RoverPiece(h) ==
    \E k \in Pieces(h, BUFFER_SIZE) :
        /\ read' = [read EXCEPT ![h] = @ + k]
        /\ ConsumeRoverGga(h, SubSeq(Stream(conv[h]), read[h] + 1, read[h] + k))

ServePiece(h) ==
    /\ pc[h] = "serving"
    /\ \/ task[h] = "upload" /\ UploadPiece(h) /\ UNCHANGED <<buffer, pos>>
       \/ task[h] = "download" /\ RoverPiece(h) /\ UNCHANGED <<rest, stored>>
    /\ UNCHANGED <<pc, conv, task, key, answers, database, history>>

(* The connection ends: peer, time-out, eviction or shutdown. *)
ServeEnds(h) ==
    /\ pc[h] = "serving"
    /\ Goto(h, "closed")
    /\ UNCHANGED <<input, task, key, answers, output, database, history>>

----------------------------------------------------------------------------
(* api_mount_detail. *)

(* DELETE or PUT: in both cases the rovers of the mount point are           *)
(* disconnected first, by a PUT even if there is no such mount point.       *)
DisconnectMount ==
    /\ page.step = "idle" /\ edits < MaxEdits
    /\ edits' = edits + 1
    /\ \E m \in Mount, e \in Edits \cup {None} :
          /\ e = None => db.mounts[m] # None
          /\ e # None => /\ e.mount \in {n \in Mount : db.mounts[n] = None} \cup {m, None}
                         /\ e.owner \in {u \in User : db.users[u] # None} \cup {None}
          /\ page' = [step |-> "row", mount |-> m, edit |-> e]
          /\ pc' = [h \in Handler |-> IF h \in Serving("download") /\ Name(h) = m
                                      THEN "closed" ELSE pc[h]]
    /\ UNCHANGED <<input, task, key, answers, output, db, history>>

(* delete_mount, after which the source is looked for, ... *)
DeleteRow ==
    /\ page.step = "row" /\ page.edit = None
    /\ db' = [db EXCEPT !.mounts[page.mount] = None]
    /\ page' = [page EXCEPT !.step = "source"]
    /\ UNCHANGED <<pc, input, task, key, answers, output, edits, history>>

NewName(m, e) == IF e.mount = None THEN m ELSE e.mount
Edited(row, e) ==
    [password |-> IF e.password = None THEN row.password ELSE e.password, owner |-> e.owner]
(* The table once the row of mount point m is edited. *)
Updated(mounts, m, e) ==
    [n \in Mount |-> IF n = NewName(m, e) THEN Edited(mounts[m], e)
                     ELSE IF n = m THEN None ELSE mounts[n]]

(* ... or update_mount: a source goes on under the name that it came with,  *)
(* whether or not the row still has it.                                     *)
UpdateRow ==
    LET m == page.mount  e == page.edit IN
    /\ page.step = "row" /\ e # None
    /\ \/ db.mounts[m] = None /\ UNCHANGED <<db, moved>>
       \/ /\ db.mounts[m] # None
          /\ db' = [db EXCEPT !.mounts = Updated(@, m, e)]
          /\ moved' = IF NewName(m, e) = m THEN moved
                      ELSE moved \cup {h \in Serving("upload") : Name(h) = m}
    /\ page' = NoPage
    /\ UNCHANGED <<pc, input, task, key, answers, output, edits, seen, late>>

(* Mutant: the deletion leaves the source alone. *)
KeepSource ==
    /\ page.step = "source"
    /\ page' = NoPage
    /\ UNCHANGED <<pc, input, task, key, answers, output, db, edits, history>>

(* remove_mount_connection of whoever is the mount point's source now. *)
RemoveSource ==
    /\ page.step = "source"
    /\ pc' = [h \in Handler |-> IF h \in Serving("upload") /\ Name(h) = page.mount
                                THEN "closed" ELSE pc[h]]
    /\ page' = NoPage
    /\ UNCHANGED <<input, task, key, answers, output, db, edits, history>>

----------------------------------------------------------------------------
HandlerStep(h) ==
    \/ Recv(h) \/ Handle(h) \/ VerifyUser(h) \/ Digest(h) \/ Rows(h) \/ DownloadUserRow(h)
    \/ Limit(h) \/ Accepted(h) \/ Register(h)

ServeStep(h) == InitialRoverGga(h) \/ ServePiece(h) \/ ServeEnds(h)

Next ==
    \/ \E h \in Handler : Connect(h) \/ HandlerStep(h) \/ ServeStep(h)
    \/ DisconnectMount \/ DeleteRow \/ UpdateRow \/ RemoveSource

Spec == Init /\ [][Next]_vars

(* A handler's thread runs, and every recv of a header ends: in data, or by *)
(* the socket's time-out.  Nothing is assumed of the peers and the pages.   *)
FairSpec == Spec /\ \A h \in Handler : WF_vars(HandlerStep(h))
----------------------------------------------------------------------------
(* Who may have what, of what the client has shown, whatever the protocol:  *)
(* a source shows the mount point's password, or the password of a user who *)
(* may use the mount point; a rover shows the password of a user.  That is  *)
(* the user's own word, however it is stored: the hash shows nothing.  A    *)
(* digest shows what it is made of, for this method and mount point; the    *)
(* line shows its words and the password in an URL.                         *)
Shown(c, method, m) ==
    LET a == c.auth IN
    IF a # None /\ a.user # None
       /\ (a.scheme = "Basic" \/ (a.method = method /\ a.uri = m))
    THEN {a.password} ELSE {}
LineShows(c) == {c.secret, c.target} \cup (IF c.target = None THEN {} ELSE {c.target.login})

UserShown(c, shown, users, allowed) ==
    /\ shown # {} /\ c.auth.user \in allowed /\ users[c.auth.user] # None
    /\ users[c.auth.user].word \in shown

MayUpload(c, method, m, mounts, users) ==
    LET shown == Shown(c, method, m) IN
    /\ mounts[m] # None
    /\ \/ mounts[m].password \in shown \cup LineShows(c)
       \/ UserShown(c, shown, users,
                    IF mounts[m].owner = None THEN User ELSE {mounts[m].owner})

MayDownload(c, method, m, mounts, users) ==
    mounts[m] # None /\ UserShown(c, Shown(c, method, m), users, User)

TypeOK ==
    /\ pc \in [Handler -> {"idle", "recv", "handle", "verify", "digest", "rows", "user", "limit",
                           "accepted", "register", "rover", "serving", "closed"}]
    /\ conv \in Conversations
    /\ \A h \in Handler : /\ read[h] \in 0 .. (IF conv[h] = Silence THEN 0 ELSE Len(Stream(conv[h])))
                          /\ pos[h] \in Fixes \cup {NoFix}
    /\ task \in [Handler -> {"none", "upload", "download", "rtsp"}]
    /\ DOMAIN db = {"mounts", "users"} /\ DOMAIN db.users = User
    /\ db.mounts \in [Mount -> Row \cup {None}]
    /\ edits \in 0 .. MaxEdits /\ late \cup moved \subseteq Handler

(* Whoever feeds a mount point or reads it has shown what this takes, for   *)
(* the rows that were in the database when they were read: through eight    *)
(* ways to say it, seven protocols' choices between them, and RTSP's two    *)
(* verifications.                                                           *)
ServedIsVerified ==
    /\ \A h \in Serving("upload") :
          MayUpload(conv[h], Line(h).method, Name(h), seen[h].mounts, seen[h].users)
    /\ \A h \in Serving("download") :
          MayDownload(conv[h], Line(h).method, Name(h), seen[h].mounts, seen[h].users)

(* No cut loses, repeats or reorders a byte of a source: what has been      *)
(* uploaded and what is still held are exactly what followed the header.    *)
(* (RTSP's RECORD does lose what came with its header.)                     *)
TailIsKept ==
    \A h \in Serving("upload") : Line(h).method # "RECORD" =>
        stored[h] \o rest[h] = SubSeq(Stream(conv[h]), Len(conv[h].head) + 5, read[h])

(* However a rover's bytes are cut, and although only the end of a long     *)
(* line is kept, its position is the one of the last sentence that was      *)
(* completed, counting the header field, and what came with a GET.          *)
Heard(h) == GgaLine(conv[h]) \o SubSeq(Stream(conv[h]), Len(conv[h].head) + 5, read[h])

PositionIsLastGga ==
    \A h \in Serving("download") :
        pc[h] = "serving" /\ Line(h).method = "GET" /\ EndsInTime(Heard(h)) =>
            pos[h] = LastPosition(Heard(h))

(* A source that feeds a mount point without a row has a reason: it was     *)
(* verified before and registered after the row went, or the row was renamed *)
(* under it.  No source that was there survives a deletion once it is over, *)
(* whatever names the rows had before.                                      *)
OrphanSourceHasReason ==
    \A h \in Serving("upload") :
        db.mounts[Name(h)] = None /\ page.step = "idle" => h \in late \cup moved

(* Every request ends in an answered or closed connection or in a stream.   *)
RequestEnds == \A h \in Handler : pc[h] = "recv" ~> pc[h] \in {"rover", "serving", "closed"}
=============================================================================

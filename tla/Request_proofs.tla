---------------------------- MODULE Request_proofs ----------------------------
(***************************************************************************)
(* Proofs about Request.  The inductive invariant IInv has, besides types,  *)
(* four parts of each handler: who its client is (RequestIsKnown, KeyIsShown *)
(* and RowsAgree: the password that goes to the database was shown, and the  *)
(* rows seen agree with it), where its bytes are (TailIsHeld), what its      *)
(* accumulator has heard (RoverIsHeard, which rests on the lemmas about      *)
(* RoverGGA) and why it is still there when its mount point is not           *)
(* (OrphanHasReason).                                                        *)
(*                                                                         *)
(* An equation between sequences is wrapped into an operator of its own     *)
(* (PartIsPart, Joins, EndsIn, ...) where it goes from one lemma to another. *)
(***************************************************************************)
EXTENDS Request, FiniteSetTheorems, SequenceTheorems, WellFoundedInduction, TLAPS

(* The steps of a handler, and those of a client being verified, of one     *)
(* whose password is known, and of one that the rows have let through.      *)
Labels ==
    {"idle", "recv", "handle", "verify", "digest", "rows", "user", "limit", "accepted",
     "register", "rover", "serving", "closed"}
Verifying == {"verify", "digest", "rows", "user", "limit", "accepted", "register", "rover",
              "serving"}
Keyed == Verifying \ {"verify", "digest"}
Passed == Keyed \ {"rows", "user"}

(* What the header's end and its request line have settled. *)
RequestIsKnown(h) ==
    pc[h] \in Verifying =>
        /\ Line(h).ok /\ task[h] \in {"upload", "download", "rtsp"}
        /\ task[h] = "download" => Line(h).method \in {"GET", "PLAY"}

(* The password that goes to the database is one that the client has shown. *)
Shows(h, word) ==
    \/ Claim(h) = "word" /\ Line(h).password # None /\ word = Line(h).password
    \/ Claim(h) = "Basic" /\ UserOf(h) # None /\ word = conv[h].auth.password
    \/ Claim(h) = "Digest" /\ UserOf(h) # None /\ DigestMatches(h, word)

(* From the first query on, the key is what the client has shown.           *)
KeyIsShown(h) == pc[h] \in Keyed => Shows(h, key[h])

(* The rows that were seen let the client through, as whom it came. *)
RowsAgree(h) ==
    /\ pc[h] = "user" => task[h] = "download"
    /\ pc[h] = "rover" => task[h] # "upload"
    /\ pc[h] \in Passed \cup {"user"} => Name(h) \in Mount /\ seen[h].mounts[Name(h)] # None
    /\ pc[h] \in Passed /\ task[h] # "download" =>
          verify_mount_and_user(seen[h].mounts[Name(h)], seen[h].users, UserOf(h), key[h], Asks(h))
    /\ pc[h] \in Passed /\ task[h] = "download" =>
          /\ seen[h].users[UserOf(h)] # None
          /\ verify_password(seen[h].users[UserOf(h)], key[h])

----------------------------------------------------------------------------
(* The password of a request line is one of its words, and only a source's  *)
(* and an administrator's line has one.                                     *)
LEMMA LinePassword ==
    ASSUME NEW h, Line(h).ok, Line(h).password # None
    PROVE  /\ Line(h).password \in LineShows(conv[h])
           /\ Line(h).method \in {"SOURCE", "ADMIN"}
<1> DEFINE c == conv[h]  w == AsThreeWords(c)
           admin == c.verb = "ADMIN" /\ w.secret # None
<1>1. c.target # None
  BY DEF Line, _parse_request_line, Malformed
<1>2. \/ w = c
      \/ /\ w.secret = c.target
         /\ w.target.login = None
  BY DEF AsThreeWords
<1>3. w.secret \in LineShows(c)
  BY <1>2 DEF LineShows
<1> HIDE DEF w
<1>4. CASE Upper(c.verb) = "SOURCE"
  <2>1. c.verb # "ADMIN"
    BY <1>4 DEF Upper
  <2>2. Line(h) = _parse_source_url_format(w)
    BY <1>1, <1>4, <2>1, Zenon DEF Line, _parse_request_line, w
  <2>3. /\ Line(h).method = "SOURCE"
        /\ Line(h).password = IF IsUrl(w.target) /\ w.target.login # None
                              THEN w.target.login ELSE w.secret
    BY <2>2 DEF _parse_source_url_format, Malformed, Parsed
  <2>4. CASE IsUrl(w.target) /\ w.target.login # None
    <3>1. w = c
      BY <1>2, <2>4
    <3> QED
      BY <1>1, <2>3, <2>4, <3>1 DEF LineShows
  <2>5. CASE ~(IsUrl(w.target) /\ w.target.login # None)
    BY <1>3, <2>3, <2>5
  <2> QED
    BY <2>4, <2>5
<1>5. CASE Upper(c.verb) # "SOURCE" /\ admin
  <2>1. Line(h) = Parsed("ADMIN", Rooted(w.target), w.secret)
    BY <1>1, <1>5, Zenon DEF Line, _parse_request_line, w
  <2> QED
    BY <1>3, <2>1 DEF Parsed
<1>6. CASE Upper(c.verb) # "SOURCE" /\ ~admin
  <2>1. Line(h) = IF c.secret # None \/ c.proto = None THEN Malformed
                  ELSE IF c.proto = "RTSP/1.0"
                  THEN Parsed(c.verb, [scheme |-> c.target.scheme, mount |-> c.target.mount], None)
                  ELSE Parsed(c.verb, Rooted(c.target), None)
    BY <1>1, <1>6, Zenon DEF Line, _parse_request_line, w
  <2> QED
    BY <2>1 DEF Parsed, Malformed
<1> QED
  BY <1>4, <1>5, <1>6

(* Only the user's own word, stored as it is or hashed, is its password.    *)
LEMMA OnlyTheWordVerifies ==
    ASSUME NEW entry, NEW given, verify_password(entry, given)
    PROVE  entry.word = given
<1>1. CASE entry.hashed
  <2>1. hash_password(given) = entry
    BY <1>1, Zenon DEF verify_password
  <2>2. hash_password(given).word = given
    BY DEF hash_password
  <2> QED
    BY <2>1, <2>2, Zenon
<1>2. CASE ~entry.hashed
  BY <1>2 DEF verify_password, TextOf
<1> QED
  BY <1>1, <1>2

(* Serving a client whose key was shown and whose rows agree is allowed. *)
LEMMA UploadIsAllowed ==
    ASSUME NEW h \in Handler, pc[h] \in Passed, task[h] = "upload",
           RequestIsKnown(h), KeyIsShown(h), RowsAgree(h),
           conv[h].auth = None \/ conv[h].auth.user \in User \cup {None}
    PROVE  MayUpload(conv[h], Line(h).method, Name(h), seen[h].mounts, seen[h].users)
<1> DEFINE c == conv[h]  m == Name(h)  row == seen[h].mounts[m]  users == seen[h].users
           shown == Shown(c, Line(h).method, m)
<1>1. Line(h).ok /\ Shows(h, key[h]) /\ row # None
  BY DEF RequestIsKnown, KeyIsShown, RowsAgree, Passed, Keyed
<1>2. verify_mount_and_user(row, users, UserOf(h), key[h], Asks(h))
  BY DEF RowsAgree
<1>3. CASE Claim(h) = "word"
  <2>1. key[h] \in LineShows(c)
    BY <1>1, <1>3, LinePassword DEF Shows
  <2>2. row.password = key[h]
    BY <1>2, <1>3 DEF verify_mount_and_user, Asks
  <2> QED
    BY <1>1, <2>1, <2>2 DEF MayUpload
<1>4. CASE Claim(h) # "word"
  <2>1. c.auth # None /\ c.auth.user = UserOf(h) /\ UserOf(h) # None /\ UserOf(h) \in User
    BY <1>1, <1>4 DEF Shows, UserOf
  <2>2. Claim(h) = "Basic" => c.auth.scheme = "Basic"
    BY <2>1 DEF Claim
  <2>3. key[h] \in shown
    BY <1>1, <1>4, <2>1, <2>2 DEF Shows, Shown, DigestMatches
  <2>4. CASE row.password = key[h]
    BY <1>1, <2>3, <2>4 DEF MayUpload
  <2>5. CASE /\ users[UserOf(h)] # None /\ verify_password(users[UserOf(h)], key[h])
             /\ row.owner \in {None, UserOf(h)}
    <3>1. users[UserOf(h)].word = key[h]
      BY <2>5, OnlyTheWordVerifies
    <3> QED
      BY <1>1, <2>1, <2>3, <2>5, <3>1 DEF MayUpload, UserShown
  <2> QED
    BY <1>2, <2>4, <2>5 DEF verify_mount_and_user
<1> QED
  BY <1>3, <1>4

(* The same for a rover, whose request line has no password to offer.       *)
LEMMA DownloadIsAllowed ==
    ASSUME NEW h \in Handler, pc[h] \in Passed, task[h] = "download",
           RequestIsKnown(h), KeyIsShown(h), RowsAgree(h),
           conv[h].auth = None \/ conv[h].auth.user \in User \cup {None}
    PROVE  MayDownload(conv[h], Line(h).method, Name(h), seen[h].mounts, seen[h].users)
<1>1. /\ Line(h).ok /\ Shows(h, key[h]) /\ Line(h).method \in {"GET", "PLAY"}
  BY DEF RequestIsKnown, KeyIsShown, Passed, Keyed
<1>2. /\ seen[h].mounts[Name(h)] # None /\ seen[h].users[UserOf(h)] # None
      /\ verify_password(seen[h].users[UserOf(h)], key[h])
  BY DEF RowsAgree
<1>3. Claim(h) # "word"
  BY <1>1, LinePassword DEF Shows
<1>4. /\ conv[h].auth # None /\ conv[h].auth.user = UserOf(h)
      /\ UserOf(h) # None /\ UserOf(h) \in User
  BY <1>1, <1>3 DEF Shows, UserOf
<1>5. Claim(h) = "Basic" => conv[h].auth.scheme = "Basic"
  BY <1>4 DEF Claim
<1>6. key[h] \in Shown(conv[h], Line(h).method, Name(h))
  BY <1>1, <1>3, <1>4, <1>5 DEF Shows, Shown, DigestMatches
<1>7. seen[h].users[UserOf(h)].word = key[h]
  BY <1>2, OnlyTheWordVerifies
<1> QED
  BY <1>2, <1>4, <1>6, <1>7 DEF MayDownload, UserShown

----------------------------------------------------------------------------
(* A sequence d between two others: how long it all is, and where d is. *)
Between(u, s, d, t) ==
    /\ u \in Seq(Byte) /\ Len(u) = Len(s) + Len(d) + Len(t)
    /\ Len(s) \in Nat /\ Len(t) \in Nat
    /\ SubSeq(u, Len(s) + 1, Len(s) + Len(d)) = d

(* The middle one of three sequences is where the first one ends.           *)
LEMMA ConcatenationOfThree ==
    ASSUME NEW s \in Seq(Byte), NEW d \in Seq(Byte), NEW t \in Seq(Byte)
    PROVE  Between(s \o d \o t, s, d, t)
  BY DEF Between

(* The delimiter is found right behind the head.                            *)
LEMMA DelimiterBehindHead ==
    ASSUME NEW s \in Seq(Byte), NEW t \in Seq(Byte),
           NEW u, u = s \o INITIAL_HEADER_DELIMITER \o t
    PROVE  /\ u \in Seq(Byte) /\ Len(u) \in Nat
           /\ Len(s) + 4 <= Len(u) /\ Ends(u, Len(s) + 1)
<1> DEFINE d == INITIAL_HEADER_DELIMITER
<1>1. CR \in Byte /\ LF \in Byte
  BY RequestAssumption
<1>2. d \in Seq(Byte)
  BY <1>1 DEF INITIAL_HEADER_DELIMITER
<1>3. Len(d) = 4
  BY DEF INITIAL_HEADER_DELIMITER
<1>4. Between(u, s, d, t)
  <2> HIDE DEF d
  <2>1. u = s \o d \o t
    BY Zenon DEF d
  <2> QED
    BY <1>2, <2>1, ConcatenationOfThree, Zenon
<1>5. /\ Len(u) = Len(s) + Len(d) + Len(t) /\ Len(s) \in Nat /\ Len(t) \in Nat
  BY <1>4, Zenon DEF Between
<1>6. Len(u) \in Nat /\ Len(s) + 4 <= Len(u) /\ Len(s) + 1 + 3 = Len(s) + Len(d)
  BY <1>3, <1>5
<1>7. SubSeq(u, Len(s) + 1, Len(s) + 1 + 3) = d
  BY <1>4, <1>6, Zenon DEF Between
<1> QED
  BY <1>4, <1>6, <1>7, Zenon DEF Ends, Between

(* What a client sends: the head, its end if that is sent, the tail. *)
LEMMA StreamParts ==
    ASSUME NEW c, IsRequest(c)
    PROVE  /\ Stream(c) \in Seq(Byte) /\ Len(Stream(c)) \in Nat /\ Len(c.head) \in Nat
           /\ c.whole => /\ Len(c.head) + 4 <= Len(Stream(c))
                         /\ Ends(Stream(c), Len(c.head) + 1)
<1>1. c.head \in Seq(Byte) /\ c.tail \in Seq(Byte)
  BY DEF IsRequest
<1>2. Len(c.head) \in Nat
  BY <1>1, LenProperties
<1>3. CASE c.whole
  <2>1. Stream(c) = c.head \o INITIAL_HEADER_DELIMITER \o c.tail
    BY <1>3, Zenon DEF Stream
  <2> QED
    BY <1>1, <1>2, <2>1, DelimiterBehindHead
<1>4. CASE ~c.whole
  <2>1. Stream(c) = c.head \o <<>> \o c.tail
    BY <1>4, Zenon DEF Stream
  <2>2. ASSUME NEW s \in Seq(Byte), NEW t \in Seq(Byte)
        PROVE  s \o <<>> \o t \in Seq(Byte) /\ Len(s \o <<>> \o t) \in Nat
    <3>1. s \o <<>> \o t \in Seq(Byte)
      OBVIOUS
    <3> QED
      BY <3>1, LenProperties
  <2>3. Stream(c) \in Seq(Byte) /\ Len(Stream(c)) \in Nat
    BY <1>1, <2>1, <2>2, Zenon
  <2> QED
    BY <1>2, <1>4, <2>3
<1> QED
  BY <1>3, <1>4

(* The handler finds the header's end where the head ends, however much of  *)
(* the stream it has.                                                       *)
LEMMA FindsHead ==
    ASSUME NEW c, IsRequest(c), NEW n \in 0 .. Len(Stream(c)),
           Find(SubSeq(Stream(c), 1, n)) > 0
    PROVE  /\ Find(SubSeq(Stream(c), 1, n)) = Len(c.head) + 1
           /\ c.whole /\ Len(c.head) + 4 <= n
<1> DEFINE s == Stream(c)  b == SubSeq(s, 1, n)
           at == {i \in 1 .. Len(b) - 3 : Ends(b, i)}
           m == Len(c.head) + 1
<1>1. s \in Seq(Byte) /\ Len(s) \in Nat /\ Len(c.head) \in Nat /\ n \in Nat
  BY StreamParts
<1>2. b \in Seq(Byte) /\ Len(b) = n
  BY <1>1, ElementOfSeq, SubSeqProperties
<1>3. ASSUME NEW i \in 1 .. n - 3 PROVE Ends(b, i) <=> Ends(s, i)
  <2>1. SubSeq(b, i, i + 3) = SubSeq(s, 1 + i - 1, 1 + i + 3 - 1)
    BY <1>1, <1>2, SubSeqOfSubSeq
  <2> QED
    BY <1>1, <2>1 DEF Ends
<1>4. \A i \in at : c.whole /\ i >= Len(c.head) + 1 /\ i <= n - 3
  BY <1>1, <1>2, <1>3 DEF IsRequest
<1>5. at # {}
  BY DEF Find
<1>6. c.whole /\ Len(c.head) + 1 \in at
  BY <1>1, <1>2, <1>3, <1>4, <1>5, StreamParts
<1>7. Least(at) = Len(c.head) + 1
  BY <1>1, <1>2, <1>4, <1>6 DEF Least
<1>8. Find(b) = Least(at)
  BY <1>5 DEF Find
<1> QED
  BY <1>4, <1>6, <1>7, <1>8

(* Least of three numbers, the bound of a piece, is none above them.        *)
LEMMA LeastOfThree ==
    ASSUME NEW i \in Int, NEW j \in Int, NEW k \in Int
    PROVE  LET m == Least({i, j, k}) IN m \in Int /\ m <= i /\ m <= j /\ m <= k
<1>1. \E m \in {i, j, k} : \A x \in {i, j, k} : m <= x
  OBVIOUS
<1> QED
  BY <1>1 DEF Least

(* A set of natural numbers has a least one, since < is well-founded.       *)
LEMMA NatHasLeast ==
    ASSUME NEW T, T \subseteq Nat, T # {}
    PROVE  \E x \in T : \A y \in T : x <= y
<1> DEFINE R == OpToRel(<, Nat)
<1>1. IsWellFoundedOn(R, Nat)
  BY NatLessThanWellFounded
<1>2. \A x, y \in Nat : x < y => <<x, y>> \in R
  BY DEF OpToRel
<1> HIDE DEF R
<1>3. PICK x \in T : \A y \in T : <<y, x>> \notin R
  BY <1>1, WFMin
<1>4. \A y \in T : ~(y < x)
  BY <1>2, <1>3
<1> QED
  BY <1>4

(* And a bounded one has a greatest.                                        *)
LEMMA HasGreatest ==
    ASSUME NEW n \in Nat, NEW T, T \subseteq 0 .. n, T # {}
    PROVE  \E x \in T : \A y \in T : y <= x
<1> DEFINE U == {m \in Nat : n - m \in T}
<1>1. U \subseteq Nat
  OBVIOUS
<1>2. U # {}
  <2>1. PICK x \in T : TRUE
    OBVIOUS
  <2>2. n - x \in Nat /\ n - (n - x) = x
    BY <2>1
  <2>3. n - x \in U
    BY <2>1, <2>2
  <2> QED
    BY <2>3
<1> HIDE DEF U
<1>3. PICK u \in U : \A v \in U : u <= v
  BY <1>1, <1>2, NatHasLeast
<1>4. n - u \in T
  BY DEF U
<1>5. ASSUME NEW y \in T PROVE y <= n - u
  <2>1. n - y \in U
    <3>1. n - y \in Nat /\ n - (n - y) = y
      OBVIOUS
    <3> QED
      BY <3>1 DEF U
  <2> QED
    BY <1>1, <1>3, <2>1
<1> QED
  BY <1>4, <1>5

----------------------------------------------------------------------------
(* Max of a bounded set of naturals is its greatest member.                 *)
LEMMA MaxOf ==
    ASSUME NEW n \in Nat, NEW T, T \subseteq 0 .. n, T # {}
    PROVE  Max(T) \in T /\ \A y \in T : y <= Max(T)
<1>1. \E x \in T : \A y \in T : x >= y
  BY HasGreatest
<1>2. Max(T) \in T /\ \A y \in T : Max(T) >= y
  BY <1>1, Zenon DEF Max
<1> QED
  BY <1>2

(* A part of a sequence, by its elements. *)
LEMMA Part ==
    ASSUME NEW u \in Seq(Byte), NEW a \in Nat, NEW b \in Nat, 1 <= a, a <= b + 1, b <= Len(u)
    PROVE  /\ SubSeq(u, a, b) \in Seq(Byte) /\ Len(SubSeq(u, a, b)) = b - a + 1
           /\ DOMAIN SubSeq(u, a, b) = 1 .. b - a + 1
           /\ \A i \in 1 .. b - a + 1 : SubSeq(u, a, b)[i] = u[a + i - 1]
<1>1. Len(u) \in Nat /\ \A i \in 1 .. Len(u) : u[i] \in Byte
  BY LenProperties, ElementOfSeq
<1>2. \A i \in a .. b : u[i] \in Byte
  BY <1>1
<1> PICK v : v = SubSeq(u, a, b)
  OBVIOUS
<1>3. /\ v \in Seq(Byte)
      /\ Len(v) = IF a <= b THEN b - a + 1 ELSE 0
      /\ \A i \in 1 .. b - a + 1 : v[i] = u[a + i - 1]
  BY <1>2, SubSeqProperties
<1>4. Len(v) = b - a + 1
  BY <1>3
<1>5. DOMAIN v = 1 .. Len(v)
  BY <1>3, LenProperties
<1> QED
  BY <1>3, <1>4, <1>5

(* The elements c to d of a sequence's elements a to b are there. *)
Within(u, a, b, c, d) ==
    /\ u \in Seq(Byte) /\ a \in Nat /\ b \in Nat /\ c \in Nat /\ d \in Nat
    /\ 1 <= a /\ b <= Len(u) /\ 1 <= c /\ c <= d + 1 /\ a + d <= b + 1

(* A part of a part is a part.                                              *)
PartIsPart(u, a, b, c, d) ==
    SubSeq(SubSeq(u, a, b), c, d) = SubSeq(u, a + c - 1, a + d - 1)

(* It is, when it lies within.                                              *)
LEMMA PartOfPart ==
    ASSUME NEW u, NEW a, NEW b, NEW c, NEW d, Within(u, a, b, c, d)
    PROVE  PartIsPart(u, a, b, c, d)
<1> USE DEF Within
<1> PICK v : v = SubSeq(u, a, b)
  OBVIOUS
<1> PICK x : x = SubSeq(v, c, d)
  OBVIOUS
<1> PICK y : y = SubSeq(u, a + c - 1, a + d - 1)
  OBVIOUS
<1>0. Len(u) \in Nat
  BY LenProperties
<1>1. /\ v \in Seq(Byte) /\ Len(v) = b - a + 1
      /\ \A i \in 1 .. b - a + 1 : v[i] = u[a + i - 1]
  <2>1. a <= b + 1
    OBVIOUS
  <2> QED
    BY <2>1, Part
<1>2. /\ x \in Seq(Byte) /\ Len(x) = d - c + 1
      /\ \A i \in 1 .. d - c + 1 : x[i] = v[c + i - 1]
  <2>1. d <= Len(v)
    BY <1>1
  <2> QED
    BY <1>1, <2>1, Part
<1>3. /\ y \in Seq(Byte) /\ Len(y) = (a + d - 1) - (a + c - 1) + 1
      /\ \A i \in 1 .. (a + d - 1) - (a + c - 1) + 1 : y[i] = u[a + c - 1 + i - 1]
  <2>1. /\ a + c - 1 \in Nat /\ a + d - 1 \in Nat /\ 1 <= a + c - 1
        /\ a + c - 1 <= a + d - 1 + 1 /\ a + d - 1 <= Len(u)
    BY <1>0
  <2> QED
    BY <2>1, Part
<1>4. (a + d - 1) - (a + c - 1) + 1 = d - c + 1
  OBVIOUS
<1>5. ASSUME NEW i \in 1 .. d - c + 1 PROVE x[i] = y[i]
  <2>1. c + i - 1 \in 1 .. b - a + 1 /\ a + (c + i - 1) - 1 = a + c - 1 + i - 1
    OBVIOUS
  <2>2. x[i] = u[a + c - 1 + i - 1]
    BY <1>1, <1>2, <2>1
  <2>3. i \in 1 .. (a + d - 1) - (a + c - 1) + 1
    BY <1>4, Zenon
  <2> QED
    BY <1>3, <2>2, <2>3, Zenon
<1>6. Len(x) = Len(y) /\ \A i \in 1 .. Len(x) : x[i] = y[i]
  BY <1>2, <1>3, <1>4, <1>5, Zenon
<1>7. x = y
  BY <1>2, <1>3, <1>6, SeqEqual
<1> QED
  BY <1>7 DEF PartIsPart

(* bytes.rfind finds the last one, or none is there. *)
LEMMA rfindFinds ==
    ASSUME NEW s \in Seq(Byte), NEW t
    PROVE  /\ rfind(s, t) \in 0 .. Len(s)
           /\ rfind(s, t) # 0 => s[rfind(s, t)] = t
           /\ \A i \in 1 .. Len(s) : s[i] = t => i <= rfind(s, t)
<1> DEFINE T == {0} \cup {i \in DOMAIN s : s[i] = t}
<1>1. Len(s) \in Nat /\ DOMAIN s = 1 .. Len(s)
  BY LenProperties
<1>2. T \subseteq 0 .. Len(s) /\ T # {}
  BY <1>1
<1>3. Max(T) \in T /\ \A y \in T : y <= Max(T)
  <2> HIDE DEF T
  <2> QED
    BY <1>1, <1>2, MaxOf
<1>4. rfind(s, t) = Max(T)
  BY DEF rfind
<1> QED
  BY <1>1, <1>2, <1>3, <1>4

----------------------------------------------------------------------------
(* The buffer is what a stream s ends in, after its element p; it has no    *)
(* newline, and a sentence that begins before it and still goes on is       *)
(* already too long for the buffer.                                         *)
Goes(s, i) == s[i] = Dollar /\ \A k \in i + 1 .. Len(s) : s[k] \notin {Dollar, LF}

Holds(s, buf, p) ==
    /\ p \in 0 .. Len(s) /\ buf = SubSeq(s, p + 1, Len(s))
    /\ \A i \in p + 1 .. Len(s) : s[i] # LF
    /\ \A i \in 1 .. p : Goes(s, i) => Len(s) + 1 - i > MAX_ACCUMULATOR_SIZE

(* feed's first half: what the bounded buffer holds of a stream's end. *)
LEMMA BoundHolds ==
    ASSUME NEW u \in Seq(Byte), NEW p \in 0 .. Len(u),
           \A i \in p + 1 .. Len(u) : u[i] # LF,
           \A i \in 1 .. p : Goes(u, i) => Len(u) + 1 - i > MAX_ACCUMULATOR_SIZE
    PROVE  \E q \in 0 .. Len(u) : Holds(u, _bound_incomplete_data(SubSeq(u, p + 1, Len(u))), q)
<1> DEFINE n == Len(u)  M == MAX_ACCUMULATOR_SIZE
           tail == SubSeq(u, p + 1, Len(u))
           kept == SubSeq(tail, Len(tail) - M + 1, Len(tail))
           start == rfind(kept, Dollar)
<1>1. n \in Nat /\ M \in Nat /\ p \in Nat /\ p <= n
  BY LenProperties, RequestAssumption
<1>2. /\ tail \in Seq(Byte) /\ Len(tail) = n - p
      /\ \A i \in 1 .. n - p : tail[i] = u[p + i]
  <2>1. /\ tail \in Seq(Byte) /\ Len(tail) = n - (p + 1) + 1
        /\ \A i \in 1 .. n - (p + 1) + 1 : tail[i] = u[p + 1 + i - 1]
    <3>1. p + 1 \in Nat /\ n \in Nat /\ 1 <= p + 1 /\ p + 1 <= n + 1 /\ n <= Len(u)
      BY <1>1
    <3> QED
      BY <3>1, Part
  <2>2. n - (p + 1) + 1 = n - p /\ \A i \in 1 .. n - p : p + 1 + i - 1 = p + i
    BY <1>1
  <2> HIDE DEF tail, n
  <2> QED
    BY <2>1, <2>2
<1>3. CASE Len(tail) <= M
  <2>1. _bound_incomplete_data(tail) = tail
    <3> HIDE DEF tail
    <3>1. ~(Len(tail) > M)
      BY <1>1, <1>2, <1>3
    <3> QED
      BY <1>3, <3>1, Zenon DEF _bound_incomplete_data
  <2>2. Holds(u, tail, p)
    BY DEF Holds
  <2> QED
    BY <2>1, <2>2
<1>4. CASE ~(Len(tail) <= M)
  <2>1. n - p > M /\ Len(tail) > M
    BY <1>1, <1>2, <1>4
  <2>2. /\ kept \in Seq(Byte) /\ Len(kept) = M
        /\ \A i \in 1 .. M : kept[i] = u[n - M + i]
    <3> HIDE DEF tail, n, M
    <3>0. /\ Len(tail) - M + 1 \in Nat /\ Len(tail) \in Nat /\ 1 <= Len(tail) - M + 1
          /\ Len(tail) - M + 1 <= Len(tail) + 1 /\ Len(tail) <= Len(tail)
      BY <1>1, <1>2, <2>1
    <3>1. /\ kept \in Seq(Byte) /\ Len(kept) = Len(tail) - (Len(tail) - M + 1) + 1
          /\ \A i \in 1 .. Len(tail) - (Len(tail) - M + 1) + 1 :
                kept[i] = tail[Len(tail) - M + 1 + i - 1]
      BY <1>2, <3>0, Part
    <3>2. /\ Len(tail) - (Len(tail) - M + 1) + 1 = M
          /\ \A i \in 1 .. M : /\ Len(tail) - M + 1 + i - 1 \in 1 .. n - p
                               /\ p + (Len(tail) - M + 1 + i - 1) = n - M + i
      BY <1>1, <1>2, <2>1
    <3> HIDE DEF kept
    <3> QED
      BY <1>2, <3>1, <3>2
  <2>3. /\ start \in 0 .. M /\ (start # 0 => kept[start] = Dollar)
        /\ \A i \in 1 .. M : kept[i] = Dollar => i <= start
    <3> HIDE DEF kept, M
    <3> QED
      BY <2>2, rfindFinds
  <2>4. CASE start = 0
    <3>1. _bound_incomplete_data(tail) = <<>>
      <4> HIDE DEF tail, M
      <4>1. Len(tail) > M
        BY <2>1
      <4> QED
        BY <1>4, <2>4, <4>1, Zenon DEF _bound_incomplete_data, M
    <3>2. <<>> = SubSeq(u, n + 1, n)
      <4>1. /\ SubSeq(u, n + 1, n) \in Seq(Byte) /\ Len(SubSeq(u, n + 1, n)) = n - (n + 1) + 1
        BY <1>1, Part
      <4>2. n - (n + 1) + 1 = 0
        BY <1>1
      <4> HIDE DEF n
      <4> QED
        BY <4>1, <4>2, EmptySeq
    <3>3. ASSUME NEW i \in 1 .. n, Goes(u, i) PROVE n + 1 - i > M
      <4>1. CASE i <= p
        BY <4>1, <3>3, <1>1
      <4>2. CASE i > p
        <5>1. u[i] = Dollar
          BY <3>3 DEF Goes
        <5>2. ~(i > n - M)
          <6>1. SUFFICES ASSUME i > n - M PROVE FALSE
            OBVIOUS
          <6>2. i - (n - M) \in 1 .. M /\ n - M + (i - (n - M)) = i
            BY <1>1, <6>1
          <6>3. kept[i - (n - M)] = Dollar
            BY <2>2, <5>1, <6>2
          <6> HIDE DEF kept, start, n, M
          <6>4. i - (n - M) <= start
            BY <2>3, <6>2, <6>3
          <6> QED
            BY <2>4, <6>2, <6>4
        <5> QED
          BY <1>1, <5>2
      <4> QED
        BY <1>1, <4>1, <4>2
    <3>4. Holds(u, <<>>, n)
      BY <1>1, <3>2, <3>3 DEF Holds
    <3> QED
      BY <1>1, <3>1, <3>4
  <2>5. CASE start # 0
    <3> DEFINE q == n - M + start - 1
    <3>1. _bound_incomplete_data(tail) = SubSeq(kept, start, Len(kept))
      <4> HIDE DEF tail, M
      <4> QED
        BY <1>4, <2>5, Zenon DEF _bound_incomplete_data, M
    <3>2. q \in 0 .. n /\ q >= p /\ start \in 1 .. M
      BY <1>1, <2>1, <2>3, <2>5
    <3>3. SubSeq(kept, start, Len(kept)) = SubSeq(u, q + 1, n)
      <4> PICK v : v = SubSeq(kept, start, M)
        OBVIOUS
      <4> PICK w : w = SubSeq(u, q + 1, n)
        OBVIOUS
      <4>0. start \in Nat /\ 1 <= start /\ start <= M + 1 /\ M <= Len(kept)
            /\ q + 1 \in Nat /\ 1 <= q + 1 /\ q + 1 <= n + 1 /\ n <= Len(u)
        BY <1>1, <2>2, <3>2, SMTT(30)
      <4>1. /\ v \in Seq(Byte) /\ Len(v) = M - start + 1
            /\ \A i \in 1 .. M - start + 1 : v[i] = kept[start + i - 1]
        <5> HIDE DEF kept, M, start
        <5> QED
          BY <1>1, <2>2, <4>0, Part
      <4>2. /\ w \in Seq(Byte) /\ Len(w) = n - (q + 1) + 1
            /\ \A i \in 1 .. n - (q + 1) + 1 : w[i] = u[q + 1 + i - 1]
        <5> HIDE DEF q
        <5> QED
          BY <1>1, <4>0, Part
      <4>3. n - (q + 1) + 1 = M - start + 1
        BY <1>1, <3>2, SMTT(30)
      <4>4. ASSUME NEW i \in 1 .. M - start + 1 PROVE v[i] = w[i]
        <5> HIDE DEF kept, start, n, M
        <5>1. start + i - 1 \in 1 .. M /\ n - M + (start + i - 1) = q + 1 + i - 1
          BY <1>1, <3>2
        <5> HIDE DEF q
        <5>2. v[i] = kept[start + i - 1] /\ kept[start + i - 1] = u[q + 1 + i - 1]
          BY <2>2, <4>1, <5>1
        <5>3. i \in 1 .. n - (q + 1) + 1
          BY <4>3, Zenon
        <5>4. w[i] = u[q + 1 + i - 1]
          BY <4>2, <5>3, Zenon
        <5> QED
          BY <5>2, <5>4, Zenon
      <4>5. v = w
        <5> HIDE DEF M, start, n, q
        <5>1. Len(v) = Len(w)
          BY <4>1, <4>2, <4>3
        <5>2. \A i \in 1 .. Len(v) : v[i] = w[i]
          BY <4>1, <4>4
        <5> QED
          BY <4>1, <4>2, <5>1, <5>2, SeqEqual
      <4> QED
        BY <2>2, <4>5
    <3>4. u[q + 1] = Dollar
      <4> HIDE DEF kept, start, n, M
      <4>1. n - M + start = q + 1
        BY <1>1, <3>2
      <4> HIDE DEF q
      <4>2. kept[start] = u[n - M + start]
        BY <2>2, <3>2, Zenon
      <4> QED
        BY <2>3, <2>5, <4>1, <4>2, Zenon
    <3>5. \A i \in 1 .. q : ~Goes(u, i)
      BY <1>1, <3>2, <3>4 DEF Goes
    <3>6. \A i \in q + 1 .. n : u[i] # LF
      BY <1>1, <3>2
    <3>7. Holds(u, SubSeq(u, q + 1, n), q)
      BY <3>2, <3>5, <3>6 DEF Holds
    <3> QED
      BY <3>1, <3>2, <3>3, <3>7
  <2> QED
    BY <2>4, <2>5
<1> QED
  BY <1>3, <1>4

----------------------------------------------------------------------------
(* The line that a newline completes begins behind the newline before. *)
LEMMA LineBegins ==
    ASSUME NEW s \in Seq(Byte), NEW j \in 1 .. Len(s), s[j] = LF
    PROVE  \E r \in 0 .. j - 1 :
              /\ LineTo(s, j) = SubSeq(s, r + 1, j - 1)
              /\ r # 0 => s[r] = LF
              /\ \A i \in r + 1 .. j - 1 : s[i] # LF
<1> DEFINE v == SubSeq(s, 1, j - 1)
           r == rfind(v, LF)
<1>1. Len(s) \in Nat /\ j \in Nat /\ 1 <= j /\ j <= Len(s) /\ j - 1 \in Nat
  BY LenProperties
<1>2. /\ v \in Seq(Byte) /\ Len(v) = j - 1
      /\ \A i \in 1 .. j - 1 : v[i] = s[i]
  <2>1. /\ v \in Seq(Byte) /\ Len(v) = (j - 1) - 1 + 1
        /\ \A i \in 1 .. (j - 1) - 1 + 1 : v[i] = s[1 + i - 1]
    BY <1>1, Part
  <2> HIDE DEF v
  <2> QED
    BY <1>1, <2>1
<1>3. /\ r \in 0 .. Len(v) /\ (r # 0 => v[r] = LF)
      /\ \A i \in 1 .. Len(v) : v[i] = LF => i <= r
  <2> HIDE DEF v
  <2> QED
    BY <1>2, rfindFinds
<1>4. LineTo(s, j) = SubSeq(s, r + 1, j - 1)
  BY DEF LineTo
<1> HIDE DEF v, r
<1>5. r \in 0 .. j - 1 /\ (r # 0 => s[r] = LF)
  BY <1>1, <1>2, <1>3
<1>6. \A i \in r + 1 .. j - 1 : s[i] # LF
  BY <1>1, <1>2, <1>3, <1>5
<1> QED
  BY <1>4, <1>5, <1>6

(* A line parses to the sentence that is in it, if one is. *)
LEMMA LineParses ==
    ASSUME NEW s \in Seq(Byte), NEW j \in 1 .. Len(s), s[j] = LF
    PROVE  /\ \A a \in 1 .. j - 1 : SentenceAt(s, a, j) =>
                 ParseLine(LineTo(s, j)) = parse_gga_sentence(Stripped(SubSeq(s, a, j - 1)))
           /\ ParseLine(LineTo(s, j)) # NoFix => \E a \in 1 .. j - 1 : SentenceAt(s, a, j)
<1>1. Len(s) \in Nat /\ j \in Nat /\ 1 <= j /\ j <= Len(s) /\ j - 1 \in Nat
  BY LenProperties
<1>2. PICK r \in 0 .. j - 1 :
              /\ LineTo(s, j) = SubSeq(s, r + 1, j - 1)
              /\ r # 0 => s[r] = LF
              /\ \A i \in r + 1 .. j - 1 : s[i] # LF
  BY LineBegins
<1> PICK line : line = SubSeq(s, r + 1, j - 1)
  OBVIOUS
<1> DEFINE n == j - 1 - r
<1>3. /\ line \in Seq(Byte) /\ Len(line) = n /\ n \in Nat
      /\ \A i \in 1 .. n : line[i] = s[r + i]
  <2>0. r + 1 \in Nat /\ 1 <= r + 1 /\ r + 1 <= j - 1 + 1 /\ j - 1 <= Len(s)
    BY <1>1
  <2>1. /\ line \in Seq(Byte) /\ Len(line) = (j - 1) - (r + 1) + 1
        /\ \A i \in 1 .. (j - 1) - (r + 1) + 1 : line[i] = s[r + 1 + i - 1]
    BY <1>1, <2>0, Part
  <2>2. (j - 1) - (r + 1) + 1 = n /\ n \in Nat /\ \A i \in 1 .. n : r + 1 + i - 1 = r + i
    BY <1>1
  <2> HIDE DEF n
  <2> QED
    BY <2>1, <2>2
<1> PICK st : st = rfind(line, Dollar)
  OBVIOUS
<1>4. /\ st \in 0 .. n /\ (st # 0 => line[st] = Dollar)
      /\ \A i \in 1 .. n : line[i] = Dollar => i <= st
  <2> HIDE DEF n
  <2> QED
    BY <1>3, rfindFinds
<1>5. ParseLine(LineTo(s, j)) = IF st = 0 THEN NoFix
                                ELSE parse_gga_sentence(Stripped(SubSeq(line, st, Len(line))))
  BY <1>2, Zenon DEF ParseLine
<1>6. ASSUME NEW a \in 1 .. j - 1, SentenceAt(s, a, j)
      PROVE  st # 0 /\ SubSeq(line, st, Len(line)) = SubSeq(s, a, j - 1)
  <2>1. /\ s[a] = "$" /\ \A k \in a + 1 .. j - 1 : s[k] # "$" /\ s[k] # "LF"
    BY <1>6 DEF SentenceAt, Dollar, LF
  <2>2. a > r
    BY <1>1, <1>2, <2>1 DEF LF
  <2>3. a - r \in 1 .. n /\ r + (a - r) = a
    BY <1>1, <2>2
  <2>4. line[a - r] = "$"
    BY <1>3, <2>1, <2>3
  <2>5. st \in 1 .. n /\ a - r <= st
    BY <1>1, <1>4, <2>3, <2>4 DEF Dollar
  <2>6. s[r + st] = "$" /\ r + st \in 1 .. j - 1
    BY <1>1, <1>3, <1>4, <2>5 DEF Dollar
  <2>7. r + st = a
    BY <1>1, <2>1, <2>5, <2>6
  <2>8. SubSeq(line, st, Len(line)) = SubSeq(s, a, j - 1)
    <3>1. Within(s, r + 1, j - 1, st, n) /\ r + 1 + st - 1 = a /\ r + 1 + n - 1 = j - 1
      BY <1>1, <1>3, <2>5, <2>7, SMTT(30) DEF Within
    <3> HIDE DEF n
    <3>2. PartIsPart(s, r + 1, j - 1, st, n)
      BY <3>1, PartOfPart, Zenon
    <3>4. SubSeq(line, st, n) = SubSeq(s, a, j - 1)
      BY <3>1, <3>2, Zenon DEF PartIsPart
    <3> QED
      BY <1>3, <3>4, Zenon
  <2>9. st # 0
    BY <2>5
  <2> QED
    BY <2>8, <2>9
<1>7. ASSUME st # 0 PROVE \E a \in 1 .. j - 1 : SentenceAt(s, a, j)
  <2>1. st \in 1 .. n /\ r + st \in 1 .. j - 1
    BY <1>1, <1>4, <1>7
  <2>2. s[r + st] = Dollar
    BY <1>3, <1>4, <1>7, <2>1
  <2>3. ASSUME NEW k \in r + st + 1 .. j - 1 PROVE s[k] # Dollar /\ s[k] # LF
    <3>1. k - r \in 1 .. n /\ r + (k - r) = k /\ ~(k - r <= st) /\ k \in r + 1 .. j - 1
      BY <1>1, <2>1
    <3>2. line[k - r] = s[k]
      BY <1>3, <3>1
    <3> QED
      BY <1>2, <1>4, <3>1, <3>2
  <2>4. SentenceAt(s, r + st, j)
    BY <2>2, <2>3 DEF SentenceAt
  <2> QED
    BY <2>1, <2>4
<1>8. \A a \in 1 .. j - 1 : SentenceAt(s, a, j) =>
          ParseLine(LineTo(s, j)) = parse_gga_sentence(Stripped(SubSeq(s, a, j - 1)))
  BY <1>5, <1>6, Zenon
<1>9. ParseLine(LineTo(s, j)) # NoFix => \E a \in 1 .. j - 1 : SentenceAt(s, a, j)
  BY <1>5, <1>7, Zenon
<1> QED
  BY <1>8, <1>9

----------------------------------------------------------------------------
(* A stream u that begins with a stream s. *)
Extends(u, s) ==
    /\ s \in Seq(Byte) /\ u \in Seq(Byte) /\ Len(s) \in Nat /\ Len(u) \in Nat
    /\ Len(s) <= Len(u) /\ \A i \in 1 .. Len(s) : u[i] = s[i]

(* A stream and one more piece extend the stream.                           *)
LEMMA ConcatenationExtends ==
    ASSUME NEW s \in Seq(Byte), NEW d \in Seq(Byte)
    PROVE  /\ Extends(s \o d, s) /\ Len(s \o d) = Len(s) + Len(d) /\ Len(d) \in Nat
           /\ \A i \in 1 .. Len(d) : (s \o d)[Len(s) + i] = d[i]
  BY DEF Extends

(* Two streams have the same elements a to b.                               *)
PartsAgree(u, s, a, b) == SubSeq(u, a, b) = SubSeq(s, a, b)

(* An extension has the same parts, as far as the stream goes.              *)
LEMMA ExtensionsPart ==
    ASSUME NEW u, NEW s, Extends(u, s), NEW a \in Nat, NEW b \in Nat,
           1 <= a, a <= b + 1, b <= Len(s)
    PROVE  PartsAgree(u, s, a, b)
<1> PICK x : x = SubSeq(u, a, b)
  OBVIOUS
<1> PICK y : y = SubSeq(s, a, b)
  OBVIOUS
<1>1. /\ x \in Seq(Byte) /\ Len(x) = b - a + 1
      /\ \A i \in 1 .. b - a + 1 : x[i] = u[a + i - 1]
  <2>1. u \in Seq(Byte) /\ b <= Len(u)
    BY DEF Extends
  <2> QED
    BY <2>1, Part
<1>2. /\ y \in Seq(Byte) /\ Len(y) = b - a + 1
      /\ \A i \in 1 .. b - a + 1 : y[i] = s[a + i - 1]
  <2>1. s \in Seq(Byte)
    BY DEF Extends
  <2> QED
    BY <2>1, Part
<1>3. ASSUME NEW i \in 1 .. b - a + 1 PROVE x[i] = y[i]
  <2>1. a + i - 1 \in 1 .. Len(s)
    BY DEF Extends
  <2> QED
    BY <1>1, <1>2, <2>1 DEF Extends
<1>4. x = y
  BY <1>1, <1>2, <1>3, SeqEqual
<1> QED
  BY <1>4 DEF PartsAgree

(* A sequence that is what another one ends in. *)
EndsIn(u, p, x) == x = SubSeq(u, p + 1, Len(u))

(* A sequence that has the last elements of another one is its end.         *)
LEMMA EndOfSequence ==
    ASSUME NEW u \in Seq(Byte), NEW p \in 0 .. Len(u), NEW x \in Seq(Byte),
           Len(x) = Len(u) - p, \A i \in 1 .. Len(u) - p : x[i] = u[p + i]
    PROVE  EndsIn(u, p, x)
<1>1. Len(u) \in Nat /\ p \in Nat /\ p <= Len(u)
  BY LenProperties
<1> PICK y : y = SubSeq(u, p + 1, Len(u))
  OBVIOUS
<1>2. p + 1 \in Nat /\ 1 <= p + 1 /\ p + 1 <= Len(u) + 1 /\ Len(u) <= Len(u)
  BY <1>1
<1>3. /\ y \in Seq(Byte) /\ Len(y) = Len(u) - (p + 1) + 1
      /\ \A i \in 1 .. Len(u) - (p + 1) + 1 : y[i] = u[p + 1 + i - 1]
  BY <1>1, <1>2, Part
<1>4. Len(u) - (p + 1) + 1 = Len(u) - p
      /\ \A i \in 1 .. Len(u) - p : p + 1 + i - 1 = p + i
  BY <1>1
<1>5. Len(y) = Len(x) /\ \A i \in 1 .. Len(x) : x[i] = y[i]
  BY <1>3, <1>4
<1>6. x = y
  BY <1>3, <1>5, SeqEqual
<1> QED
  BY <1>6 DEF EndsIn

(* The same, by the elements.                                               *)
Shifted(x, s, p) ==
    /\ x \in Seq(Byte) /\ s \in Seq(Byte) /\ p \in Nat /\ p <= Len(s)
    /\ Len(x) = Len(s) - p /\ \A i \in 1 .. Len(x) : x[i] = s[p + i]

(* What a stream ends in and one more piece are what both end in.           *)
LEMMA EndThenMore ==
    ASSUME NEW s, NEW d \in Seq(Byte), NEW x, NEW p, Shifted(x, s, p)
    PROVE  Shifted(x \o d, s \o d, p)
<1>1. x \in Seq(Byte) /\ s \in Seq(Byte) /\ p \in Nat
  BY DEF Shifted
<1>0. x \o d \in Seq(Byte) /\ s \o d \in Seq(Byte)
  BY <1>1
<1>2. /\ Len(x \o d) = Len(x) + Len(d) /\ Len(s \o d) = Len(s) + Len(d)
      /\ Len(x) \in Nat /\ Len(s) \in Nat /\ Len(d) \in Nat
  BY <1>1
<1>3. Len(x) = Len(s) - p /\ p <= Len(s)
  BY DEF Shifted
<1>4. Len(x) + Len(d) = Len(s) + Len(d) - p /\ p <= Len(s) + Len(d)
  BY <1>1, <1>2, <1>3
<1>5. Len(x \o d) = Len(s \o d) - p /\ p <= Len(s \o d)
  <2>1. Len(x) + Len(d) = Len(s) + Len(d) - p
    BY <1>4
  <2>2. Len(x \o d) = Len(s \o d) - p
    BY <1>1, <1>2, <2>1
  <2>3. p <= Len(s) + Len(d)
    BY <1>4
  <2>4. p <= Len(s \o d)
    BY <1>2, <2>3, Zenon
  <2> QED
    BY <2>2, <2>4
<1>6. \A i \in 1 .. Len(x \o d) : (x \o d)[i] = (s \o d)[p + i]
  BY <1>1 DEF Shifted
<1> QED
  BY <1>0, <1>1, <1>5, <1>6, Zenon DEF Shifted

(* What feed looks at is the end of the whole stream. *)
LEMMA BufferedEnd ==
    ASSUME NEW s \in Seq(Byte), NEW d \in Seq(Byte), NEW p \in 0 .. Len(s),
           NEW buf, EndsIn(s, p, buf)
    PROVE  /\ Shifted(buf, s, p) /\ Shifted(buf \o d, s \o d, p)
           /\ EndsIn(s \o d, p, buf \o d)
<1> PICK u : u = s \o d
  OBVIOUS
<1> PICK all : all = buf \o d
  OBVIOUS
<1>0. buf = SubSeq(s, p + 1, Len(s))
  BY Zenon DEF EndsIn
<1>1. /\ Extends(u, s) /\ Len(u) = Len(s) + Len(d) /\ Len(d) \in Nat
      /\ \A i \in 1 .. Len(d) : u[Len(s) + i] = d[i]
  BY ConcatenationExtends
<1>2. Len(s) \in Nat /\ p \in Nat /\ p <= Len(s) /\ Len(u) \in Nat /\ u \in Seq(Byte)
  BY <1>1 DEF Extends
<1>3. /\ buf \in Seq(Byte) /\ Len(buf) = Len(s) - p
      /\ \A i \in 1 .. Len(s) - p : buf[i] = s[p + i]
  <2>0. p + 1 \in Nat /\ 1 <= p + 1 /\ p + 1 <= Len(s) + 1 /\ Len(s) <= Len(s)
    BY <1>2
  <2>1. /\ buf \in Seq(Byte) /\ Len(buf) = Len(s) - (p + 1) + 1
        /\ \A i \in 1 .. Len(s) - (p + 1) + 1 : buf[i] = s[p + 1 + i - 1]
    BY <1>0, <1>2, <2>0, Part
  <2>2. Len(s) - (p + 1) + 1 = Len(s) - p
        /\ \A i \in 1 .. Len(s) - p : p + 1 + i - 1 = p + i
    BY <1>2
  <2> QED
    BY <2>1, <2>2
<1>4. Shifted(buf, s, p) /\ Shifted(all, u, p)
  <2>1. \A i \in 1 .. Len(buf) : buf[i] = s[p + i]
    BY <1>3
  <2>2. Shifted(buf, s, p)
    BY <1>2, <1>3, <2>1, Zenon DEF Shifted
  <2> QED
    BY <2>2, EndThenMore, Zenon
<1>5. all \in Seq(Byte) /\ Len(all) = Len(u) - p
  BY <1>4, Zenon DEF Shifted
<1>6. \A i \in 1 .. Len(u) - p : all[i] = u[p + i]
  BY <1>4, <1>5, Zenon DEF Shifted
<1>7. EndsIn(u, p, all)
  <2>1. p \in 0 .. Len(u)
    BY <1>1, <1>2
  <2> QED
    BY <1>2, <1>5, <1>6, <2>1, EndOfSequence, Zenon
<1> QED
  BY <1>4, <1>7, Zenon

----------------------------------------------------------------------------
(* The sentence from element a to the newline j, and its position. *)
Value(s, a, j) == parse_gga_sentence(Stripped(SubSeq(s, a, j - 1)))
IsSentence(s, a, j) ==
    /\ a \in 1 .. Len(s) /\ j \in 1 .. Len(s) /\ a < j
    /\ SentenceAt(s, a, j) /\ Value(s, a, j) # NoFix

(* RoverGGA's set of sentences holds just these pairs.                      *)
LEMMA SentencesAre ==
    ASSUME NEW s \in Seq(Byte)
    PROVE  /\ \A a, j : IsSentence(s, a, j) <=> <<a, j>> \in Sentences(s)
           /\ \A e \in Sentences(s) : e = <<e[1], e[2]>> /\ IsSentence(s, e[1], e[2])
<1>1. DOMAIN s = 1 .. Len(s)
  BY LenProperties
<1>2. ASSUME NEW e \in Sentences(s)
      PROVE  e = <<e[1], e[2]>> /\ IsSentence(s, e[1], e[2])
  BY <1>1 DEF Sentences, IsSentence, Value
<1>3. ASSUME NEW a, NEW j, IsSentence(s, a, j) PROVE <<a, j>> \in Sentences(s)
  BY <1>1, <1>3 DEF Sentences, IsSentence, Value
<1>4. ASSUME NEW a, NEW j, <<a, j>> \in Sentences(s) PROVE IsSentence(s, a, j)
  BY <1>1, <1>4 DEF Sentences, IsSentence, Value
<1> QED
  BY <1>2, <1>3, <1>4, Zenon

(* A sentence has the same position in two streams.                         *)
SameValue(u, s, a, j) == Value(u, a, j) = Value(s, a, j)

(* A longer stream has the sentences of the shorter one, and no other that  *)
(* ends in it.                                                              *)
LEMMA SentencesExtend ==
    ASSUME NEW u, NEW s, Extends(u, s), NEW a, NEW j
    PROVE  /\ IsSentence(s, a, j) => IsSentence(u, a, j) /\ j <= Len(s)
           /\ IsSentence(u, a, j) /\ j <= Len(s) => IsSentence(s, a, j)
           /\ IsSentence(s, a, j) => SameValue(u, s, a, j)
<1>1. SUFFICES ASSUME a \in 1 .. Len(s), j \in 1 .. Len(s), a < j
               PROVE  /\ IsSentence(s, a, j) <=> IsSentence(u, a, j)
                      /\ SameValue(u, s, a, j)
  BY DEF IsSentence, Extends
<1>2. a \in 1 .. Len(u) /\ j \in 1 .. Len(u)
  BY <1>1 DEF Extends
<1>3. SentenceAt(s, a, j) <=> SentenceAt(u, a, j)
  <2>1. u[a] = s[a] /\ u[j] = s[j] /\ \A k \in a + 1 .. j - 1 : u[k] = s[k]
    BY <1>1 DEF Extends
  <2> QED
    BY <2>1 DEF SentenceAt
<1>4. PartsAgree(u, s, a, j - 1)
  <2>1. a \in Nat /\ j - 1 \in Nat /\ 1 <= a /\ a <= j - 1 + 1 /\ j - 1 <= Len(s)
    BY <1>1 DEF Extends
  <2> QED
    BY <2>1, ExtensionsPart
<1>5. Value(u, a, j) = Value(s, a, j)
  BY <1>4, Zenon DEF Value, PartsAgree
<1> QED
  BY <1>1, <1>2, <1>3, <1>5 DEF IsSentence, SameValue

(* LastPosition is that of the sentence that ends last.                     *)
LEMMA LastPositionIs ==
    ASSUME NEW s \in Seq(Byte), NEW a, NEW j, IsSentence(s, a, j),
           \A b, k : IsSentence(s, b, k) => k <= j
    PROVE  LastPosition(s) = Value(s, a, j)
<1>1. Len(s) \in Nat
  BY LenProperties
<1>2. <<a, j>> \in Sentences(s) /\ \A f \in Sentences(s) : f[2] <= j
  BY SentencesAre
<1> DEFINE last == CHOOSE e \in Sentences(s) : \A f \in Sentences(s) : f[2] <= e[2]
<1>3. last \in Sentences(s) /\ \A f \in Sentences(s) : f[2] <= last[2]
  BY <1>2
<1> HIDE DEF last
<1> PICK b, k : b = last[1] /\ k = last[2]
  OBVIOUS
<1>4. IsSentence(s, b, k)
  BY <1>3, SentencesAre
<1>5. b \in Nat /\ k \in Nat /\ a \in Nat /\ j \in Nat /\ a < j /\ b < k
  BY <1>1, <1>4 DEF IsSentence
<1>6. k = j
  BY <1>2, <1>3, <1>5
<1>7. b = a
  <2>1. s[a] = Dollar /\ s[b] = Dollar
    BY <1>4 DEF IsSentence, SentenceAt
  <2>2. \A i \in a + 1 .. j - 1 : s[i] # Dollar
    BY DEF IsSentence, SentenceAt
  <2>3. \A i \in b + 1 .. j - 1 : s[i] # Dollar
    BY <1>4, <1>6 DEF IsSentence, SentenceAt
  <2> QED
    BY <1>5, <1>6, <2>1, <2>2, <2>3
<1>8. LastPosition(s) = Value(s, last[1], last[2])
  BY <1>2, Zenon DEF LastPosition, Value, last
<1> QED
  BY <1>6, <1>7, <1>8, Zenon

(* If there is a sentence, one of them ends last.                           *)
LEMMA LastSentence ==
    ASSUME NEW s \in Seq(Byte), Sentences(s) # {}
    PROVE  \E a, j : IsSentence(s, a, j) /\ \A b, k : IsSentence(s, b, k) => k <= j
<1> DEFINE T == {k \in 0 .. Len(s) : \E b : IsSentence(s, b, k)}
<1>1. Len(s) \in Nat
  BY LenProperties
<1>2. \A b, k : IsSentence(s, b, k) => k \in T
  BY <1>1 DEF IsSentence
<1>3. T # {}
  BY <1>2, SentencesAre
<1>4. PICK j \in T : \A k \in T : k <= j
  <2>1. T \subseteq 0 .. Len(s)
    OBVIOUS
  <2> HIDE DEF T
  <2> QED
    BY <1>1, <1>3, <2>1, HasGreatest
<1> QED
  BY <1>2, <1>4

----------------------------------------------------------------------------
(* After a piece, the buffer holds the end of the longer stream. *)
LEMMA FeedHolds ==
    ASSUME NEW s \in Seq(Byte), NEW d \in Seq(Byte), NEW buf, NEW p, Holds(s, buf, p)
    PROVE  \E q \in 0 .. Len(s \o d) : Holds(s \o d, feed(buf, d).buffer, q)
<1> PICK u : u = s \o d
  OBVIOUS
<1> PICK all : all = buf \o d
  OBVIOUS
<1>1. /\ Extends(u, s) /\ u \in Seq(Byte) /\ Len(u) \in Nat /\ Len(s) \in Nat /\ Len(s) <= Len(u)
      /\ p \in Nat /\ p <= Len(s)
  BY ConcatenationExtends DEF Extends, Holds
<1>2. /\ all \in Seq(Byte) /\ Len(all) = Len(u) - p /\ all = SubSeq(u, p + 1, Len(u))
      /\ \A i \in 1 .. Len(u) - p : all[i] = u[p + i]
  <2>1. p \in 0 .. Len(s) /\ EndsIn(s, p, buf)
    BY Zenon DEF Holds, EndsIn
  <2>2. Shifted(all, u, p) /\ EndsIn(u, p, all)
    BY <2>1, BufferedEnd, Zenon
  <2> QED
    BY <2>2, Zenon DEF Shifted, EndsIn
<1> PICK r : r = rfind(all, LF)
  OBVIOUS
<1>3. /\ r \in 0 .. Len(all) /\ (r # 0 => all[r] = LF)
      /\ \A i \in 1 .. Len(all) : all[i] = LF => i <= r
  BY <1>2, rfindFinds, Zenon
<1>4. p + r \in 0 .. Len(u) /\ r \in Nat /\ r <= Len(u) - p
  <2>1. r \in 0 .. Len(u) - p
    BY <1>2, <1>3, Zenon
  <2> QED
    BY <1>1, <2>1
<1>5. SubSeq(all, r + 1, Len(all)) = SubSeq(u, p + r + 1, Len(u))
  <2>1. Within(u, p + 1, Len(u), r + 1, Len(u) - p)
    BY <1>1, <1>4 DEF Within
  <2>2. PartIsPart(u, p + 1, Len(u), r + 1, Len(u) - p)
    BY <2>1, PartOfPart, Zenon
  <2>3. p + 1 + (r + 1) - 1 = p + r + 1 /\ p + 1 + (Len(u) - p) - 1 = Len(u)
    BY <1>1, <1>4
  <2> QED
    BY <1>2, <2>2, <2>3, Zenon DEF PartIsPart
<1>6. ASSUME NEW i \in p + r + 1 .. Len(u) PROVE u[i] # LF
  <2>1. i - p \in 1 .. Len(u) - p /\ p + (i - p) = i /\ ~(i - p <= r)
    BY <1>1, <1>4
  <2>2. all[i - p] = u[i] /\ i - p \in 1 .. Len(all)
    BY <1>2, <2>1, Zenon
  <2> QED
    BY <1>3, <2>1, <2>2, Zenon
<1>7. ASSUME NEW i \in 1 .. p + r, Goes(u, i) PROVE Len(u) + 1 - i > MAX_ACCUMULATOR_SIZE
  <2>0. u[i] = Dollar /\ \A k \in i + 1 .. Len(u) : u[k] \notin {Dollar, LF}
    BY <1>7 DEF Goes
  <2>1. CASE r # 0
    <3>1. r \in 1 .. Len(u) - p /\ p + r \in 1 .. Len(u)
      BY <1>1, <1>4, <2>1
    <3>2. u[p + r] = LF
      BY <1>2, <1>3, <2>1, <3>1, Zenon
    <3>3. i # p + r
      BY <2>0, <3>2 DEF Dollar, LF
    <3>4. p + r \in i + 1 .. Len(u)
      BY <1>1, <1>4, <3>1, <3>3
    <3> QED
      BY <2>0, <3>2, <3>4
  <2>2. CASE r = 0
    <3>1. i \in 1 .. p /\ i \in 1 .. Len(s)
      BY <1>1, <2>2
    <3>2. Goes(s, i)
      <4>1. u[i] = s[i] /\ \A k \in i + 1 .. Len(s) : u[k] = s[k] /\ k \in i + 1 .. Len(u)
        BY <1>1, <3>1 DEF Extends
      <4> QED
        BY <2>0, <4>1 DEF Goes
    <3>3. Len(s) + 1 - i > MAX_ACCUMULATOR_SIZE
      BY <3>1, <3>2, Zenon DEF Holds
    <3>4. MAX_ACCUMULATOR_SIZE \in Nat
      BY RequestAssumption
    <3> QED
      BY <1>1, <3>1, <3>3, <3>4
  <2> QED
    BY <2>1, <2>2
<1>8. feed(buf, d).buffer = _bound_incomplete_data(SubSeq(all, r + 1, Len(all)))
  BY Zenon DEF feed
<1>9. \E q \in 0 .. Len(u) : Holds(u, _bound_incomplete_data(SubSeq(u, p + r + 1, Len(u))), q)
  BY <1>1, <1>4, <1>6, <1>7, BoundHolds
<1> QED
  BY <1>5, <1>8, <1>9, Zenon

(* A sentence of what feed looks at is one of the whole stream.             *)
SameSentence(all, u, p, a, j) ==
    /\ SentenceAt(all, a, j) <=> SentenceAt(u, p + a, p + j)
    /\ Value(all, a, j) = Value(u, p + a, p + j)

(* It is, if feed looks at the end of the stream.                           *)
LEMMA SentenceInEnd ==
    ASSUME NEW all, NEW u, NEW p, Shifted(all, u, p), EndsIn(u, p, all),
           NEW a, NEW j, a \in 1 .. Len(all), j \in 1 .. Len(all), a < j
    PROVE  SameSentence(all, u, p, a, j)
<1>1. /\ u \in Seq(Byte) /\ p \in Nat /\ p <= Len(u) /\ Len(all) = Len(u) - p
      /\ \A i \in 1 .. Len(all) : all[i] = u[p + i]
  BY Zenon DEF Shifted
<1>2. Len(u) \in Nat
  BY <1>1, LenProperties
<1> PICK n : n = Len(u)
  OBVIOUS
<1>3. n \in Nat /\ p \in Nat /\ p <= n /\ a \in 1 .. n - p /\ j \in 1 .. n - p /\ a < j
  BY <1>1, <1>2
<1> PICK x, y : x = p + a /\ y = p + j
  OBVIOUS
<1>4. SentenceAt(all, a, j) <=> SentenceAt(u, x, y)
  <2>1. all[a] = u[x] /\ all[j] = u[y]
    BY <1>1
  <2>2. ASSUME SentenceAt(all, a, j), NEW k \in x + 1 .. y - 1
        PROVE  u[k] \notin {Dollar, LF}
    <3>1. k - p \in a + 1 .. j - 1 /\ k - p \in 1 .. n - p /\ p + (k - p) = k
      BY <1>3
    <3>2. all[k - p] = u[k]
      BY <1>1, <3>1, Zenon
    <3> QED
      BY <2>2, <3>1, <3>2, Zenon DEF SentenceAt
  <2>3. ASSUME SentenceAt(u, x, y), NEW k \in a + 1 .. j - 1
        PROVE  all[k] \notin {Dollar, LF}
    <3>1. p + k \in x + 1 .. y - 1 /\ k \in 1 .. n - p
      BY <1>3
    <3>2. all[k] = u[p + k]
      BY <1>1, <3>1, Zenon
    <3> QED
      BY <2>3, <3>1, <3>2, Zenon DEF SentenceAt
  <2>4. SentenceAt(all, a, j) => SentenceAt(u, x, y)
    BY <2>1, <2>2, Zenon DEF SentenceAt
  <2>5. SentenceAt(u, x, y) => SentenceAt(all, a, j)
    BY <2>1, <2>3, Zenon DEF SentenceAt
  <2> QED
    BY <2>4, <2>5
<1>5. Value(all, a, j) = Value(u, x, y)
  <2>1. Within(u, p + 1, Len(u), a, j - 1)
    BY <1>1, <1>2, <1>3 DEF Within
  <2>2. PartIsPart(u, p + 1, Len(u), a, j - 1)
    BY <2>1, PartOfPart, Zenon
  <2>3. p + 1 + a - 1 = x /\ p + 1 + (j - 1) - 1 = y - 1
    BY <1>3
  <2>4. SubSeq(all, a, j - 1) = SubSeq(u, x, y - 1)
    BY <2>2, <2>3, Zenon DEF PartIsPart, EndsIn
  <2> QED
    BY <2>4, Zenon DEF Value
<1> QED
  BY <1>4, <1>5, Zenon DEF SameSentence

(* What feed finds: sentences of the whole stream, and, if they all end in  *)
(* time, all the new ones.                                                  *)
Finds(s, u, p, parsed) ==
    /\ \A j \in DOMAIN parsed :
          /\ p + j \in Len(s) + 1 .. Len(u) /\ j \in 1 .. Len(u)
          /\ parsed[j] # NoFix =>
                \E a : IsSentence(u, a, p + j) /\ parsed[j] = Value(u, a, p + j)
    /\ EndsInTime(u) =>
          \A a, k : IsSentence(u, a, k) /\ k > Len(s) =>
              k - p \in DOMAIN parsed /\ parsed[k - p] = Value(u, a, k)

(* feed finds these: a sentence that began before what is buffered has grown *)
(* too long to end in time.                                                 *)
LEMMA FeedFinds ==
    ASSUME NEW s \in Seq(Byte), NEW d \in Seq(Byte), NEW buf, NEW p, Holds(s, buf, p)
    PROVE  Finds(s, s \o d, p, feed(buf, d).parsed)
<1> PICK u : u = s \o d
  OBVIOUS
<1> PICK parsed : parsed = feed(buf, d).parsed
  OBVIOUS
<1> PICK all : all = buf \o d
  OBVIOUS
<1>1. /\ Extends(u, s) /\ u \in Seq(Byte) /\ Len(u) \in Nat /\ Len(s) \in Nat /\ Len(s) <= Len(u)
      /\ p \in Nat /\ p <= Len(s) /\ \A i \in 1 .. Len(s) : u[i] = s[i]
  BY ConcatenationExtends DEF Extends, Holds
<1>2. Shifted(all, u, p) /\ EndsIn(u, p, all)
  <2>1. p \in 0 .. Len(s) /\ EndsIn(s, p, buf)
    BY Zenon DEF Holds, EndsIn
  <2> QED
    BY <2>1, BufferedEnd, Zenon
<1>3. /\ all \in Seq(Byte) /\ Len(all) = Len(u) - p
      /\ \A i \in 1 .. Len(u) - p : all[i] = u[p + i]
  BY <1>2, Zenon DEF Shifted
<1>4. DOMAIN all = 1 .. Len(all)
  BY <1>3, LenProperties
<1>5. /\ DOMAIN parsed = {k \in 1 .. Len(all) : all[k] = LF}
      /\ \A j \in DOMAIN parsed : parsed[j] = ParseLine(LineTo(all, j))
  <2>1. parsed = [i \in {k \in DOMAIN all : all[k] = LF} |-> ParseLine(LineTo(all, i))]
    BY Zenon DEF feed
  <2> QED
    BY <1>4, <2>1
<1> PICK n, m : n = Len(u) /\ m = Len(s)
  OBVIOUS
<1>6. n \in Nat /\ m \in Nat /\ p \in Nat /\ p <= m /\ m <= n
  BY <1>1
<1>7. ASSUME NEW j \in DOMAIN parsed
      PROVE  /\ p + j \in m + 1 .. n /\ j \in 1 .. n
             /\ parsed[j] # NoFix =>
                   \E a : IsSentence(u, a, p + j) /\ parsed[j] = Value(u, a, p + j)
  <2>1. j \in 1 .. Len(all) /\ j \in 1 .. n - p /\ all[j] = LF
    BY <1>3, <1>5
  <2>2. u[p + j] = LF
    BY <1>3, <2>1
  <2>3. p + j > m
    <3>1. SUFFICES ASSUME ~(p + j > m) PROVE FALSE
      OBVIOUS
    <3>2. p + j \in p + 1 .. m /\ p + j \in 1 .. m
      BY <1>6, <2>1, <3>1
    <3>3. s[p + j] = LF
      BY <1>1, <2>2, <3>2, Zenon
    <3> QED
      BY <3>2, <3>3, Zenon DEF Holds
  <2>4. p + j \in m + 1 .. n /\ j \in 1 .. n
    BY <1>6, <2>1, <2>3
  <2>5. ASSUME parsed[j] # NoFix
        PROVE  \E a : IsSentence(u, a, p + j) /\ parsed[j] = Value(u, a, p + j)
    <3>1. PICK a \in 1 .. j - 1 : SentenceAt(all, a, j)
      BY <1>3, <1>5, <2>1, <2>5, LineParses
    <3>2. parsed[j] = Value(all, a, j)
      BY <1>3, <1>5, <2>1, <3>1, LineParses DEF Value
    <3>3. a \in 1 .. Len(all) /\ a < j
      <4>1. a \in 1 .. n - p /\ a < j
        BY <1>6, <2>1
      <4> QED
        BY <1>3, <4>1, Zenon
    <3>4. SentenceAt(u, p + a, p + j) /\ Value(all, a, j) = Value(u, p + a, p + j)
      <4>1. SameSentence(all, u, p, a, j)
        BY <1>2, <2>1, <3>3, SentenceInEnd, Zenon
      <4> QED
        BY <3>1, <4>1, Zenon DEF SameSentence
    <3>5. p + a \in 1 .. Len(u) /\ p + j \in 1 .. Len(u) /\ p + a < p + j
      <4>0. j \in 1 .. n - p
        BY <2>1
      <4>1. p + a \in 1 .. n /\ p + j \in 1 .. n /\ p + a < p + j
        BY <1>6, <4>0
      <4> QED
        BY <4>1, Zenon
    <3> QED
      BY <2>5, <3>2, <3>4, <3>5, Zenon DEF IsSentence
  <2> QED
    BY <2>4, <2>5
<1>8. ASSUME EndsInTime(u), NEW a, NEW k, IsSentence(u, a, k), k > m
      PROVE  k - p \in DOMAIN parsed /\ parsed[k - p] = Value(u, a, k)
  <2>1. a \in 1 .. n /\ k \in 1 .. n /\ a < k /\ SentenceAt(u, a, k)
    BY <1>8, Zenon DEF IsSentence
  <2>2. k - a <= MAX_ACCUMULATOR_SIZE
    <3>1. <<a, k>> \in Sentences(u)
      BY <1>1, <1>8, SentencesAre
    <3> QED
      BY <1>8, <3>1 DEF EndsInTime
  <2>3. a > p
    <3>1. SUFFICES ASSUME a <= p PROVE FALSE
      BY <1>6, <2>1
    <3>2. Goes(s, a)
      <4>1. a \in 1 .. m /\ a \in 1 .. p
        BY <1>6, <2>1, <3>1
      <4>2. ASSUME NEW i \in a + 1 .. m PROVE s[i] \notin {Dollar, LF}
        <5>1. i \in a + 1 .. k - 1 /\ i \in 1 .. m
          BY <1>6, <1>8, <2>1
        <5>2. u[i] \notin {Dollar, LF}
          BY <2>1, <5>1, Zenon DEF SentenceAt
        <5> QED
          BY <1>1, <5>1, <5>2, Zenon
      <4>3. s[a] = Dollar
        BY <1>1, <2>1, <4>1, Zenon DEF SentenceAt
      <4> QED
        BY <4>2, <4>3, Zenon DEF Goes
    <3>3. a \in 1 .. p
      BY <1>6, <2>1, <3>1
    <3>4. m + 1 - a > MAX_ACCUMULATOR_SIZE
      BY <3>2, <3>3, Zenon DEF Holds
    <3>5. MAX_ACCUMULATOR_SIZE \in Nat
      BY RequestAssumption
    <3> QED
      BY <1>6, <1>8, <2>1, <2>2, <3>4, <3>5
  <2>4. /\ a - p \in 1 .. n - p /\ k - p \in 1 .. n - p /\ a - p < k - p
        /\ a - p \in 1 .. (k - p) - 1 /\ p + (a - p) = a /\ p + (k - p) = k
    BY <1>6, <2>1, <2>3
  <2>5. all[k - p] = LF
    <3>1. u[k] = LF
      BY <2>1 DEF SentenceAt
    <3> QED
      BY <1>3, <2>4, <3>1, Zenon
  <2>6. a - p \in 1 .. Len(all) /\ k - p \in 1 .. Len(all)
    BY <1>3, <2>4, Zenon
  <2>7. k - p \in DOMAIN parsed /\ parsed[k - p] = ParseLine(LineTo(all, k - p))
    BY <1>5, <2>5, <2>6
  <2>8. SentenceAt(all, a - p, k - p) /\ Value(all, a - p, k - p) = Value(u, a, k)
    <3>1. SameSentence(all, u, p, a - p, k - p)
      BY <1>2, <2>4, <2>6, SentenceInEnd, Zenon
    <3> QED
      BY <2>1, <2>4, <3>1, Zenon DEF SameSentence
  <2>9. ParseLine(LineTo(all, k - p)) = Value(all, a - p, k - p)
    BY <1>3, <2>4, <2>5, <2>6, <2>8, LineParses, Zenon DEF Value
  <2> QED
    BY <2>7, <2>8, <2>9, Zenon
<1>9. Finds(s, u, p, parsed)
  BY <1>7, <1>8, Zenon DEF Finds
<1> QED
  BY <1>9, Zenon

----------------------------------------------------------------------------
(* A rover's accumulator and position after a stream s. *)
Accumulated(s, buf, at) ==
    /\ \E p \in 0 .. Len(s) : Holds(s, buf, p)
    /\ EndsInTime(s) => at = LastPosition(s)

(* The position after feed: the last valid one of its lines, or the old one. *)
Latest(parsed, at) ==
    LET valid == {i \in DOMAIN parsed : parsed[i] # NoFix}
    IN  IF valid = {} THEN at ELSE parsed[Max(valid)]

(* A new accumulator has heard nothing.                                     *)
LEMMA NothingAccumulated == Accumulated(<<>>, <<>>, NoFix)
<1>1. <<>> \in Seq(Byte) /\ Len(<<>>) = 0
  OBVIOUS
<1>2. Holds(<<>>, <<>>, 0)
  BY <1>1 DEF Holds
<1>3. Sentences(<<>>) = {}
  BY <1>1 DEF Sentences
<1> QED
  BY <1>1, <1>2, <1>3 DEF Accumulated, LastPosition

(* One more piece, whatever the cut: the accumulator is that of the longer  *)
(* stream, and the position that of its last sentence.                      *)
LEMMA FeedAccumulates ==
    ASSUME NEW s \in Seq(Byte), NEW d \in Seq(Byte), NEW buf, NEW at, Accumulated(s, buf, at)
    PROVE  Accumulated(s \o d, feed(buf, d).buffer, Latest(feed(buf, d).parsed, at))
<1> PICK u : u = s \o d
  OBVIOUS
<1> PICK parsed : parsed = feed(buf, d).parsed
  OBVIOUS
<1> PICK p \in 0 .. Len(s) : Holds(s, buf, p)
  BY Zenon DEF Accumulated
<1>1. \E q \in 0 .. Len(u) : Holds(u, feed(buf, d).buffer, q)
  BY FeedHolds, Zenon
<1>2. Extends(u, s) /\ u \in Seq(Byte) /\ Len(u) \in Nat /\ Len(s) \in Nat
  BY ConcatenationExtends DEF Extends
<1> DEFINE valid == {i \in DOMAIN parsed : parsed[i] # NoFix}
<1>3. ASSUME EndsInTime(u) PROVE Latest(parsed, at) = LastPosition(u)
  <2>1. /\ \A j \in DOMAIN parsed :
              /\ p + j \in Len(s) + 1 .. Len(u) /\ j \in 1 .. Len(u)
              /\ parsed[j] # NoFix =>
                    \E a : IsSentence(u, a, p + j) /\ parsed[j] = Value(u, a, p + j)
        /\ \A a, k : IsSentence(u, a, k) /\ k > Len(s) =>
               k - p \in DOMAIN parsed /\ parsed[k - p] = Value(u, a, k)
    <3>1. Finds(s, u, p, parsed)
      BY FeedFinds, Zenon
    <3> QED
      BY <1>3, <3>1, Zenon DEF Finds
  <2>2. \A a, k : IsSentence(s, a, k) => IsSentence(u, a, k) /\ k <= Len(s)
    BY <1>2, SentencesExtend
  <2>3. EndsInTime(s)
    BY <1>2, <1>3, <2>2, SentencesAre DEF EndsInTime
  <2>4. at = LastPosition(s)
    BY <2>3 DEF Accumulated
  <2>5. \A a, k : IsSentence(u, a, k) => Value(u, a, k) # NoFix /\ k \in 1 .. Len(u)
    BY DEF IsSentence
  <2>6. CASE valid = {}
    <3>1. \A a, k : IsSentence(u, a, k) => k <= Len(s)
      BY <1>2, <2>1, <2>5, <2>6
    <3>2. \A a, k : IsSentence(u, a, k) <=> IsSentence(s, a, k)
      BY <1>2, <2>2, <3>1, SentencesExtend
    <3>3. LastPosition(u) = LastPosition(s)
      <4>1. CASE Sentences(s) = {}
        <5>1. Sentences(u) = {}
          <6>1. \A e \in Sentences(u) : <<e[1], e[2]>> \in Sentences(s)
            BY <1>2, <3>2, SentencesAre, Zenon
          <6> QED
            BY <4>1, <6>1
        <5> QED
          BY <4>1, <5>1 DEF LastPosition
      <4>2. CASE Sentences(s) # {}
        <5>1. PICK a, j : IsSentence(s, a, j) /\ \A b, k : IsSentence(s, b, k) => k <= j
          BY <4>2, LastSentence
        <5>2. LastPosition(s) = Value(s, a, j)
          BY <5>1, LastPositionIs, Zenon
        <5>3. LastPosition(u) = Value(u, a, j)
          BY <1>2, <3>2, <5>1, LastPositionIs, Zenon
        <5>4. Value(u, a, j) = Value(s, a, j)
          <6>1. SameValue(u, s, a, j)
            BY <1>2, <5>1, SentencesExtend, Zenon
          <6> QED
            BY <6>1, Zenon DEF SameValue
        <5> QED
          BY <5>2, <5>3, <5>4, Zenon
      <4> QED
        BY <4>1, <4>2
    <3> QED
      BY <2>4, <2>6, <3>3, Zenon DEF Latest
  <2>7. CASE valid # {}
    <3>1. Max(valid) \in valid /\ \A i \in valid : i <= Max(valid)
      <4>1. valid \subseteq 0 .. Len(u)
        BY <2>1
      <4> HIDE DEF valid
      <4> QED
        BY <1>2, <2>7, <4>1, MaxOf
    <3> PICK j : j = Max(valid)
      OBVIOUS
    <3>2. j \in DOMAIN parsed /\ parsed[j] # NoFix /\ j \in 1 .. Len(u)
      BY <2>1, <3>1
    <3>3. PICK a : IsSentence(u, a, p + j) /\ parsed[j] = Value(u, a, p + j)
      BY <2>1, <3>2
    <3>4. ASSUME NEW b, NEW k, IsSentence(u, b, k) PROVE k <= p + j
      <4>1. k \in Nat /\ p + j > Len(s)
        BY <1>2, <2>1, <2>5, <3>2, <3>4
      <4>2. CASE k <= Len(s)
        BY <1>2, <3>2, <4>1, <4>2
      <4>3. CASE ~(k <= Len(s))
        <5>1. k > Len(s)
          BY <1>2, <4>1, <4>3
        <5>2. k - p \in valid
          BY <2>1, <2>5, <3>4, <5>1
        <5>3. k - p <= j
          BY <3>1, <5>2, Zenon
        <5> QED
          BY <1>2, <3>2, <4>1, <5>3
      <4> QED
        BY <4>2, <4>3
    <3>5. LastPosition(u) = Value(u, a, p + j)
      BY <1>2, <3>3, <3>4, LastPositionIs, Zenon
    <3> QED
      BY <2>7, <3>3, <3>5, Zenon DEF Latest
  <2> QED
    BY <2>6, <2>7
<1> QED
  BY <1>1, <1>3, Zenon DEF Accumulated

----------------------------------------------------------------------------
(* The buffer stays a sequence of bytes. *)
LEMMA BoundKeepsBytes ==
    ASSUME NEW t \in Seq(Byte)
    PROVE  _bound_incomplete_data(t) \in Seq(Byte)
<1> DEFINE M == MAX_ACCUMULATOR_SIZE
<1>1. Len(t) \in Nat /\ M \in Nat
  BY LenProperties, RequestAssumption
<1>2. CASE Len(t) <= M
  <2>1. ~(Len(t) > M)
    BY <1>1, <1>2
  <2>2. _bound_incomplete_data(t) = t
    BY <1>2, <2>1, Zenon DEF _bound_incomplete_data
  <2> QED
    BY <2>2
<1>3. CASE ~(Len(t) <= M)
  <2>1. PICK kept : kept = SubSeq(t, Len(t) - M + 1, Len(t))
    OBVIOUS
  <2>2. PICK start : start = rfind(kept, Dollar)
    OBVIOUS
  <2>3. /\ Len(t) > M /\ Len(t) - M + 1 \in Nat /\ 1 <= Len(t) - M + 1
        /\ Len(t) - M + 1 <= Len(t) + 1 /\ Len(t) <= Len(t)
    BY <1>1, <1>3
  <2>4. kept \in Seq(Byte)
    BY <1>1, <2>1, <2>3, Part
  <2>5. Len(kept) \in Nat /\ start \in 0 .. Len(kept)
    BY <2>2, <2>4, LenProperties, rfindFinds
  <2>6. _bound_incomplete_data(t) = IF start = 0 THEN <<>> ELSE SubSeq(kept, start, Len(kept))
    BY <1>3, <2>1, <2>2, <2>3, Zenon DEF _bound_incomplete_data
  <2>7. <<>> \in Seq(Byte)
    OBVIOUS
  <2>8. ASSUME start # 0 PROVE SubSeq(kept, start, Len(kept)) \in Seq(Byte)
    <3>1. start \in Nat /\ 1 <= start /\ start <= Len(kept) + 1 /\ Len(kept) <= Len(kept)
      BY <2>5, <2>8
    <3> QED
      BY <2>4, <2>5, <3>1, Part
  <2> QED
    BY <2>6, <2>7, <2>8, Zenon
<1> QED
  BY <1>2, <1>3

(* So does feed.                                                            *)
LEMMA FeedKeepsBytes ==
    ASSUME NEW buf \in Seq(Byte), NEW d \in Seq(Byte)
    PROVE  feed(buf, d).buffer \in Seq(Byte)
<1>1. PICK all : all = buf \o d
  OBVIOUS
<1>2. all \in Seq(Byte)
  BY <1>1
<1>3. PICK r : r = rfind(all, LF)
  OBVIOUS
<1>4. Len(all) \in Nat /\ r \in 0 .. Len(all)
  BY <1>2, <1>3, LenProperties, rfindFinds
<1>5. r + 1 \in Nat /\ 1 <= r + 1 /\ r + 1 <= Len(all) + 1 /\ Len(all) <= Len(all)
  BY <1>4
<1>6. SubSeq(all, r + 1, Len(all)) \in Seq(Byte)
  BY <1>2, <1>4, <1>5, Part
<1>7. feed(buf, d).buffer = _bound_incomplete_data(SubSeq(all, r + 1, Len(all)))
  BY <1>1, <1>3, Zenon DEF feed
<1> QED
  BY <1>6, <1>7, BoundKeepsBytes, Zenon

----------------------------------------------------------------------------
(* A piece is not empty and does not go beyond what the client sends.       *)
LEMMA PieceFits ==
    ASSUME NEW h \in Handler, IsRequest(conv[h]), NEW limit \in Int,
           read[h] \in Nat, NEW k \in Pieces(h, limit)
    PROVE  /\ k \in Nat \ {0} /\ read[h] + k \in Nat
           /\ read[h] + k <= Len(Stream(conv[h]))
<1> DEFINE n == Len(Stream(conv[h]))
           m == Least({BUFFER_SIZE, limit, n - read[h]})
<1>1. n \in Nat
  BY StreamParts
<1>2. BUFFER_SIZE \in Int /\ limit \in Int /\ n - read[h] \in Int
  BY <1>1, RequestAssumption
<1>3. m \in Int /\ m <= n - read[h]
  <2> HIDE DEF n
  <2> QED
    BY <1>2, LeastOfThree
<1>4. k \in 1 .. m
  BY DEF Pieces
<1> HIDE DEF m, n
<1>5. k \in Nat \ {0} /\ k <= n - read[h]
  BY <1>1, <1>3, <1>4
<1>6. read[h] + k <= n
  BY <1>1, <1>5
<1> QED
  BY <1>5, <1>6 DEF n

(* A part of what a client sends. *)
LEMMA PartOfStream ==
    ASSUME NEW u \in Seq(Byte), NEW a \in Nat \ {0}, NEW b \in Nat, b <= Len(u)
    PROVE  SubSeq(u, a, b) \in Seq(Byte)
<1>1. Len(u) \in Nat /\ \A i \in 1 .. Len(u) : u[i] \in Byte
  BY LenProperties, ElementOfSeq
<1>2. \A i \in a .. b : u[i] \in Byte
  BY <1>1
<1> QED
  BY <1>2, SubSeqProperties

(* The position of a sentence is one of the accepted ones. *)
LEMMA SentencePosition ==
    ASSUME NEW s
    PROVE  parse_gga_sentence(s) \in Fixes \cup {NoFix}
<1> DEFINE at == {i \in DOMAIN s : s[i] \in Fixes}
<1>1. CASE Cardinality(at) = 1
  <2>1. at # {}
    BY <1>1, FS_EmptySet
  <2>2. (CHOOSE i \in at : TRUE) \in at
    BY <2>1
  <2>3. s[CHOOSE i \in at : TRUE] \in Fixes
    BY <2>2
  <2> HIDE DEF at
  <2> QED
    BY <2>3 DEF parse_gga_sentence, at
<1>2. CASE Cardinality(at) # 1
  BY <1>2 DEF parse_gga_sentence
<1> QED
  BY <1>1, <1>2

----------------------------------------------------------------------------
(* What each variable ranges over, as far as the steps need it. *)
Shape ==
    /\ TypeOK
    /\ read \in [Handler -> Nat] /\ rest \in [Handler -> Seq(Byte)]
    /\ stored \in [Handler -> Seq(Byte)]
    /\ DOMAIN key = Handler /\ DOMAIN seen = Handler
    /\ DOMAIN pos = Handler /\ buffer \in [Handler -> Seq(Byte)]
    /\ \A h \in Handler : pc[h] # "idle" => conv[h] # Silence
    /\ DOMAIN page = {"step", "mount", "edit"} /\ page.step \in {"idle", "row", "source"}
    /\ page.edit \in Edits \cup {None}
    /\ page.step # "idle" => page.mount \in Mount

(* What a handler does leaves every other handler and the database alone. *)
SameFor(k) ==
    /\ pc'[k] = pc[k] /\ task'[k] = task[k] /\ key'[k] = key[k] /\ seen'[k] = seen[k]
    /\ read'[k] = read[k] /\ rest'[k] = rest[k] /\ stored'[k] = stored[k]
    /\ buffer'[k] = buffer[k] /\ pos'[k] = pos[k]

(* And the conversation and the database.                                   *)
OnlyFor(h) ==
    /\ conv' = conv /\ UNCHANGED database
    /\ \A k \in Handler \ {h} : SameFor(k)

(* A handler moves only itself.                                             *)
LEMMA HandlerMoves ==
    ASSUME Shape, NEW h \in Handler, Connect(h) \/ HandlerStep(h) \/ ServeStep(h)
    PROVE  OnlyFor(h)
<1> USE DEF OnlyFor, SameFor, input, output, database, history, Goto
<1>1. CASE Connect(h)
  BY <1>1 DEF Connect, Shape, TypeOK
<1>2. CASE Recv(h)
  BY <1>2 DEF Recv, RecvPiece, RecvEnds, Finish, Say, Shape, TypeOK
<1>3. CASE Handle(h)
  <2>1. conv' = conv /\ UNCHANGED <<read, rest, key, output, database, history>>
    BY <1>3, Zenon DEF Handle
  <2>2. \A k \in Handler \ {h} : pc'[k] = pc[k] /\ task'[k] = task[k]
    BY <1>3, ZenonT(40) DEF Handle, Finish, Refuse, Verify, Say, Shape, TypeOK
  <2> QED
    BY <2>1, <2>2
<1>4. CASE VerifyUser(h)
  BY <1>4 DEF VerifyUser, Refuse, Finish, Say, Shape, TypeOK
<1>5. CASE Digest(h)
  BY <1>5 DEF Digest, Refuse, Finish, Say, Shape, TypeOK
<1>6. CASE Rows(h)
  BY <1>6 DEF Rows, UploadRows, DownloadMountRow, See, ToLimit, Refuse, Finish, Say, Shape, TypeOK
<1>7. CASE DownloadUserRow(h)
  BY <1>7 DEF DownloadUserRow, See, Refuse, Finish, Say, Shape, TypeOK
<1>8. CASE Limit(h)
  BY <1>8 DEF Limit, Refuse, Finish, Say, Shape, TypeOK
<1>9. CASE Accepted(h)
  BY <1>9 DEF Accepted, RtspCommand, Refuse, Finish, Say, Shape, TypeOK
<1>10. CASE Register(h)
  BY <1>10 DEF Register, Refuse, Finish, Say, Shape, TypeOK
<1>11. CASE InitialRoverGga(h)
  BY <1>11 DEF InitialRoverGga, ConsumeRoverGga, Shape, TypeOK
<1>12. CASE ServePiece(h)
  BY <1>12, ZenonT(40) DEF ServePiece, UploadPiece, RoverPiece, ConsumeRoverGga, Shape, TypeOK
<1>13. CASE ServeEnds(h)
  BY <1>13 DEF ServeEnds, Shape, TypeOK
<1> QED
  BY <1>1, <1>2, <1>3, <1>4, <1>5, <1>6, <1>7, <1>8, <1>9, <1>10, <1>11, <1>12, <1>13
     DEF HandlerStep, ServeStep

----------------------------------------------------------------------------
(* A client that is not silent has sent a well-formed request.              *)
LEMMA TalkersHaveRequests ==
    ASSUME Shape, NEW h \in Handler, conv[h] # Silence
    PROVE  /\ IsRequest(conv[h])
           /\ Stream(conv[h]) \in Seq(Byte) /\ Len(Stream(conv[h])) \in Nat
           /\ Len(conv[h].head) \in Nat
           /\ read[h] \in Nat /\ read[h] <= Len(Stream(conv[h]))
           /\ conv[h].auth = None \/ conv[h].auth.user \in User \cup {None}
<1>1. IsRequest(conv[h])
  BY ConversationAssumption DEF Shape, TypeOK
<1>2. read[h] \in 0 .. Len(Stream(conv[h]))
  BY Zenon DEF Shape, TypeOK
<1>3. conv[h].auth = None \/ conv[h].auth.user \in User \cup {None}
  BY <1>1 DEF IsRequest
<1> QED
  BY <1>1, <1>2, <1>3, StreamParts

(* What the steps of a handler do to its own input and output. *)
LEMMA ConsumeFinds ==
    ASSUME Shape, NEW h \in Handler, NEW bytes \in Seq(Byte), ConsumeRoverGga(h, bytes)
    PROVE  /\ buffer' \in [Handler -> Seq(Byte)] /\ DOMAIN pos' = Handler
           /\ pos'[h] \in Fixes \cup {NoFix}
<1> DEFINE fed == feed(buffer[h], bytes)
           all == buffer[h] \o bytes
           valid == {i \in DOMAIN fed.parsed : fed.parsed[i] # NoFix}
<1>0. buffer[h] \in Seq(Byte) /\ fed.buffer \in Seq(Byte)
  BY FeedKeepsBytes DEF Shape
<1>1. all \in Seq(Byte)
  BY <1>0
<1>2. DOMAIN fed.parsed = {k \in DOMAIN all : all[k] = LF}
      /\ \A i \in DOMAIN fed.parsed : fed.parsed[i] = ParseLine(LineTo(all, i))
  BY DEF feed
<1>3. \A i \in DOMAIN fed.parsed : fed.parsed[i] \in Fixes \cup {NoFix}
  BY <1>2, SentencePosition DEF ParseLine
<1>4. DOMAIN pos = Handler /\ buffer \in [Handler -> Seq(Byte)] /\ pos[h] \in Fixes \cup {NoFix}
  BY DEF Shape, TypeOK
<1>41. buffer' = [buffer EXCEPT ![h] = fed.buffer]
  BY DEF ConsumeRoverGga
<1>42. buffer' \in [Handler -> Seq(Byte)]
  <2> HIDE DEF fed
  <2> QED
    BY <1>0, <1>4, <1>41
<1>5. CASE valid = {}
  BY <1>4, <1>42, <1>5 DEF ConsumeRoverGga
<1>6. CASE valid # {}
  <2>1. Len(all) \in Nat /\ DOMAIN all = 1 .. Len(all)
    BY <1>1, LenProperties
  <2>2. valid \subseteq 0 .. Len(all)
    BY <1>2, <2>1
  <2>3. \E i \in valid : \A j \in valid : j <= i
    <3> HIDE DEF all, valid
    <3> QED
      BY <1>6, <2>1, <2>2, HasGreatest
  <2>4. Max(valid) \in valid
    BY <2>3 DEF Max
  <2>5. pos' = [pos EXCEPT ![h] = fed.parsed[Max(valid)]]
    BY <1>6, Zenon DEF ConsumeRoverGga
  <2> QED
    BY <1>3, <1>4, <1>42, <2>4, <2>5
<1> QED
  BY <1>5, <1>6

(* The header has come, with what follows it. *)
HeaderIsRead(h) ==
    LET c == conv[h] IN
    /\ c.whole /\ Len(c.head) + 4 <= read[h]
    /\ rest[h] = SubSeq(Stream(c), Len(c.head) + 5, read[h])

(* A piece of the header completes it, with the rest behind it, or not.     *)
LEMMA PieceOfHeader ==
    ASSUME Shape, NEW h \in Handler, pc[h] = "recv", conv' = conv, RecvPiece(h)
    PROVE  /\ pc' \in [Handler -> Labels]
           /\ read' \in [Handler -> Nat] /\ read'[h] <= Len(Stream(conv[h]))
           /\ rest' \in [Handler -> Seq(Byte)]
           /\ \/ pc'[h] = "handle" /\ HeaderIsRead(h)'
              \/ pc'[h] \in {"recv", "closed"} /\ rest' = rest
<1> PICK k \in Pieces(h, MAX_INITIAL_HEADER_SIZE - read[h]) :
        LET bytes == SubSeq(Stream(conv[h]), 1, read[h] + k)
            at    == Find(bytes)
        IN  /\ read' = [read EXCEPT ![h] = @ + k]
            /\ IF at > 0
               THEN /\ rest' = [rest EXCEPT ![h] = SubSeq(bytes, at + 4, Len(bytes))]
                    /\ Goto(h, "handle")
               ELSE /\ Goto(h, IF Len(bytes) >= MAX_INITIAL_HEADER_SIZE THEN "closed" ELSE "recv")
                    /\ UNCHANGED rest
  BY Zenon DEF RecvPiece
<1> DEFINE c == conv[h]  n == read[h] + k  s == Stream(c)
           bytes == SubSeq(s, 1, n)  at == Find(bytes)
<1>1. /\ IsRequest(c) /\ s \in Seq(Byte) /\ Len(s) \in Nat /\ Len(c.head) \in Nat
      /\ read[h] \in Nat
  BY TalkersHaveRequests DEF Shape
<1>2. k \in Nat \ {0} /\ n \in Nat /\ n <= Len(s)
  <2>1. MAX_INITIAL_HEADER_SIZE - read[h] \in Int
    BY <1>1, RequestAssumption
  <2> QED
    BY <1>1, <2>1, PieceFits
<1>3. read' = [read EXCEPT ![h] = n] /\ read \in [Handler -> Nat]
  BY DEF Shape
<1>4. read' \in [Handler -> Nat] /\ read'[h] = n
  <2> HIDE DEF n
  <2> QED
    BY <1>2, <1>3
<1>5. /\ pc \in [Handler -> Labels]
      /\ rest \in [Handler -> Seq(Byte)]
  BY DEF Shape, TypeOK, Labels
<1>6. CASE at > 0
  <2>1. at = Len(c.head) + 1 /\ c.whole /\ Len(c.head) + 4 <= n
    <3>1. n \in 0 .. Len(s)
      BY <1>1, <1>2
    <3> HIDE DEF n, c
    <3> QED
      BY <1>1, <1>6, <3>1, FindsHead
  <2>2. bytes \in Seq(Byte) /\ Len(bytes) = n
    <3>1. 1 \in Nat /\ 1 <= 1 /\ 1 <= n + 1 /\ n - 1 + 1 = n
      BY <1>2
    <3> HIDE DEF n, s
    <3>2. bytes \in Seq(Byte) /\ Len(bytes) = n - 1 + 1
      BY <1>1, <1>2, <3>1, Part
    <3> QED
      BY <3>1, <3>2, Zenon
  <2>3. SubSeq(bytes, at + 4, Len(bytes)) = SubSeq(s, Len(c.head) + 5, n)
    <3>1. Within(s, 1, n, Len(c.head) + 5, n)
      <4> HIDE DEF n, s, c
      <4> QED
        BY <1>1, <1>2, <2>1, SMTT(30) DEF Within
    <3>2. PartIsPart(s, 1, n, Len(c.head) + 5, n)
      BY <3>1, PartOfPart, Zenon
    <3>3. 1 + (Len(c.head) + 5) - 1 = Len(c.head) + 5 /\ 1 + n - 1 = n
      <4> HIDE DEF n, c
      <4> QED
        BY <1>1, <1>2
    <3>4. at + 4 = Len(c.head) + 5
      <4> HIDE DEF c, at
      <4> QED
        BY <1>1, <2>1
    <3> HIDE DEF n, s, c, at
    <3> QED
      BY <2>2, <3>2, <3>3, <3>4, Zenon DEF PartIsPart
  <2>4. SubSeq(s, Len(c.head) + 5, n) \in Seq(Byte)
    <3> HIDE DEF n, s, c
    <3>1. Len(c.head) + 5 \in Nat /\ 1 <= Len(c.head) + 5 /\ Len(c.head) + 5 <= n + 1
      BY <1>1, <1>2, <2>1, SMTT(30)
    <3> QED
      BY <1>1, <1>2, <3>1, Part
  <2>5. rest' = [rest EXCEPT ![h] = SubSeq(s, Len(c.head) + 5, n)] /\ Goto(h, "handle")
    BY <1>6, <2>3, Zenon
  <2>6. rest' \in [Handler -> Seq(Byte)] /\ rest'[h] = SubSeq(s, Len(c.head) + 5, n)
    <3> PICK x \in Seq(Byte) : x = SubSeq(s, Len(c.head) + 5, n)
      BY <2>4
    <3>1. rest' = [rest EXCEPT ![h] = x]
      BY <2>5, Zenon
    <3>2. rest' \in [Handler -> Seq(Byte)] /\ rest'[h] = x
      BY <1>5, <3>1
    <3> QED
      BY <3>2, Zenon
  <2>7. HeaderIsRead(h)'
    BY <1>4, <2>1, <2>6, Zenon DEF HeaderIsRead
  <2>8. /\ pc'[h] = "handle"
        /\ pc' \in [Handler -> Labels]
    BY <1>5, <2>5 DEF Goto, Labels
  <2> QED
    BY <1>2, <1>4, <2>6, <2>7, <2>8, Zenon
<1>7. CASE ~(at > 0)
  <2>1. rest' = rest /\ (Goto(h, "closed") \/ Goto(h, "recv"))
    BY <1>7, Zenon
  <2>2. /\ pc'[h] \in {"recv", "closed"}
        /\ pc' \in [Handler -> Labels]
    BY <1>5, <2>1 DEF Goto, Labels
  <2> QED
    BY <1>2, <1>4, <1>5, <2>1, <2>2, Zenon
<1> QED
  BY <1>6, <1>7

(* A piece of a stream is bytes the client sends.                           *)
LEMMA PieceOfStream ==
    ASSUME Shape, NEW h \in Handler, conv[h] # Silence, NEW k \in Pieces(h, BUFFER_SIZE),
           read' = [read EXCEPT ![h] = @ + k]
    PROVE  /\ SubSeq(Stream(conv[h]), read[h] + 1, read[h] + k) \in Seq(Byte)
           /\ k \in Nat \ {0} /\ read[h] \in Nat /\ read'[h] = read[h] + k
           /\ read' \in [Handler -> Nat] /\ read'[h] <= Len(Stream(conv[h]))
<1>1. /\ IsRequest(conv[h]) /\ Stream(conv[h]) \in Seq(Byte) /\ read[h] \in Nat
      /\ Len(Stream(conv[h])) \in Nat
  BY TalkersHaveRequests
<1>2. BUFFER_SIZE \in Int
  BY RequestAssumption
<1>3. k \in Nat \ {0} /\ read[h] + k \in Nat /\ read[h] + k <= Len(Stream(conv[h]))
  BY <1>1, <1>2, PieceFits
<1>4. read' \in [Handler -> Nat] /\ read'[h] = read[h] + k
  BY <1>3 DEF Shape
<1>5. /\ read[h] + 1 \in Nat /\ 1 <= read[h] + 1 /\ read[h] + 1 <= read[h] + k + 1
  BY <1>1, <1>3
<1>6. SubSeq(Stream(conv[h]), read[h] + 1, read[h] + k) \in Seq(Byte)
  BY <1>1, <1>3, <1>5, Part
<1> QED
  BY <1>1, <1>3, <1>4, <1>6

(* The header field as a line is bytes.                                     *)
LEMMA GgaLineIsBytes ==
    ASSUME NEW c, IsRequest(c)
    PROVE  GgaLine(c) \in Seq(Byte)
<1>1. CASE c.gga = None
  BY <1>1 DEF GgaLine
<1>2. CASE c.gga # None
  <2>1. c.gga \in Seq(Byte)
    BY <1>2 DEF IsRequest
  <2>2. <<CR, LF>> \in Seq(Byte)
    BY RequestAssumption
  <2>3. \A x, y \in Seq(Byte) : x \o y \in Seq(Byte)
    OBVIOUS
  <2>4. GgaLine(c) = c.gga \o <<CR, LF>>
    BY <1>2, Zenon DEF GgaLine
  <2> QED
    BY <2>1, <2>2, <2>3, <2>4, Zenon
<1> QED
  BY <1>1, <1>2

----------------------------------------------------------------------------
(* What a step of a handler leaves of its own shape. *)
OwnShape(h) ==
    /\ pc' \in [Handler -> Labels] /\ pc'[h] # "idle" /\ conv[h] # Silence
    /\ task' \in [Handler -> {"none", "upload", "download", "rtsp"}]
    /\ read' \in [Handler -> Nat] /\ read'[h] <= Len(Stream(conv[h]))
    /\ rest' \in [Handler -> Seq(Byte)] /\ stored' \in [Handler -> Seq(Byte)]
    /\ DOMAIN key' = Handler /\ DOMAIN seen' = Handler
    /\ buffer' \in [Handler -> Seq(Byte)] /\ DOMAIN pos' = Handler
    /\ pos'[h] \in Fixes \cup {NoFix}
    /\ late' \cup moved' \subseteq Handler

(* Every step of a handler does.                                            *)
LEMMA OwnShapeStep ==
    ASSUME Shape, NEW h \in Handler, Connect(h) \/ HandlerStep(h) \/ ServeStep(h)
    PROVE  OwnShape(h)
<1>0. /\ pc \in [Handler -> Labels] /\ task \in [Handler -> {"none", "upload", "download", "rtsp"}]
      /\ read \in [Handler -> Nat] /\ rest \in [Handler -> Seq(Byte)]
      /\ stored \in [Handler -> Seq(Byte)] /\ DOMAIN key = Handler /\ DOMAIN seen = Handler
      /\ buffer \in [Handler -> Seq(Byte)] /\ DOMAIN pos = Handler
      /\ pos[h] \in Fixes \cup {NoFix} /\ late \cup moved \subseteq Handler
  BY DEF Shape, TypeOK, Labels
<1>00. conv[h] # Silence
  BY DEF Shape, Connect, HandlerStep, ServeStep, Recv, Handle, VerifyUser, Digest, Rows,
         DownloadUserRow, Limit, Accepted, Register, InitialRoverGga, ServePiece, ServeEnds
<1>01. /\ read[h] <= Len(Stream(conv[h])) /\ IsRequest(conv[h])
  BY <1>00, TalkersHaveRequests
<1> USE <1>0, <1>00, <1>01 DEF OwnShape, Labels, input, output, database, history, Goto
<1>1. CASE Connect(h)
  BY <1>1 DEF Connect
<1>2. CASE Recv(h)
  <2>1. CASE RecvPiece(h)
    <3>1. pc[h] = "recv" /\ conv' = conv /\ UNCHANGED <<task, key, output, history>>
      BY <1>2 DEF Recv
    <3>2. /\ pc' \in [Handler -> Labels]
          /\ read' \in [Handler -> Nat] /\ read'[h] <= Len(Stream(conv[h]))
          /\ rest' \in [Handler -> Seq(Byte)] /\ pc'[h] \in {"handle", "recv", "closed"}
      BY <2>1, <3>1, PieceOfHeader
    <3> QED
      BY <3>1, <3>2
  <2>2. CASE RecvEnds(h)
    BY <1>2, <2>2, ZenonT(40) DEF Recv, RecvEnds, Finish, Say
  <2> QED
    BY <1>2, <2>1, <2>2 DEF Recv
<1>3. CASE Handle(h)
  <2>1. UNCHANGED <<read, rest, key, output, history>>
    BY <1>3, Zenon DEF Handle
  <2>2. \E label \in {"closed", "verify"}, kind \in {"none", "upload", "download", "rtsp"} :
            Goto(h, label) /\ (task' = task \/ task' = [task EXCEPT ![h] = kind])
    BY <1>3, ZenonT(40) DEF Handle, Finish, Refuse, Verify, Say
  <2>3. PICK label \in {"closed", "verify"}, kind \in {"none", "upload", "download", "rtsp"} :
            /\ pc' = [pc EXCEPT ![h] = label]
            /\ task' = task \/ task' = [task EXCEPT ![h] = kind]
    BY <2>2
  <2>4. pc' \in [Handler -> Labels] /\ pc'[h] # "idle"
    BY <2>3
  <2>5. task' \in [Handler -> {"none", "upload", "download", "rtsp"}]
    BY <2>3
  <2> QED
    BY <2>1, <2>4, <2>5
<1>4. CASE VerifyUser(h)
  BY <1>4 DEF VerifyUser, Refuse, Finish, Say
<1>5. CASE Digest(h)
  BY <1>5, ZenonT(40) DEF Digest, Refuse, Finish, Say
<1>6. CASE Rows(h)
  BY <1>6, ZenonT(40) DEF Rows, UploadRows, DownloadMountRow, See, ToLimit, Refuse, Finish, Say
<1>7. CASE DownloadUserRow(h)
  BY <1>7, ZenonT(40) DEF DownloadUserRow, See, Refuse, Finish, Say
<1>8. CASE Limit(h)
  BY <1>8, ZenonT(40) DEF Limit, Refuse, Finish, Say
<1>9. CASE Accepted(h)
  BY <1>9, ZenonT(40) DEF Accepted, RtspCommand, Refuse, Finish, Say
<1>10. CASE Register(h)
  BY <1>10 DEF Register, Refuse, Finish, Say
<1>11. CASE InitialRoverGga(h)
  <2>0. PICK bytes : bytes = GgaLine(conv[h]) \o (IF Line(h).method = "GET" THEN rest[h] ELSE <<>>)
    OBVIOUS
  <2>1. bytes \in Seq(Byte)
    <3>1. (IF Line(h).method = "GET" THEN rest[h] ELSE <<>>) \in Seq(Byte)
      OBVIOUS
    <3>2. \A x, y \in Seq(Byte) : x \o y \in Seq(Byte)
      OBVIOUS
    <3> QED
      BY <2>0, <3>1, <3>2, GgaLineIsBytes, Zenon
  <2>2. ConsumeRoverGga(h, bytes)
    BY <1>11, <2>0, Zenon DEF InitialRoverGga
  <2>3. /\ buffer' \in [Handler -> Seq(Byte)] /\ DOMAIN pos' = Handler
        /\ pos'[h] \in Fixes \cup {NoFix}
    BY <2>1, <2>2, ConsumeFinds
  <2>4. /\ rest' = [rest EXCEPT ![h] = <<>>] /\ pc' = [pc EXCEPT ![h] = "serving"]
        /\ UNCHANGED <<read, task, key, stored, seen, late, moved>>
    BY <1>11, Zenon DEF InitialRoverGga
  <2>5. <<>> \in Seq(Byte)
    OBVIOUS
  <2> QED
    BY <2>3, <2>4, <2>5
<1>12. CASE ServePiece(h)
  <2>1. CASE task[h] = "download" /\ RoverPiece(h) /\ UNCHANGED <<rest, stored>>
    <3>1. PICK k \in Pieces(h, BUFFER_SIZE) :
              /\ read' = [read EXCEPT ![h] = @ + k]
              /\ ConsumeRoverGga(h, SubSeq(Stream(conv[h]), read[h] + 1, read[h] + k))
      BY <2>1, Zenon DEF RoverPiece
    <3>2. /\ SubSeq(Stream(conv[h]), read[h] + 1, read[h] + k) \in Seq(Byte)
          /\ read' \in [Handler -> Nat] /\ read'[h] <= Len(Stream(conv[h]))
      BY <3>1, PieceOfStream, Zenon
    <3>3. /\ buffer' \in [Handler -> Seq(Byte)] /\ DOMAIN pos' = Handler
          /\ pos'[h] \in Fixes \cup {NoFix}
      BY <3>1, <3>2, ConsumeFinds
    <3> QED
      BY <1>12, <2>1, <3>2, <3>3 DEF ServePiece
  <2>2. CASE UploadPiece(h) /\ UNCHANGED <<buffer, pos>>
    <3>1. CASE /\ stored' = [stored EXCEPT ![h] = @ \o rest[h]]
               /\ rest' = [rest EXCEPT ![h] = <<>>] /\ UNCHANGED read
      <4>1. PICK x : x = stored[h] \o rest[h]
        OBVIOUS
      <4>2. \A x1, y1 \in Seq(Byte) : x1 \o y1 \in Seq(Byte)
        OBVIOUS
      <4>3. x \in Seq(Byte)
        BY <4>1, <4>2, Zenon
      <4>4. stored' = [stored EXCEPT ![h] = x]
        BY <3>1, <4>1, Zenon
      <4>5. stored' \in [Handler -> Seq(Byte)]
        BY <4>3, <4>4
      <4>6. <<>> \in Seq(Byte) /\ rest' = [rest EXCEPT ![h] = <<>>] /\ read' = read
        BY <3>1
      <4>7. UNCHANGED <<pc, task, key, buffer, pos, seen, late, moved>> /\ pc[h] = "serving"
        BY <1>12, <2>2, Zenon DEF ServePiece
      <4> QED
        BY <4>5, <4>6, <4>7
    <3>2. CASE /\ UNCHANGED rest
               /\ \E k \in Pieces(h, BUFFER_SIZE) :
                     /\ read' = [read EXCEPT ![h] = @ + k]
                     /\ stored' = [stored EXCEPT ![h] =
                              @ \o SubSeq(Stream(conv[h]), read[h] + 1, read[h] + k)]
      <4>1. PICK k \in Pieces(h, BUFFER_SIZE) :
                     /\ read' = [read EXCEPT ![h] = @ + k]
                     /\ stored' = [stored EXCEPT ![h] =
                              @ \o SubSeq(Stream(conv[h]), read[h] + 1, read[h] + k)]
        BY <3>2
      <4>11. PICK x : x = SubSeq(Stream(conv[h]), read[h] + 1, read[h] + k)
        OBVIOUS
      <4>2. /\ x \in Seq(Byte) /\ read' \in [Handler -> Nat]
            /\ read'[h] <= Len(Stream(conv[h]))
        BY <4>1, <4>11, PieceOfStream, Zenon
      <4>3. stored' = [stored EXCEPT ![h] = @ \o x]
        BY <4>1, <4>11, Zenon
      <4>4. stored' \in [Handler -> Seq(Byte)]
        BY <4>2, <4>3
      <4> QED
        BY <1>12, <2>2, <3>2, <4>2, <4>4 DEF ServePiece
    <3> QED
      BY <2>2, <3>1, <3>2, Zenon DEF UploadPiece
  <2> QED
    BY <1>12, <2>1, <2>2 DEF ServePiece
<1>13. CASE ServeEnds(h)
  BY <1>13 DEF ServeEnds
<1> QED
  BY <1>1, <1>2, <1>3, <1>4, <1>5, <1>6, <1>7, <1>8, <1>9, <1>10, <1>11, <1>12, <1>13
     DEF HandlerStep, ServeStep

(* So a handler's step keeps the shape of all.                              *)
LEMMA HandlerKeepsShape ==
    ASSUME Shape, NEW h \in Handler, Connect(h) \/ HandlerStep(h) \/ ServeStep(h)
    PROVE  Shape'
<1>1. OwnShape(h) /\ OnlyFor(h)
  BY OwnShapeStep, HandlerMoves
<1>2. /\ conv' = conv /\ db' = db /\ page' = page /\ edits' = edits
      /\ \A k \in Handler \ {h} :
            pc'[k] = pc[k] /\ read'[k] = read[k] /\ pos'[k] = pos[k]
  BY <1>1 DEF OnlyFor, SameFor, database
<1>3. conv \in Conversations /\ DOMAIN db = {"mounts", "users"}
      /\ db.mounts \in [Mount -> Row \cup {None}]
      /\ DOMAIN db.users = User /\ edits \in 0 .. MaxEdits
      /\ DOMAIN page = {"step", "mount", "edit"} /\ page.edit \in Edits \cup {None}
      /\ page.step \in {"idle", "row", "source"} /\ (page.step # "idle" => page.mount \in Mount)
  BY DEF Shape, TypeOK
<1>4. ASSUME NEW k \in Handler
      PROVE  /\ read'[k] \in 0 .. (IF conv[k] = Silence THEN 0 ELSE Len(Stream(conv[k])))
             /\ pos'[k] \in Fixes \cup {NoFix}
             /\ pc'[k] # "idle" => conv[k] # Silence
  <2>1. CASE k # h
    BY <1>2, <2>1 DEF Shape, TypeOK
  <2>2. CASE k = h
    <3>1. conv[h] # Silence /\ read' \in [Handler -> Nat] /\ read'[h] <= Len(Stream(conv[h]))
          /\ pos'[h] \in Fixes \cup {NoFix}
      BY <1>1 DEF OwnShape
    <3>2. Len(Stream(conv[h])) \in Nat
      BY <3>1, TalkersHaveRequests
    <3>3. read'[h] \in 0 .. Len(Stream(conv[h]))
      BY <3>1, <3>2
    <3> QED
      BY <2>2, <3>1, <3>3
  <2> QED
    BY <2>1, <2>2
<1>5. TypeOK'
  BY <1>1, <1>2, <1>3, <1>4 DEF TypeOK, OwnShape, Labels
<1>6. /\ read' \in [Handler -> Nat] /\ rest' \in [Handler -> Seq(Byte)]
      /\ stored' \in [Handler -> Seq(Byte)]
      /\ DOMAIN key' = Handler /\ DOMAIN seen' = Handler
      /\ DOMAIN pos' = Handler /\ buffer' \in [Handler -> Seq(Byte)]
  BY <1>1 DEF OwnShape
<1> QED
  BY <1>2, <1>3, <1>4, <1>5, <1>6 DEF Shape

(* A page moves no handler but to the end, and keeps the tables' shape. *)
Ended(k) == pc'[k] = pc[k] \/ (pc[k] # "idle" /\ pc'[k] = "closed")

(* An edited row is a row, and only a row that is renamed goes away.        *)
LEMMA EditedIsARow ==
    ASSUME NEW r \in Row, NEW e \in Edits
    PROVE  Edited(r, e) \in Row /\ Edited(r, e) # None
<1>1. e \in Edit /\ None \notin Row
  BY RequestAssumption
<1>2. Edited(r, e) \in Row
  BY <1>1 DEF Edit, Row, Edited
<1> QED
  BY <1>1, <1>2

(* So the table stays one of rows.                                          *)
LEMMA UpdateKeepsTables ==
    ASSUME Shape, UpdateRow
    PROVE  /\ DOMAIN db' = {"mounts", "users"} /\ DOMAIN db'.users = User
           /\ db'.mounts \in [Mount -> Row \cup {None}]
           /\ moved' \subseteq Handler /\ moved \subseteq moved'
<1>0. /\ DOMAIN db = {"mounts", "users"} /\ DOMAIN db.users = User /\ page.step = "row"
      /\ db.mounts \in [Mount -> Row \cup {None}] /\ moved \subseteq Handler
      /\ page.mount \in Mount /\ page.edit \in Edits
  BY DEF Shape, TypeOK, UpdateRow
<1>1. CASE db.mounts[page.mount] = None
  BY <1>0, <1>1 DEF UpdateRow
<1>2. CASE db.mounts[page.mount] # None
  <2>1. db' = [db EXCEPT !.mounts = Updated(@, page.mount, page.edit)]
    BY <1>2, Zenon DEF UpdateRow
  <2>2. db.mounts[page.mount] \in Row
    BY <1>0, <1>2
  <2>3. Edited(db.mounts[page.mount], page.edit) \in Row
    BY <1>0, <2>2, EditedIsARow
  <2>4. Updated(db.mounts, page.mount, page.edit) \in [Mount -> Row \cup {None}]
    BY <1>0, <2>3 DEF Updated
  <2>5. moved' \subseteq Handler /\ moved \subseteq moved'
    BY <1>0, <1>2 DEF UpdateRow, Serving
  <2> QED
    BY <1>0, <2>1, <2>4, <2>5
<1> QED
  BY <1>1, <1>2

(* What a step of a page is.                                                *)
PageStep == DisconnectMount \/ DeleteRow \/ UpdateRow \/ RemoveSource

(* They do, and the shape of every handler.                                 *)
LEMMA PageKeepsShape ==
    ASSUME Shape, PageStep
    PROVE  /\ Shape'
           /\ UNCHANGED <<conv, read, rest, task, key, buffer, pos, stored, seen, late>>
           /\ moved \subseteq moved'
           /\ \A k \in Handler : Ended(k)
<1> USE DEF PageStep
<1>0. /\ pc \in [Handler -> Labels] /\ conv \in Conversations
      /\ DOMAIN db = {"mounts", "users"} /\ db.mounts \in [Mount -> Row \cup {None}]
      /\ DOMAIN db.users = User /\ edits \in 0 .. MaxEdits /\ MaxEdits \in Nat
      /\ DOMAIN page = {"step", "mount", "edit"} /\ page.edit \in Edits \cup {None}
      /\ page.step \in {"idle", "row", "source"} /\ (page.step # "idle" => page.mount \in Mount)
      /\ late \cup moved \subseteq Handler
  BY RequestAssumption DEF Shape, TypeOK, Labels
<1>1. UNCHANGED <<conv, read, rest, task, key, buffer, pos, stored, seen, late>>
  BY DEF DisconnectMount, DeleteRow, UpdateRow, RemoveSource, input, output, history
<1>2. /\ pc' \in [Handler -> Labels] /\ \A k \in Handler : Ended(k)
  BY <1>0 DEF DisconnectMount, DeleteRow, UpdateRow, RemoveSource, Ended, Labels, Serving
<1>3. /\ DOMAIN db' = {"mounts", "users"} /\ DOMAIN db'.users = User
      /\ db'.mounts \in [Mount -> Row \cup {None}]
      /\ moved' \subseteq Handler /\ moved \subseteq moved'
  <2>1. CASE UpdateRow
    BY <2>1, UpdateKeepsTables
  <2>2. CASE DisconnectMount \/ DeleteRow \/ RemoveSource
    BY <1>0, <2>2 DEF DisconnectMount, DeleteRow, RemoveSource, history
  <2> QED
    BY <2>1, <2>2
<1>4. edits' \in 0 .. MaxEdits
  BY <1>0 DEF DisconnectMount, DeleteRow, UpdateRow, RemoveSource
<1>5. /\ DOMAIN page' = {"step", "mount", "edit"} /\ page'.edit \in Edits \cup {None}
      /\ page'.step \in {"idle", "row", "source"} /\ (page'.step # "idle" => page'.mount \in Mount)
  <2>1. CASE DisconnectMount
    BY <2>1 DEF DisconnectMount
  <2>2. CASE DeleteRow
    BY <1>0, <2>2 DEF DeleteRow
  <2>3. CASE UpdateRow \/ RemoveSource
    BY <2>3 DEF UpdateRow, RemoveSource, NoPage
  <2> QED
    BY <2>1, <2>2, <2>3
<1>6. TypeOK'
  BY <1>0, <1>1, <1>2, <1>3, <1>4 DEF TypeOK, Shape, Labels
<1>7. \A k \in Handler : pc'[k] # "idle" => conv'[k] # Silence
  BY <1>1, <1>2 DEF Shape, Ended
<1> QED
  BY <1>1, <1>2, <1>3, <1>5, <1>6, <1>7 DEF Shape

----------------------------------------------------------------------------
(* A digest is only looked at when the client has sent one. *)
DigestIsClaimed(h) == pc[h] = "digest" => Claim(h) = "Digest" /\ UserOf(h) # None

(* The bytes behind the header, from when it is complete. *)
HeaderIsKept(h) ==
    /\ pc[h] \in {"handle"} \cup (Verifying \ {"serving"}) => HeaderIsRead(h)
    /\ pc[h] = "serving" => conv[h].whole /\ Len(conv[h].head) + 4 <= read[h]

(* Before the stream nothing is stored, buffered or located.                *)
NothingUsed(h) ==
    pc[h] \notin {"serving", "closed"} =>
        stored[h] = <<>> /\ buffer[h] = <<>> /\ pos[h] = NoFix

(* The bytes behind the header that have been read.                         *)
TailOf(h) == SubSeq(Stream(conv[h]), Len(conv[h].head) + 5, read[h])
(* A source: they are stored, or held behind what is stored.                *)
TailIsHeld(h) ==
    pc[h] = "serving" /\ task[h] = "upload" /\ Line(h).method # "RECORD" =>
        stored[h] \o rest[h] = TailOf(h)

(* A rover: its accumulator and position are those of all it was heard to say. *)
RoverIsHeard(h) ==
    pc[h] = "serving" /\ task[h] = "download" /\ Line(h).method = "GET" =>
        Accumulated(Heard(h), buffer[h], pos[h])

(* All of this of one handler.                                              *)
Mine(h) ==
    /\ RequestIsKnown(h) /\ DigestIsClaimed(h) /\ KeyIsShown(h) /\ RowsAgree(h)
    /\ HeaderIsKept(h) /\ NothingUsed(h) /\ TailIsHeld(h) /\ RoverIsHeard(h)

(* What the client sends does not change, nor does what it comes to.        *)
LEMMA SameRequest ==
    ASSUME conv' = conv, NEW h
    PROVE  /\ Line(h)' = Line(h) /\ Protocol(h)' = Protocol(h) /\ Name(h)' = Name(h)
           /\ Claim(h)' = Claim(h) /\ UserOf(h)' = UserOf(h) /\ Asks(h)' = Asks(h)
<1>1. Line(h)' = Line(h) /\ Protocol(h)' = Protocol(h)
  BY DEF Line, Protocol
<1>2. Name(h)' = Name(h)
  BY <1>1 DEF Name
<1>3. Claim(h)' = Claim(h)
  BY <1>1 DEF Claim
<1>4. UserOf(h)' = UserOf(h)
  BY DEF UserOf
<1> QED
  BY <1>1, <1>2, <1>3, <1>4 DEF Asks

(* Nor do the header's end and the bytes behind it, unless more are read.   *)
LEMMA SameKept ==
    ASSUME NEW h, conv' = conv, read'[h] = read[h], rest'[h] = rest[h]
    PROVE  (HeaderIsRead(h) => HeaderIsRead(h)') /\ TailOf(h)' = TailOf(h) /\ Heard(h)' = Heard(h)
<1>1. (HeaderIsRead(h) => HeaderIsRead(h)')
  BY Zenon DEF HeaderIsRead
<1>2. TailOf(h)' = TailOf(h)
  BY Zenon DEF TailOf
<1>3. Heard(h)' = Heard(h)
  BY Zenon DEF Heard
<1> QED
  BY <1>1, <1>2, <1>3

(* A handler that another one leaves alone, or that ends, keeps it all.     *)
LEMMA Frame ==
    ASSUME NEW k \in Handler, Mine(k), conv' = conv,
           SameFor(k) \/ pc'[k] = "closed"
    PROVE  Mine(k)'
<1>0. /\ Line(k)' = Line(k) /\ Name(k)' = Name(k)
      /\ Claim(k)' = Claim(k) /\ UserOf(k)' = UserOf(k) /\ Asks(k)' = Asks(k)
  BY SameRequest
<1>1. CASE pc'[k] = "closed"
  <2> USE <1>1
  <2>1. RequestIsKnown(k)' /\ DigestIsClaimed(k)' /\ KeyIsShown(k)'
    BY DEF RequestIsKnown, DigestIsClaimed, KeyIsShown, Keyed, Verifying
  <2>2. RowsAgree(k)'
    BY DEF RowsAgree, Passed, Keyed, Verifying
  <2>3. HeaderIsKept(k)' /\ NothingUsed(k)' /\ TailIsHeld(k)' /\ RoverIsHeard(k)'
    BY DEF HeaderIsKept, NothingUsed, TailIsHeld, RoverIsHeard, Verifying
  <2> QED
    BY <2>1, <2>2, <2>3 DEF Mine
<1>2. CASE SameFor(k)
  <2>0. /\ pc'[k] = pc[k] /\ task'[k] = task[k] /\ key'[k] = key[k] /\ seen'[k] = seen[k]
        /\ read'[k] = read[k] /\ rest'[k] = rest[k] /\ stored'[k] = stored[k]
        /\ buffer'[k] = buffer[k] /\ pos'[k] = pos[k]
    BY <1>2 DEF SameFor
  <2>01. /\ HeaderIsRead(k) => HeaderIsRead(k)'
         /\ TailOf(k)' = TailOf(k) /\ Heard(k)' = Heard(k)
    BY <2>0, SameKept
  <2>1. RequestIsKnown(k)' /\ DigestIsClaimed(k)'
    BY <1>0, <2>0 DEF Mine, RequestIsKnown, DigestIsClaimed
  <2>2. KeyIsShown(k)'
    <3>1. DigestMatches(k, key[k])' <=> DigestMatches(k, key[k])
      BY <1>0, <2>0 DEF DigestMatches
    <3> QED
      BY <1>0, <2>0, <3>1 DEF Mine, KeyIsShown, Shows
  <2>3. RowsAgree(k)'
    BY <1>0, <2>0 DEF Mine, RowsAgree
  <2>4. HeaderIsKept(k)'
    BY <2>0, <2>01, Zenon DEF Mine, HeaderIsKept
  <2>5. NothingUsed(k)'
    BY <2>0 DEF Mine, NothingUsed
  <2>6. TailIsHeld(k)'
    BY <1>0, <2>0, <2>01, Zenon DEF Mine, TailIsHeld
  <2>7. RoverIsHeard(k)'
    BY <1>0, <2>0, <2>01, Zenon DEF Mine, RoverIsHeard
  <2> QED
    BY <2>1, <2>2, <2>3, <2>4, <2>5, <2>6, <2>7 DEF Mine
<1> QED
  BY <1>1, <1>2

----------------------------------------------------------------------------
(* Only a GET is taken for a rover's request at once. *)
LEMMA RoversGet ==
    ASSUME NEW p, NEW r, NEW protocol, _is_valid_request(r, p, protocol),
           Route(p, protocol) = "download"
    PROVE  p.method = "GET"
<1> SUFFICES ASSUME p.method # "GET" PROVE FALSE
  OBVIOUS
<1>0. "upload" # "download" /\ "rtsp" # "download" /\ "options" # "download" /\ "none" # "download"
  OBVIOUS
<1>1. CASE p.method \in {"SOURCE", "POST"}
  <2>1. Route(p, protocol) = "upload"
    BY <1>1, Zenon DEF Route, RtspVerbs
  <2> QED
    BY <2>1
<1>2. CASE p.method = "OPTIONS"
  <2>1. Route(p, protocol) = "options"
    BY <1>2 DEF Route, RtspVerbs
  <2> QED
    BY <2>1
<1>3. CASE p.method = "ADMIN"
  <2>1. Route(p, protocol) = "none"
    BY <1>3 DEF Route, RtspVerbs
  <2> QED
    BY <2>1
<1>4. CASE p.method \in RtspVerbs
  <2>1. Route(p, protocol) = "rtsp"
    BY <1>4 DEF Route, RtspVerbs
  <2> QED
    BY <2>1
<1> QED
  BY <1>1, <1>2, <1>3, <1>4 DEF _is_valid_request

(* The half about who the client is.                                        *)
Known(h) == RequestIsKnown(h) /\ DigestIsClaimed(h) /\ KeyIsShown(h) /\ RowsAgree(h)

(* Before verification, and after the end, it says nothing.                 *)
LEMMA NobodyIsKnown ==
    ASSUME NEW h, pc'[h] \in {"recv", "handle", "closed"}
    PROVE  Known(h)'
BY DEF Known, RequestIsKnown, DigestIsClaimed, KeyIsShown, RowsAgree, Passed, Keyed, Verifying

(* handle_request: a valid line, and the handler it goes to.                *)
LEMMA HandleKnows ==
    ASSUME Shape, NEW h \in Handler, Handle(h)
    PROVE  Known(h)'
<1>0. conv' = conv /\ UNCHANGED <<read, rest, key, stored, buffer, pos, seen, late, moved>>
  BY Zenon DEF Handle, input, output, history
<1>01. Line(h)' = Line(h)
  BY <1>0, SameRequest
<1>02. pc \in [Handler -> Labels] /\ DOMAIN task = Handler
  BY DEF Shape, TypeOK, Labels
<1>1. \/ Goto(h, "closed")
      \/ /\ Goto(h, "verify") /\ Line(h).ok
         /\ \E route \in {"upload", "download", "rtsp"} :
               /\ task' = [task EXCEPT ![h] = route]
               /\ _is_valid_request(conv[h], Line(h), Protocol(h))
               /\ route = Route(Line(h), Protocol(h))
  BY Zenon DEF Handle, Finish, Refuse, Verify, Say
<1>2. CASE Goto(h, "closed")
  <2>1. pc'[h] = "closed"
    BY <1>02, <1>2 DEF Goto
  <2> QED
    BY <2>1, NobodyIsKnown
<1>3. CASE /\ Goto(h, "verify") /\ Line(h).ok
           /\ \E route \in {"upload", "download", "rtsp"} :
               /\ task' = [task EXCEPT ![h] = route]
               /\ _is_valid_request(conv[h], Line(h), Protocol(h))
               /\ route = Route(Line(h), Protocol(h))
  <2>1. PICK route \in {"upload", "download", "rtsp"} :
               /\ task' = [task EXCEPT ![h] = route]
               /\ _is_valid_request(conv[h], Line(h), Protocol(h))
               /\ route = Route(Line(h), Protocol(h))
    BY <1>3
  <2>2. route = "download" => Line(h).method = "GET"
    BY <2>1, RoversGet
  <2>3. pc'[h] = "verify" /\ task'[h] = route
    BY <1>02, <1>3, <2>1 DEF Goto
  <2>4. RequestIsKnown(h)'
    BY <1>01, <1>3, <2>1, <2>2, <2>3 DEF RequestIsKnown
  <2>5. DigestIsClaimed(h)' /\ KeyIsShown(h)' /\ RowsAgree(h)'
    BY <2>3 DEF DigestIsClaimed, KeyIsShown, RowsAgree, Passed, Keyed, Verifying
  <2> QED
    BY <2>4, <2>5 DEF Known
<1> QED
  BY <1>1, <1>2, <1>3

(* verify_user takes its key from what the client shows.                    *)
LEMMA VerifyKnows ==
    ASSUME Shape, NEW h \in Handler, Known(h), VerifyUser(h)
    PROVE  Known(h)'
<1>0. conv' = conv /\ UNCHANGED <<task, seen>> /\ pc[h] = "verify"
  BY DEF VerifyUser, input, history
<1>01. Line(h)' = Line(h) /\ Claim(h)' = Claim(h) /\ UserOf(h)' = UserOf(h)
  BY <1>0, SameRequest
<1>02. pc \in [Handler -> Labels] /\ DOMAIN key = Handler
  BY DEF Shape, TypeOK, Labels
<1>03. Line(h).ok /\ task[h] \in {"upload", "download", "rtsp"}
       /\ (task[h] = "download" => Line(h).method \in {"GET", "PLAY"})
  BY <1>0 DEF Known, RequestIsKnown, Verifying
<1>04. RequestIsKnown(h)'
  BY <1>0, <1>01, <1>03 DEF RequestIsKnown
<1>1. CASE Refuse(h, 401)
  <2>1. pc'[h] = "closed"
    BY <1>02, <1>1 DEF Refuse, Finish, Goto
  <2> QED
    BY <2>1, NobodyIsKnown
<1>2. CASE /\ Claim(h) = "word" \/ (Claim(h) = "Basic" /\ UserOf(h) # None)
           /\ key' = [key EXCEPT ![h] = IF Claim(h) = "word" THEN Line(h).password
                                        ELSE conv[h].auth.password]
           /\ Goto(h, "rows")
  <2>1. pc'[h] = "rows" /\ key'[h] = IF Claim(h) = "word" THEN Line(h).password
                                        ELSE conv[h].auth.password
    BY <1>02, <1>2 DEF Goto
  <2>2. Claim(h) = "word" => Line(h).password # None
    BY Zenon DEF Claim
  <2>3. Shows(h, key[h])'
    BY <1>0, <1>01, <1>2, <2>1, <2>2 DEF Shows
  <2>4. KeyIsShown(h)'
    BY <2>3 DEF KeyIsShown
  <2>5. DigestIsClaimed(h)' /\ RowsAgree(h)'
    BY <2>1 DEF DigestIsClaimed, RowsAgree, Passed, Keyed, Verifying
  <2> QED
    BY <1>04, <2>4, <2>5 DEF Known
<1>3. CASE Claim(h) = "Digest" /\ UserOf(h) # None /\ Goto(h, "digest")
  <2>1. pc'[h] = "digest"
    BY <1>02, <1>3 DEF Goto
  <2>2. DigestIsClaimed(h)'
    BY <1>01, <1>3 DEF DigestIsClaimed
  <2>3. KeyIsShown(h)' /\ RowsAgree(h)'
    BY <2>1 DEF KeyIsShown, RowsAgree, Passed, Keyed, Verifying
  <2> QED
    BY <1>04, <2>2, <2>3 DEF Known
<1> QED
  BY <1>1, <1>2, <1>3 DEF VerifyUser

(* _verify_digest_auth: the stored text is one the digest is made of.       *)
LEMMA DigestKnows ==
    ASSUME Shape, NEW h \in Handler, Known(h), Digest(h)
    PROVE  Known(h)'
<1> DEFINE text == TextOf(db.users[conv[h].auth.user])
<1>0. conv' = conv /\ UNCHANGED <<task, seen>> /\ pc[h] = "digest"
  BY DEF Digest, input, history
<1>01. Line(h)' = Line(h) /\ Claim(h)' = Claim(h) /\ UserOf(h)' = UserOf(h) /\ Name(h)' = Name(h)
  BY <1>0, SameRequest
<1>02. pc \in [Handler -> Labels] /\ DOMAIN key = Handler
  BY DEF Shape, TypeOK, Labels
<1>03. /\ RequestIsKnown(h)' /\ Claim(h) = "Digest" /\ UserOf(h) # None
  BY <1>0, <1>01 DEF Known, RequestIsKnown, DigestIsClaimed, Verifying
<1>1. CASE Refuse(h, 401)
  <2>1. pc'[h] = "closed"
    BY <1>02, <1>1 DEF Refuse, Finish, Goto
  <2> QED
    BY <2>1, NobodyIsKnown
<1>2. CASE DigestMatches(h, text) /\ key' = [key EXCEPT ![h] = text] /\ Goto(h, "rows")
  <2>1. pc'[h] = "rows" /\ key'[h] = text
    BY <1>02, <1>2 DEF Goto
  <2>2. DigestMatches(h, key[h])'
    BY <1>0, <1>01, <1>2, <2>1 DEF DigestMatches
  <2>3. KeyIsShown(h)'
    BY <1>01, <1>03, <2>2 DEF KeyIsShown, Shows
  <2>5. DigestIsClaimed(h)' /\ RowsAgree(h)'
    BY <2>1 DEF DigestIsClaimed, RowsAgree, Passed, Keyed, Verifying
  <2> QED
    BY <1>03, <2>3, <2>5 DEF Known
<1> QED
  BY <1>1, <1>2 DEF Digest

(* What stays known of a client whose task and key stay the same. *)
LEMMA KeyStaysKnown ==
    ASSUME NEW h, Known(h), pc[h] \in Keyed, pc'[h] \in Keyed, conv' = conv,
           task'[h] = task[h], key'[h] = key[h]
    PROVE  RequestIsKnown(h)' /\ DigestIsClaimed(h)' /\ KeyIsShown(h)'
<1>0. Line(h)' = Line(h) /\ Claim(h)' = Claim(h) /\ UserOf(h)' = UserOf(h) /\ Name(h)' = Name(h)
  BY SameRequest
<1>1. pc[h] \in Verifying /\ pc'[h] # "digest"
  BY DEF Keyed
<1>2. RequestIsKnown(h)' /\ DigestIsClaimed(h)'
  BY <1>0, <1>1 DEF Known, RequestIsKnown, DigestIsClaimed
<1>3. DigestMatches(h, key[h])' <=> DigestMatches(h, key[h])
  BY <1>0 DEF DigestMatches
<1>4. KeyIsShown(h)'
  BY <1>0, <1>3 DEF Known, KeyIsShown, Shows
<1> QED
  BY <1>2, <1>4

(* verify_mount_and_user, or the first query of verify_download_user.       *)
LEMMA RowsKnow ==
    ASSUME Shape, NEW h \in Handler, Known(h), Rows(h)
    PROVE  Known(h)'
<1>0. conv' = conv /\ UNCHANGED <<task, key>> /\ pc[h] = "rows"
  BY DEF Rows, input
<1>01. Claim(h)' = Claim(h) /\ UserOf(h)' = UserOf(h) /\ Name(h)' = Name(h) /\ Asks(h)' = Asks(h)
  BY <1>0, SameRequest
<1>02. pc \in [Handler -> Labels] /\ DOMAIN seen = Handler
  BY DEF Shape, TypeOK, Labels
<1>1. CASE Refuse(h, 401)
  <2>1. pc'[h] = "closed"
    BY <1>02, <1>1 DEF Refuse, Finish, Goto
  <2> QED
    BY <2>1, NobodyIsKnown
<1>2. CASE /\ task[h] \in {"upload", "rtsp"}
           /\ verify_mount_and_user(RowOf(Name(h)), db.users, UserOf(h), key[h], Asks(h))
           /\ See(h, db.mounts, db.users) /\ ToLimit(h)
  <2>1. pc'[h] \in {"accepted", "limit"} /\ pc'[h] \in Passed /\ pc'[h] \in Keyed
    BY <1>02, <1>2 DEF ToLimit, Goto, Passed, Keyed, Verifying
  <2>2. seen'[h] = [mounts |-> db.mounts, users |-> db.users]
    BY <1>02, <1>2 DEF See
  <2>3. RowOf(Name(h)) # None
    BY <1>2 DEF verify_mount_and_user
  <2>4. Name(h) \in Mount /\ RowOf(Name(h)) = db.mounts[Name(h)]
    BY <2>3 DEF RowOf
  <2>5. verify_mount_and_user(seen[h].mounts[Name(h)], seen[h].users, UserOf(h), key[h], Asks(h))'
    BY <1>0, <1>01, <1>2, <2>2, <2>4
       DEF verify_mount_and_user, verify_password, hash_password, TextOf
  <2>6. RowsAgree(h)'
    BY <1>0, <1>01, <1>2, <2>1, <2>2, <2>3, <2>4, <2>5 DEF RowsAgree
  <2> QED
    BY <1>0, <2>1, <2>6, KeyStaysKnown DEF Known, Keyed, Verifying
<1>3. CASE /\ task[h] = "download" /\ RowOf(Name(h)) # None
           /\ See(h, db.mounts, db.users) /\ Goto(h, "user")
  <2>1. pc'[h] = "user" /\ pc'[h] \notin Passed /\ pc'[h] \in Keyed
    BY <1>02, <1>3 DEF Goto, Passed, Keyed, Verifying
  <2>2. seen'[h] = [mounts |-> db.mounts, users |-> db.users]
    BY <1>02, <1>3 DEF See
  <2>4. Name(h) \in Mount /\ RowOf(Name(h)) = db.mounts[Name(h)]
    BY <1>3 DEF RowOf
  <2>6. RowsAgree(h)'
    BY <1>0, <1>01, <1>3, <2>1, <2>2, <2>4 DEF RowsAgree
  <2> QED
    BY <1>0, <2>1, <2>6, KeyStaysKnown DEF Known, Keyed, Verifying
<1> QED
  BY <1>1, <1>2, <1>3 DEF Rows, UploadRows, DownloadMountRow

(* The second query, for the user the client came as.                       *)
LEMMA UserRowKnows ==
    ASSUME Shape, NEW h \in Handler, Known(h), DownloadUserRow(h)
    PROVE  Known(h)'
<1> DEFINE text == db.users[conv[h].auth.user]
<1>0. conv' = conv /\ UNCHANGED <<task, key>> /\ pc[h] = "user"
  BY DEF DownloadUserRow, input
<1>01. Claim(h)' = Claim(h) /\ UserOf(h)' = UserOf(h) /\ Name(h)' = Name(h) /\ Asks(h)' = Asks(h)
  BY <1>0, SameRequest
<1>02. pc \in [Handler -> Labels] /\ DOMAIN seen = Handler
  BY DEF Shape, TypeOK, Labels
<1>03. task[h] = "download" /\ Name(h) \in Mount /\ seen[h].mounts[Name(h)] # None
  BY <1>0 DEF Known, RowsAgree
<1>04. Line(h).ok /\ Shows(h, key[h]) /\ Line(h).method \in {"GET", "PLAY"}
  BY <1>0, <1>03 DEF Known, KeyIsShown, RequestIsKnown, Keyed, Verifying
<1>05. conv[h].auth.user = UserOf(h)
  <2>1. Claim(h) # "word"
    BY <1>04, LinePassword DEF Shows
  <2> QED
    BY <1>04, <2>1 DEF Shows, UserOf
<1>1. CASE Refuse(h, 401)
  <2>1. pc'[h] = "closed"
    BY <1>02, <1>1 DEF Refuse, Finish, Goto
  <2> QED
    BY <2>1, NobodyIsKnown
<1>2. CASE /\ text # None /\ verify_password(text, key[h])
           /\ See(h, seen[h].mounts, db.users) /\ Goto(h, "limit")
  <2>1. pc'[h] = "limit" /\ pc'[h] \in Keyed
    BY <1>02, <1>2 DEF Goto, Keyed, Verifying
  <2>2. seen'[h].mounts = seen[h].mounts /\ seen'[h].users = db.users
    BY <1>02, <1>2 DEF See
  <2>3. verify_password(text, key[h])'
    BY <1>0, <1>2 DEF verify_password, hash_password, TextOf, DownloadUserRow, database
  <2>4. db' = db
    BY DEF DownloadUserRow, database
  <2>6. RowsAgree(h)'
    BY <1>0, <1>01, <1>03, <1>05, <1>2, <2>1, <2>2, <2>3, <2>4 DEF RowsAgree
  <2> QED
    BY <1>0, <2>1, <2>6, KeyStaysKnown DEF Known, Keyed, Verifying
<1> QED
  BY <1>1, <1>2 DEF DownloadUserRow

(* Nor does a verified client become another one on its way to the stream. *)
LEMMA StaysKnown ==
    ASSUME NEW h, Known(h), pc[h] \in Passed, pc'[h] \in Passed, conv' = conv,
           task'[h] = task[h], key'[h] = key[h], seen'[h] = seen[h],
           pc'[h] = "rover" => task[h] # "upload"
    PROVE  Known(h)'
<1>0. UserOf(h)' = UserOf(h) /\ Name(h)' = Name(h) /\ Asks(h)' = Asks(h)
  BY SameRequest
<1>1. pc[h] \in Keyed /\ pc'[h] \in Keyed /\ pc'[h] # "user"
  BY DEF Passed
<1>2. RequestIsKnown(h)' /\ DigestIsClaimed(h)' /\ KeyIsShown(h)'
  BY <1>1, KeyStaysKnown
<1>3. RowsAgree(h)'
  BY <1>0, <1>1 DEF Known, RowsAgree
<1> QED
  BY <1>2, <1>3 DEF Known

(* The connection limit, RTSP's second verification, the registration.      *)
LEMMA PassingKnows ==
    ASSUME Shape, NEW h \in Handler, Known(h),
           Limit(h) \/ Accepted(h) \/ Register(h)
    PROVE  Known(h)'
<1>0. conv' = conv /\ UNCHANGED <<key, seen>> /\ pc[h] \in Passed
  BY DEF Limit, Accepted, Register, input, history, Passed, Keyed, Verifying
<1>02. pc \in [Handler -> Labels] /\ DOMAIN task = Handler
  BY DEF Shape, TypeOK, Labels
<1>1. CASE pc'[h] = "closed"
  BY <1>1, NobodyIsKnown
<1>2. CASE pc'[h] \in {"accepted", "register", "serving", "rover"} /\ task'[h] = task[h]
           /\ (pc'[h] = "rover" => task[h] # "upload")
  <2>1. pc'[h] \in Passed
    BY <1>2 DEF Passed, Keyed, Verifying
  <2> QED
    BY <1>0, <1>2, <2>1, StaysKnown
<1>3. CASE /\ pc'[h] = "verify" /\ task'[h] = IF Line(h).method = "PLAY" THEN "download" ELSE "upload"
  <2>1. Line(h).ok
    BY <1>0 DEF Known, RequestIsKnown, Passed, Keyed
  <2>2. Line(h)' = Line(h)
    BY <1>0, SameRequest
  <2>3. RequestIsKnown(h)'
    BY <1>3, <2>1, <2>2 DEF RequestIsKnown
  <2>4. DigestIsClaimed(h)' /\ KeyIsShown(h)' /\ RowsAgree(h)'
    BY <1>3 DEF DigestIsClaimed, KeyIsShown, RowsAgree, Passed, Keyed, Verifying
  <2> QED
    BY <2>3, <2>4 DEF Known
<1>4. CASE Limit(h)
  BY <1>02, <1>1, <1>2, <1>4 DEF Limit, Refuse, Finish, Goto
<1>5. CASE Accepted(h)
  <2>1. CASE RtspCommand(h)
    BY <1>02, <1>1, <1>3, <2>1 DEF RtspCommand, Refuse, Finish, Goto
  <2> QED
    BY <1>02, <1>1, <1>2, <1>5, <2>1 DEF Accepted, Refuse, Finish, Goto
<1>6. CASE Register(h)
  BY <1>02, <1>1, <1>2, <1>6 DEF Register, Refuse, Finish, Goto
<1> QED
  BY <1>4, <1>5, <1>6

(* Nothing in the stream changes who the client is.                         *)
LEMMA ServingKnows ==
    ASSUME Shape, NEW h \in Handler, Known(h), ServeStep(h)
    PROVE  Known(h)'
<1>02. pc \in [Handler -> Labels] /\ DOMAIN task = Handler
  BY DEF Shape, TypeOK, Labels
<1>0. /\ conv' = conv /\ UNCHANGED <<task, key, seen>> /\ pc[h] \in {"rover", "serving"}
      /\ pc'[h] \in {"serving", "closed"}
  BY <1>02 DEF ServeStep, InitialRoverGga, ServePiece, ServeEnds, input, history, Goto
<1>1. pc[h] \in Passed /\ (pc'[h] # "closed" => pc'[h] \in Passed /\ pc'[h] # "rover")
  BY <1>0 DEF Passed, Keyed, Verifying
<1> QED
  BY <1>0, <1>1, StaysKnown, NobodyIsKnown

(* Together: every step of the handler keeps what is known.                 *)
LEMMA HandlerKnows ==
    ASSUME Shape, NEW h \in Handler, Known(h), Connect(h) \/ HandlerStep(h) \/ ServeStep(h)
    PROVE  Known(h)'
<1>02. pc \in [Handler -> Labels] /\ DOMAIN task = Handler
  BY DEF Shape, TypeOK, Labels
<1>1. CASE Connect(h) \/ Recv(h)
  <2>1. pc'[h] \in {"recv", "handle", "closed"}
    BY <1>02, <1>1 DEF Connect, Recv, RecvPiece, RecvEnds, Finish, Goto
  <2> QED
    BY <2>1, NobodyIsKnown
<1> QED
  BY <1>1, HandleKnows, VerifyKnows, DigestKnows, RowsKnow, UserRowKnows, PassingKnows, ServingKnows
     DEF HandlerStep

----------------------------------------------------------------------------
(* The half about its bytes.                                                *)
Kept(h) == HeaderIsKept(h) /\ NothingUsed(h) /\ TailIsHeld(h) /\ RoverIsHeard(h)

(* After the end it says nothing.                                           *)
LEMMA EndKeeps ==
    ASSUME NEW h, pc'[h] = "closed"
    PROVE  Kept(h)'
BY DEF Kept, HeaderIsKept, NothingUsed, TailIsHeld, RoverIsHeard, Verifying

(* One more piece of a stream goes on from where the last one ended. *)
Joins(s, a, m, n) == SubSeq(s, a, m) \o SubSeq(s, m + 1, n) = SubSeq(s, a, n)

(* They join.                                                               *)
LEMMA PiecesJoin ==
    ASSUME NEW s \in Seq(Byte), NEW a \in Nat, NEW m \in Nat, NEW n \in Nat,
           1 <= a, a <= m + 1, m <= n, n <= Len(s)
    PROVE  Joins(s, a, m, n)
<1>1. Len(s) \in Nat
  BY LenProperties
<1>2. a \in 1 .. Len(s) + 1 /\ m \in a - 1 .. Len(s) /\ n \in m .. Len(s)
  BY <1>1
<1>3. SubSeq(s, a, m) \o SubSeq(s, m + 1, n) = SubSeq(s, a, n)
  BY <1>2, ConcatAdjacentSubSeq, Zenon
<1> QED
  BY <1>3, Zenon DEF Joins

(* _consume_rover_gga is feed and the update for each sentence.             *)
LEMMA ConsumeAccumulates ==
    ASSUME Shape, NEW h \in Handler, NEW s \in Seq(Byte), NEW d \in Seq(Byte),
           ConsumeRoverGga(h, d), Accumulated(s, buffer[h], pos[h])
    PROVE  Accumulated(s \o d, buffer'[h], pos'[h])
<1> DEFINE fed == feed(buffer[h], d)
<1>1. Accumulated(s \o d, fed.buffer, Latest(fed.parsed, pos[h]))
  BY FeedAccumulates, Zenon
<1>2. DOMAIN buffer = Handler /\ DOMAIN pos = Handler
  BY DEF Shape
<1>3. buffer' = [buffer EXCEPT ![h] = fed.buffer]
  BY Zenon DEF ConsumeRoverGga
<1>4. buffer'[h] = fed.buffer
  <2> HIDE DEF fed
  <2> QED
    BY <1>2, <1>3
<1>5. pos' = [pos EXCEPT ![h] = Latest(fed.parsed, pos[h])]
  <2>1. pos' = [pos EXCEPT ![h] =
            IF {i \in DOMAIN fed.parsed : fed.parsed[i] # NoFix} = {} THEN pos[h]
            ELSE fed.parsed[Max({i \in DOMAIN fed.parsed : fed.parsed[i] # NoFix})]]
    BY Zenon DEF ConsumeRoverGga
  <2> QED
    BY <2>1, Zenon DEF Latest
<1>6. pos'[h] = Latest(fed.parsed, pos[h])
  <2> HIDE DEF fed
  <2>1. PICK x : x = Latest(fed.parsed, pos[h])
    OBVIOUS
  <2>2. pos' = [pos EXCEPT ![h] = x]
    BY <1>5, <2>1, Zenon
  <2>3. pos'[h] = x
    BY <1>2, <2>2
  <2> QED
    BY <2>1, <2>3, Zenon
<1> QED
  BY <1>1, <1>4, <1>6, Zenon

(* While the header arrives nothing is used.                                *)
LEMMA ArrivalKeeps ==
    ASSUME Shape, NEW h \in Handler, Kept(h), Connect(h) \/ Recv(h)
    PROVE  Kept(h)'
<1>0. pc \in [Handler -> Labels]
  BY DEF Shape, TypeOK, Labels
<1>1. /\ conv' = conv /\ UNCHANGED <<stored, buffer, pos>> /\ pc[h] \in {"idle", "recv"}
  BY DEF Connect, Recv, output, input
<1>2. NothingUsed(h)'
  BY <1>1 DEF Kept, NothingUsed
<1>3. CASE pc'[h] = "handle" /\ HeaderIsRead(h)'
  BY <1>2, <1>3 DEF Kept, HeaderIsKept, TailIsHeld, RoverIsHeard
<1>4. CASE pc'[h] \in {"recv", "closed"}
  BY <1>2, <1>4 DEF Kept, HeaderIsKept, TailIsHeld, RoverIsHeard, Verifying
<1>5. CASE Connect(h)
  BY <1>0, <1>4, <1>5 DEF Connect, Goto
<1>6. CASE Recv(h)
  <2>1. pc[h] = "recv"
    BY <1>6 DEF Recv
  <2>2. CASE RecvPiece(h)
    BY <1>1, <1>3, <1>4, <2>1, <2>2, PieceOfHeader
  <2>3. CASE RecvEnds(h)
    BY <1>0, <1>4, <2>3 DEF RecvEnds, Finish, Goto
  <2> QED
    BY <1>6, <2>2, <2>3 DEF Recv
<1> QED
  BY <1>5, <1>6

(* Between the header and the stream no byte moves. *)
LEMMA QuietKeeps ==
    ASSUME NEW h \in Handler, Kept(h), rest[h] \in Seq(Byte), conv' = conv,
           read'[h] = read[h], rest'[h] = rest[h],
           stored'[h] = stored[h], buffer'[h] = buffer[h], pos'[h] = pos[h],
           pc[h] \in {"handle"} \cup (Verifying \ {"rover", "serving"}),
           pc'[h] \in Verifying, pc'[h] = "serving" => task'[h] = "upload"
    PROVE  Kept(h)'
<1>1. pc[h] \in {"handle"} \cup (Verifying \ {"serving"}) /\ pc[h] \notin {"serving", "closed"}
  BY DEF Verifying
<1>2. HeaderIsRead(h) /\ stored[h] = <<>> /\ buffer[h] = <<>> /\ pos[h] = NoFix
  BY <1>1, Zenon DEF Kept, HeaderIsKept, NothingUsed
<1>3. HeaderIsRead(h)' /\ TailOf(h)' = TailOf(h)
  BY <1>2, SameKept, Zenon
<1>4. HeaderIsKept(h)'
  <2>1. conv[h].whole /\ Len(conv[h].head) + 4 <= read[h]
    BY <1>2, Zenon DEF HeaderIsRead
  <2>2. (conv[h].whole /\ Len(conv[h].head) + 4 <= read[h])'
    BY <2>1, Zenon
  <2> QED
    BY <1>3, <2>2, Zenon DEF HeaderIsKept
<1>5. NothingUsed(h)'
  BY <1>2 DEF NothingUsed
<1>6. TailIsHeld(h)'
  <2>1. rest[h] = TailOf(h)
    BY <1>2, Zenon DEF HeaderIsRead, TailOf
  <2>2. stored[h] \o rest[h] = rest[h]
    <3>1. PICK x : x = rest[h]
      OBVIOUS
    <3>2. <<>> \o x = x
      BY <3>1, ConcatEmptySeq, Zenon
    <3> QED
      BY <1>2, <3>1, <3>2, Zenon
  <2>3. stored'[h] \o rest'[h] = TailOf(h)'
    BY <1>3, <2>1, <2>2, Zenon
  <2> QED
    BY <2>3, Zenon DEF TailIsHeld
<1>7. RoverIsHeard(h)'
  BY DEF RoverIsHeard
<1> QED
  BY <1>4, <1>5, <1>6, <1>7 DEF Kept

(* Nor do the steps of the verification move one.                           *)
LEMMA VerifyingKeeps ==
    ASSUME Shape, NEW h \in Handler, Kept(h),
           \/ Handle(h) \/ VerifyUser(h) \/ Digest(h) \/ Rows(h) \/ DownloadUserRow(h)
           \/ Limit(h) \/ Accepted(h) \/ Register(h)
    PROVE  Kept(h)'
<1>0. pc \in [Handler -> Labels] /\ DOMAIN task = Handler /\ rest[h] \in Seq(Byte)
  BY DEF Shape, TypeOK, Labels
<1>1. conv' = conv /\ UNCHANGED <<read, rest, stored, buffer, pos>>
  <2>1. CASE Handle(h)
    BY <2>1, Zenon DEF Handle, input, output
  <2> QED
    BY <2>1 DEF VerifyUser, Digest, Rows, DownloadUserRow, Limit, Accepted, Register, input, output
<1>2. pc[h] \in {"handle"} \cup (Verifying \ {"rover", "serving"})
  BY DEF Handle, VerifyUser, Digest, Rows, DownloadUserRow, Limit, Accepted, Register, Verifying
<1>3. \/ pc'[h] = "closed"
      \/ pc'[h] \in Verifying /\ (pc'[h] = "serving" => task'[h] = "upload")
  <2>1. CASE Handle(h)
    <3>1. Goto(h, "closed") \/ Goto(h, "verify")
      BY <2>1, Zenon DEF Handle, Finish, Refuse, Verify, Say
    <3> QED
      BY <1>0, <3>1 DEF Goto, Verifying
  <2>2. CASE Register(h)
    BY <1>0, <2>2 DEF Register, Refuse, Finish, Goto, Verifying, input
  <2>3. CASE VerifyUser(h) \/ Digest(h) \/ Rows(h) \/ DownloadUserRow(h)
    BY <1>0, <2>3 DEF VerifyUser, Digest, Rows, UploadRows, DownloadMountRow, DownloadUserRow,
                      ToLimit, Refuse, Finish, Goto, Verifying
  <2>4. CASE Limit(h) \/ Accepted(h)
    BY <1>0, <2>4 DEF Limit, Accepted, RtspCommand, Refuse, Finish, Goto, Verifying
  <2> QED
    BY <2>1, <2>2, <2>3, <2>4
<1> QED
  BY <1>0, <1>1, <1>2, <1>3, QuietKeeps, EndKeeps

(* _process_initial_rover_gga: the header field, then the rest of a GET.    *)
LEMMA InitialGgaKeeps ==
    ASSUME Shape, NEW h \in Handler, Kept(h), task[h] # "upload", InitialRoverGga(h)
    PROVE  Kept(h)'
<1> DEFINE gga == GgaLine(conv[h])
           bytes == gga \o (IF Line(h).method = "GET" THEN rest[h] ELSE <<>>)
<1>0. /\ pc \in [Handler -> Labels] /\ conv[h] # Silence /\ rest[h] \in Seq(Byte)
      /\ pc[h] = "rover"
  BY DEF Shape, TypeOK, Labels, InitialRoverGga
<1>1. /\ conv' = conv /\ read' = read /\ task' = task /\ pc' = [pc EXCEPT ![h] = "serving"]
      /\ ConsumeRoverGga(h, bytes)
  BY Zenon DEF InitialRoverGga, Goto
<1>2. pc'[h] = "serving"
  BY <1>0, <1>1
<1>3. HeaderIsRead(h) /\ buffer[h] = <<>> /\ pos[h] = NoFix
  <2>1. pc[h] \in {"handle"} \cup (Verifying \ {"serving"}) /\ pc[h] \notin {"serving", "closed"}
    BY <1>0 DEF Verifying
  <2> QED
    BY <2>1, Zenon DEF Kept, HeaderIsKept, NothingUsed
<1>4. HeaderIsKept(h)'
  <2>1. conv[h].whole /\ Len(conv[h].head) + 4 <= read[h]
    BY <1>3, Zenon DEF HeaderIsRead
  <2>2. (conv[h].whole /\ Len(conv[h].head) + 4 <= read[h])'
    BY <1>1, <2>1, Zenon
  <2>3. pc'[h] \notin {"handle"} \cup (Verifying \ {"serving"})
    BY <1>2
  <2> QED
    BY <2>2, <2>3, Zenon DEF HeaderIsKept
<1>5. NothingUsed(h)' /\ TailIsHeld(h)'
  BY <1>1, <1>2 DEF NothingUsed, TailIsHeld
<1>6. ASSUME Line(h).method = "GET"
      PROVE  Accumulated(Heard(h)', buffer'[h], pos'[h])
  <2>1. gga \in Seq(Byte)
    BY <1>0, TalkersHaveRequests, GgaLineIsBytes
  <2>2. PICK x \in Seq(Byte) : x = gga \o rest[h]
    <3> HIDE DEF gga
    <3>1. \A y, z \in Seq(Byte) : y \o z \in Seq(Byte)
      OBVIOUS
    <3> QED
      BY <1>0, <2>1, <3>1, Zenon
  <2>3. bytes = x
    BY <1>6, <2>2, Zenon
  <2>4. <<>> \in Seq(Byte) /\ <<>> \o x = x
    <3>1. <<>> \in Seq(Byte)
      OBVIOUS
    <3>2. <<>> \o x = x
      BY <2>2, ConcatEmptySeq, Zenon
    <3> QED
      BY <3>1, <3>2
  <2>5. Accumulated(<<>>, buffer[h], pos[h])
    BY <1>3, NothingAccumulated, Zenon
  <2>6. ConsumeRoverGga(h, x)
    BY <1>1, <2>3, Zenon
  <2>7. Accumulated(<<>> \o x, buffer'[h], pos'[h])
    BY <2>2, <2>4, <2>5, <2>6, ConsumeAccumulates, Zenon
  <2>8. x = Heard(h)
    BY <1>3, <2>2, Zenon DEF Heard, HeaderIsRead
  <2>9. Heard(h)' = Heard(h)
    BY <1>1, Zenon DEF Heard
  <2> QED
    BY <2>4, <2>7, <2>8, <2>9, Zenon
<1>7. RoverIsHeard(h)'
  <2>1. Line(h)' = Line(h)
    BY <1>1, SameRequest
  <2> QED
    BY <1>6, <2>1, Zenon DEF RoverIsHeard
<1> QED
  BY <1>4, <1>5, <1>7 DEF Kept

(* The bytes behind the header, of a stream that goes on. *)
LEMMA TailGrows ==
    ASSUME Shape, NEW h \in Handler, conv[h] # Silence, conv' = conv,
           Len(conv[h].head) + 4 <= read[h], NEW k \in Pieces(h, BUFFER_SIZE),
           read' = [read EXCEPT ![h] = @ + k],
           NEW d, d = SubSeq(Stream(conv[h]), read[h] + 1, read[h] + k)
    PROVE  /\ d \in Seq(Byte) /\ TailOf(h) \in Seq(Byte)
           /\ TailOf(h)' = TailOf(h) \o d
           /\ Len(conv[h].head) + 4 <= read'[h]
<1> DEFINE s == Stream(conv[h])  a == Len(conv[h].head) + 5
<1>1. /\ d \in Seq(Byte) /\ k \in Nat \ {0} /\ read[h] \in Nat /\ read'[h] = read[h] + k
      /\ read'[h] <= Len(s)
  BY PieceOfStream, Zenon
<1>2. s \in Seq(Byte) /\ Len(s) \in Nat /\ Len(conv[h].head) \in Nat
  BY TalkersHaveRequests
<1>3. a \in Nat /\ 1 <= a /\ a <= read[h] + 1 /\ read[h] <= read[h] + k
      /\ read[h] + k <= Len(s) /\ read[h] + k \in Nat /\ Len(conv[h].head) + 4 <= read'[h]
      /\ read[h] <= Len(s)
  <2>1. PICK r \in Nat, l \in Nat, n \in Nat :
            /\ r = read[h] /\ l = Len(conv[h].head) /\ n = Len(s)
            /\ l + 4 <= r /\ read'[h] = r + k /\ read'[h] <= n
    BY <1>1, <1>2, Zenon
  <2>2. /\ l + 5 \in Nat /\ 1 <= l + 5 /\ l + 5 <= r + 1 /\ r <= r + k
        /\ r + k <= n /\ r + k \in Nat /\ l + 4 <= r + k /\ r <= n
    <3>1. r + k <= n
      BY <2>1, Zenon
    <3>2. l + 4 <= r
      BY <2>1, Zenon
    <3> QED
      BY <1>1, <3>1, <3>2
  <2> QED
    BY <2>1, <2>2, Zenon
<1>4. Joins(s, a, read[h], read[h] + k)
  <2> HIDE DEF s, a
  <2> QED
    BY <1>1, <1>2, <1>3, PiecesJoin
<1>5. TailOf(h) = SubSeq(s, a, read[h])
  BY Zenon DEF TailOf
<1>6. TailOf(h)' = SubSeq(s, a, read[h] + k)
  BY <1>1, Zenon DEF TailOf
<1>7. TailOf(h)' = TailOf(h) \o d
  BY <1>4, <1>5, <1>6, Zenon DEF Joins
<1>8. SubSeq(s, a, read[h]) \in Seq(Byte)
  <2> HIDE DEF s, a
  <2> QED
    BY <1>1, <1>2, <1>3, Part
<1> QED
  BY <1>1, <1>3, <1>5, <1>7, <1>8, Zenon

(* _keep_connection_alive: a piece from a rover.                            *)
LEMMA RoverPieceKeeps ==
    ASSUME Shape, NEW h \in Handler, Kept(h), pc[h] = "serving", task[h] = "download",
           RoverPiece(h), UNCHANGED <<pc, conv, task>>
    PROVE  Kept(h)'
<1>0. conv[h] # Silence
  BY DEF Shape
<1>1. PICK k \in Pieces(h, BUFFER_SIZE) :
          /\ read' = [read EXCEPT ![h] = @ + k]
          /\ ConsumeRoverGga(h, SubSeq(Stream(conv[h]), read[h] + 1, read[h] + k))
  BY Zenon DEF RoverPiece
<1>2. PICK d : d = SubSeq(Stream(conv[h]), read[h] + 1, read[h] + k)
  OBVIOUS
<1>3. conv[h].whole /\ Len(conv[h].head) + 4 <= read[h]
  BY Zenon DEF Kept, HeaderIsKept
<1>4. /\ d \in Seq(Byte) /\ TailOf(h) \in Seq(Byte) /\ TailOf(h)' = TailOf(h) \o d
      /\ Len(conv[h].head) + 4 <= read'[h]
  BY <1>0, <1>1, <1>2, <1>3, TailGrows, Zenon
<1>5. HeaderIsKept(h)'
  <2>1. pc'[h] = "serving" /\ pc'[h] \notin {"handle"} \cup (Verifying \ {"serving"})
    OBVIOUS
  <2>2. (conv[h].whole /\ Len(conv[h].head) + 4 <= read[h])'
    BY <1>3, <1>4, Zenon
  <2> QED
    BY <2>1, <2>2, Zenon DEF HeaderIsKept
<1>6. NothingUsed(h)' /\ TailIsHeld(h)'
  BY DEF NothingUsed, TailIsHeld
<1>7. ASSUME Line(h).method = "GET"
      PROVE  Accumulated(Heard(h)', buffer'[h], pos'[h])
  <2>1. PICK g : g = GgaLine(conv[h])
    OBVIOUS
  <2>2. g \in Seq(Byte)
    BY <1>0, <2>1, TalkersHaveRequests, GgaLineIsBytes, Zenon
  <2>3. Heard(h) = g \o TailOf(h) /\ Heard(h)' = g \o TailOf(h)'
    BY <2>1, Zenon DEF Heard, TailOf
  <2>4. PICK t : t = TailOf(h)
    OBVIOUS
  <2>5. g \o (t \o d) = (g \o t) \o d /\ g \o t \in Seq(Byte)
    <3>1. t \in Seq(Byte)
      BY <1>4, <2>4, Zenon
    <3>2. \A x, y \in Seq(Byte) : x \o y \in Seq(Byte)
      OBVIOUS
    <3>3. (g \o t) \o d = g \o (t \o d)
      <4>1. d \in Seq(Byte)
        BY <1>4, Zenon
      <4> QED
        BY <2>2, <3>1, <4>1, ConcatAssociative, SMTT(30)
    <3> QED
      BY <2>2, <3>1, <3>2, <3>3, Zenon
  <2>6. Accumulated(Heard(h), buffer[h], pos[h])
    BY <1>7, Zenon DEF Kept, RoverIsHeard
  <2>7. Heard(h) \in Seq(Byte) /\ Heard(h)' = Heard(h) \o d
    BY <1>4, <2>3, <2>4, <2>5, Zenon
  <2>8. ConsumeRoverGga(h, d)
    BY <1>1, <1>2, Zenon
  <2>9. Accumulated(Heard(h) \o d, buffer'[h], pos'[h])
    BY <1>4, <2>6, <2>7, <2>8, ConsumeAccumulates, Zenon
  <2> QED
    BY <2>7, <2>9, Zenon
<1>8. RoverIsHeard(h)'
  <2>1. Line(h)' = Line(h)
    BY SameRequest
  <2> QED
    BY <1>7, <2>1, Zenon DEF RoverIsHeard
<1> QED
  BY <1>5, <1>6, <1>8 DEF Kept

(* _receive_rtcm_data: the held rest, or a piece from a source.             *)
LEMMA UploadPieceKeeps ==
    ASSUME Shape, NEW h \in Handler, Kept(h), pc[h] = "serving", task[h] = "upload",
           UploadPiece(h), UNCHANGED <<pc, conv, task>>
    PROVE  Kept(h)'
<1>0. /\ conv[h] # Silence /\ DOMAIN stored = Handler /\ DOMAIN rest = Handler
      /\ stored[h] \in Seq(Byte) /\ rest[h] \in Seq(Byte)
  BY DEF Shape
<1>01. pc'[h] = "serving" /\ pc'[h] \notin {"handle"} \cup (Verifying \ {"serving"})
  OBVIOUS
<1>02. Line(h)' = Line(h)
  BY SameRequest
<1>03. conv[h].whole /\ Len(conv[h].head) + 4 <= read[h]
  BY Zenon DEF Kept, HeaderIsKept
<1>1. NothingUsed(h)' /\ RoverIsHeard(h)'
  BY DEF NothingUsed, RoverIsHeard
<1>2. CASE /\ stored' = [stored EXCEPT ![h] = @ \o rest[h]]
           /\ rest' = [rest EXCEPT ![h] = <<>>] /\ UNCHANGED read
  <2>1. HeaderIsKept(h)'
    BY <1>01, <1>03, <1>2, Zenon DEF HeaderIsKept
  <2>2. PICK x : x = stored[h] \o rest[h]
    OBVIOUS
  <2>3. stored' = [stored EXCEPT ![h] = x]
    BY <1>2, <2>2, Zenon
  <2>4. stored'[h] = x /\ rest'[h] = <<>>
    BY <1>0, <1>2, <2>3
  <2>5. x \in Seq(Byte)
    <3>2. \A y, z \in Seq(Byte) : y \o z \in Seq(Byte)
      OBVIOUS
    <3> QED
      BY <1>0, <2>2, <3>2, Zenon
  <2>6. stored'[h] \o rest'[h] = x
    <3>1. x \o <<>> = x
      BY <2>5, ConcatEmptySeq, Zenon
    <3> QED
      BY <2>4, <3>1, Zenon
  <2>7. TailOf(h)' = TailOf(h)
    BY <1>2, Zenon DEF TailOf
  <2>8. TailIsHeld(h)'
    BY <1>02, <2>2, <2>6, <2>7, Zenon DEF Kept, TailIsHeld
  <2> QED
    BY <1>1, <2>1, <2>8 DEF Kept
<1>3. CASE /\ rest[h] = <<>> \/ Line(h).method = "RECORD"
           /\ \E k \in Pieces(h, BUFFER_SIZE) :
                 /\ read' = [read EXCEPT ![h] = @ + k]
                 /\ stored' = [stored EXCEPT ![h] =
                                  @ \o SubSeq(Stream(conv[h]), read[h] + 1, read[h] + k)]
           /\ UNCHANGED rest
  <2>1. PICK k \in Pieces(h, BUFFER_SIZE) :
                 /\ read' = [read EXCEPT ![h] = @ + k]
                 /\ stored' = [stored EXCEPT ![h] =
                                  @ \o SubSeq(Stream(conv[h]), read[h] + 1, read[h] + k)]
    BY <1>3
  <2>2. PICK d : d = SubSeq(Stream(conv[h]), read[h] + 1, read[h] + k)
    OBVIOUS
  <2>4. /\ d \in Seq(Byte) /\ TailOf(h) \in Seq(Byte) /\ TailOf(h)' = TailOf(h) \o d
        /\ Len(conv[h].head) + 4 <= read'[h]
    BY <1>0, <1>03, <2>1, <2>2, TailGrows, Zenon
  <2>5. HeaderIsKept(h)'
    <3>2. (conv[h].whole /\ Len(conv[h].head) + 4 <= read[h])'
      BY <1>03, <2>4, Zenon
    <3> QED
      BY <1>01, <3>2, Zenon DEF HeaderIsKept
  <2>6. ASSUME Line(h).method # "RECORD"
        PROVE  stored'[h] \o rest'[h] = TailOf(h)'
    <3>1. rest[h] = <<>> /\ rest'[h] = <<>>
      BY <1>3, <2>6
    <3>2. stored[h] \o rest[h] = TailOf(h)
      BY <2>6, Zenon DEF Kept, TailIsHeld
    <3>3. stored[h] \o <<>> = stored[h]
      BY <1>0, ConcatEmptySeq, Zenon
    <3>4. stored[h] = TailOf(h)
      BY <3>1, <3>2, <3>3, Zenon
    <3>5. PICK x : x = stored[h] \o d
      OBVIOUS
    <3>6. stored' = [stored EXCEPT ![h] = x]
      BY <2>1, <2>2, <3>5, Zenon
    <3>7. stored'[h] = x
      BY <1>0, <3>6
    <3>8. x \in Seq(Byte)
      <4>2. \A y, z \in Seq(Byte) : y \o z \in Seq(Byte)
        OBVIOUS
      <4> QED
        BY <1>0, <2>4, <3>5, <4>2, Zenon
    <3>9. x \o <<>> = x
      BY <3>8, ConcatEmptySeq, Zenon
    <3> QED
      BY <2>4, <3>1, <3>4, <3>5, <3>7, <3>9, Zenon
  <2>7. TailIsHeld(h)'
    BY <1>02, <2>6, Zenon DEF TailIsHeld
  <2> QED
    BY <1>1, <2>5, <2>7 DEF Kept
<1> QED
  BY <1>2, <1>3, Zenon DEF UploadPiece

(* Together: every step of the handler keeps its bytes.                     *)
LEMMA HandlerKeeps ==
    ASSUME Shape, NEW h \in Handler, Known(h), Kept(h),
           Connect(h) \/ HandlerStep(h) \/ ServeStep(h)
    PROVE  Kept(h)'
<1>0. pc \in [Handler -> Labels]
  BY DEF Shape, TypeOK, Labels
<1>1. CASE InitialRoverGga(h)
  <2>1. task[h] # "upload"
    BY <1>1 DEF InitialRoverGga, Known, RowsAgree
  <2> QED
    BY <1>1, <2>1, InitialGgaKeeps
<1>2. CASE ServePiece(h)
  BY <1>2, RoverPieceKeeps, UploadPieceKeeps DEF ServePiece
<1>3. CASE ServeEnds(h)
  <2>1. pc'[h] = "closed"
    BY <1>0, <1>3 DEF ServeEnds, Goto
  <2> QED
    BY <2>1, EndKeeps
<1> QED
  BY <1>1, <1>2, <1>3, ArrivalKeeps, VerifyingKeeps DEF HandlerStep, ServeStep

----------------------------------------------------------------------------
(* A source whose mount point is gone came too late for its deletion, or    *)
(* saw it renamed, or the deletion is about to disconnect it.               *)
OrphanHasReason(h) ==
    pc[h] \in {"rover", "serving"} /\ task[h] = "upload" /\ db.mounts[Name(h)] = None =>
        h \in late \cup moved \/ (page.step = "source" /\ page.mount = Name(h))

(* The inductive invariant: the shape, and for each handler who its client  *)
(* is, where its bytes are, and why a source without a mount point is there. *)
IInv == Shape /\ \A h \in Handler : Mine(h) /\ OrphanHasReason(h)

(* It holds before anyone has connected.                                    *)
LEMMA InitIsInductive ==
    ASSUME Init
    PROVE  IInv
<1> USE DEF Init
<1>1. \A h \in Handler : conv[h] # Silence => Len(Stream(conv[h])) \in Nat
  BY ConversationAssumption, StreamParts
<1>2. TypeOK
  <2>1. \A h \in Handler : read[h] \in 0 .. (IF conv[h] = Silence THEN 0 ELSE Len(Stream(conv[h])))
    BY <1>1
  <2>2. edits \in 0 .. MaxEdits /\ late \cup moved \subseteq Handler
    BY RequestAssumption
  <2>3. /\ DOMAIN db = {"mounts", "users"} /\ DOMAIN db.users = User
        /\ db.mounts \in [Mount -> Row \cup {None}]
    BY DatabaseAssumption
  <2> QED
    BY <2>1, <2>2, <2>3 DEF TypeOK
<1>3. Shape
  BY <1>2 DEF Shape, NoPage
<1>4. ASSUME NEW h \in Handler
      PROVE  Mine(h) /\ OrphanHasReason(h)
  <2>1. pc[h] = "idle"
    OBVIOUS
  <2>2. RequestIsKnown(h) /\ DigestIsClaimed(h) /\ KeyIsShown(h) /\ RowsAgree(h)
    BY <2>1 DEF RequestIsKnown, DigestIsClaimed, KeyIsShown, RowsAgree, Passed, Keyed, Verifying
  <2>3. HeaderIsKept(h) /\ TailIsHeld(h) /\ RoverIsHeard(h) /\ OrphanHasReason(h)
    BY <2>1 DEF HeaderIsKept, TailIsHeld, RoverIsHeard, OrphanHasReason, Verifying
  <2>4. NothingUsed(h)
    BY DEF NothingUsed
  <2> QED
    BY <2>2, <2>3, <2>4 DEF Mine
<1> QED
  BY <1>3, <1>4 DEF IInv

(* A handler's step keeps it.                                               *)
LEMMA HandlerIsInductive ==
    ASSUME IInv, NEW h \in Handler, Connect(h) \/ HandlerStep(h) \/ ServeStep(h)
    PROVE  IInv'
<1>0. Shape /\ Mine(h)
  BY DEF IInv
<1>1. Shape'
  BY <1>0, HandlerKeepsShape
<1>2. OnlyFor(h)
  BY <1>0, HandlerMoves
<1>3. conv' = conv /\ db' = db /\ page' = page
  BY <1>2 DEF OnlyFor, database
<1>4. Mine(h)'
  BY <1>0, HandlerKnows, HandlerKeeps DEF Mine, Known, Kept
<1>5. \A k \in Handler \ {h} : SameFor(k) /\ Mine(k)'
  BY <1>2, <1>3, Frame DEF OnlyFor, IInv
<1>6. late \subseteq late' /\ moved' = moved
  <2>1. CASE Handle(h)
    BY <2>1, Zenon DEF Handle, history
  <2> QED
    BY <2>1 DEF Connect, HandlerStep, ServeStep, Recv, VerifyUser, Digest, Rows, DownloadUserRow,
         Limit, Accepted, Register, InitialRoverGga, ServePiece, ServeEnds, history
<1>7. ASSUME NEW k \in Handler
      PROVE  OrphanHasReason(k)'
  <2>0. Name(k)' = Name(k)
    BY <1>3, SameRequest
  <2>1. CASE pc'[k] = pc[k] /\ task'[k] = task[k]
    BY <1>3, <1>6, <2>0, <2>1 DEF IInv, OrphanHasReason
  <2>2. CASE ~(pc'[k] = pc[k] /\ task'[k] = task[k])
    <3>1. k = h
      BY <1>5, <2>2 DEF SameFor
    <3>2. pc \in [Handler -> Labels] /\ DOMAIN task = Handler
      BY <1>0 DEF Shape, TypeOK, Labels
    <3>3. CASE pc'[h] \notin {"rover", "serving"}
      BY <3>1, <3>3 DEF OrphanHasReason
    <3>4. CASE pc'[h] \in {"rover", "serving"}
      <4>1. CASE Register(h)
        BY <1>3, <2>0, <3>1, <3>2, <3>4, <4>1
           DEF Register, OrphanHasReason, Goto, Refuse, Finish, input, output, database
      <4>2. CASE InitialRoverGga(h)
        <5>1. task[h] # "upload" /\ task' = task
          BY <1>0, <4>2 DEF InitialRoverGga, Mine, RowsAgree
        <5> QED
          BY <3>1, <5>1 DEF OrphanHasReason
      <4>3. CASE ServePiece(h) \/ ServeEnds(h)
        BY <2>2, <3>1, <3>2, <3>4, <4>3 DEF ServePiece, ServeEnds, Goto
      <4>4. CASE Handle(h)
        <5>1. Goto(h, "closed") \/ Goto(h, "verify")
          BY <4>4, Zenon DEF Handle, Finish, Refuse, Verify, Say
        <5> QED
          BY <3>2, <3>4, <5>1 DEF Goto
      <4>5. CASE Connect(h) \/ Recv(h)
        BY <3>2, <3>4, <4>5 DEF Connect, Recv, RecvPiece, RecvEnds, Finish, Goto
      <4>6. CASE VerifyUser(h) \/ Digest(h) \/ Rows(h) \/ DownloadUserRow(h)
        BY <3>2, <3>4, <4>6 DEF VerifyUser, Digest, Rows, UploadRows, DownloadMountRow,
               DownloadUserRow, ToLimit, Refuse, Finish, Goto
      <4>7. CASE Limit(h) \/ Accepted(h)
        BY <3>2, <3>4, <4>7 DEF Limit, Accepted, RtspCommand, Refuse, Finish, Goto
      <4> QED
        BY <4>1, <4>2, <4>3, <4>4, <4>5, <4>6, <4>7 DEF HandlerStep, ServeStep
    <3> QED
      BY <3>3, <3>4
  <2> QED
    BY <2>1, <2>2
<1> QED
  BY <1>1, <1>4, <1>5, <1>7 DEF IInv

(* Nor does an edit: the rows of other names stay, and a source whose row   *)
(* is renamed counts as moved.                                              *)
LEMMA UpdateHasReason ==
    ASSUME IInv, UpdateRow, NEW k \in Handler,
           pc[k] \in {"rover", "serving"}, task[k] = "upload",
           Name(k) \in Mount, db'.mounts[Name(k)] = None
    PROVE  k \in late \cup moved'
<1> DEFINE m == page.mount  e == page.edit
<1>0. /\ DOMAIN db = {"mounts", "users"} /\ db.mounts \in [Mount -> Row \cup {None}]
      /\ m \in Mount /\ e \in Edits /\ page.step = "row" /\ moved \subseteq moved'
  BY UpdateKeepsTables DEF IInv, Shape, TypeOK, UpdateRow
<1>1. db.mounts[Name(k)] = None => k \in late \cup moved
  BY <1>0 DEF IInv, OrphanHasReason
<1>2. CASE db.mounts[m] = None
  <2>1. db' = db
    BY <1>2 DEF UpdateRow
  <2> QED
    BY <1>0, <1>1, <2>1
<1>3. CASE db.mounts[m] # None
  <2>1. /\ db'.mounts = Updated(db.mounts, m, e)
        /\ moved' = IF NewName(m, e) = m THEN moved
                    ELSE moved \cup {h \in Serving("upload") : Name(h) = m}
    BY <1>0, <1>3 DEF UpdateRow
  <2>2. Edited(db.mounts[m], e) # None
    BY <1>0, <1>3, EditedIsARow
  <2>3. Name(k) # NewName(m, e)
    BY <2>1, <2>2 DEF Updated
  <2>4. CASE Name(k) = m
    BY <2>1, <2>3, <2>4 DEF Serving
  <2>5. CASE Name(k) # m
    <3>1. db.mounts[Name(k)] = None
      BY <2>1, <2>3, <2>5 DEF Updated
    <3> QED
      BY <1>0, <1>1, <3>1
  <2> QED
    BY <2>4, <2>5
<1> QED
  BY <1>2, <1>3

(* So does a page's: a row that goes away goes under the eyes of            *)
(* RemoveSource, or to another name.                                        *)
LEMMA PageIsInductive ==
    ASSUME IInv, PageStep
    PROVE  IInv'
<1>1. /\ Shape /\ Shape'
      /\ UNCHANGED <<conv, read, rest, task, key, buffer, pos, stored, seen, late>>
      /\ moved \subseteq moved'
      /\ \A k \in Handler : Ended(k)
  BY PageKeepsShape DEF IInv
<1>2. ASSUME NEW k \in Handler
      PROVE  Mine(k)'
  BY <1>1, Frame DEF IInv, Ended, SameFor
<1>3. ASSUME NEW k \in Handler
      PROVE  OrphanHasReason(k)'
  <2>0. Name(k)' = Name(k) /\ task'[k] = task[k] /\ late' = late
    BY <1>1, SameRequest
  <2>1. SUFFICES ASSUME pc'[k] \in {"rover", "serving"}, task[k] = "upload",
                        db'.mounts[Name(k)] = None
                 PROVE  k \in late \cup moved' \/ (page'.step = "source" /\ page'.mount = Name(k))
    BY <2>0 DEF OrphanHasReason
  <2>2. pc[k] \in {"rover", "serving"}
    BY <1>1, <2>1 DEF Ended
  <2>3. Name(k) \in Mount
    <3>1. pc[k] \in Passed
      BY <2>2 DEF Passed, Keyed, Verifying
    <3> QED
      BY <3>1 DEF IInv, Mine, RowsAgree
  <2>4. db.mounts[Name(k)] = None =>
            k \in late \cup moved \/ (page.step = "source" /\ page.mount = Name(k))
    BY <2>1, <2>2 DEF IInv, OrphanHasReason
  <2>5. CASE DisconnectMount
    BY <1>1, <2>1, <2>4, <2>5 DEF DisconnectMount
  <2>6. CASE DeleteRow
    <3>0. DOMAIN db = {"mounts", "users"} /\ DOMAIN db.mounts = Mount /\ page.mount \in Mount
          /\ DOMAIN page = {"step", "mount", "edit"} /\ page.step = "row"
      BY <1>1, <2>6 DEF Shape, TypeOK, DeleteRow
    <3>1. /\ db'.mounts = [db.mounts EXCEPT ![page.mount] = None]
          /\ page' = [page EXCEPT !.step = "source"]
      BY <2>6, <3>0 DEF DeleteRow
    <3>2. CASE Name(k) = page.mount
      BY <3>0, <3>1, <3>2
    <3>3. CASE Name(k) # page.mount
      BY <1>1, <2>1, <2>3, <2>4, <3>0, <3>1, <3>3
    <3> QED
      BY <3>2, <3>3
  <2>7. CASE UpdateRow
    BY <2>1, <2>2, <2>3, <2>7, UpdateHasReason
  <2>8. CASE RemoveSource
    <3>1. db' = db /\ (Name(k) = page.mount => pc'[k] = "closed")
      BY <2>1, <2>2, <2>8 DEF RemoveSource, Serving
    <3> QED
      BY <1>1, <2>1, <2>4, <3>1
  <2> QED
    BY <2>5, <2>6, <2>7, <2>8 DEF PageStep
<1> QED
  BY <1>1, <1>2, <1>3 DEF IInv

(* And a step of something else.                                            *)
LEMMA StutterIsInductive ==
    ASSUME IInv, UNCHANGED vars
    PROVE  IInv'
<1>0. UNCHANGED <<pc, conv, read, rest, task, key, answers, buffer, pos, stored,
                  db, page, edits, seen, late, moved>>
  BY DEF vars, input, output, database, history
<1>1. Shape'
  BY <1>0, Zenon DEF IInv, Shape, TypeOK
<1>2. ASSUME NEW k \in Handler
      PROVE  Mine(k)' /\ OrphanHasReason(k)'
  <2>1. SameFor(k) /\ conv' = conv
    BY <1>0 DEF SameFor
  <2>2. Name(k)' = Name(k)
    BY <2>1, SameRequest
  <2>3. OrphanHasReason(k)'
    BY <1>0, <2>2 DEF IInv, OrphanHasReason
  <2> QED
    BY <2>1, <2>3, Frame DEF IInv
<1> QED
  BY <1>1, <1>2 DEF IInv

(* The invariant of the conversation, for any number of handlers, requests  *)
(* of any bytes in any cut, and any database.                               *)
THEOREM RequestInvariant == Spec => []IInv
<1>1. Init => IInv
  BY InitIsInductive
<1>2. IInv /\ [Next]_vars => IInv'
  BY HandlerIsInductive, PageIsInductive, StutterIsInductive DEF Next, PageStep
<1> QED
  BY <1>1, <1>2, PTL DEF Spec

(* Every variable keeps to its type.                                        *)
THEOREM RequestTypes == Spec => []TypeOK
<1>1. IInv => TypeOK
  BY DEF IInv, Shape
<1> QED
  BY <1>1, RequestInvariant, PTL

(* verify_user lets nobody through to upload_data or to the forwarder who has *)
(* not shown what the mount point takes, in whatever dialect: the key is one *)
(* that was shown, and the rows are those that it matched.                  *)
THEOREM OnlyTheVerifiedAreServed == Spec => []ServedIsVerified
<1>1. ASSUME IInv
      PROVE  ServedIsVerified
  <2>1. ASSUME NEW h \in Handler, pc[h] \in {"rover", "serving"}
        PROVE  /\ pc[h] \in Passed /\ RequestIsKnown(h) /\ KeyIsShown(h) /\ RowsAgree(h)
               /\ conv[h].auth = None \/ conv[h].auth.user \in User \cup {None}
    <3>1. Mine(h) /\ Shape /\ conv[h] # Silence
      BY <1>1, <2>1 DEF IInv, Shape
    <3>2. conv[h].auth = None \/ conv[h].auth.user \in User \cup {None}
      BY <3>1, TalkersHaveRequests
    <3> QED
      BY <2>1, <3>1, <3>2 DEF Mine, Passed, Keyed, Verifying
  <2>2. \A h \in Serving("upload") :
            MayUpload(conv[h], Line(h).method, Name(h), seen[h].mounts, seen[h].users)
    BY <2>1, UploadIsAllowed DEF Serving
  <2>3. \A h \in Serving("download") :
            MayDownload(conv[h], Line(h).method, Name(h), seen[h].mounts, seen[h].users)
    BY <2>1, DownloadIsAllowed DEF Serving
  <2> QED
    BY <2>2, <2>3 DEF ServedIsVerified
<1> QED
  BY <1>1, RequestInvariant, PTL

(* _receive_rtcm_data: however the stream is cut, what is uploaded or held is *)
(* what followed the header.                                                *)
THEOREM NoByteOfASourceIsLost == Spec => []TailIsKept
<1>1. ASSUME IInv
      PROVE  TailIsKept
  <2>1. ASSUME NEW h \in Handler, pc[h] \in {"rover", "serving"}, task[h] = "upload",
               Line(h).method # "RECORD"
        PROVE  stored[h] \o rest[h] = SubSeq(Stream(conv[h]), Len(conv[h].head) + 5, read[h])
    <3>1. RowsAgree(h) /\ TailIsHeld(h)
      BY <1>1 DEF IInv, Mine
    <3>2. pc[h] = "serving"
      BY <2>1, <3>1 DEF RowsAgree
    <3> QED
      BY <2>1, <3>1, <3>2, Zenon DEF TailIsHeld, TailOf
  <2> QED
    BY <2>1, Zenon DEF TailIsKept, Serving
<1> QED
  BY <1>1, RequestInvariant, PTL

(* _consume_rover_gga: however the stream is cut, and whatever the bounded  *)
(* buffer has dropped, the position is that of the last sentence.           *)
THEOREM ARoverIsWhereItSaidLast == Spec => []PositionIsLastGga
<1>1. ASSUME IInv
      PROVE  PositionIsLastGga
  <2>1. ASSUME NEW h \in Handler, pc[h] = "serving", task[h] = "download",
               Line(h).method = "GET", EndsInTime(Heard(h))
        PROVE  pos[h] = LastPosition(Heard(h))
    <3>1. RoverIsHeard(h)
      BY <1>1 DEF IInv, Mine
    <3> QED
      BY <2>1, <3>1, Zenon DEF RoverIsHeard, Accumulated
  <2> QED
    BY <2>1, Zenon DEF PositionIsLastGga, Serving
<1> QED
  BY <1>1, RequestInvariant, PTL

(* api_mount_detail: a source whose mount point has no row was registered   *)
(* after the row had gone, or the row was renamed under it; no other source *)
(* outlives a deletion.                                                     *)
THEOREM OrphansHaveReason == Spec => []OrphanSourceHasReason
<1>1. IInv => OrphanSourceHasReason
  BY DEF IInv, OrphanHasReason, OrphanSourceHasReason, Serving
<1> QED
  BY <1>1, RequestInvariant, PTL
=============================================================================

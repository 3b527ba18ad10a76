----------------------------- MODULE MCRequest -----------------------------
(* Instances of Request for TLC. *)
EXTENDS Request, TLC

CONSTANTS A, B, C,          \* mount points; C is not in the database
          u1, u2, ghost,    \* users; ghost is not in the database
          mp, up, pl, bad   \* passwords

\* u1's password is stored hashed, u2's row is older and has it as it is.  The
\* password of mount point B is also u1's.
Rows0 == [mounts |-> A :> [password |-> mp, owner |-> u1]
                     @@ B :> [password |-> up, owner |-> None] @@ C :> None,
          users |-> u1 :> hash_password(up) @@ u2 :> Stored(pl) @@ ghost :> None]

\* A new password and owner, or a new name, or the owner taken away.
Changes == [mount : {None}, password : {up}, owner : {u1, u2}]
           \cup {[mount |-> C, password |-> None, owner |-> None],
                 [mount |-> None, password |-> None, owner |-> None]}

Path(m) == [scheme |-> "path", mount |-> m, login |-> None]
Url(s, m, login) == [scheme |-> s, mount |-> m, login |-> login]
Basic(u, p) == [scheme |-> "Basic", user |-> u, password |-> p, method |-> "", uri |-> None]
Dig(u, p, m, uri) == [scheme |-> "Digest", user |-> u, password |-> p, method |-> m, uri |-> uri]
Garbled == Basic(None, bad)
Other == [Garbled EXCEPT !.scheme = "Bearer"]

Plain == [verb |-> "GET", secret |-> None, target |-> Path(A), proto |-> "HTTP/1.1",
          ntrip2 |-> FALSE, agent |-> {"ntrip"}, host |-> TRUE, auth |-> None, gga |-> None,
          head |-> <<"x">>, whole |-> TRUE, tail |-> <<>>]

\* How a request is recognised.
Recognised ==
    {[Plain EXCEPT !.verb = v, !.proto = p, !.agent = a, !.host = h, !.ntrip2 = n, !.auth = w] :
        v \in {"GET", "POST"}, p \in {"HTTP/1.0", "HTTP/1.1", "FTP"},
        a \in {{}, {"ntrip"}, {"ntrip", "2.0"}, {"landstar"}},
        h \in BOOLEAN, n \in BOOLEAN, w \in {None, Basic(u1, up)}}

\* Who is let in.
Verified ==
    {[Plain EXCEPT !.verb = v, !.proto = p[1], !.agent = p[2], !.target = Path(m), !.auth = w] :
        v \in {"GET", "POST"}, p \in {<<"HTTP/1.1", {"ntrip"}>>, <<"HTTP/1.0", {"rtk"}>>, <<"FTP", {}>>},
        m \in {A, B, C},
        w \in {Basic(u1, up), Basic(u1, mp), Basic(u2, pl), Basic(u2, up), Basic(ghost, up),
               Basic(u1, hash_password(up)), Garbled, Other}
              \cup {Dig(u, q, x, A) : u \in {u1, u2}, q \in {up, pl, hash_password(up)}, x \in {"GET", "POST"}}}

Sources ==
    {[Plain EXCEPT !.verb = v, !.secret = s, !.target = t, !.proto = p, !.auth = w] :
        v \in {"SOURCE"}, s \in {None, mp, bad},
        t \in {Path(A), Path(B), Path(Root), Url("bare", A, None), Url("http", A, mp), Url("rtsp", A, bad)},
        p \in {None, "HTTP/1.1"}, w \in {None, Basic(u1, up)}}

Rtsp ==
    {[Plain EXCEPT !.verb = v, !.target = t, !.proto = "RTSP/1.0", !.auth = w] :
        v \in RtspVerbs \cup {"GET", "POST"}, t \in {Path(B), Path(Root), Url("rtsp", B, None)},
        w \in {None, Basic(u1, up), Basic(u1, mp), Dig(u2, pl, "PLAY", B)}}

Odd ==
    {[Plain EXCEPT !.verb = v, !.target = t, !.proto = p] :
        v \in {"GET", "OPTIONS", "PLAY", "NONSENSE"}, t \in {Path(Root), None}, p \in {None, "HTTP/1.1"}}
    \cup {[Plain EXCEPT !.verb = "ADMIN", !.secret = mp],
          [Plain EXCEPT !.verb = "ADMIN"], [Plain EXCEPT !.verb = "source"],
          [Plain EXCEPT !.verb = "source", !.secret = mp, !.proto = None], [Plain EXCEPT !.agent = {}, !.target = Path(B)]}

\* What is cut in every way: headers at and above the limit, one that is not
\* ended, a source's data, rovers' sentences.
Cut ==
    {[Plain EXCEPT !.verb = "SOURCE", !.secret = mp, !.head = <<"x", CR, LF, "y">>, !.tail = <<"1", "2", "3">>],
     [Plain EXCEPT !.verb = "POST", !.auth = Basic(u1, up), !.tail = <<CR, LF, CR, LF>>],
     [Plain EXCEPT !.verb = "POST", !.head = <<"x", CR, LF, "y", "z">>],
     [Plain EXCEPT !.whole = FALSE, !.tail = <<"x">>],
     [Plain EXCEPT !.auth = Basic(u1, up), !.gga = <<"$", "p", "*">>,
                   !.tail = <<LF, "$", "q", "*", CR, LF, "$", "bad", "*", LF>>],
     [Plain EXCEPT !.auth = Basic(u1, up),
                   !.tail = <<"$", "p", "*", "-", "$", "q", "-", "*", CR, LF, "-", "*">>],
     [Plain EXCEPT !.auth = Basic(u1, up),
                   !.tail = <<"-", "-", "-", "$", "q", "*", LF, "$", "p", "-", "-", "*", LF>>],
     [Plain EXCEPT !.auth = Basic(u1, up),
                   !.tail = <<"$", "p", "*", CR, LF, "$", "q", "*", CR, CR, CR, LF>>]}

Bytes == {CR, LF, "$", "*", "p", "q", "-", "bad", "x", "y", "z", "1", "2", "3"}
Two == {"h1", "h2"}
Rover == [Plain EXCEPT !.auth = Basic(u1, up), !.target = Path(B)]
Source == [Plain EXCEPT !.verb = "SOURCE", !.secret = up, !.target = Path(B)]
Describe == [Plain EXCEPT !.verb = "DESCRIBE", !.target = Path(B), !.proto = "RTSP/1.0", !.auth = Basic(u1, up)]
Play == [Describe EXCEPT !.verb = "PLAY"]
Setup == [Describe EXCEPT !.verb = "SETUP"]
Pair(c, d) == "h1" :> c @@ "h2" :> d
\* Every request alone, and some next to a rover or a source of B.
Sent == {Pair(c, Silence) : c \in Recognised \cup Verified \cup Sources \cup Rtsp \cup Odd \cup Cut}
        \cup {Pair(c, d) : c \in {Rover, Source, Describe, Setup, Play}, d \in {Rover, Source}}
=============================================================================

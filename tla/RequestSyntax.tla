--------------------------- MODULE RequestSyntax ---------------------------
(***************************************************************************)
(* What NTRIPHandler.handle_request in src/ntrip.py reads off a complete    *)
(* header: request line, protocol, validity and the handler to call.       *)
(*                                                                         *)
(* A request is a record:                                                  *)
(*   verb                first word of the line; "source" stands for a     *)
(*                       SOURCE that is not in capitals                    *)
(*   secret, target, proto   the other words, None when there is none;     *)
(*                       one word is the target, two are target and proto  *)
(*                       or secret and target, as they look                *)
(*   ntrip2              Ntrip-Version: Ntrip/2.0 is among the headers     *)
(*   agent               the marks that the User-Agent contains            *)
(*   host, auth, gga     headers; auth is None or a record with a scheme   *)
(* A target is [scheme, mount, login]: scheme "path" (/mount), "bare"      *)
(* (mount), "http" or "rtsp" (URLs, with a password in login or None); the *)
(* root path has mount Root.                                               *)
(***************************************************************************)
CONSTANTS
    None,
    Root,       \* the empty mount name, of the path "/"
    SafeMount   \* mount names of letters, digits and -_.~ without ".."

RtspVerbs == {"DESCRIBE", "SETUP", "PLAY", "PAUSE", "TEARDOWN", "RECORD"}
Malformed == [ok |-> FALSE]

IsUrl(t) == t.scheme \in {"http", "rtsp"}
Upper(verb) == IF verb = "source" THEN "SOURCE" ELSE verb
Parsed(method, path, password) ==
    [ok |-> TRUE, method |-> method, path |-> path, password |-> password]

(* The path "/mount", whether or not the target had the slash. *)
Rooted(t) == [scheme |-> "path", mount |-> IF IsUrl(t) THEN None ELSE t.mount]

(* The second and third word of a SOURCE or ADMIN line are its password and *)
(* its mount point whatever they look like: "SOURCE /mount HTTP/1.1" means  *)
(* the mount point HTTP/1.1, and /mount is the password.                    *)
AsThreeWords(r) ==
    IF r.secret # None \/ r.proto = None THEN r
    ELSE [r EXCEPT !.secret = r.target,
                   !.target = [scheme |-> "bare", mount |-> r.proto, login |-> None]]

(* SOURCE and a mount point, before it possibly a password, which one in an *)
(* URL overrides; an URL must name a mount point.                           *)
_parse_source_url_format(r) ==
    LET t == r.target IN
    IF IsUrl(t) /\ t.mount = Root THEN Malformed
    ELSE Parsed("SOURCE", [scheme |-> "path", mount |-> t.mount],
                IF IsUrl(t) /\ t.login # None THEN t.login ELSE r.secret)

_parse_request_line(r) ==
    LET w == AsThreeWords(r)
        admin == r.verb = "ADMIN" /\ w.secret # None
    IN
    CASE r.target = None -> Malformed
      [] r.target # None /\ Upper(r.verb) = "SOURCE" -> _parse_source_url_format(w)
      [] r.target # None /\ admin -> Parsed("ADMIN", Rooted(w.target), w.secret)
      [] r.target # None /\ Upper(r.verb) # "SOURCE" /\ ~admin ->
           IF r.secret # None \/ r.proto = None THEN Malformed
           ELSE IF r.proto = "RTSP/1.0"
                THEN Parsed(r.verb, [scheme |-> r.target.scheme, mount |-> r.target.mount], None)
                ELSE Parsed(r.verb, Rooted(r.target), None)

(* A GET of the source table or of one well-formed mount point by a client  *)
(* that says NTRIP or LandStar and does not say 2.0.                        *)
_is_legacy_ntrip_download_request(r) ==
    /\ r.verb = "GET" /\ ~r.host /\ ~r.ntrip2
    /\ r.agent \cap {"ntrip", "landstar"} # {} /\ "ntrip/2.0" \notin r.agent
    /\ r.proto \in {"HTTP/1.0", "HTTP/1.1"}
    /\ r.target.scheme = "path" /\ r.target.mount \in SafeMount \cup {Root}

Is11(r) == r.proto = "HTTP/1.1"
Http2(yes) == IF yes THEN "ntrip2_0" ELSE "ntrip1_0_http"

(* _determine_ntrip_version, the protocol of a line that was parsed. *)
_determine_ntrip_version(r) ==
    LET http == r.proto \in {"HTTP/1.0", "HTTP/1.1"}
        transfer == r.verb \in {"GET", "POST"}
        w == AsThreeWords(r)
    IN CASE r.verb \in {"SOURCE", "ADMIN"} ->
              IF IsUrl(w.target) \/ w.secret = None THEN "ntrip0_8" ELSE "ntrip1_0"
         [] OTHER ->
              IF r.proto = "RTSP/1.0" THEN "rtsp"
              ELSE IF r.ntrip2 THEN "ntrip2_0"
              ELSE IF _is_legacy_ntrip_download_request(r) THEN "ntrip1_0_http"
              ELSE IF ~http THEN "ntrip1_0"
              ELSE IF transfer /\ r.agent \cap {"ntrip", "rtk", "gnss", "gps"} # {}
                THEN Http2("2.0" \in r.agent \/ Is11(r))
              ELSE IF transfer /\ r.auth # None THEN Http2(Is11(r))
              ELSE IF r.agent \cap {"ntrip", "rtk", "gnss"} # {} THEN "ntrip2_0"
              ELSE "http"

(* ntrip_version: who gets HTTP answers. *)
SpeaksHttp(protocol) == protocol \in {"ntrip2_0", "http"}

_is_valid_request(r, p, protocol) ==
    /\ p.path.scheme = "path" \/ (protocol = "rtsp" /\ p.path.scheme = "rtsp")
    /\ protocol \in {"http", "ntrip2_0"} => r.host
    /\ \/ p.method \in {"GET", "POST", "SOURCE", "ADMIN", "OPTIONS"}
       \/ protocol = "rtsp" /\ p.method \in RtspVerbs

(* The handler that handle_request calls for a valid request. *)
Route(p, protocol) ==
    CASE p.method \in {"SOURCE", "POST"} -> "upload"
      [] p.method = "GET" /\ protocol \in {"ntrip1_0_http", "ntrip2_0", "ntrip1_0", "ntrip0_8"}
           -> "download"
      [] p.method = "GET" /\ protocol \in {"http", "rtsp"} -> "page"
      [] p.method = "OPTIONS" -> "options"
      [] p.method = "ADMIN" -> "none"
      [] p.method \in RtspVerbs -> "rtsp"
=============================================================================

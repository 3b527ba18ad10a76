------------------------ MODULE ParserManager_proofs ------------------------
(***************************************************************************)
(* Proofs about ParserManager, for any mount points, sources and requests: *)
(* what each operation of the manager does to its dictionaries, that they  *)
(* agree with one another and with the threads that run, and who stops a   *)
(* source's correction.                                                    *)
(***************************************************************************)
EXTENDS ParserManager, TLAPS

Manager == [parsers : Table(Parser), web : Table(Request), str : Table(Session),
            current : Mount \cup {None},
            fate : [Parser -> {"unused", "running", "ended", "stopped"}]]

(* DictionariesAgree and OneWebParser of a state of the manager. *)
Agree(g) ==
    \A m \in Mount :
        /\ g.web[m] = None \/ g.str[m] = None
        /\ g.parsers[m] \in {g.web[m], g.str[m]}
        /\ g.parsers[m] = None => g.web[m] = None /\ g.str[m] = None
        /\ \A p \in Parser : g.fate[p] = "running" => \E n \in Mount : g.parsers[n] = p

WebIsCurrent(g) == \A m \in Mount : g.web[m] # None => g.current = m

Sound(g) == g \in Manager /\ Agree(g) /\ WebIsCurrent(g)

(* A correction's parser is that of its own mount point, from its start     *)
(* until its waiting thread has stopped it.                                 *)
CorrectionsAreHome ==
    \A m \in Mount, s \in Session :
        mgr.parsers[m] = s => m = MountOf[s] /\ correction[s] \in {"sleeping", "stopping"}

(* The three dictionaries do not need the sources; those need CorrectionsAreHome. *)
IInv == TypeOK /\ Sound(mgr) /\ CorrectionsAreHome

----------------------------------------------------------------------------
(* stop_parser empties the mount point's place in all three dictionaries. *)
LEMMA StopParserDoes ==
    ASSUME NEW g \in Manager, Agree(g), NEW m \in Mount
    PROVE  /\ StopParser(g, m) \in Manager
           /\ StopParser(g, m).parsers = [g.parsers EXCEPT ![m] = None]
           /\ StopParser(g, m).web = [g.web EXCEPT ![m] = None]
           /\ StopParser(g, m).str = [g.str EXCEPT ![m] = None]
           /\ StopParser(g, m).current = g.current
           /\ \A p \in Parser : StopParser(g, m).fate[p] =
                 IF p = g.parsers[m] THEN "stopped" ELSE g.fate[p]
<1> DEFINE h == StopParser(g, m)
<1>1. /\ h.parsers = [g.parsers EXCEPT ![m] = None]
      /\ h.current = g.current
      /\ h.fate = Stopped(g, g.parsers[m])
      /\ h.web = [g.web EXCEPT ![m] = IF g.parsers[m] = None THEN @ ELSE None]
      /\ h.str = [g.str EXCEPT ![m] = IF g.parsers[m] = None \/ g.web[m] # None
                                      THEN @ ELSE None]
      /\ h = [parsers |-> h.parsers, web |-> h.web, str |-> h.str,
              current |-> h.current, fate |-> h.fate]
  <2>1. g = [parsers |-> g.parsers, web |-> g.web, str |-> g.str,
             current |-> g.current, fate |-> g.fate]
    BY DEF Manager
  <2>2. /\ h.parsers = [g.parsers EXCEPT ![m] = None]
        /\ h.current = g.current
        /\ h.fate = Stopped(g, g.parsers[m])
    BY <2>1 DEF StopParser, ParserAt
  <2>3. h.web = [g.web EXCEPT ![m] = IF g.parsers[m] = None THEN @ ELSE None]
    BY <2>1 DEF StopParser, ParserAt
  <2>4. h.str = [g.str EXCEPT ![m] = IF g.parsers[m] = None \/ g.web[m] # None
                                      THEN @ ELSE None]
    BY <2>1 DEF StopParser, ParserAt
  <2>5. h = [parsers |-> h.parsers, web |-> h.web, str |-> h.str,
             current |-> h.current, fate |-> h.fate]
    <3> DEFINE F == Stopped(g, g.parsers[m])
               P == [g.parsers EXCEPT ![m] = None]
               W == [g.web EXCEPT ![m] = IF g.parsers[m] = None THEN @ ELSE None]
               S == [g.str EXCEPT ![m] = IF g.parsers[m] = None \/ g.web[m] # None
                                         THEN @ ELSE None]
    <3>1. h = [g EXCEPT !.fate = F, !.parsers = P, !.web = W, !.str = S]
      BY <2>1 DEF StopParser, ParserAt
    <3> HIDE DEF F, P, W, S
    <3> QED
      BY <2>1, <3>1
  <2> QED
    BY <2>2, <2>3, <2>4, <2>5
<1>2. g.parsers \in Table(Parser) /\ g.web \in Table(Request) /\ g.str \in Table(Session)
      /\ g.fate \in [Parser -> {"unused", "running", "ended", "stopped"}]
      /\ g.current \in Mount \cup {None}
  BY DEF Manager
<1>3. h.web = [g.web EXCEPT ![m] = None]
  BY <1>1, <1>2 DEF Agree, Table
<1>4. h.str = [g.str EXCEPT ![m] = None]
  BY <1>1, <1>2 DEF Agree, Table
<1>5. /\ h.fate \in [Parser -> {"unused", "running", "ended", "stopped"}]
      /\ \A p \in Parser : h.fate[p] = IF p = g.parsers[m] THEN "stopped" ELSE g.fate[p]
  BY <1>1, <1>2, ParserManagerAssumption DEF Stopped, Table
<1>6. h \in Manager
  BY <1>1, <1>2, <1>3, <1>4, <1>5 DEF Manager, Table
<1> QED
  BY <1>1, <1>3, <1>4, <1>5, <1>6

(* The same, of what is known of the result only. *)
Emptied(g, m, h) ==
    /\ h.parsers = [g.parsers EXCEPT ![m] = None]
    /\ \A p \in Parser : h.fate[p] = IF p = g.parsers[m] THEN "stopped" ELSE g.fate[p]

LEMMA StopParserEmpties ==
    ASSUME NEW g \in Manager, Agree(g), NEW m \in Mount
    PROVE  Emptied(g, m, StopParser(g, m))
BY StopParserDoes DEF Emptied

(* _stop_web_parser_only does so if the place is a web parser's. *)
LEMMA StopWebParserOnlyDoes ==
    ASSUME NEW g \in Manager, Agree(g), NEW m \in Mount
    PROVE  /\ StopWebParserOnly(g, m) \in Manager
           /\ StopWebParserOnly(g, m).parsers =
                 IF g.web[m] = None THEN g.parsers ELSE [g.parsers EXCEPT ![m] = None]
           /\ StopWebParserOnly(g, m).web = [g.web EXCEPT ![m] = None]
           /\ StopWebParserOnly(g, m).str = g.str
           /\ \A p \in Parser : StopWebParserOnly(g, m).fate[p] =
                 IF p = g.web[m] THEN "stopped" ELSE g.fate[p]
<1> DEFINE h == StopWebParserOnly(g, m)
<1>1. g.parsers \in Table(Parser) /\ g.web \in Table(Request) /\ g.str \in Table(Session)
      /\ g.fate \in [Parser -> {"unused", "running", "ended", "stopped"}]
      /\ g.current \in Mount \cup {None}
  BY DEF Manager
<1>2. CASE g.web[m] = None
  <2>1. h = g
    BY <1>2 DEF StopWebParserOnly
  <2>2. g.web = [g.web EXCEPT ![m] = None]
    BY <1>1, <1>2 DEF Table
  <2> QED
    BY <1>1, <1>2, <2>1, <2>2, ParserManagerAssumption
<1>3. CASE g.web[m] # None
  <2>1. /\ h.parsers = [g.parsers EXCEPT ![m] = None]
        /\ h.web = [g.web EXCEPT ![m] = None]
        /\ h.str = g.str
        /\ h.current = IF g.current = m THEN None ELSE g.current
        /\ h.fate = [g.fate EXCEPT ![g.web[m]] = "stopped"]
        /\ h = [parsers |-> h.parsers, web |-> h.web, str |-> h.str,
                current |-> h.current, fate |-> h.fate]
    BY <1>3 DEF StopWebParserOnly, Manager, Stopped
  <2>2. g.web[m] \in Parser
    BY <1>1, <1>3 DEF Table, Parser
  <2>3. h \in Manager
    BY <1>1, <2>1, <2>2 DEF Manager, Table
  <2> QED
    BY <1>1, <1>3, <2>1, <2>2, <2>3
<1> QED
  BY <1>2, <1>3

(* What start_parser is told of its caller. *)
Kind(p) == IF p \in Session THEN "str_fix" ELSE "realtime_web"

(* start_parser stops what is there, and puts the new one in its place. *)
Placed(g, m, p, k) ==
    /\ k \in Manager
    /\ k.parsers = [g.parsers EXCEPT ![m] = p]
    /\ k.web = [g.web EXCEPT ![m] = IF p \in Session THEN None ELSE p]
    /\ k.str = [g.str EXCEPT ![m] = IF p \in Session THEN p ELSE None]
    /\ k.current = g.current
    /\ \A q \in Parser : k.fate[q] =
          IF q = p THEN "running" ELSE IF q = g.parsers[m] THEN "stopped" ELSE g.fate[q]

LEMMA StartParserDoes ==
    ASSUME NEW g \in Manager, Agree(g), NEW m \in Mount, NEW p \in Parser
    PROVE  Placed(g, m, p, StartParser(g, m, p, Kind(p), TRUE))
<1> DEFINE h == StopParser(g, m)
           k == StartParser(g, m, p, Kind(p), TRUE)
<1> HIDE DEF h
<1>1. /\ h \in Manager
      /\ h.parsers = [g.parsers EXCEPT ![m] = None]
      /\ h.web = [g.web EXCEPT ![m] = None]
      /\ h.str = [g.str EXCEPT ![m] = None]
      /\ h.current = g.current
      /\ \A q \in Parser : h.fate[q] = IF q = g.parsers[m] THEN "stopped" ELSE g.fate[q]
  BY StopParserDoes DEF h
<1>2. k = [h EXCEPT !.fate[p] = "running", !.parsers[m] = p,
                    !.str[m] = IF Kind(p) = "str_fix" THEN p ELSE @,
                    !.web[m] = IF Kind(p) = "str_fix" THEN @ ELSE p]
  BY DEF StartParser, h
<1>3. /\ k.parsers = [h.parsers EXCEPT ![m] = p]
      /\ k.web = [h.web EXCEPT ![m] = IF Kind(p) = "str_fix" THEN @ ELSE p]
      /\ k.str = [h.str EXCEPT ![m] = IF Kind(p) = "str_fix" THEN p ELSE @]
      /\ k.current = h.current
      /\ k.fate = [h.fate EXCEPT ![p] = "running"]
      /\ k = [parsers |-> k.parsers, web |-> k.web, str |-> k.str,
              current |-> k.current, fate |-> k.fate]
  BY <1>1, <1>2 DEF Manager
<1> HIDE DEF k
<1>4. h.parsers \in Table(Parser) /\ h.web \in Table(Request) /\ h.str \in Table(Session)
      /\ h.fate \in [Parser -> {"unused", "running", "ended", "stopped"}]
      /\ h.current \in Mount \cup {None}
      /\ g.parsers \in Table(Parser) /\ g.web \in Table(Request) /\ g.str \in Table(Session)
  BY <1>1 DEF Manager
<1>5. k.parsers = [g.parsers EXCEPT ![m] = p]
  BY <1>1, <1>3, <1>4 DEF Table
<1>6. k.web = [g.web EXCEPT ![m] = IF p \in Session THEN None ELSE p]
  BY <1>1, <1>3, <1>4 DEF Table, Kind
<1>7. k.str = [g.str EXCEPT ![m] = IF p \in Session THEN p ELSE None]
  BY <1>1, <1>3, <1>4 DEF Table, Kind
<1>8. k.fate \in [Parser -> {"unused", "running", "ended", "stopped"}]
  BY <1>3, <1>4
<1>9. k \in Manager
  <2>1. k.parsers \in Table(Parser) /\ k.web \in Table(Request) /\ k.str \in Table(Session)
    BY <1>4, <1>5, <1>6, <1>7 DEF Table, Parser
  <2> QED
    BY <1>1, <1>3, <1>4, <1>8, <2>1 DEF Manager
<1>10. \A q \in Parser : k.fate[q] =
          IF q = p THEN "running" ELSE IF q = g.parsers[m] THEN "stopped" ELSE g.fate[q]
  BY <1>1, <1>3, <1>4
<1> QED
  BY <1>1, <1>3, <1>5, <1>6, <1>7, <1>9, <1>10 DEF k, Placed

----------------------------------------------------------------------------
(* Each operation keeps the manager's state sound. *)

LEMMA StopParserSound ==
    ASSUME NEW g, Sound(g), NEW m \in Mount
    PROVE  Sound(StopParser(g, m))
<1> DEFINE h == StopParser(g, m)
<1>1. /\ h \in Manager
      /\ h.parsers = [g.parsers EXCEPT ![m] = None]
      /\ h.web = [g.web EXCEPT ![m] = None]
      /\ h.str = [g.str EXCEPT ![m] = None]
      /\ h.current = g.current
      /\ \A p \in Parser : h.fate[p] = IF p = g.parsers[m] THEN "stopped" ELSE g.fate[p]
  BY StopParserDoes DEF Sound
<1>2. g.parsers \in Table(Parser) /\ g.web \in Table(Request) /\ g.str \in Table(Session)
  BY DEF Sound, Manager
<1> HIDE DEF h
<1>3. Agree(h)
  BY <1>1, <1>2 DEF Sound, Agree, Table
<1>4. WebIsCurrent(h)
  BY <1>1, <1>2 DEF Sound, WebIsCurrent, Table
<1> QED
  BY <1>1, <1>3, <1>4 DEF Sound, h

(* Nothing is parsed for the web on the mount point afterwards. *)
LEMMA StopWebParserOnlySound ==
    ASSUME NEW g, Sound(g), NEW m \in Mount
    PROVE  Sound(StopWebParserOnly(g, m))
<1> DEFINE h == StopWebParserOnly(g, m)
<1>1. /\ h \in Manager
      /\ h.parsers = IF g.web[m] = None THEN g.parsers ELSE [g.parsers EXCEPT ![m] = None]
      /\ h.web = [g.web EXCEPT ![m] = None]
      /\ h.str = g.str
      /\ \A p \in Parser : h.fate[p] = IF p = g.web[m] THEN "stopped" ELSE g.fate[p]
  BY StopWebParserOnlyDoes DEF Sound
<1>2. g.parsers \in Table(Parser) /\ g.web \in Table(Request) /\ g.str \in Table(Session)
  BY DEF Sound, Manager
<1>3. WebIsCurrent(h)
  <2>1. CASE g.web[m] = None
    BY <2>1 DEF Sound, StopWebParserOnly
  <2>2. CASE g.web[m] # None
    <3>1. g.current = m
      BY <2>2 DEF Sound, WebIsCurrent
    <3>2. \A n \in Mount : h.web[n] = None
      BY <1>1, <1>2, <3>1 DEF Sound, WebIsCurrent, Table
    <3> QED
      BY <3>2 DEF WebIsCurrent
  <2> QED
    BY <2>1, <2>2
<1> HIDE DEF h
<1>4. Agree(h)
  <2>1. g.web[m] # None => g.parsers[m] = g.web[m] /\ g.str[m] = None
    BY DEF Sound, Agree
  <2>2. ASSUME NEW p \in Parser, h.fate[p] = "running" PROVE \E n \in Mount : h.parsers[n] = p
    <3>1. p # g.web[m] /\ g.fate[p] = "running"
      BY <1>1, <2>2
    <3>2. PICK n \in Mount : g.parsers[n] = p
      BY <3>1 DEF Sound, Agree
    <3> QED
      BY <1>1, <1>2, <2>1, <3>1, <3>2 DEF Table
  <2>3. \A n \in Mount : /\ h.web[n] = None \/ h.str[n] = None
                         /\ h.parsers[n] \in {h.web[n], h.str[n]}
                         /\ h.parsers[n] = None => h.web[n] = None /\ h.str[n] = None
    BY <1>1, <1>2, <2>1 DEF Sound, Agree, Table
  <2> QED
    BY <2>2, <2>3 DEF Agree
<1> QED
  BY <1>1, <1>3, <1>4 DEF Sound, h

(* A web parser may be started when no other mount point has one. *)
LEMMA StartParserAgrees ==
    ASSUME NEW g, Sound(g), NEW m \in Mount, NEW p \in Parser,
           NEW ok \in BOOLEAN
    PROVE  /\ StartParser(g, m, p, Kind(p), ok) \in Manager
           /\ Agree(StartParser(g, m, p, Kind(p), ok))
<1>1. CASE ~ok
  <2>1. StartParser(g, m, p, Kind(p), ok) = StopParser(g, m)
    BY <1>1 DEF StartParser
  <2> QED
    BY <2>1, StopParserSound DEF Sound
<1>2. CASE ok
  <2> DEFINE k == StartParser(g, m, p, Kind(p), TRUE)
  <2>1. /\ k \in Manager
        /\ k.parsers = [g.parsers EXCEPT ![m] = p]
        /\ k.web = [g.web EXCEPT ![m] = IF p \in Session THEN None ELSE p]
        /\ k.str = [g.str EXCEPT ![m] = IF p \in Session THEN p ELSE None]
        /\ \A q \in Parser : k.fate[q] =
              IF q = p THEN "running" ELSE IF q = g.parsers[m] THEN "stopped" ELSE g.fate[q]
    <3>1. g \in Manager /\ Agree(g)
      BY DEF Sound
    <3>2. Placed(g, m, p, k)
      BY <3>1, StartParserDoes
    <3> QED
      BY <3>2 DEF Placed
  <2>2. g.parsers \in Table(Parser) /\ g.web \in Table(Request) /\ g.str \in Table(Session)
    BY DEF Sound, Manager
  <2>3. p # None
    BY ParserManagerAssumption
  <2> HIDE DEF k
  <2>4. ASSUME NEW q \in Parser, k.fate[q] = "running" PROVE \E n \in Mount : k.parsers[n] = q
    <3>1. CASE q = p
      BY <2>1, <2>2, <3>1 DEF Table
    <3>2. CASE q # p
      <4>1. q # g.parsers[m] /\ g.fate[q] = "running"
        BY <2>1, <2>4, <3>2
      <4>2. PICK n \in Mount : g.parsers[n] = q
        BY <4>1 DEF Sound, Agree
      <4> QED
        BY <2>1, <2>2, <4>1, <4>2 DEF Table
    <3> QED
      BY <3>1, <3>2
  <2>5. \A n \in Mount : /\ k.web[n] = None \/ k.str[n] = None
                         /\ k.parsers[n] \in {k.web[n], k.str[n]}
                         /\ k.parsers[n] = None => k.web[n] = None /\ k.str[n] = None
    BY <2>1, <2>2, <2>3 DEF Sound, Agree, Table
  <2>6. Agree(k)
    BY <2>4, <2>5 DEF Agree
  <2>7. ok = TRUE
    BY <1>2
  <2> QED
    BY <2>1, <2>6, <2>7 DEF k
<1> QED
  BY <1>1, <1>2

(* A correction leaves the web parsers alone, but for the one it replaces. *)
LEMMA StartCorrectionSound ==
    ASSUME NEW g, Sound(g), NEW m \in Mount, NEW s \in Session, NEW ok \in BOOLEAN
    PROVE  Sound(StartParser(g, m, s, "str_fix", ok))
<1> DEFINE k == StartParser(g, m, s, "str_fix", ok)
<1>1. s \in Parser /\ Kind(s) = "str_fix"
  BY DEF Parser, Kind
<1>2. k \in Manager /\ Agree(k)
  BY <1>1, StartParserAgrees
<1>3. CASE ok
  <2>1. g \in Manager /\ Agree(g)
    BY DEF Sound
  <2>2. Placed(g, m, s, StartParser(g, m, s, "str_fix", TRUE))
    BY <1>1, <2>1, StartParserDoes
  <2>3. /\ k.web = [g.web EXCEPT ![m] = None] /\ k.current = g.current
        /\ g.web \in Table(Request)
    BY <1>3, <2>1, <2>2 DEF Placed, Manager
  <2>4. WebIsCurrent(k)
    BY <2>3 DEF Sound, WebIsCurrent, Table
  <2> QED
    BY <1>2, <2>4 DEF Sound
<1>4. CASE ~ok
  <2>1. k = StopParser(g, m)
    BY <1>4 DEF StartParser
  <2> QED
    BY <2>1, StopParserSound
<1> QED
  BY <1>3, <1>4

(* The states of start_realtime_parsing before its own parser is started:   *)
(* the current mount point's web parser is stopped, and the new one's.      *)
Cleared(g) == IF g.current # None THEN StopWebParserOnly(g, g.current) ELSE g
ClearedAt(g, m) == StopWebParserOnly(Cleared(g), m)

LEMMA ClearedHasNoWebParser ==
    ASSUME NEW g, Sound(g), NEW m \in Mount
    PROVE  /\ Sound(ClearedAt(g, m))
           /\ \A n \in Mount : ClearedAt(g, m).web[n] = None
           /\ ClearedAt(g, m).str = g.str
           /\ \A n \in Mount : ClearedAt(g, m).parsers[n] \in {g.parsers[n], None}
           /\ \A s \in Session : ClearedAt(g, m).fate[s] = g.fate[s]
<1>1. /\ g \in Manager /\ Agree(g) /\ WebIsCurrent(g)
      /\ g.web \in Table(Request) /\ g.current \in Mount \cup {None}
      /\ g.parsers \in Table(Parser)
  BY DEF Sound, Manager
<1>2. /\ Sound(Cleared(g))
      /\ \A n \in Mount : Cleared(g).web[n] = None
      /\ Cleared(g).str = g.str
      /\ \A n \in Mount : Cleared(g).parsers[n] \in {g.parsers[n], None}
      /\ \A s \in Session : Cleared(g).fate[s] = g.fate[s]
  <2>1. CASE g.current = None
    BY <1>1, <2>1, ParserManagerAssumption DEF Cleared, WebIsCurrent
  <2>2. CASE g.current # None
    <3> DEFINE c == g.current
               h == StopWebParserOnly(g, c)
    <3>1. c \in Mount /\ Cleared(g) = h
      BY <1>1, <2>2 DEF Cleared
    <3> HIDE DEF c
    <3>2. /\ h.parsers = IF g.web[c] = None THEN g.parsers ELSE [g.parsers EXCEPT ![c] = None]
          /\ h.web = [g.web EXCEPT ![c] = None]
          /\ h.str = g.str
          /\ \A p \in Parser : h.fate[p] = IF p = g.web[c] THEN "stopped" ELSE g.fate[p]
      BY <1>1, <3>1, StopWebParserOnlyDoes
    <3>3. Sound(h)
      BY <3>1, StopWebParserOnlySound
    <3> HIDE DEF h
    <3>4. \A n \in Mount : h.web[n] = None
      BY <1>1, <3>1, <3>2 DEF WebIsCurrent, Table, c
    <3>5. \A n \in Mount : h.parsers[n] \in {g.parsers[n], None}
      BY <1>1, <3>1, <3>2 DEF Table
    <3>6. \A s \in Session : h.fate[s] = g.fate[s]
      BY <1>1, <3>1, <3>2, ParserManagerAssumption DEF Parser, Table
    <3> QED
      BY <3>1, <3>2, <3>3, <3>4, <3>5, <3>6
  <2> QED
    BY <2>1, <2>2
<1>3. ClearedAt(g, m) = Cleared(g)
  BY <1>2 DEF ClearedAt, StopWebParserOnly
<1> QED
  BY <1>2, <1>3

LEMMA StartRealtimeIs ==
    ASSUME NEW g, NEW m, NEW w \in Request, NEW ok \in BOOLEAN
    PROVE  StartRealtime(g, m, w, ok) =
              IF ok THEN [StartParser(ClearedAt(g, m), m, w, Kind(w), ok) EXCEPT !.current = m]
              ELSE StartParser(ClearedAt(g, m), m, w, Kind(w), ok)
<1>1. Kind(w) = "realtime_web"
  BY ParserManagerAssumption DEF Kind
<1> QED
  BY <1>1 DEF StartRealtime, ClearedAt, Cleared

LEMMA StartRealtimeSound ==
    ASSUME NEW g, Sound(g), NEW m \in Mount, NEW w \in Request, NEW ok \in BOOLEAN
    PROVE  Sound(StartRealtime(g, m, w, ok))
<1> DEFINE h == ClearedAt(g, m)
           k == StartParser(h, m, w, Kind(w), ok)
<1>1. Sound(h) /\ (\A n \in Mount : h.web[n] = None)
  BY ClearedHasNoWebParser
<1>2. w \in Parser /\ w \notin Session
  BY ParserManagerAssumption DEF Parser
<1> HIDE DEF h
<1>3. k \in Manager /\ Agree(k)
  BY <1>1, <1>2, StartParserAgrees
<1>4. CASE ok
  <2>1. h \in Manager /\ Agree(h)
    BY <1>1 DEF Sound
  <2>2. Placed(h, m, w, k)
    BY <1>2, <1>4, <2>1, StartParserDoes
  <2>3. k.web = [h.web EXCEPT ![m] = w] /\ h.web \in Table(Request)
    BY <1>2, <2>1, <2>2 DEF Placed, Manager
  <2>4. \A n \in Mount : k.web[n] # None => n = m
    BY <1>1, <2>3 DEF Table
  <2> DEFINE f == [k EXCEPT !.current = m]
  <2>5. StartRealtime(g, m, w, ok) = f
    <3>1. StartRealtime(g, m, w, ok) = IF ok THEN f ELSE k
      BY StartRealtimeIs DEF h
    <3> QED
      BY <1>4, <3>1
  <2> HIDE DEF k
  <2>6. /\ f \in Manager /\ f.parsers = k.parsers /\ f.web = k.web /\ f.str = k.str
        /\ f.fate = k.fate /\ f.current = m
    BY <1>3 DEF Manager
  <2>7. Agree(f) /\ WebIsCurrent(f)
    BY <1>3, <2>4, <2>6 DEF Agree, WebIsCurrent
  <2> QED
    BY <2>5, <2>6, <2>7 DEF Sound
<1>5. CASE ~ok
  <2>1. k = StopParser(h, m)
    BY <1>5 DEF StartParser
  <2>2. StartRealtime(g, m, w, ok) = k
    BY <1>5, StartRealtimeIs DEF h
  <2> QED
    BY <1>1, <2>1, <2>2, StopParserSound
<1> QED
  BY <1>4, <1>5

(* Who asks for real-time parsing may stop a correction on the mount point  *)
(* he asks for, and puts no correction anywhere.                            *)
LEMMA RealtimeTakesNoCorrection ==
    ASSUME NEW g, Sound(g), NEW m \in Mount, NEW w \in Request, NEW ok \in BOOLEAN,
           NEW s \in Session
    PROVE  /\ \A n \in Mount : StartRealtime(g, m, w, ok).parsers[n] = s => g.parsers[n] = s
           /\ StartRealtime(g, m, w, ok).fate[s] # g.fate[s] => g.parsers[m] = s
<1> DEFINE h == ClearedAt(g, m)
           k == StartParser(h, m, w, Kind(w), ok)
           f == StartRealtime(g, m, w, ok)
<1>1. /\ Sound(h)
      /\ \A n \in Mount : h.parsers[n] \in {g.parsers[n], None}
      /\ \A t \in Session : h.fate[t] = g.fate[t]
  BY ClearedHasNoWebParser
<1>2. /\ w \in Parser /\ s \in Parser /\ w # s /\ s # None /\ s \notin Request
      /\ h \in Manager /\ Agree(h) /\ h.parsers \in Table(Parser)
      /\ g.parsers \in Table(Parser) /\ Agree(g) /\ g.web \in Table(Request)
      /\ h.web \in Table(Request)
  BY <1>1, ParserManagerAssumption DEF Parser, Sound, Manager
<1>3. f = IF ok THEN [k EXCEPT !.current = m] ELSE k
  BY StartRealtimeIs DEF h
<1> HIDE DEF h
<1>4. k \in Manager
  BY <1>1, <1>2, StartParserAgrees
<1>5. /\ \A n \in Mount : k.parsers[n] = s => h.parsers[n] = s
      /\ k.fate[s] # h.fate[s] => h.parsers[m] = s
  <2>1. CASE ok
    <3>1. Placed(h, m, w, k)
      BY <1>2, <2>1, StartParserDoes
    <3>2. /\ k.parsers = [h.parsers EXCEPT ![m] = w]
          /\ k.fate[s] = IF s = h.parsers[m] THEN "stopped" ELSE h.fate[s]
      <4>1. /\ k.parsers = [h.parsers EXCEPT ![m] = w]
            /\ \A q \in Parser : k.fate[q] =
                  IF q = w THEN "running" ELSE IF q = h.parsers[m] THEN "stopped" ELSE h.fate[q]
        BY <3>1 DEF Placed
      <4> HIDE DEF k
      <4> QED
        BY <1>2, <4>1
    <3> QED
      BY <1>2, <3>2 DEF Table
  <2>2. CASE ~ok
    <3>1. k = StopParser(h, m)
      BY <2>2 DEF StartParser
    <3>2. Emptied(h, m, k)
      BY <1>2, <3>1, StopParserEmpties
    <3> HIDE DEF k
    <3>3. /\ k.parsers = [h.parsers EXCEPT ![m] = None]
          /\ k.fate[s] = IF s = h.parsers[m] THEN "stopped" ELSE h.fate[s]
      BY <1>2, <3>2 DEF Emptied
    <3> QED
      BY <1>2, <3>3 DEF Table
  <2> QED
    BY <2>1, <2>2
<1> HIDE DEF k
<1>6. f.parsers = k.parsers /\ f.fate = k.fate
  BY <1>3, <1>4 DEF Manager
<1>7. \A n \in Mount : h.parsers[n] = s => g.parsers[n] = s
  BY <1>1, <1>2
<1> HIDE DEF f
<1>8. /\ \A n \in Mount : f.parsers[n] = s => g.parsers[n] = s
      /\ f.fate[s] # g.fate[s] => g.parsers[m] = s
  BY <1>1, <1>5, <1>6, <1>7
<1> QED
  BY <1>8 DEF f

(* stop_realtime_parsing empties the web parsers' places, and no others. *)
LEMMA StopRealtimeDoes ==
    ASSUME NEW g, Sound(g)
    PROVE  /\ Sound(StopRealtime(g))
           /\ \A m \in Mount : StopRealtime(g).parsers[m] # None =>
                 StopRealtime(g).parsers[m] = g.parsers[m]
           /\ \A s \in Session : StopRealtime(g).fate[s] = g.fate[s]
<1> DEFINE h == StopRealtime(g)
           One(m) == StopWebParserOnly(g, m)
           F == [p \in Parser |-> IF \E m \in Mount : One(m).fate[p] # g.fate[p]
                                  THEN "stopped" ELSE g.fate[p]]
           P == [m \in Mount |-> One(m).parsers[m]]
           W == [m \in Mount |-> None]
<1>1. /\ g \in Manager /\ Agree(g) /\ WebIsCurrent(g)
      /\ g.web \in Table(Request) /\ g.parsers \in Table(Parser) /\ g.str \in Table(Session)
      /\ g.fate \in [Parser -> {"unused", "running", "ended", "stopped"}]
  BY DEF Sound, Manager
<1>2. \A m \in Mount :
         /\ One(m).parsers = IF g.web[m] = None THEN g.parsers ELSE [g.parsers EXCEPT ![m] = None]
         /\ \A p \in Parser : One(m).fate[p] = IF p = g.web[m] THEN "stopped" ELSE g.fate[p]
  BY <1>1, StopWebParserOnlyDoes, ZenonT(40)
<1>3. h = [g EXCEPT !.fate = F, !.parsers = P, !.web = W, !.current = None]
  BY DEF StopRealtime
<1> HIDE DEF One
<1>4. \A m \in Mount : P[m] = IF g.web[m] = None THEN g.parsers[m] ELSE None
  BY <1>1, <1>2 DEF Table
<1>5. \A p \in Parser : /\ F[p] = "running" => g.fate[p] = "running" /\ \A m \in Mount : g.web[m] # p
                        /\ F[p] \in {g.fate[p], "stopped"}
  BY <1>1, <1>2
<1>6. \A s \in Session : F[s] = g.fate[s]
  <2>1. ASSUME NEW s \in Session PROVE s \in Parser /\ \A m \in Mount : g.web[m] # s
    BY <1>1, ParserManagerAssumption DEF Parser, Table
  <2> QED
    BY <1>2, <2>1
<1>7. P \in Table(Parser) /\ W \in Table(Request)
      /\ F \in [Parser -> {"unused", "running", "ended", "stopped"}]
  <2>1. P \in Table(Parser)
    BY <1>1, <1>4 DEF Table
  <2>2. F \in [Parser -> {"unused", "running", "ended", "stopped"}]
    BY <1>1
  <2> QED
    BY <2>1, <2>2 DEF Table
<1> HIDE DEF F, P
<1>8. /\ h \in Manager /\ h.parsers = P /\ h.web = W /\ h.str = g.str /\ h.fate = F
  BY <1>1, <1>3, <1>7 DEF Manager
<1> HIDE DEF h
<1>9. Agree(h)
  <2>1. ASSUME NEW l \in Mount, NEW p \in Parser, h.fate[p] = "running"
        PROVE  \E n \in Mount : h.parsers[n] = p
    <3>1. g.fate[p] = "running" /\ \A m \in Mount : g.web[m] # p
      BY <1>5, <1>8, <2>1
    <3>2. PICK n \in Mount : g.parsers[n] = p
      BY <1>1, <3>1 DEF Agree
    <3>3. g.web[n] = None
      BY <1>1, <3>1, <3>2 DEF Agree
    <3> QED
      BY <1>4, <1>8, <3>2, <3>3
  <2>2. \A n \in Mount : /\ h.web[n] = None \/ h.str[n] = None
                         /\ h.parsers[n] \in {h.web[n], h.str[n]}
                         /\ h.parsers[n] = None => h.web[n] = None /\ h.str[n] = None
    BY <1>1, <1>4, <1>8 DEF Agree
  <2> QED
    BY <2>1, <2>2 DEF Agree
<1>10. WebIsCurrent(h)
  BY <1>8 DEF WebIsCurrent
<1> QED
  BY <1>4, <1>6, <1>8, <1>9, <1>10 DEF Sound, h

(* stop_all leaves no parser. *)
LEMMA StopAllSound ==
    ASSUME NEW g, Sound(g)
    PROVE  Sound(StopAllParsers(g)) /\ \A m \in Mount : StopAllParsers(g).parsers[m] = None
<1> DEFINE h == StopAllParsers(g)
           One(m) == StopParser(g, m)
           F == [p \in Parser |-> IF \E m \in Mount : One(m).fate[p] # g.fate[p]
                                  THEN "stopped" ELSE g.fate[p]]
           P == [m \in Mount |-> None]
           W == [m \in Mount |-> One(m).web[m]]
           S == [m \in Mount |-> One(m).str[m]]
<1>1. /\ g \in Manager /\ Agree(g)
      /\ g.web \in Table(Request) /\ g.parsers \in Table(Parser) /\ g.str \in Table(Session)
      /\ g.fate \in [Parser -> {"unused", "running", "ended", "stopped"}]
      /\ g.current \in Mount \cup {None}
  BY DEF Sound, Manager
<1>2. \A m \in Mount :
         /\ One(m).web = [g.web EXCEPT ![m] = None]
         /\ One(m).str = [g.str EXCEPT ![m] = None]
         /\ \A p \in Parser : One(m).fate[p] = IF p = g.parsers[m] THEN "stopped" ELSE g.fate[p]
  BY <1>1, StopParserDoes, ZenonT(40)
<1>3. h = [g EXCEPT !.fate = F, !.parsers = P, !.web = W, !.str = S]
  BY DEF StopAllParsers
<1> HIDE DEF One
<1>4. W \in Table(Request) /\ S \in Table(Session) /\ P \in Table(Parser)
      /\ \A m \in Mount : W[m] = None /\ S[m] = None /\ P[m] = None
  <2>1. ASSUME NEW m \in Mount PROVE One(m).web[m] = None /\ One(m).str[m] = None
    <3>1. [g.web EXCEPT ![m] = None][m] = None /\ [g.str EXCEPT ![m] = None][m] = None
      BY <1>1 DEF Table
    <3>2. One(m).web = [g.web EXCEPT ![m] = None] /\ One(m).str = [g.str EXCEPT ![m] = None]
      BY <1>2
    <3> QED
      BY <3>1, <3>2, Zenon
  <2>2. W = [m \in Mount |-> None] /\ S = [m \in Mount |-> None]
    BY <2>1
  <2> HIDE DEF W, S
  <2> QED
    BY <2>2 DEF Table
<1>5. \A l \in Mount, p \in Parser : F[p] # "running"
  <2>1. ASSUME NEW l \in Mount, NEW p \in Parser, g.fate[p] = "running" PROVE F[p] = "stopped"
    <3>1. PICK n \in Mount : g.parsers[n] = p
      BY <1>1, <2>1 DEF Agree
    <3>2. One(n).fate[p] # g.fate[p]
      BY <1>2, <2>1, <3>1
    <3> QED
      BY <3>2
  <2> QED
    BY <2>1
<1>6. F \in [Parser -> {"unused", "running", "ended", "stopped"}]
  BY <1>1
<1> HIDE DEF F, P, W, S
<1>7. h \in Manager /\ h.parsers = P /\ h.web = W /\ h.str = S /\ h.fate = F
  BY <1>1, <1>3, <1>4, <1>6 DEF Manager
<1> HIDE DEF h
<1>8. Agree(h) /\ WebIsCurrent(h)
  BY <1>4, <1>5, <1>7 DEF Agree, WebIsCurrent
<1> QED
  BY <1>4, <1>7, <1>8 DEF Sound, h

----------------------------------------------------------------------------
(* Every step of the specification keeps the manager's state sound, *)

LEMMA Start == Init => IInv
<1> SUFFICES ASSUME Init PROVE IInv
  OBVIOUS
<1>1. mgr \in Manager
  BY DEF Init, Manager, Table
<1>2. TypeOK
  <2>1. online \in Table(Session) /\ stoppedAll \in BOOLEAN
    BY DEF Init, Table
  <2>2. correction \in [Session -> {"idle", "registered", "checked", "sleeping",
                                    "stopping", "done"}]
    BY DEF Init
  <2>3. stops \in 0..MaxStops
    BY ParserManagerAssumption DEF Init
  <2>4. asked \in [Request -> Mount \cup {None}]
    BY DEF Init
  <2> QED
    BY <1>1, <2>1, <2>2, <2>3, <2>4 DEF TypeOK, Manager
<1>3. /\ \A m \in Mount : mgr.parsers[m] = None /\ mgr.web[m] = None /\ mgr.str[m] = None
      /\ \A p \in Parser : mgr.fate[p] = "unused"
  BY DEF Init
<1>4. Agree(mgr) /\ WebIsCurrent(mgr)
  BY <1>3 DEF Agree, WebIsCurrent
<1>5. CorrectionsAreHome
  BY <1>3, ParserManagerAssumption DEF CorrectionsAreHome, Parser
<1> QED
  BY <1>1, <1>2, <1>4, <1>5 DEF IInv, Sound

LEMMA ManagerStep == IInv /\ [Next]_vars => Sound(mgr)'
<1> SUFFICES ASSUME IInv, [Next]_vars PROVE Sound(mgr')
  BY DEF Sound, Manager, Agree, WebIsCurrent, Table
<1>1. Sound(mgr)
  BY DEF IInv
<1>2. \A s \in Session : MountOf[s] \in Mount
  BY ParserManagerAssumption
<1>3. CASE UNCHANGED vars
  BY <1>1, <1>3 DEF vars
<1>4. ASSUME NEW s \in Session, SourceArrives(s) \/ CheckOnline(s) \/ ApplyResult(s)
      PROVE  Sound(mgr')
  BY <1>1, <1>4 DEF SourceArrives, CheckOnline, ApplyResult
<1>5. ASSUME NEW s \in Session, StartCorrection(s) PROVE Sound(mgr')
  BY <1>1, <1>2, <1>5, StartCorrectionSound DEF StartCorrection
<1>6. ASSUME NEW s \in Session, StopCorrection(s) PROVE Sound(mgr')
  BY <1>1, <1>2, <1>6, StopParserSound DEF StopCorrection
<1>7. ASSUME NEW m \in Mount, SourceLeaves(m) PROVE Sound(mgr')
  BY <1>1, <1>7 DEF SourceLeaves
<1>8. ASSUME NEW p \in Parser, ParserEnds(p) PROVE Sound(mgr')
  <2>1. mgr' = [mgr EXCEPT !.fate[p] = "ended"] /\ mgr \in Manager
    BY <1>1, <1>8 DEF ParserEnds, Sound
  <2>2. /\ mgr' \in Manager
        /\ mgr'.parsers = mgr.parsers /\ mgr'.web = mgr.web /\ mgr'.str = mgr.str
        /\ mgr'.current = mgr.current
        /\ \A q \in Parser : mgr'.fate[q] = IF q = p THEN "ended" ELSE mgr.fate[q]
    BY <2>1 DEF Manager
  <2>3. Agree(mgr')
    BY <1>1, <2>2 DEF Sound, Agree
  <2>4. WebIsCurrent(mgr')
    BY <1>1, <2>2 DEF Sound, WebIsCurrent
  <2> QED
    BY <2>2, <2>3, <2>4 DEF Sound
<1>9. ASSUME NEW w \in Request, StartRealtimeParsing(w) PROVE Sound(mgr')
  BY <1>1, <1>9, StartRealtimeSound DEF StartRealtimeParsing
<1>10. CASE StopRealtimeParsing
  BY <1>1, <1>10, StopRealtimeDoes DEF StopRealtimeParsing
<1>11. CASE StopAll
  BY <1>1, <1>11, StopAllSound DEF StopAll
<1> QED
  BY <1>3, <1>4, <1>5, <1>6, <1>7, <1>8, <1>9, <1>10, <1>11 DEF Next, CorrectionStep

LEMMA TypeStep == IInv /\ [Next]_vars => TypeOK'
<1> SUFFICES ASSUME IInv, [Next]_vars PROVE TypeOK'
  OBVIOUS
<1>1. TypeOK
  BY DEF IInv
<1>2. mgr' \in Manager
  BY ManagerStep DEF Sound
<1>3. /\ online' \in Table(Session)
      /\ correction' \in [Session -> {"idle", "registered", "checked", "sleeping",
                                       "stopping", "done"}]
      /\ stops' \in 0..MaxStops
      /\ stoppedAll' \in BOOLEAN
  <2> USE <1>1, ParserManagerAssumption DEF TypeOK, Table, sourceVars, At
  <2>1. CASE UNCHANGED vars
    BY <2>1 DEF vars
  <2>2. ASSUME NEW s \in Session, SourceArrives(s) \/ CorrectionStep(s)
        PROVE  /\ online' \in Table(Session)
               /\ correction' \in [Session -> {"idle", "registered", "checked", "sleeping",
                                                "stopping", "done"}]
               /\ stops' \in 0..MaxStops
               /\ stoppedAll' \in BOOLEAN
    BY <2>2 DEF SourceArrives, CorrectionStep, CheckOnline, StartCorrection, ApplyResult,
                StopCorrection
  <2>3. ASSUME NEW m \in Mount, SourceLeaves(m)
        PROVE  /\ online' \in Table(Session)
               /\ UNCHANGED <<correction, stops, stoppedAll>>
    BY <2>3 DEF SourceLeaves
  <2>4. ASSUME NEW p \in Parser, ParserEnds(p) PROVE UNCHANGED <<sourceVars, stops, stoppedAll>>
    BY <2>4 DEF ParserEnds
  <2>5. ASSUME NEW w \in Request, StartRealtimeParsing(w)
        PROVE  UNCHANGED <<sourceVars, stops, stoppedAll>>
    BY <2>5 DEF StartRealtimeParsing
  <2>6. CASE StopRealtimeParsing
    BY <2>6 DEF StopRealtimeParsing
  <2>7. CASE StopAll
    BY <2>7 DEF StopAll
  <2> QED
    BY <2>1, <2>2, <2>3, <2>4, <2>5, <2>6, <2>7 DEF Next
<1>4. asked' \in [Request -> Mount \cup {None}]
  <2>1. ASSUME NEW w \in Request, StartRealtimeParsing(w)
        PROVE  asked' \in [Request -> Mount \cup {None}]
    BY <1>1, <2>1 DEF StartRealtimeParsing, TypeOK
  <2>2. CASE UNCHANGED asked
    BY <1>1, <2>2 DEF TypeOK
  <2>3. UNCHANGED asked \/ \E w \in Request : StartRealtimeParsing(w)
    BY DEF Next, vars, SourceArrives, CorrectionStep, CheckOnline, StartCorrection, ApplyResult,
           StopCorrection, SourceLeaves, ParserEnds, StopRealtimeParsing, StopAll
  <2> QED
    BY <2>1, <2>2, <2>3
<1> QED
  BY <1>2, <1>3, <1>4 DEF TypeOK, Manager

(* and the corrections' parsers where they belong. *)
LEMMA HomeStep == IInv /\ [Next]_vars => CorrectionsAreHome'
<1> SUFFICES ASSUME IInv, [Next]_vars,
                    NEW m \in Mount, NEW s \in Session, mgr'.parsers[m] = s
             PROVE  m = MountOf[s] /\ correction'[s] \in {"sleeping", "stopping"}
  BY DEF CorrectionsAreHome
<1> USE DEF At, sourceVars
<1>1. /\ TypeOK /\ Sound(mgr) /\ CorrectionsAreHome
      /\ mgr \in Manager /\ Agree(mgr)
      /\ mgr.parsers \in Table(Parser) /\ mgr.web \in Table(Request)
      /\ correction \in [Session -> {"idle", "registered", "checked", "sleeping",
                                      "stopping", "done"}]
      /\ s # None /\ s \in Parser /\ s \notin Request
      /\ \A t \in Session : MountOf[t] \in Mount
  BY ParserManagerAssumption DEF IInv, TypeOK, Sound, Manager, Parser
(* Where the parser was there before it is enough that correction[s] stays. *)
<1>2. mgr.parsers[m] = s => m = MountOf[s] /\ correction[s] \in {"sleeping", "stopping"}
  BY <1>1 DEF CorrectionsAreHome
<1>3. CASE UNCHANGED vars
  BY <1>2, <1>3 DEF vars
<1>4. ASSUME NEW t \in Session, SourceArrives(t) \/ CheckOnline(t) \/ ApplyResult(t)
      PROVE  m = MountOf[s] /\ correction'[s] \in {"sleeping", "stopping"}
  BY <1>1, <1>2, <1>4 DEF SourceArrives, CheckOnline, ApplyResult
<1>5. ASSUME NEW t \in Session, StartCorrection(t)
      PROVE  m = MountOf[s] /\ correction'[s] \in {"sleeping", "stopping"}
  <2>1. PICK ok \in BOOLEAN : /\ mgr' = StartParser(mgr, MountOf[t], t, "str_fix", ok)
                              /\ At(t, IF ok THEN "sleeping" ELSE "done")
    BY <1>5 DEF StartCorrection
  <2>2. correction[t] = "checked"
    BY <1>5 DEF StartCorrection
  <2>3. CASE ok
    <3>1. t \in Parser /\ Kind(t) = "str_fix"
      BY DEF Parser, Kind
    <3>2. Placed(mgr, MountOf[t], t, mgr')
      BY <1>1, <2>1, <2>3, <3>1, StartParserDoes
    <3>3. mgr'.parsers = [mgr.parsers EXCEPT ![MountOf[t]] = t]
      BY <3>2 DEF Placed
    <3> QED
      BY <1>1, <1>2, <2>1, <2>2, <2>3, <3>3 DEF Table
  <2>4. CASE ~ok
    <3>1. mgr' = StopParser(mgr, MountOf[t])
      BY <2>1, <2>4 DEF StartParser
    <3>2. mgr'.parsers = [mgr.parsers EXCEPT ![MountOf[t]] = None]
      BY <1>1, <3>1, StopParserDoes
    <3> QED
      BY <1>1, <1>2, <2>1, <2>2, <3>2 DEF Table
  <2> QED
    BY <2>3, <2>4
<1>6. ASSUME NEW t \in Session, StopCorrection(t)
      PROVE  m = MountOf[s] /\ correction'[s] \in {"sleeping", "stopping"}
  <2>1. mgr'.parsers = [mgr.parsers EXCEPT ![MountOf[t]] = None]
    BY <1>1, <1>6, StopParserDoes DEF StopCorrection
  <2>2. mgr.parsers[m] = s /\ m # MountOf[t]
    BY <1>1, <2>1 DEF Table
  <2> QED
    BY <1>1, <1>2, <1>6, <2>2 DEF StopCorrection
<1>7. ASSUME NEW n \in Mount, SourceLeaves(n)
      PROVE  m = MountOf[s] /\ correction'[s] \in {"sleeping", "stopping"}
  BY <1>2, <1>7 DEF SourceLeaves
<1>8. ASSUME NEW p \in Parser, ParserEnds(p)
      PROVE  m = MountOf[s] /\ correction'[s] \in {"sleeping", "stopping"}
  <2>1. mgr'.parsers = mgr.parsers
    BY <1>1, <1>8 DEF ParserEnds, Manager
  <2> QED
    BY <1>2, <1>8, <2>1 DEF ParserEnds
<1>9. ASSUME NEW w \in Request, StartRealtimeParsing(w)
      PROVE  m = MountOf[s] /\ correction'[s] \in {"sleeping", "stopping"}
  <2>1. PICK n \in Mount, ok \in BOOLEAN : mgr' = StartRealtime(mgr, n, w, ok)
    BY <1>9 DEF StartRealtimeParsing
  <2>2. mgr.parsers[m] = s
    BY <1>1, <2>1, RealtimeTakesNoCorrection
  <2> QED
    BY <1>2, <1>9, <2>2 DEF StartRealtimeParsing
<1>10. CASE StopRealtimeParsing
  <2>1. mgr.parsers[m] = s
    BY <1>1, <1>10, StopRealtimeDoes DEF StopRealtimeParsing
  <2> QED
    BY <1>2, <1>10, <2>1 DEF StopRealtimeParsing
<1>11. CASE StopAll
  BY <1>1, <1>11, StopAllSound DEF StopAll
<1> QED
  BY <1>3, <1>4, <1>5, <1>6, <1>7, <1>8, <1>9, <1>10, <1>11 DEF Next, CorrectionStep

LEMMA Invariant == Spec => []IInv
<1>1. IInv /\ [Next]_vars => IInv'
  BY ManagerStep, TypeStep, HomeStep DEF IInv
<1> QED
  BY Start, <1>1, PTL DEF Spec

----------------------------------------------------------------------------
(* The variables have their types in every state. *)
THEOREM TypesHold == Spec => []TypeOK
<1>1. IInv => TypeOK
  BY DEF IInv
<1> QED
  BY <1>1, Invariant, PTL

(* parsers, web_parsers and str_parsers tell one story, and every thread    *)
(* that runs is in them, through every mixture of stops by name.            *)
THEOREM DictionariesAlwaysAgree == Spec => []DictionariesAgree
<1>1. IInv => DictionariesAgree
  BY DEF IInv, Sound, Agree, DictionariesAgree
<1> QED
  BY <1>1, Invariant, PTL

(* At most one mount point is parsed for the web, current_web_mount. *)
THEOREM AtMostOneWebParser == Spec => []OneWebParser
<1>1. IInv => OneWebParser
  BY DEF IInv, Sound, WebIsCurrent, OneWebParser
<1> QED
  BY <1>1, Invariant, PTL

(* An ended correction is in the dictionaries only while wait_and_correct   *)
(* is there to drop it.                                                     *)
THEOREM EndedParsersHaveWaiters == Spec => []EndedParserHasWaiter
<1>1. IInv => EndedParserHasWaiter
  BY DEF IInv, CorrectionsAreHome, EndedParserHasWaiter
<1> QED
  BY <1>1, Invariant, PTL

(* A running correction is stopped by its mount point's other corrections,  *)
(* by a page that asks for its mount point, or by the shutdown.             *)
THEOREM CorrectionsAreStoppedOnlyBy == Spec => CorrectionStoppedOnlyBy
<1> DEFINE StoppedOnlyBy(s) ==
              \/ stoppedAll' # stoppedAll
              \/ \E t \in Session : /\ MountOf[t] = MountOf[s]
                                    /\ correction[t] \in {"checked", "stopping"}
                                    /\ correction'[t] # correction[t]
              \/ \E w \in Request : asked[w] = None /\ asked'[w] = MountOf[s]
<1>1. ASSUME IInv, Next, NEW s \in Session,
             mgr.fate[s] = "running", mgr'.fate[s] = "stopped"
      PROVE  StoppedOnlyBy(s)
  <2>1. /\ Sound(mgr) /\ CorrectionsAreHome /\ mgr \in Manager /\ Agree(mgr)
        /\ mgr.parsers \in Table(Parser)
        /\ correction \in [Session -> {"idle", "registered", "checked", "sleeping",
                                        "stopping", "done"}]
        /\ s \in Parser /\ \A t \in Session : MountOf[t] \in Mount /\ t \in Parser
    BY <1>1, ParserManagerAssumption DEF IInv, TypeOK, Sound, Manager, Parser
  <2>2. ASSUME NEW t \in Session, SourceArrives(t) \/ CheckOnline(t) \/ ApplyResult(t)
        PROVE  FALSE
    BY <1>1, <2>2 DEF SourceArrives, CheckOnline, ApplyResult
  <2>3. ASSUME NEW t \in Session, StartCorrection(t) PROVE StoppedOnlyBy(s)
    <3>1. PICK ok \in BOOLEAN : /\ mgr' = StartParser(mgr, MountOf[t], t, "str_fix", ok)
                                /\ At(t, IF ok THEN "sleeping" ELSE "done")
      BY <2>3 DEF StartCorrection
    <3>2. mgr.parsers[MountOf[t]] = s
      <4>1. CASE ok
        <5>1. Kind(t) = "str_fix"
          BY DEF Kind
        <5>2. Placed(mgr, MountOf[t], t, mgr')
          BY <2>1, <3>1, <4>1, <5>1, StartParserDoes
        <5> QED
          BY <1>1, <2>1, <5>2 DEF Placed
      <4>2. CASE ~ok
        <5>1. mgr' = StopParser(mgr, MountOf[t])
          BY <3>1, <4>2 DEF StartParser
        <5>2. Emptied(mgr, MountOf[t], mgr')
          BY <2>1, <5>1, StopParserEmpties
        <5> QED
          BY <1>1, <2>1, <5>2 DEF Emptied
      <4> QED
        BY <4>1, <4>2
    <3>3. MountOf[t] = MountOf[s]
      BY <2>1, <3>2 DEF CorrectionsAreHome
    <3> QED
      BY <2>1, <2>3, <3>1, <3>3 DEF StartCorrection, At
  <2>4. ASSUME NEW t \in Session, StopCorrection(t) PROVE StoppedOnlyBy(s)
    <3>1. Emptied(mgr, MountOf[t], mgr')
      BY <2>1, <2>4, StopParserEmpties DEF StopCorrection
    <3>2. mgr.parsers[MountOf[t]] = s
      BY <1>1, <2>1, <3>1 DEF Emptied
    <3>3. MountOf[t] = MountOf[s]
      BY <2>1, <3>2 DEF CorrectionsAreHome
    <3> QED
      BY <2>1, <2>4, <3>3 DEF StopCorrection, At
  <2>5. ASSUME NEW m \in Mount, SourceLeaves(m) PROVE FALSE
    BY <1>1, <2>5 DEF SourceLeaves
  <2>6. ASSUME NEW p \in Parser, ParserEnds(p) PROVE FALSE
    <3>1. mgr'.fate = [mgr.fate EXCEPT ![p] = "ended"]
      BY <2>1, <2>6 DEF ParserEnds, Manager
    <3> QED
      BY <1>1, <2>1, <3>1 DEF Manager
  <2>7. ASSUME NEW w \in Request, StartRealtimeParsing(w) PROVE StoppedOnlyBy(s)
    <3>1. PICK m \in Mount, ok \in BOOLEAN :
              asked' = [asked EXCEPT ![w] = m] /\ mgr' = StartRealtime(mgr, m, w, ok)
      BY <2>7 DEF StartRealtimeParsing
    <3>2. mgr'.fate[s] # mgr.fate[s] => mgr.parsers[m] = s
      BY <2>1, <3>1, RealtimeTakesNoCorrection
    <3>3. m = MountOf[s]
      BY <1>1, <2>1, <3>2 DEF CorrectionsAreHome
    <3>4. asked \in [Request -> Mount \cup {None}]
      BY <1>1 DEF IInv, TypeOK
    <3>5. asked[w] = None /\ asked'[w] = MountOf[s]
      BY <2>7, <3>1, <3>3, <3>4 DEF StartRealtimeParsing
    <3> QED
      BY <2>7, <3>5
  <2>8. ASSUME StopRealtimeParsing PROVE FALSE
    BY <1>1, <2>1, <2>8, StopRealtimeDoes DEF StopRealtimeParsing
  <2>9. ASSUME StopAll PROVE StoppedOnlyBy(s)
    BY <2>9 DEF StopAll
  <2> HIDE DEF StoppedOnlyBy
  <2> QED
    BY <1>1, <2>2, <2>3, <2>4, <2>5, <2>6, <2>7, <2>8, <2>9 DEF Next, CorrectionStep
<1>2. IInv /\ [Next]_vars =>
         [\A s \in Session : mgr.fate[s] = "running" /\ mgr'.fate[s] = "stopped" =>
              StoppedOnlyBy(s)]_vars
  BY <1>1
<1> QED
  BY <1>2, Invariant, PTL DEF Spec, CorrectionStoppedOnlyBy
=============================================================================

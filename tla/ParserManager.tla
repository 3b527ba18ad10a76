---------------------------- MODULE ParserManager ----------------------------
(***************************************************************************)
(* RTCM2ParserManager of src/rtcm2_manager.py: the dictionaries of parser  *)
(* threads under its lock, the STR correction that every arriving source   *)
(* starts (start_str_correction and its waiting thread in                  *)
(* src/connection.py), and the pages that start and stop the one real-time *)
(* parser of the web interface.                                            *)
(*                                                                         *)
(* Parsers are named by who asked for them: a source session or a request  *)
(* of a page.  The dictionaries name them by mount point only.             *)
(***************************************************************************)
EXTENDS Naturals, FiniteSets

CONSTANTS
    Mount,     \* mount points
    Session,   \* source sessions, each starts one STR correction
    MountOf,   \* [Session -> Mount]
    Request,   \* requests for real-time parsing
    None,      \* no parser, no mount point, no session
    MaxStops   \* bound: stop_realtime_parsing calls

Parser == Session \cup Request

ASSUME ParserManagerAssumption ==
    /\ None \notin Parser \cup Mount
    /\ Session \cap Request = {}
    /\ MountOf \in [Session -> Mount]
    /\ MaxStops \in Nat

VARIABLES
    mgr,         \* the manager: parsers, web_parsers, str_parsers,
                 \* current_web_mount, and what became of each parser thread
    online,      \* online_mounts: the session of a mount point
    correction,  \* where start_str_correction and its waiting thread are
    stops,       \* stop_realtime_parsing calls so far
    stoppedAll,  \* stop_all has been called (service shutdown)
    asked        \* history: the mount point that each request asked for

sourceVars == <<online, correction>>
vars == <<mgr, sourceVars, stops, stoppedAll, asked>>

----------------------------------------------------------------------------
(* The operations of the manager, each under its lock. *)

ParserAt(g, m) == g.parsers[m]
Stopped(g, p) == IF p = None THEN g.fate ELSE [g.fate EXCEPT ![p] = "stopped"]

(* Mutant: the dictionaries by kind keep the parser. *)
StopParserHalf(g, m) ==
    [g EXCEPT !.fate = Stopped(g, ParserAt(g, m)), !.parsers[m] = None]

(* stop_parser *)
StopParser(g, m) ==
    [g EXCEPT !.fate = Stopped(g, ParserAt(g, m)), !.parsers[m] = None,
              !.web[m] = IF ParserAt(g, m) = None THEN @ ELSE None,
              !.str[m] = IF ParserAt(g, m) = None \/ g.web[m] # None THEN @ ELSE None]

(* start_parser: a parser that is there already is stopped in any case; the *)
(* new one may fail to start.                                               *)
StartParser(g, m, p, kind, ok) ==
    LET h == StopParser(g, m) IN
    IF ~ok THEN h
    ELSE [h EXCEPT !.fate[p] = "running", !.parsers[m] = p,
                   !.str[m] = IF kind = "str_fix" THEN p ELSE @,
                   !.web[m] = IF kind = "str_fix" THEN @ ELSE p]

(* _stop_web_parser_only *)
StopWebParserOnly(g, m) ==
    IF g.web[m] = None THEN g
    ELSE [g EXCEPT !.fate = Stopped(g, g.web[m]), !.web[m] = None, !.parsers[m] = None,
                   !.current = IF @ = m THEN None ELSE @]

(* Mutant: the real-time parser of another mount point goes on. *)
StartRealtimeBeside(g, m, w, ok) ==
    LET h == StartParser(StopWebParserOnly(g, m), m, w, "realtime_web", ok)
    IN  IF ok THEN [h EXCEPT !.current = m] ELSE h

(* Mutant: what is stopped on the former mount point is its parser, of *)
(* whatever kind.                                                       *)
StartRealtimeStopsAny(g, m, w, ok) ==
    LET h == IF g.current # None THEN StopParser(g, g.current) ELSE g
        k == StartParser(StopWebParserOnly(h, m), m, w, "realtime_web", ok)
    IN  IF ok THEN [k EXCEPT !.current = m] ELSE k

(* start_realtime_parsing *)
StartRealtime(g, m, w, ok) ==
    LET h == IF g.current # None THEN StopWebParserOnly(g, g.current) ELSE g
        k == StartParser(StopWebParserOnly(h, m), m, w, "realtime_web", ok)
    IN  IF ok THEN [k EXCEPT !.current = m] ELSE k

(* stop_realtime_parsing and stop_all go through all mount points. *)
StopRealtime(g) ==
    [g EXCEPT !.fate = [p \in Parser |->
                  IF \E m \in Mount : StopWebParserOnly(g, m).fate[p] # g.fate[p]
                  THEN "stopped" ELSE g.fate[p]],
              !.parsers = [m \in Mount |-> StopWebParserOnly(g, m).parsers[m]],
              !.web = [m \in Mount |-> None],
              !.current = None]

StopAllParsers(g) ==
    [g EXCEPT !.fate = [p \in Parser |->
                  IF \E m \in Mount : StopParser(g, m).fate[p] # g.fate[p]
                  THEN "stopped" ELSE g.fate[p]],
              !.parsers = [m \in Mount |-> None],
              !.web = [m \in Mount |-> StopParser(g, m).web[m]],
              !.str = [m \in Mount |-> StopParser(g, m).str[m]]]
----------------------------------------------------------------------------
Init ==
    /\ mgr = [parsers |-> [m \in Mount |-> None], web |-> [m \in Mount |-> None],
              str |-> [m \in Mount |-> None], current |-> None,
              fate |-> [p \in Parser |-> "unused"]]
    /\ online = [m \in Mount |-> None]
    /\ correction = [s \in Session |-> "idle"]
    /\ stops = 0
    /\ stoppedAll = FALSE
    /\ asked = [w \in Request |-> None]

At(s, label) == correction' = [correction EXCEPT ![s] = label]

(* The mount table, as far as it matters here: a source takes its mount     *)
(* point or leaves it.                                                      *)
SourceArrives(s) ==
    /\ correction[s] = "idle"
    /\ At(s, "registered")
    /\ online' = [online EXCEPT ![MountOf[s]] = s]
    /\ UNCHANGED <<mgr, stops, stoppedAll, asked>>

SourceLeaves(m) ==
    /\ online[m] # None
    /\ online' = [online EXCEPT ![m] = None]
    /\ UNCHANGED <<mgr, correction, stops, stoppedAll, asked>>

(* start_str_correction looks whether the mount point is online, unlocked, *)
CheckOnline(s) ==
    /\ correction[s] = "registered"
    /\ At(s, IF online[MountOf[s]] # None THEN "checked" ELSE "done")
    /\ UNCHANGED <<mgr, online, stops, stoppedAll, asked>>

(* starts the parser, and the waiting thread when that succeeds. *)
StartCorrection(s) ==
    /\ correction[s] = "checked"
    /\ \E ok \in BOOLEAN :
          /\ mgr' = StartParser(mgr, MountOf[s], s, "str_fix", ok)
          /\ At(s, IF ok THEN "sleeping" ELSE "done")
    /\ UNCHANGED <<online, stops, stoppedAll, asked>>

(* A parser thread comes to its end: its 30 seconds are over, or it failed. *)
ParserEnds(p) ==
    /\ mgr.fate[p] = "running"
    /\ mgr' = [mgr EXCEPT !.fate[p] = "ended"]
    /\ UNCHANGED <<sourceVars, stops, stoppedAll, asked>>

(* wait_and_correct after its 35 seconds, five more than its parser runs.   *)
(* get_result and _process_str_data only write the text of the STR entry.   *)
ApplyResult(s) ==
    /\ correction[s] = "sleeping" /\ mgr.fate[s] # "running"
    /\ At(s, "stopping")
    /\ UNCHANGED <<mgr, online, stops, stoppedAll, asked>>

(* Mutant: the waiting thread leaves its parser to the next one. *)
StopCorrectionForgets(s) ==
    /\ correction[s] = "stopping"
    /\ At(s, "done")
    /\ UNCHANGED <<mgr, online, stops, stoppedAll, asked>>

(* Then the mount point's parser is stopped, whichever that is by now. *)
StopCorrection(s) ==
    /\ correction[s] = "stopping"
    /\ mgr' = StopParser(mgr, MountOf[s])
    /\ At(s, "done")
    /\ UNCHANGED <<online, stops, stoppedAll, asked>>

CorrectionStep(s) ==
    \/ CheckOnline(s) \/ StartCorrection(s)
    \/ ApplyResult(s) \/ StopCorrection(s)

----------------------------------------------------------------------------
(* The pages, and the service shutdown. *)

StartRealtimeParsing(w) ==
    /\ asked[w] = None
    /\ \E m \in Mount, ok \in BOOLEAN :
          /\ asked' = [asked EXCEPT ![w] = m]
          /\ mgr' = StartRealtime(mgr, m, w, ok)
    /\ UNCHANGED <<sourceVars, stops, stoppedAll>>

StopRealtimeParsing ==
    /\ stops < MaxStops
    /\ stops' = stops + 1
    /\ mgr' = StopRealtime(mgr)
    /\ UNCHANGED <<sourceVars, stoppedAll, asked>>

StopAll ==
    /\ ~stoppedAll
    /\ stoppedAll' = TRUE
    /\ mgr' = StopAllParsers(mgr)
    /\ UNCHANGED <<sourceVars, stops, asked>>

Next ==
    \/ \E s \in Session : SourceArrives(s) \/ CorrectionStep(s)
    \/ \E m \in Mount : SourceLeaves(m)
    \/ \E p \in Parser : ParserEnds(p)
    \/ \E w \in Request : StartRealtimeParsing(w)
    \/ StopRealtimeParsing \/ StopAll

Spec == Init /\ [][Next]_vars

----------------------------------------------------------------------------
Table(range) == [Mount -> range \cup {None}]

TypeOK ==
    /\ mgr \in [parsers : Table(Parser), web : Table(Request), str : Table(Session),
                current : Mount \cup {None},
                fate : [Parser -> {"unused", "running", "ended", "stopped"}]]
    /\ online \in Table(Session)
    /\ correction \in [Session -> {"idle", "registered", "checked", "sleeping",
                                   "stopping", "done"}]
    /\ stops \in 0..MaxStops
    /\ stoppedAll \in BOOLEAN
    /\ asked \in [Request -> Mount \cup {None}]

(* The three dictionaries tell one story, through every mixture of by-name  *)
(* stops of stop_parser and web-only stops of _stop_web_parser_only: a      *)
(* parser is in the common one and in that of its kind, or in none.         *)
DictionariesAgree ==
    \A m \in Mount :
        /\ mgr.web[m] = None \/ mgr.str[m] = None
        /\ mgr.parsers[m] \in {mgr.web[m], mgr.str[m]}
        /\ mgr.parsers[m] = None => mgr.web[m] = None /\ mgr.str[m] = None
        /\ \A p \in Parser : mgr.fate[p] = "running" =>
               \E n \in Mount : mgr.parsers[n] = p

(* At most one mount point is parsed for the web, the current one; a stale  *)
(* current_web_mount, which stop_parser leaves behind, does no harm.        *)
OneWebParser ==
    \A m \in Mount : mgr.web[m] # None => mgr.current = m

(* A running STR correction is stopped by nothing but the start or the      *)
(* waiting thread of a correction of its own mount point, a page that asks  *)
(* for real-time parsing of its own mount point, or the shutdown:           *)
(* stop_realtime_parsing leaves it alone, and so does a page that asks for  *)
(* another mount point, whatever current_web_mount names by then.           *)
CorrectionStoppedOnlyBy ==
    [][\A s \in Session : mgr.fate[s] = "running" /\ mgr'.fate[s] = "stopped" =>
         \/ stoppedAll' # stoppedAll
         \/ \E t \in Session : /\ MountOf[t] = MountOf[s]
                               /\ correction[t] \in {"checked", "stopping"}
                               /\ correction'[t] # correction[t]
         \/ \E w \in Request : asked[w] = None /\ asked'[w] = MountOf[s]]_vars

(* A correction's parser that has ended stays in the dictionaries only as   *)
(* long as its waiting thread is there to drop it (wait_and_correct).       *)
EndedParserHasWaiter ==
    \A m \in Mount, s \in Session :
        mgr.parsers[m] = s /\ mgr.fate[s] = "ended" =>
            correction[s] \in {"sleeping", "stopping"}
=============================================================================

------------------------------ MODULE RoverGGA ------------------------------
(***************************************************************************)
(* src/rover_gga.py: GGA sentences are cut out of whatever pieces a rover's *)
(* bytes arrive in, with a bounded buffer.  A sentence is Dollar, fields,   *)
(* one of which carries the position, and Star, the checksum; which         *)
(* positions a checksum confirms is the set Fixes.                          *)
(***************************************************************************)
EXTENDS Integers, FiniteSets, SequencesExt

CONSTANTS
    Fixes,                 \* positions of sentences that NMEAReader accepts
    MAX_SENTENCE_SIZE,
    MAX_ACCUMULATOR_SIZE

Dollar == "$"
Star   == "*"
CR     == "CR"
LF     == "LF"
NoFix  == "none"

Count(s, t) == Cardinality({i \in DOMAIN s : s[i] = t})

(* parse_gga_sentence: the position of one complete sentence, or NoFix. *)
parse_gga_sentence(s) ==
    LET at == {i \in DOMAIN s : s[i] \in Fixes} IN
    IF /\ Len(s) >= 3 /\ Len(s) <= MAX_SENTENCE_SIZE
       /\ s[1] = Dollar /\ s[Len(s)] = Star /\ Count(s, Star) = 1
       /\ Cardinality(at) = 1
    THEN s[CHOOSE i \in at : TRUE]
    ELSE NoFix

(* bytes.rfind: where the last t is in s, or 0. *)
rfind(s, t) == Max({0} \cup {i \in DOMAIN s : s[i] = t})

(* rstrip(b"\r"): the trailing carriage returns go. *)
Stripped(line) == SubSeq(line, 1, Max({0} \cup {i \in DOMAIN line : line[i] # CR}))

(* A complete line counts from its last Dollar on. *)
ParseLine(line) ==
    LET start == rfind(line, Dollar) IN
    IF start = 0 THEN NoFix
    ELSE parse_gga_sentence(Stripped(SubSeq(line, start, Len(line))))

(* Mutant: a buffer that has grown too long is emptied. *)
BoundByClearing(buffer) == IF Len(buffer) <= MAX_ACCUMULATOR_SIZE THEN buffer ELSE <<>>

(* _bound_incomplete_data: the end of the buffer, from its last Dollar on. *)
_bound_incomplete_data(buffer) ==
    LET kept  == SubSeq(buffer, Len(buffer) - MAX_ACCUMULATOR_SIZE + 1, Len(buffer))
        start == rfind(kept, Dollar)
    IN  CASE Len(buffer) <= MAX_ACCUMULATOR_SIZE -> buffer
          [] Len(buffer) > MAX_ACCUMULATOR_SIZE /\ start = 0 -> <<>>
          [] OTHER -> SubSeq(kept, start, Len(kept))

(* The line that newline i of s completes. *)
LineTo(s, i) == SubSeq(s, rfind(SubSeq(s, 1, i - 1), LF) + 1, i - 1)

(* RoverGGAAccumulator.feed: the new buffer, and the positions of the lines *)
(* that became complete, each at its newline.                               *)
feed(buffer, data) ==
    LET all == buffer \o data
    IN  [buffer |-> _bound_incomplete_data(SubSeq(all, rfind(all, LF) + 1, Len(all))),
         parsed |-> [i \in {k \in DOMAIN all : all[k] = LF} |-> ParseLine(LineTo(all, i))]]

----------------------------------------------------------------------------
(* The reference: the last position in a stream that is there as a whole.   *)
(* A position counts when a Dollar, without another one or a newline in     *)
(* between, starts a sentence that ends at a newline.                       *)
SentenceAt(s, i, j) ==
    /\ s[i] = Dollar /\ s[j] = LF /\ \A k \in i + 1 .. j - 1 : s[k] \notin {Dollar, LF}
Sentences(s) ==
    {e \in (DOMAIN s) \X (DOMAIN s) :
        /\ e[1] < e[2] /\ SentenceAt(s, e[1], e[2])
        /\ parse_gga_sentence(Stripped(SubSeq(s, e[1], e[2] - 1))) # NoFix}
LastPosition(s) ==
    IF Sentences(s) = {} THEN NoFix
    ELSE LET last == CHOOSE e \in Sentences(s) : \A f \in Sentences(s) : f[2] <= e[2]
         IN  parse_gga_sentence(Stripped(SubSeq(s, last[1], last[2] - 1)))

(* No sentence has so many carriage returns behind it that it is no longer  *)
(* in the buffer when its newline comes.                                    *)
EndsInTime(s) == \A e \in Sentences(s) : e[2] - e[1] <= MAX_ACCUMULATOR_SIZE
=============================================================================

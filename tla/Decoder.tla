------------------------------ MODULE Decoder ------------------------------
(***************************************************************************)
(* What an RTCMParserThread of src/rtcm2.py makes of the stream it reads:  *)
(* the chunks in its socket pair, the buffered file over it, RTCMReader of  *)
(* src/pyrtcm/rtcmreader.py, RTCMMessage, and the loop that turns messages  *)
(* into the result that corrects STR entries and the web page shows.       *)
(*                                                                         *)
(* A stream is a sequence of tokens: a byte <<b>>, or the CRC of a frame,   *)
(* which is the sequence of bytes it was computed from and stands for its   *)
(* three bytes.  Read out of step, a CRC is some byte that starts nothing.  *)
(***************************************************************************)
EXTENDS ParserThread, RtcmMessage, Integers, SequencesExt, FiniteSetsExt

CONSTANTS
    Preamble,    \* 0xd3
    Plans,       \* what is looked at: set of [Mount -> [items, mode]], see Source
    ChunkSizes,  \* bound: a source's chunks are of one size among these, or all of the rest
    PartLimit    \* [field of 1033 -> characters of it that are looked up]

(* An item of a stream: a frame's length is told in ten bits, the upper two *)
(* in a byte of their own, which is no preamble.                           *)
IsItem(item) ==
    /\ item.kind \in {"frame", "broken", "junk"} /\ item.bytes \in Seq(Nat)
    /\ item.kind # "junk" => Len(item.bytes) < 4 * 2 ^ ByteBits
IsItems(items) ==
    /\ Len(items) \in Nat /\ DOMAIN items = 1 .. Len(items)
    /\ \A k \in DOMAIN items : IsItem(items[k])

ASSUME DecoderAssumption ==
    /\ ByteBits \in Nat /\ 2 ^ ByteBits \in Nat \ {0}
    /\ Preamble \in Nat /\ Preamble >= 4
    /\ ChunkSizes \subseteq Nat \ {0}
    /\ \A plan \in Plans : \A m \in Mount : IsItems(plan[m].items)

VARIABLES
    source,  \* what each source uploads and has said by it, see Source
    given,   \* tokens that the source has uploaded
    queue,   \* chunks in the pair, as [from, to] of the source's stream
    buf,     \* what the buffered file holds, likewise
    reader,  \* in next(reader) or not, and the tokens of the frame it is in
    result,  \* RTCMParserThread.result
    got      \* history: ends of the frames that were decoded

decoderVars == <<source, given, queue, buf, reader, result, got>>
allVars == <<vars, decoderVars>>

NoTokens(at) == [from |-> at, to |-> at - 1]
Outside == [in |-> FALSE, frame |-> <<>>]
NoResult == [location |-> <<>>, device |-> <<>>, pushed |-> {}, types |-> <<>>, gnss |-> {}]

----------------------------------------------------------------------------
(* The station: an item is a frame with its payload, a frame with a wrong   *)
(* CRC, or bytes that are no frame.                                        *)

Tokens(item) ==
    LET size  == Len(item.bytes)
        frame == <<Preamble, size \div 2 ^ ByteBits, size % 2 ^ ByteBits>> \o item.bytes
        raw(bytes) == [k \in DOMAIN bytes |-> <<bytes[k]>>]
    IN  CASE item.kind = "frame"  -> Append(raw(frame), frame)
          [] item.kind = "broken" -> Append(raw(frame), Tail(frame))
          [] item.kind = "junk"   -> raw(item.bytes)

(* The stream of the items, the frames among them that can be decoded, by   *)
(* their ends, and whether no junk can be taken for a frame's beginning.    *)
(* The mode of the parser is str_fix, realtime_web or none.                *)
Decodable(item) ==
    /\ item.kind = "frame" /\ Len(item.bytes) * ByteBits >= IdBits
    /\ RTCMMessage(Bits(item.bytes)).ok
Source(items, mode, size) ==
    LET upTo(k) == FlattenSeq([j \in 1 .. k |-> Tokens(items[j])]) IN
    [mode   |-> mode,
     size   |-> size,
     tokens |-> upTo(Len(items)),
     sent   |-> {[end |-> Len(upTo(k)), id |-> items[k].id, said |-> items[k].said] :
                    k \in {j \in DOMAIN items : Decodable(items[j])}},
     clean  |-> \A k \in DOMAIN items :
                    items[k].kind = "junk" => Preamble \notin Range(items[k].bytes)]
Stream(m) == source[m].tokens

----------------------------------------------------------------------------
(* RTCMReader, token by token. *)

PayloadSize(frame) == Last(frame[2]) * 2 ^ ByteBits + Last(frame[3])
Whole(frame) == Len(frame) > 3 /\ Len(frame) = PayloadSize(frame) + 4

(* Mutant: the CRC is not compared. *)
parseUnchecked(frame) ==
    LET payload == Bits([k \in 1 .. Len(frame) - 4 |-> Last(frame[k + 3])])
    IN  IF Len(payload) < IdBits THEN "raised"
        ELSE IF RTCMMessage(payload).ok THEN "decoded" ELSE "skipped"

(* parse: the CRC, then the payload; one that is too short for a message    *)
(* number is an error that leaves next(reader), the others do not.         *)
parse(frame) ==
    LET bytes   == [k \in 1 .. Len(frame) - 1 |-> Last(frame[k])]
        payload == Bits(SubSeq(bytes, 4, Len(bytes)))
    IN  IF Last(frame) # bytes THEN "skipped"
        ELSE IF Len(payload) < IdBits THEN "raised"
        ELSE IF RTCMMessage(payload).ok THEN "decoded" ELSE "skipped"

(* read and _parse_rtcm3: a byte that does not go on with a header is       *)
(* dropped with the header; so is a header of an empty frame.              *)
NextToken(frame, t) ==
    LET more == Append(frame, t) IN
    CASE Len(frame) = 0 -> IF t = <<Preamble>> THEN more ELSE <<>>
      [] Len(frame) = 1 -> IF Len(t) = 1 /\ t[1] < 4 THEN more ELSE <<>>
      [] Len(frame) = 2 -> IF PayloadSize(more) = 0 THEN <<>> ELSE more
      [] OTHER -> more

(* next(reader) on what is in the buffer: s.at is the next token to read,   *)
(* and what = "decoded" or "raised" ends the call.                         *)
ReadToken(s, t) ==
    LET frame == NextToken(s.frame, t)
        what  == IF Whole(frame) THEN parse(frame) ELSE "skipped"
    IN  IF s.what # "skipped" THEN s
        ELSE [at |-> s.at + 1, what |-> what, whole |-> frame,
              frame |-> IF Whole(frame) THEN <<>> ELSE frame]
read(frame, at, tokens) ==
    Through(ReadToken, [at |-> at, what |-> "skipped", whole |-> <<>>, frame |-> frame], tokens)

----------------------------------------------------------------------------
(* What the loop does with a message. *)

Field(msg, name) == Get(msg, name, 0)

_process_location_message(msg) ==
    [station |-> Field(msg, "DF003"), x |-> Field(msg, "DF025"),
     y |-> Field(msg, "DF026"), z |-> Field(msg, "DF027")]

(* Characters are looked up by index, up to a limit; DF033 has an index and *)
(* is never found, so its count is taken for the antenna's serial number.   *)
Joined(msg, name) ==
    LET present == SelectSeq([i \in 1 .. PartLimit[name] |-> i], LAMBDA i : Has(msg, name, i))
    IN  [k \in DOMAIN present |-> Get(msg, name, present[k])]
_process_device_info(msg) ==
    [antenna |-> Joined(msg, "DF030"), receiver |-> Joined(msg, "DF228"),
     firmware |-> Joined(msg, "DF230"), antenna_firmware |-> Field(msg, "DF032")]

(* A cell's strength is the first that is there and not 0. *)
Cnr(msg, i) ==
    LET strengths == SelectSeq(<<"DF408", "DF403", "DF405">>, LAMBDA name : Get(msg, name, i) # 0)
    IN  IF strengths = <<>> THEN 0 ELSE Get(msg, Head(strengths), i)
_process_msm_messages(msg) ==
    {[sat |-> c.sat, sig |-> c.sig, snr |-> Cnr(msg, c.index)] :
        c \in {d \in Range(parse_msm(msg)) : Cnr(msg, d.index) > 0}}

CARRIER_INFO ==
    (1070 .. 1077 :> "GPS") @@ (1080 .. 1087 :> "GLO") @@ (1090 .. 1097 :> "GAL")
    @@ (1100 .. 1107 :> "QZSS") @@ (1110 .. 1117 :> "IRNSS") @@ (1120 .. 1127 :> "BDS")
    @@ (1040 .. 1047 :> "SBAS")
_update_message_stats(r, id) ==
    LET count(i) == IF i \in DOMAIN r.types THEN r.types[i] ELSE 0 IN
    [r EXCEPT !.types = [i \in DOMAIN r.types \cup {id} |-> count(i) + (IF i = id THEN 1 ELSE 0)],
              !.gnss = @ \cup {CARRIER_INFO[ids] : ids \in {i \in DOMAIN CARRIER_INFO : id \in i}}]

(* _process_str_fix and _process_realtime_web. *)
Process(r, mode, id, msg) ==
    LET s == _update_message_stats(r, id) IN
    CASE id \in {1005, 1006} -> [s EXCEPT !.location = _process_location_message(msg)]
      [] id = 1033 -> [s EXCEPT !.device = _process_device_info(msg)]
      [] mode = "realtime_web" /\ IsMsm(id) /\ id <= 1127 /\ _process_msm_messages(msg) # {} ->
            [s EXCEPT !.pushed = _process_msm_messages(msg)]
      [] OTHER -> s

(* A station that is understood: what it says in a frame is what is made of *)
(* the payload, by the message's number a position, the parts of a device   *)
(* or cells and their strengths.                                           *)
SaysWhatIsDecoded(item) ==
    LET msg == RTCMMessage(Bits(item.bytes)) IN
    /\ item.id = identity(Bits(item.bytes))
    /\ item.id \in {1005, 1006} => item.said = _process_location_message(msg)
    /\ item.id = 1033 => \A part \in {"antenna", "receiver", "firmware"} :
                             item.said[part] = _process_device_info(msg)[part]
    /\ item.id \in 1070 .. 1127 =>
           item.said.cells = IF IsMsm(item.id) THEN _process_msm_messages(msg) ELSE {}
StationSays ==
    \A plan \in Plans : \A m \in Mount : \A k \in 1 .. Len(plan[m].items) :
        Decodable(plan[m].items[k]) => SaysWhatIsDecoded(plan[m].items[k])

----------------------------------------------------------------------------
(* The steps of ParserThread, with what they do to the stream. *)

DecoderInit ==
    /\ Init
    /\ \E plan \in Plans, size \in ChunkSizes :
           source = [m \in Mount |-> Source(plan[m].items, plan[m].mode, size)]
    /\ given = [m \in Mount |-> 0]
    /\ queue = [m \in Mount |-> <<>>]
    /\ buf = [m \in Mount |-> NoTokens(1)]
    /\ reader = [m \in Mount |-> Outside]
    /\ result = [m \in Mount |-> NoResult]
    /\ got = [m \in Mount |-> <<>>]

Mode(m) == source[m].mode

StartStrFix(m) == Mode(m) = "str_fix" /\ StartParser(m) /\ UNCHANGED decoderVars

(* Without an STR correction; then a page may start a web parser. *)
Accept(m) == Mode(m) # "str_fix" /\ AcceptOnly(m) /\ UNCHANGED decoderVars
StartForPage(m) == Mode(m) = "realtime_web" /\ StartWeb(m) /\ UNCHANGED decoderVars

UploadChunk(m) == given[m] < Len(Stream(m)) /\ Upload(m) /\ UNCHANGED decoderVars

DeliverChunk(m) ==
    LET rest == Len(Stream(m)) - given[m] IN
    \E n \in {k \in {source[m].size} : k < rest} \cup {rest} :
        /\ Deliver(m)
        /\ given' = [given EXCEPT ![m] = @ + n]
        /\ queue' = IF m \in subscribed
                    THEN [queue EXCEPT ![m] = Append(@, [from |-> given[m] + 1, to |-> given[m] + n])]
                    ELSE queue
        /\ UNCHANGED <<source, buf, reader, result, got>>

(* The loop's test of running and of the duration, then next(reader). *)
EnterRead(m) ==
    /\ thread[m] = "reading" /\ running[m] /\ ~reader[m].in
    /\ reader' = [reader EXCEPT ![m].in = TRUE]
    /\ UNCHANGED <<vars, source, given, queue, buf, result, got>>

Fill(m) ==
    /\ reader[m].in /\ buf[m].from > buf[m].to
    /\ Read(m)
    /\ buf' = [buf EXCEPT ![m] = Head(queue[m])]
    /\ queue' = [queue EXCEPT ![m] = Tail(@)]
    /\ UNCHANGED <<source, given, reader, result, got>>

(* Mutant: a new reader for each message; what it had buffered is lost.     *)
ParseRebuilds(m) ==
    LET now     == read(reader[m].frame, buf[m].from, SubSeq(Stream(m), buf[m].from, buf[m].to))
        payload == Bits([k \in 1 .. Len(now.whole) - 4 |-> Last(now.whole[k + 3])])
    IN  /\ thread[m] = "reading" /\ reader[m].in /\ buf[m].from <= buf[m].to
        /\ buf' = [buf EXCEPT ![m].from = buf[m].to + 1]
        /\ reader' = [reader EXCEPT ![m] = [in |-> now.what = "skipped", frame |-> now.frame]]
        /\ IF now.what = "decoded"
           THEN /\ result' = [result EXCEPT ![m] =
                       Process(@, Mode(m), identity(payload), RTCMMessage(payload))]
                /\ got' = [got EXCEPT ![m] = Append(@, now.at - 1)]
           ELSE UNCHANGED <<result, got>>
        /\ UNCHANGED <<vars, source, given, queue>>

(* Up to the next message, or to the end of the buffer. *)
Parse(m) ==
    LET now     == read(reader[m].frame, buf[m].from, SubSeq(Stream(m), buf[m].from, buf[m].to))
        payload == Bits([k \in 1 .. Len(now.whole) - 4 |-> Last(now.whole[k + 3])])
    IN  /\ thread[m] = "reading" /\ reader[m].in /\ buf[m].from <= buf[m].to
        /\ buf' = [buf EXCEPT ![m].from = now.at]
        /\ reader' = [reader EXCEPT ![m] = [in |-> now.what = "skipped", frame |-> now.frame]]
        /\ IF now.what = "decoded"
           THEN /\ result' = [result EXCEPT ![m] =
                       Process(@, Mode(m), identity(payload), RTCMMessage(payload))]
                /\ got' = [got EXCEPT ![m] = Append(@, now.at - 1)]
           ELSE UNCHANGED <<result, got>>
        /\ UNCHANGED <<vars, source, given, queue>>

(* The time-out strikes while the pair is read; a frame begun is lost. *)
TimeOut(m) ==
    /\ reader[m].in /\ buf[m].from > buf[m].to
    /\ Silence(m)
    /\ reader' = [reader EXCEPT ![m] = Outside]
    /\ UNCHANGED <<source, given, queue, buf, result, got>>

(* The loop is left only between two calls of next(reader). *)
Leave(m) ==
    /\ ~reader[m].in
    /\ LoopEnds(m) \/ (Mode(m) = "str_fix" /\ DurationOver(m))
    /\ UNCHANGED decoderVars

Reading(m) == EnterRead(m) \/ Fill(m) \/ Parse(m) \/ Leave(m)
Control(m) ==
    /\ \/ Starting(m) \/ Ending(m) \/ StopClears(m) \/ StopCompletes(m)
       \/ WaitForStartup(m) \/ TakeLock(m)
    /\ UNCHANGED decoderVars

DecoderNext ==
    \E m \in Mount :
        \/ StartStrFix(m) \/ Accept(m) \/ StartForPage(m) \/ UploadChunk(m) \/ DeliverChunk(m)
        \/ Reading(m) \/ TimeOut(m) \/ Control(m)

DecoderSpec == DecoderInit /\ [][DecoderNext]_allVars
----------------------------------------------------------------------------
(* rtcm2.py: the parser is ready before the handler sends what it received. *)
(* Once the handler was told so, however the stream was cut into chunks and *)
(* the thread delayed, nothing between the tokens read and those uploaded   *)
(* is missing, and no chunk overtakes another.                             *)
Ahead(m) == <<buf[m]>> \o queue[m]
Adjacent(m) ==
    /\ \A k \in 1 .. Len(Ahead(m)) - 1 : Ahead(m)[k + 1].from = Ahead(m)[k].to + 1
    /\ Last(Ahead(m)).to = given[m]
ReadyMissesNothing ==
    \A m \in Mount : (told[m] = "ready" /\ m \in subscribed) => Adjacent(m)

(* Then every frame that was read to its end has been decoded, where no    *)
(* junk looks like a frame's beginning.                                    *)
ReadyDecodesAll ==
    \A m \in Mount :
        (told[m] = "ready" /\ m \in subscribed /\ source[m].clean) =>
            Range(got[m]) = {f.end : f \in {g \in source[m].sent : g.end < buf[m].from}}

(* What the result reports is what the station said in the last message of  *)
(* its kind that was decoded, whatever junk, broken frames, false headers   *)
(* and lost beginnings there were: nothing is made up.                     *)
ResultIsAsSent ==
    \A m \in Mount :
        LET decoded  == {f \in source[m].sent : f.end \in Range(got[m])}
            last(fs) == CHOOSE f \in fs : \A g \in fs : g.end <= f.end
            of(ids)  == {f \in decoded : f.id \in ids}
            cells    == {f \in of(1070 .. 1127) : f.said.cells # {}}
            r        == result[m]
        IN  /\ Cardinality(decoded) = Len(got[m])
            /\ r.location = IF of({1005, 1006}) = {} THEN <<>> ELSE last(of({1005, 1006})).said
            /\ IF of({1033}) = {} THEN r.device = <<>>
               ELSE \A part \in {"antenna", "receiver", "firmware"} :
                        r.device[part] = last(of({1033})).said[part]
            /\ r.pushed = IF cells = {} \/ Mode(m) = "str_fix" THEN {} ELSE last(cells).said.cells
            /\ \A id \in DOMAIN r.types : r.types[id] = Cardinality(of({id}))
=============================================================================

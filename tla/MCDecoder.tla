----------------------------- MODULE MCDecoder -----------------------------
(* Instances of Decoder for TLC, and the station that encodes messages.    *)
EXTENDS Decoder

TwoMounts == {"m1", "m2"}

\* More chunks than any stream here has tokens.
EnoughChunks == [m \in TwoMounts |-> 60]

\* Widths of the fields in bits, and characters of a text that are kept.
Widths == [f \in {"DF002", "DF003", "DF025", "DF026", "DF027", "DF029", "DF030", "DF032", "DF033",
                  "DF227", "DF228", "DF229", "DF230", "DF394", "DF395", "DF396", "DF397", "DF398",
                  "DF399", "ExtSatInfo", "DF400", "DF401", "DF402", "DF403", "DF404", "DF405",
                  "DF406", "DF407", "DF408", "DF420"} |->
    CASE f = "DF002" -> 12
      [] f \in {"DF003", "DF394"} -> 3
      [] f \in {"DF025", "DF026", "DF027", "DF405"} -> 3
      [] f \in {"DF398", "DF399", "DF400", "DF401", "DF402", "DF404", "DF406", "DF407", "DF420"} -> 1
      [] OTHER -> 2]
Limits == [f \in {"DF030", "DF228", "DF230"} |-> 2]

(* Bits of a number, two's complement for a negative one; bytes of bits. *)
Enc(v, n) == [k \in 1 .. n |-> ((v + (IF v < 0 THEN 2 ^ n ELSE 0)) \div 2 ^ (n - k)) % 2]
Pack(fields) ==
    LET bits   == FlattenSeq(fields)
        padded == bits \o [k \in 1 .. (ByteBits - (Len(bits) % ByteBits)) % ByteBits |-> 0]
    IN  [k \in 1 .. Len(padded) \div ByteBits |->
            Number(SubSeq(padded, (k - 1) * ByteBits + 1, k * ByteBits))]

Frame(id, said, fields) ==
    [kind |-> "frame", id |-> id, said |-> said, bytes |-> Pack(<<Enc(id, 12)>> \o fields)]
Junk(bytes) == [kind |-> "junk", id |-> 0, said |-> <<>>, bytes |-> bytes]
Broken(item) == [item EXCEPT !.kind = "broken"]
Short == [kind |-> "frame", id |-> 0, said |-> <<>>, bytes |-> <<1, 2>>]

Position(id, x, y, z) ==
    Frame(id, [station |-> 5, x |-> x, y |-> y, z |-> z],
          <<Enc(5, 3), Enc(x, 3), Enc(y, 3), Enc(z, 3)>>)

(* The result keeps the first characters of each text. *)
Device(antenna, serial, receiver, firmware) ==
    LET text(chars) == <<Enc(Len(chars), 2)>> \o [k \in DOMAIN chars |-> Enc(chars[k], 2)]
        kept(chars) == SubSeq(chars, 1, IF Len(chars) < 2 THEN Len(chars) ELSE 2)
    IN  Frame(1033, [antenna |-> kept(antenna), receiver |-> kept(receiver), firmware |-> kept(firmware)],
              <<Enc(5, 3)>> \o text(antenna) \o text(serial) \o text(receiver) \o text(firmware))

(* MSM with the strength of each cell [sat, sig], and the strengths' field  *)
(* at its place among the fields of each cell.                             *)
Msm(id, sats, sigs, strength) ==
    LET bit(b) == <<IF b THEN 1 ELSE 0>>
        all == FlattenSeq([s \in 1 .. SatBits |-> [g \in 1 .. SigBits |-> <<s, g>>]])
        pairs == SelectSeq(all, LAMBDA p : p[1] \in sats /\ p[2] \in sigs)
        cells == SelectSeq(pairs, LAMBDA p : p \in DOMAIN strength)
        field(name) == [k \in DOMAIN cells |->
            Enc(IF name \in {"DF403", "DF408"} THEN strength[cells[k]] ELSE 0, Widths[name])]
        zeros(name) == [k \in 1 .. Cardinality(sats) |-> Enc(0, Widths[name])]
    IN  Frame(id, [cells |-> {[sat |-> p[1], sig |-> p[2], snr |-> strength[p]] :
                                 p \in {q \in DOMAIN strength : strength[q] > 0}}],
              <<Enc(5, 3)>>
              \o [s \in 1 .. SatBits |-> bit(s \in sats)]
              \o [g \in 1 .. SigBits |-> bit(g \in sigs)]
              \o [k \in DOMAIN pairs |-> bit(pairs[k] \in DOMAIN strength)]
              \o FlattenSeq([k \in DOMAIN SatFields(id % 10) |-> zeros(SatFields(id % 10)[k])])
              \o FlattenSeq([k \in DOMAIN CellFields(id % 10) |->
                    IF CellFields(id % 10)[k] = "no field" THEN <<>> ELSE field(CellFields(id % 10)[k])]))

Gps7 == Msm(1077, {1, 3}, {1, 2}, (<<1, 2>> :> 3) @@ (<<3, 1>> :> 0) @@ (<<3, 2>> :> 1))
Gal4 == Msm(1094, {2, 3}, {2}, (<<3, 2>> :> 2))
Gps2 == Msm(1072, {1}, {1}, (<<1, 1>> :> 0))
Unknown == Frame(2000, <<>>, <<>>)
Cut == [Position(1006, 1, 1, 1) EXCEPT !.bytes = SubSeq(@, 1, 4)]

SourcesMC ==
    "said" :> <<Position(1005, 1, -2, 3), Device(<<1, 2, 3>>, <<1, 1>>, <<0>>, <<>>), Position(1006, -4, 0, 1)>>
    @@ "seen" :> <<Gps7, Gal4, Position(1005, 2, 2, 2)>>
    @@ "odd" :> <<Junk(<<5, 0>>), Broken(Position(1005, 3, 3, 3)), Short, Unknown, Gps2, Cut, Position(1006, 1, 0, 1)>>
    @@ "false" :> <<Position(1005, 1, 1, 1), Junk(<<13, 0, 5>>), Position(1006, 2, 2, 2), Junk(<<13>>),
                    Position(1005, 3, 3, 3), Junk(<<13, 0, 0>>), Position(1006, 0, 0, 0)>>
    @@ "two" :> <<Junk(<<13, 0>>)>> @@ "one" :> <<Junk(<<5>>)>> @@ "nothing" :> <<>>

(* m1 with a parser, m2 a source without one. *)
With(s1, mode, s2) ==
    [m \in TwoMounts |-> IF m = "m1" THEN [items |-> SourcesMC[s1], mode |-> mode] ELSE [items |-> SourcesMC[s2], mode |-> "none"]]
PlansMC ==
    {With("said", "str_fix", "nothing"), With("false", "str_fix", "nothing"),
     With("seen", "realtime_web", "nothing"), With("odd", "realtime_web", "nothing"),
     With("two", "str_fix", "one"), With("two", "realtime_web", "one")}

(* The station of these plans is understood: RTCMMessage and the loop make  *)
(* of each frame what was encoded in it.                                   *)
ASSUME StationIsUnderstood == StationSays
=============================================================================

---------------------------- MODULE RtcmMessage ----------------------------
(***************************************************************************)
(* RTCMMessage of src/pyrtcm/rtcmmessage.py: a payload is taken apart into  *)
(* named fields by the layout of its message type, with parse_msm of       *)
(* rtcmhelpers.py on top.  Message numbers are the real ones; the widths of *)
(* other fields and masks are parameters, and fields that nothing here     *)
(* depends on are left out of the layouts, as is the scaling of values.     *)
(***************************************************************************)
EXTENDS Integers, SequencesExt

CONSTANTS
    ByteBits,   \* 8
    Width,      \* of each field, in bits
    SatBits,    \* 64, of the satellite mask DF394
    SigBits     \* 32, of the signal mask DF395

IdBits == 12
Signed == {"DF025", "DF026", "DF027", "DF400", "DF401", "DF404", "DF405", "DF406"}

(* FoldLeft of SequencesExt, in as many steps as the sequence has elements. *)
Through(step(_, _), base, seq) ==
    LET upTo[k \in 0 .. Len(seq)] == IF k = 0 THEN base ELSE step(upTo[k - 1], seq[k])
    IN  upTo[Len(seq)]

(* The payload as bits, and the number that bits are. *)
Bits(bytes) ==
    FlattenSeq([k \in DOMAIN bytes |->
        [j \in 1 .. ByteBits |-> (bytes[k] \div 2 ^ (ByteBits - j)) % 2]])
Number(bits) == Through(LAMBDA n, bit : 2 * n + bit, 0, bits)
identity(bits) == Number(SubSeq(bits, 1, IdBits))

----------------------------------------------------------------------------
(* Layouts: single fields, and groups of fields repeated as often as an     *)
(* earlier field says.                                                      *)
Once(name) == [by |-> "", field |-> name]
Repeat(by, name) == [by |-> by, field |-> name]
Counted(count, name) == <<Once(count), Repeat(count, name)>>
Header == <<Once("DF002"), Once("DF003")>>

PositionLayout == Header \o <<Once("DF025"), Once("DF026"), Once("DF027")>>
DeviceLayout ==
    Header \o Counted("DF029", "DF030") \o Counted("DF032", "DF033")
           \o Counted("DF227", "DF228") \o Counted("DF229", "DF230")

(* The fields of MSM types 1 to 7 for each satellite and for each cell.  In *)
(* the table of type 2 the last group is a set, which has no fields.        *)
SatFields(kind) ==
    CASE kind \in 1 .. 3   -> <<"DF398">>
      [] kind \in {4, 6}   -> <<"DF397", "DF398">>
      [] kind \in {5, 7}   -> <<"DF397", "ExtSatInfo", "DF398", "DF399">>
CellFields(kind) ==
    CASE kind = 1 -> <<"DF400">>
      [] kind = 2 -> <<"DF401", "DF402", "no field">>
      [] kind = 3 -> <<"DF400", "DF401", "DF402", "DF420">>
      [] kind = 4 -> <<"DF400", "DF401", "DF402", "DF420", "DF403">>
      [] kind = 5 -> <<"DF400", "DF401", "DF402", "DF420", "DF403", "DF404">>
      [] kind = 6 -> <<"DF405", "DF406", "DF407", "DF420", "DF408">>
      [] kind = 7 -> <<"DF405", "DF406", "DF407", "DF420", "DF408", "DF404">>
MsmLayout(kind) ==
    LET each(by, names) == [k \in DOMAIN names |-> Repeat(by, names[k])]
    IN  Header \o <<Once("DF394"), Once("DF395"), Once("DF396")>>
               \o each("NSat", SatFields(kind)) \o each("NCell", CellFields(kind))

IsMsm(id) == id \in 1070 .. 1139 /\ id % 10 \in 1 .. 7

(* _get_dict; an unknown type has no layout and keeps its number only. *)
_get_dict(id) ==
    CASE id \in {1005, 1006} -> PositionLayout
      [] id = 1033 -> DeviceLayout
      [] IsMsm(id) -> MsmLayout(id % 10)
      [] OTHER -> <<>>

----------------------------------------------------------------------------
(* A message being decoded: the offset in the payload, the values by field  *)
(* and index (0 outside of groups), and the mask maps.                      *)
Blank == [ok |-> TRUE, offset |-> 0, value |-> <<>>, satmap |-> <<>>, cellmap |-> <<>>]
Failed == [Blank EXCEPT !.ok = FALSE]
Has(msg, name, i) == <<name, i>> \in DOMAIN msg.value
Get(msg, name, i) == IF Has(msg, name, i) THEN msg.value[<<name, i>>] ELSE 0
Set(msg, name, i, v) == [msg EXCEPT !.value = @ @@ (<<name, i>> :> v)]

(* The bits that are set in a mask, from the left. *)
Ones(v, bits) ==
    SelectSeq([k \in 1 .. bits |-> k], LAMBDA k : (v \div 2 ^ (bits - k)) % 2 = 1)

(* _getsatcellmaps: the masks' bits, first bit first; cells are the pairs   *)
(* of a satellite and a signal, satellite by satellite.                     *)
_getsatcellmaps(msg, cells) ==
    LET sats == Ones(Get(msg, "DF394", 0), SatBits)
        sigs == Ones(Get(msg, "DF395", 0), SigBits)
        at   == Ones(cells, Len(sats) * Len(sigs))
    IN  [msg EXCEPT !.satmap = sats,
                    !.cellmap = [c \in DOMAIN at |->
                        <<sats[(at[c] - 1) \div Len(sigs) + 1], sigs[1 + ((at[c] - 1) % Len(sigs))]>>]]

(* After a mask, the sizes of the groups that it determines. *)
Masked(msg, name, v, size) ==
    LET ones == Len(Ones(v, size)) IN
    CASE name = "DF394" -> Set(msg, "NSat", 0, ones)
      [] name = "DF395" -> Set(msg, "NSig", 0, ones)
      [] name = "DF396" -> _getsatcellmaps(Set(msg, "NCell", 0, ones), v)
      [] OTHER -> msg

(* _set_attribute_single; a payload that is too short is an error. *)
_set_attribute_single(bits, msg, name, i) ==
    LET size == IF name = "DF396" THEN Get(msg, "NSat", 0) * Get(msg, "NSig", 0) ELSE Width[name]
        raw  == Number(SubSeq(bits, msg.offset + 1, msg.offset + size))
        v    == IF name \in Signed /\ raw >= 2 ^ (size - 1) THEN raw - 2 ^ size ELSE raw
    IN  IF ~msg.ok \/ name \notin DOMAIN Width THEN Failed
        ELSE IF msg.offset + size > Len(bits) THEN Failed
        ELSE Masked(Set([msg EXCEPT !.offset = @ + size], name, i, v), name, v, size)

_set_attribute(bits, msg, item) ==
    IF ~msg.ok THEN msg
    ELSE IF item.by = "" THEN _set_attribute_single(bits, msg, item.field, 0)
    ELSE Through(LAMBDA s, i : _set_attribute_single(bits, s, item.field, i), msg,
                  [i \in 1 .. Get(msg, item.by, 0) |-> i])

(* The message that a payload is; ~ok for RTCMTypeError. *)
RTCMMessage(bits) ==
    Through(LAMBDA s, item : _set_attribute(bits, s, item), Blank, _get_dict(identity(bits)))

(* parse_msm: the cells, each with its satellite and signal. *)
parse_msm(msg) ==
    [c \in 1 .. Get(msg, "NCell", 0) |->
        [sat |-> msg.cellmap[c][1], sig |-> msg.cellmap[c][2], index |-> c]]
=============================================================================

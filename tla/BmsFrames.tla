----------------------------- MODULE BmsFrames ------------------------------
(***************************************************************************)
(* protocol/protocol_bms_rbms.c and protocol/protocol_bms_hmi.c: the       *)
(* payloads of the frames between RBMS, BBMS and the host computer.  Both  *)
(* files describe a payload by a table of attributes and walk it: the RBMS *)
(* side decodes bytes or bits, the HMI side decodes bits, packs reports    *)
(* bit by bit and appends replies byte by byte.                            *)
(*                                                                         *)
(* An attribute is a record of bmsPointAttr_t: pointId, dataIdx,           *)
(* dataBitLen, dataStartBit, dataType ("u8", "s8", "u16", "s16"; the other *)
(* types are wider of the same kind), coeff, offset, maxVal, minVal and    *)
(* repeatCnt.  A payload is a sequence of bytes, 0 .. 255; coefficients    *)
(* are integers here, so that the arithmetic is exact.                     *)
(***************************************************************************)
EXTENDS Integers, Sequences, SequencesExt, FiniteSetsExt

Repeats(attr) == IF attr.repeatCnt = 0 THEN 1 ELSE attr.repeatCnt

\* The elements of the table one by one, each an attribute of its own.
Elements(table) ==
  LET Element(attr, j) == [attr EXCEPT !.pointId = @ + j, !.dataIdx = @ + j * (attr.dataBitLen \div 8),
                                       !.dataStartBit = @ + j * attr.dataBitLen]
  IN  FlattenSeq([i \in DOMAIN table |-> [j \in 1 .. Repeats(table[i]) |-> Element(table[i], j - 1)]])

Signed(type) == type \in {"s8", "s16"}
TypeBits(type) == IF type \in {"u8", "s8"} THEN 8 ELSE 16
WholeBytes(attr) == attr.dataBitLen >= 8 /\ attr.dataBitLen % 8 = 0

AsSigned(raw, bits) == IF raw >= 2 ^ (bits - 1) THEN raw - 2 ^ bits ELSE raw

\* Coefficient, offset and limits.
Physical(attr, raw) ==
  LET value == raw * attr.coeff + attr.offset
  IN  IF value > attr.maxVal THEN attr.maxVal ELSE IF value < attr.minVal THEN attr.minVal ELSE value

\* The last element of the table that names a point decides its value.
Stored(elements, Value(_)) ==
  [id \in {elements[i].pointId : i \in DOMAIN elements} |->
     Value(elements[SelectLastInSeq(elements, LAMBDA e : e.pointId = id)])]

-----------------------------------------------------------------------------
(* Frames of the RBMS.                                                     *)

\* mutant of Bit: the bits of a byte from the highest
BitReversed(data, bitPos) == (data[(bitPos \div 8) + 1] \div 2 ^ (7 - (bitPos % 8))) % 2

Bit(data, bitPos) == (data[(bitPos \div 8) + 1] \div (2 ^ (bitPos % 8))) % 2

rbmsExtractBitsLe(data, startBit, bitLen) ==
  FoldLeft(LAMBDA raw, b : raw + 2 ^ b * Bit(data, startBit + b), 0, [b \in 1 .. bitLen |-> b - 1])

rbmsRawBitsToDouble(raw, bitLen, type) == IF Signed(type) THEN AsSigned(raw, bitLen) ELSE raw

\* A whole number of bytes is read by the type, little end first.
ReadLe(data, dataIdx, type) ==
  LET raw == data[dataIdx + 1] + (IF TypeBits(type) = 16 THEN 256 * data[dataIdx + 2] ELSE 0)
  IN  IF Signed(type) THEN AsSigned(raw, TypeBits(type)) ELSE raw

rbmsParseCommonFun(table, data) ==
  Stored(Elements(table),
         LAMBDA e : Physical(e, IF WholeBytes(e) THEN ReadLe(data, e.dataIdx, e.dataType)
                                ELSE rbmsRawBitsToDouble(rbmsExtractBitsLe(data, e.dataStartBit, e.dataBitLen),
                                                         e.dataBitLen, e.dataType)))

\* The length a parser of rbmsParseRecvDataFun asks for is the end of its table.
PayloadLen(table) ==
  (Max({e.dataStartBit + e.dataBitLen : e \in ToSet(Elements(table))}) + 7) \div 8

\* rbmsParseRecvDataFun with the tables of command group 3; a payload that is
\* too short or of another command changes nothing.
rbmsParseRecvDataFun(tables, cmdGroup, cmdId, payload) ==
  IF cmdGroup = 3 /\ cmdId \in DOMAIN tables /\ Len(payload) >= PayloadLen(tables[cmdId])
  THEN rbmsParseCommonFun(tables[cmdId], payload) ELSE <<>>

-----------------------------------------------------------------------------
(* Frames of the host computer.                                            *)

\* Bits behind the end of the frame are 0.
HmiRaw(attr, data) ==
  FoldLeft(LAMBDA raw, b :
             IF (attr.dataStartBit + b) \div 8 >= Len(data) THEN raw
             ELSE raw + 2 ^ b * Bit(data, attr.dataStartBit + b),
           0, [b \in 1 .. attr.dataBitLen |-> b - 1])

\* Every element of a field is stored in the field's own point: the last stays.
SetElements(table) ==
  FlattenSeq([i \in DOMAIN table |->
     [j \in 1 .. Repeats(table[i]) |->
        [table[i] EXCEPT !.dataStartBit = @ + (j - 1) * table[i].dataBitLen]]])

\* The settings of a command, stored in the real-time database.
parse_bbms_rev_data(table, data) ==
  Stored(SetElements(table),
         LAMBDA e : Physical(e, IF Signed(e.dataType) THEN AsSigned(HmiRaw(e, data), e.dataBitLen)
                                ELSE HmiRaw(e, data)))

\* Conversion to an integer rounds towards zero.
Raw(attr, value) ==
  LET n == value - attr.offset
  IN  IF n >= 0 THEN n \div attr.coeff ELSE -((-n) \div attr.coeff)

\* bbms_hmi_value_to_raw and bbms_hmi_pack_raw_bits for every element in turn:
\* a later element overwrites the bits of an earlier one.
generate_bbms_info_report(table, db) ==
  LET elements == Elements(table)
      BitOf(bitPos) ==
        LET i == SelectLastInSeq(elements, LAMBDA e : bitPos - e.dataStartBit \in 0 .. e.dataBitLen - 1)
            e == elements[i]
        IN  IF i = 0 THEN 0
            ELSE (Raw(e, db[e.pointId]) \div 2 ^ (bitPos - e.dataStartBit)) % 2
  IN  [k \in 1 .. PayloadLen(table) |->
         FoldLeft(LAMBDA byte, b : byte + 2 ^ b * BitOf(8 * (k - 1) + b), 0, [b \in 1 .. 8 |-> b - 1])]

bbms_hmi_append_raw_value(data, type, raw) ==
  data \o (IF TypeBits(type) = 8 THEN <<raw % 256>> ELSE <<raw % 256, (raw \div 256) % 256>>)

ReplyRaw(attr, value) == Raw(attr, value)

\* generate_bbms_ctrl_and_read_replyV2: the values one behind the other, each as
\* long as its type, wherever the table places them.
generate_bbms_ctrl_and_read_reply(table, db) ==
  FoldLeft(LAMBDA data, e : bbms_hmi_append_raw_value(data, e.dataType, ReplyRaw(e, db[e.pointId])),
           <<>>, Elements(table))

-----------------------------------------------------------------------------

\* Fields that follow one another without gap or overlap and in whose bytes
\* dataIdx agrees with dataStartBit, as in the tables of both files but for
\* bbmsCmd02_04_Hmi_DO_Control_PointAttr, where two fields overlap.
Gapless(table) ==
  LET elements == Elements(table)
  IN  \A i \in DOMAIN elements :
        /\ elements[i].dataStartBit =
             IF i = 1 THEN 0 ELSE elements[i - 1].dataStartBit + elements[i - 1].dataBitLen
        /\ WholeBytes(elements[i]) =>
             /\ elements[i].dataStartBit = 8 * elements[i].dataIdx
             /\ elements[i].dataBitLen = TypeBits(elements[i].dataType)
        /\ elements[i].dataBitLen <= TypeBits(elements[i].dataType)

\* The decoders and the encoders agree about a table: what the bit decoder stores
\* for a field is what the byte decoder reads for its last element, a report
\* carries the values it was made of, and so does a reply whose fields all fill
\* their bytes; a frame cut short leaves the fields it still holds right
\* (rbmsParseCommonFun, parse_bbms_rev_data, generate_bbms_info_report,
\* generate_bbms_ctrl_and_read_replyV2).
TableCoversFrames(table, data) ==
  Gapless(table) /\ Len(data) >= PayloadLen(table) =>
    LET read == rbmsParseRecvDataFun(<<table>>, 3, 1, data)
        set == parse_bbms_rev_data(table, data)
        cut == SubSeq(data, 1, PayloadLen(table) - 1)
        Kept(attr) == attr.dataStartBit + Repeats(attr) * attr.dataBitLen <= 8 * Len(cut)
    IN  /\ \A attr \in ToSet(table) : set[attr.pointId] = read[attr.pointId + Repeats(attr) - 1]
        /\ rbmsParseRecvDataFun(<<table>>, 3, 1, cut) = <<>>
        /\ rbmsParseCommonFun(table, generate_bbms_info_report(table, read)) = read
        /\ (\A e \in ToSet(Elements(table)) : WholeBytes(e)) =>
             rbmsParseCommonFun(table, generate_bbms_ctrl_and_read_reply(table, read)) = read
        /\ \A attr \in ToSet(table) :
             Kept(attr) => parse_bbms_rev_data(table, cut)[attr.pointId] = set[attr.pointId]
=============================================================================

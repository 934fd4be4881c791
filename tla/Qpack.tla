--------------------------------- MODULE Qpack ---------------------------------
(***************************************************************************)
(* ringline-h3: QPACK header blocks (static table only), byte by byte.        *)
(***************************************************************************)
EXTENDS Huffman

CONSTANTS
  QSTATIC_TABLE,     \* the static table: a sequence of [name, value]
  MAX_HEADER_FIELDS, \* 256
  Fields,            \* the header fields a list is made of; strings are sequences of symbols
  MaxFields,         \* bound: fields in a list
  Texts,             \* bound: the symbols a text is made of after its first
  MaxText            \* bound: symbols in a text

VARIABLES
  fields, \* a list of headers to encode
  text    \* a string to encode

qpackVars == <<fields, text>>

QpackInit == fields = <<>> /\ text = <<>>

(* encode_prefix_int: seven bits to a byte, the least significant first. *)
RECURSIVE Sevens(_)
Sevens(n) == IF n >= 128 THEN <<128 + (n % 128)>> \o Sevens(n \div 128) ELSE <<n>>

PrefixInt(v, bits, pattern) ==
  LET max == 2 ^ bits - 1
  IN  IF v < max THEN <<pattern + v>> ELSE <<pattern + max>> \o Sevens(v - max)

(* decode_prefix_int at a position: the value and the position after it. *)
Incomplete == [ok |-> FALSE, value |-> 0, pos |-> 0]

RECURSIVE Unsevens(_, _, _, _)
Unsevens(buf, pos, value, shift) ==
  IF pos > Len(buf) THEN Incomplete
  ELSE LET v == value + (buf[pos] % 128) * 2 ^ shift
       IN  IF buf[pos] < 128 THEN [ok |-> TRUE, value |-> v, pos |-> pos + 1]
           ELSE IF shift + 7 > 56 THEN Incomplete
           ELSE Unsevens(buf, pos + 1, v, shift + 7)

UnprefixIntOffByOne(buf, pos, bits) ==
  LET max == 2 ^ bits - 1
      v   == buf[pos] % 2 ^ bits
  IN  IF pos > Len(buf) THEN Incomplete
      ELSE IF v <= max THEN [ok |-> TRUE, value |-> v, pos |-> pos + 1]
      ELSE Unsevens(buf, pos + 1, max, 0)

UnprefixInt(buf, pos, bits) ==
  LET max == 2 ^ bits - 1
      v   == buf[pos] % 2 ^ bits
  IN  IF pos > Len(buf) THEN Incomplete
      ELSE IF v < max THEN [ok |-> TRUE, value |-> v, pos |-> pos + 1]
      ELSE Unsevens(buf, pos + 1, max, 0)

(* encode_string_literal, and the literal name: Huffman coded when that is shorter. *)
StringLiteral(s, bits, raw, coded) ==
  IF EncodedLen(s) < Len(s) THEN PrefixInt(EncodedLen(s), bits, coded) \o HuffmanEncode(s)
  ELSE PrefixInt(Len(s), bits, raw) \o s

Exact(f) == {i \in DOMAIN QSTATIC_TABLE : QSTATIC_TABLE[i] = f}
Named(f) == {i \in DOMAIN QSTATIC_TABLE : QSTATIC_TABLE[i].name = f.name}
Least(s) == CHOOSE i \in s : \A j \in s : i <= j

EncodeField(f) ==
  IF Exact(f) # {} THEN PrefixInt(Least(Exact(f)) - 1, 6, 192)
  ELSE IF Named(f) # {} THEN PrefixInt(Least(Named(f)) - 1, 4, 80) \o StringLiteral(f.value, 7, 0, 128)
  ELSE StringLiteral(f.name, 3, 32, 40) \o StringLiteral(f.value, 7, 0, 128)

QEncode(list) == PrefixInt(0, 8, 0) \o PrefixInt(0, 7, 0) \o FlattenSeq([i \in DOMAIN list |-> EncodeField(list[i])])

(* A string of the decoder: its length, the flag that it is Huffman coded, its bytes. *)
Failed == [ok |-> FALSE, value |-> <<>>, pos |-> 0]

Unpacked(plain, pos) == [ok |-> plain.ok, value |-> plain.text, pos |-> pos]

TakeString(buf, len, huffman) ==
  LET raw == SubSeq(buf, len.pos, len.pos + len.value - 1)
  IN  IF ~len.ok \/ len.pos + len.value > Len(buf) + 1 THEN Failed
      ELSE IF huffman THEN Unpacked(HuffmanDecode(raw), len.pos + len.value)
      ELSE [ok |-> TRUE, value |-> raw, pos |-> len.pos + len.value]

ReadString(buf, pos, bits) ==
  IF pos > Len(buf) THEN Failed
  ELSE TakeString(buf, UnprefixInt(buf, pos, bits), (buf[pos] \div 2 ^ bits) % 2 = 1)

Field3(ok, name, value, pos) == [ok |-> ok, field |-> [name |-> name, value |-> value], pos |-> pos]
NoField == Field3(FALSE, <<>>, <<>>, 0)

InTable(i) == i.ok /\ i.value + 1 \in DOMAIN QSTATIC_TABLE

DecodeIndexed(buf, pos) ==
  LET i == UnprefixInt(buf, pos, 6)
      e == QSTATIC_TABLE[i.value + 1]
  IN  IF buf[pos] < 192 \/ ~InTable(i) THEN NoField ELSE Field3(TRUE, e.name, e.value, i.pos)

WithValue(name, v) == Field3(v.ok, name, v.value, v.pos)

DecodeNamed(buf, pos) ==
  LET i == UnprefixInt(buf, pos, 4)
  IN  IF (buf[pos] \div 16) % 2 = 0 \/ ~InTable(i) THEN NoField
      ELSE WithValue(QSTATIC_TABLE[i.value + 1].name, ReadString(buf, i.pos, 7))

AfterName(buf, n) == IF ~n.ok THEN NoField ELSE WithValue(n.value, ReadString(buf, n.pos, 7))

DecodeLiteral(buf, pos) == AfterName(buf, ReadString(buf, pos, 3))

DecodeField(buf, pos) ==
  CASE buf[pos] >= 128 -> DecodeIndexed(buf, pos)
    [] buf[pos] \in 64 .. 127 -> DecodeNamed(buf, pos)
    [] buf[pos] \in 32 .. 63 -> DecodeLiteral(buf, pos)
    [] OTHER -> NoField

(* The rest of the block, from a field that was read. *)
RECURSIVE TakeField(_, _, _)
TakeField(buf, f, list) ==
  IF Len(list) >= MAX_HEADER_FIELDS \/ ~f.ok THEN [ok |-> FALSE, list |-> <<>>]
  ELSE IF f.pos > Len(buf) THEN [ok |-> TRUE, list |-> Append(list, f.field)]
  ELSE TakeField(buf, DecodeField(buf, f.pos), Append(list, f.field))

DecodeFields(buf, pos) ==
  IF pos > Len(buf) THEN [ok |-> TRUE, list |-> <<>>] ELSE TakeField(buf, DecodeField(buf, pos), <<>>)

QDecode(buf) ==
  LET ric  == UnprefixInt(buf, 1, 8)
      base == UnprefixInt(buf, ric.pos, 7)
  IN  IF buf = <<>> \/ ~ric.ok \/ ric.value # 0 \/ ric.pos > Len(buf) \/ ~base.ok THEN [ok |-> FALSE, list |-> <<>>]
      ELSE DecodeFields(buf, base.pos)

AddField(f) == Len(fields) < MaxFields /\ fields' = Append(fields, f) /\ UNCHANGED text

AddSymbol(sym) ==
  /\ fields = <<>> /\ Len(text) < MaxText
  /\ text' = Append(text, sym)
  /\ UNCHANGED fields

QpackNext ==
  \/ text = <<>> /\ \E f \in Fields : AddField(f)
  \/ \E sym \in IF text = <<>> THEN 0 .. 255 ELSE Texts : AddSymbol(sym)

-----------------------------------------------------------------------------
Sound(d) == d.ok => IsPrefix(d.list, fields)

Survives(block) ==
  /\ QDecode(block) = IF Len(fields) > MAX_HEADER_FIELDS THEN [ok |-> FALSE, list |-> <<>>]
                      ELSE [ok |-> TRUE, list |-> fields]
  /\ \A k \in DOMAIN block : Sound(QDecode(SubSeq(block, 1, k)))

FieldsSurvive == Survives(QEncode(fields))

TextSurvives ==
  /\ HuffmanDecode(HuffmanEncode(text)) = [ok |-> TRUE, text |-> text]
  /\ Len(HuffmanEncode(text)) = EncodedLen(text)
  /\ CodeBits[text[1]] \notin Internal

(* A header block decodes to the list that was encoded (qpack::encode, decode), and cut   *)
(* short anywhere it decodes to an error or to the fields before the cut: no length is     *)
(* misread and no byte taken twice, at the limits of a prefix too; a list of more than      *)
(* MAX_HEADER_FIELDS fields is refused.  A Huffman coded string decodes to itself and is as  *)
(* long as encoded_len says: no code begins another, which build_decode_tree would panic    *)
(* on, and the padding of the last byte is never taken for a symbol.                        *)
HeadersSurvive == (fields # <<>> => FieldsSurvive) /\ (text # <<>> => TextSurvives)

=================================================================================

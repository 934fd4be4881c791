-------------------------------- MODULE Hpack --------------------------------
(***************************************************************************)
(* ringline-h2/src/hpack.rs: an Encoder and the Decoder at the other end   *)
(* of the connection.  Header blocks travel in order; the decoder's side   *)
(* may change SETTINGS_HEADER_TABLE_SIZE, and holds its peer to the new    *)
(* value once the acknowledgement has come behind the blocks (nothing in   *)
(* this repository calls Decoder::set_max_table_size: it is the user of    *)
(* the codec that would).  Header strings are values; their Huffman coding *)
(* is left out, and so is MAX_HEADER_FIELDS: no list here has 256 fields.  *)
(***************************************************************************)
EXTENDS Naturals, Sequences, SequencesExt, FiniteSets

CONSTANTS STATIC_TABLE,  \* sequence of [name, value]
          HeaderLists,   \* the header lists to encode
          Weight,        \* HeaderField::size of their fields
          TableSizes,    \* values of SETTINGS_HEADER_TABLE_SIZE
          FirstSize,     \* the size both ends start with
          PrefixMax,     \* 2^prefix_bits - 1
          DigitBase,     \* 128: what a continuation byte carries
          MaxBlocks,     \* bound: blocks encoded
          MaxOnWire,     \* bound: blocks and acknowledgements on the way
          MaxResizes     \* bound: settings changes

VARIABLES
  enc,       \* Encoder: table, pendingMin, pendingLatest
  dec,       \* Decoder: table, max
  wire,      \* blocks and acknowledgements on the way
  offered,   \* settings on the way to the encoder
  hpackLog   \* ghost: blocks, resizes, whether a decode went wrong

hpackVars == <<enc, dec, wire, offered, hpackLog>>

None == 1000

(* DynamicTable: entries newest first. *)
TableSize(entries) == FoldSeq(LAMBDA f, sum : sum + Weight[f], 0, entries)

(* The entries left once the oldest are evicted down to the limit. *)
Evict(entries, limit) ==
  LET fits == {k \in 0 .. Len(entries) : TableSize(SubSeq(entries, 1, k)) <= limit}
  IN  SubSeq(entries, 1, CHOOSE k \in fits : \A j \in fits : j <= k)

SetMaxSize(t, max) == [entries |-> Evict(t.entries, max), max |-> max]

Insert(t, f) ==
  IF Weight[f] > t.max THEN [t EXCEPT !.entries = <<>>]
  ELSE [t EXCEPT !.entries = <<f>> \o Evict(@, t.max - Weight[f])]

(* The first position of a sequence of fields that passes, or 0. *)
Position(fields, Test(_)) ==
  LET hits == {k \in DOMAIN fields : Test(fields[k])}
  IN  IF hits = {} THEN 0 ELSE CHOOSE k \in hits : \A j \in hits : k <= j

FindStaticNameValue(f) == Position(STATIC_TABLE, LAMBDA g : g = f)
FindStaticName(f) == Position(STATIC_TABLE, LAMBDA g : g.name = f.name)

InDynamic(k) == IF k = 0 THEN 0 ELSE k + Len(STATIC_TABLE)
FindNameValue(t, f) == InDynamic(Position(t.entries, LAMBDA g : g = f))
FindName(t, f) == InDynamic(Position(t.entries, LAMBDA g : g.name = f.name))

(* encode_prefix_int: the prefix, then digits with the high bit on all but the last. *)
Digits[r \in 0 .. 200] ==
  IF r >= DigitBase THEN <<DigitBase + (r % DigitBase)>> \o Digits[r \div DigitBase] ELSE <<r>>

EncodePrefixInt(v) == IF v < PrefixMax THEN <<v>> ELSE <<PrefixMax>> \o Digits[v - PrefixMax]

(* decode_prefix_int *)
Undigit[ds \in Seq(0 .. 2 * DigitBase - 1)] ==
  IF ds = <<>> THEN 0 ELSE (Head(ds) % DigitBase) + DigitBase * Undigit[Tail(ds)]

DecodePrefixInt(bytes) == IF Head(bytes) < PrefixMax THEN Head(bytes) ELSE PrefixMax + Undigit[Tail(bytes)]

-----------------------------------------------------------------------------
(* The instructions of a block. *)
Indexed(i) == [kind |-> "indexed", int |-> EncodePrefixInt(i)]
Literal(i, f) == [kind |-> "literal", int |-> EncodePrefixInt(i), name |-> f.name, value |-> f.value]
SizeUpdate(n) == [kind |-> "size", int |-> EncodePrefixInt(n)]

(* Encoder::encode_header *)
EncodeHeader(acc, f) ==
  LET exact == IF FindStaticNameValue(f) # 0 THEN FindStaticNameValue(f) ELSE FindNameValue(acc.table, f)
      name  == IF FindStaticName(f) # 0 THEN FindStaticName(f) ELSE FindName(acc.table, f)
  IN  IF exact # 0 THEN [acc EXCEPT !.block = Append(@, Indexed(exact))]
      ELSE [acc EXCEPT !.block = Append(@, Literal(name, f)), !.table = Insert(@, f)]

(* Mutant: the smallest size is applied and only the last one is sent. *)
ResizedLatestOnly(e) ==
  IF e.latest = None THEN [table |-> e.table, block |-> <<>>]
  ELSE [table |-> SetMaxSize(SetMaxSize(e.table, e.min), e.latest), block |-> <<SizeUpdate(e.latest)>>]

(* The size updates at the start of Encoder::encode: the smallest seen, then the last. *)
Resized(e) ==
  CASE e.latest = None -> [table |-> e.table, block |-> <<>>]
    [] e.latest # None /\ e.min = e.latest ->
         [table |-> SetMaxSize(e.table, e.latest), block |-> <<SizeUpdate(e.latest)>>]
    [] OTHER -> [table |-> SetMaxSize(SetMaxSize(e.table, e.min), e.latest),
                 block |-> <<SizeUpdate(e.min), SizeUpdate(e.latest)>>]

(* Encoder::encode *)
Encode(headers) ==
  LET acc == FoldLeft(EncodeHeader, Resized(enc), headers)
  IN  /\ hpackLog.blocks < MaxBlocks /\ Len(wire) < MaxOnWire
      /\ enc' = [table |-> acc.table, min |-> None, latest |-> None]
      /\ wire' = Append(wire, [type |-> "block", block |-> acc.block, headers |-> headers])
      /\ hpackLog' = [hpackLog EXCEPT !.blocks = @ + 1]
      /\ UNCHANGED <<dec, offered>>

(* Encoder::update_max_table_size, as handle_settings calls it, and the SETTINGS ACK. *)
UpdateMaxTableSize ==
  /\ offered # <<>> /\ Len(wire) < MaxOnWire
  /\ LET n == Head(offered)
     IN  /\ enc' = [enc EXCEPT !.min = IF @ < n THEN @ ELSE n, !.latest = n]
         /\ wire' = Append(wire, [type |-> "ack", size |-> n])
  /\ offered' = Tail(offered)
  /\ UNCHANGED <<dec, hpackLog>>

-----------------------------------------------------------------------------
(* Decoder::get_indexed and get_name: no such index is a compression error. *)
Known(t, i) == i \in 1 .. Len(STATIC_TABLE) + Len(t.entries)

GetIndexed(t, i) == IF i <= Len(STATIC_TABLE) THEN STATIC_TABLE[i] ELSE t.entries[i - Len(STATIC_TABLE)]

(* One instruction of Decoder::decode; max is what SETTINGS allows. *)
DecodeStep(acc, ins, max) ==
  LET i == DecodePrefixInt(ins.int)
      f == [name |-> IF i = 0 THEN ins.name ELSE GetIndexed(acc.table, i).name, value |-> ins.value]
  IN  CASE acc.bad -> acc
        [] ~acc.bad /\ ins.kind = "indexed" ->
             IF Known(acc.table, i) THEN [acc EXCEPT !.headers = Append(@, GetIndexed(acc.table, i))]
             ELSE [acc EXCEPT !.bad = TRUE]
        [] ~acc.bad /\ ins.kind = "literal" ->
             IF i # 0 /\ ~Known(acc.table, i) THEN [acc EXCEPT !.bad = TRUE]
             ELSE [acc EXCEPT !.headers = Append(@, f), !.table = Insert(@, f)]
        [] OTHER ->
             IF acc.headers # <<>> \/ i > max THEN [acc EXCEPT !.bad = TRUE]
             ELSE [acc EXCEPT !.table = SetMaxSize(@, i)]

(* Decoder::decode *)
Decode ==
  /\ wire # <<>> /\ Head(wire).type = "block"
  /\ LET b   == Head(wire)
         acc == FoldLeft(LAMBDA a, ins : DecodeStep(a, ins, dec.max),
                         [table |-> dec.table, headers |-> <<>>, bad |-> FALSE], b.block)
     IN  /\ dec' = [dec EXCEPT !.table = acc.table]
         /\ hpackLog' = [hpackLog EXCEPT !.wrong = @ \/ acc.bad \/ acc.headers # b.headers]
  /\ wire' = Tail(wire)
  /\ UNCHANGED <<enc, offered>>

(* The decoder's side offers a new size, and applies it when it is acknowledged. *)
OfferSize(n) ==
  /\ hpackLog.resizes < MaxResizes
  /\ offered' = Append(offered, n)
  /\ hpackLog' = [hpackLog EXCEPT !.resizes = @ + 1]
  /\ UNCHANGED <<enc, dec, wire>>

SetMaxTableSize ==
  /\ wire # <<>> /\ Head(wire).type = "ack"
  /\ dec' = [dec EXCEPT !.max = Head(wire).size]
  /\ wire' = Tail(wire)
  /\ UNCHANGED <<enc, offered, hpackLog>>

HpackInit ==
  /\ enc = [table |-> [entries |-> <<>>, max |-> FirstSize], min |-> None, latest |-> None]
  /\ dec = [table |-> [entries |-> <<>>, max |-> FirstSize], max |-> FirstSize]
  /\ wire = <<>> /\ offered = <<>>
  /\ hpackLog = [blocks |-> 0, resizes |-> 0, wrong |-> FALSE]

HpackNext ==
  \/ \E headers \in HeaderLists : Encode(headers)
  \/ \E n \in TableSizes : OfferSize(n)
  \/ UpdateMaxTableSize \/ SetMaxTableSize \/ Decode

-----------------------------------------------------------------------------
(* Every block decodes to the headers that were encoded, with no compression error: the  *)
(* two dynamic tables evict the same entries through every insertion and every change of *)
(* the table size, and every index means the same field at both ends (Encoder::encode,   *)
(* Decoder::decode, DynamicTable::insert, DynamicTable::set_max_size).                   *)
TablesInStep ==
  /\ ~hpackLog.wrong
  /\ wire = <<>> /\ enc.latest = None => dec.table = enc.table

=============================================================================

-------------------------------- MODULE Huffman --------------------------------
(***************************************************************************)
(* The Huffman codec of header strings (huffman.rs of ringline-h2 and of      *)
(* ringline-h3, the same table and the same code in both).                    *)
(***************************************************************************)
EXTENDS Naturals, Sequences, SequencesExt

EOS == 256

(* HUFFMAN_TABLE: the code and its length in bits, from symbol 0 on. *)
Symbols0 ==
  <<<<\h1ff8, 13>>, <<\h7fffd8, 23>>, <<\hfffffe2, 28>>, <<\hfffffe3, 28>>, <<\hfffffe4, 28>>,
    <<\hfffffe5, 28>>, <<\hfffffe6, 28>>, <<\hfffffe7, 28>>, <<\hfffffe8, 28>>, <<\hffffea, 24>>,
    <<\h3ffffffc, 30>>, <<\hfffffe9, 28>>, <<\hfffffea, 28>>, <<\h3ffffffd, 30>>, <<\hfffffeb, 28>>,
    <<\hfffffec, 28>>, <<\hfffffed, 28>>, <<\hfffffee, 28>>, <<\hfffffef, 28>>, <<\hffffff0, 28>>,
    <<\hffffff1, 28>>, <<\hffffff2, 28>>, <<\h3ffffffe, 30>>, <<\hffffff3, 28>>, <<\hffffff4, 28>>,
    <<\hffffff5, 28>>, <<\hffffff6, 28>>, <<\hffffff7, 28>>, <<\hffffff8, 28>>, <<\hffffff9, 28>>,
    <<\hffffffa, 28>>, <<\hffffffb, 28>>, <<\h14, 6>>, <<\h3f8, 10>>, <<\h3f9, 10>>, <<\hffa, 12>>,
    <<\h1ff9, 13>>>>

Symbols37 ==
  <<<<\h15, 6>>, <<\hf8, 8>>, <<\h7fa, 11>>, <<\h3fa, 10>>, <<\h3fb, 10>>, <<\hf9, 8>>, <<\h7fb, 11>>,
    <<\hfa, 8>>, <<\h16, 6>>, <<\h17, 6>>, <<\h18, 6>>, <<\h0, 5>>, <<\h1, 5>>, <<\h2, 5>>, <<\h19, 6>>,
    <<\h1a, 6>>, <<\h1b, 6>>, <<\h1c, 6>>, <<\h1d, 6>>, <<\h1e, 6>>, <<\h1f, 6>>, <<\h5c, 7>>, <<\hfb, 8>>,
    <<\h7ffc, 15>>, <<\h20, 6>>, <<\hffb, 12>>, <<\h3fc, 10>>, <<\h1ffa, 13>>, <<\h21, 6>>, <<\h5d, 7>>,
    <<\h5e, 7>>, <<\h5f, 7>>, <<\h60, 7>>, <<\h61, 7>>, <<\h62, 7>>, <<\h63, 7>>, <<\h64, 7>>, <<\h65, 7>>,
    <<\h66, 7>>>>

Symbols76 ==
  <<<<\h67, 7>>, <<\h68, 7>>, <<\h69, 7>>, <<\h6a, 7>>, <<\h6b, 7>>, <<\h6c, 7>>, <<\h6d, 7>>, <<\h6e, 7>>,
    <<\h6f, 7>>, <<\h70, 7>>, <<\h71, 7>>, <<\h72, 7>>, <<\hfc, 8>>, <<\h73, 7>>, <<\hfd, 8>>, <<\h1ffb, 13>>,
    <<\h7fff0, 19>>, <<\h1ffc, 13>>, <<\h3ffc, 14>>, <<\h22, 6>>, <<\h7ffd, 15>>, <<\h3, 5>>, <<\h23, 6>>,
    <<\h4, 5>>, <<\h24, 6>>, <<\h5, 5>>, <<\h25, 6>>, <<\h26, 6>>, <<\h27, 6>>, <<\h6, 5>>, <<\h74, 7>>,
    <<\h75, 7>>, <<\h28, 6>>, <<\h29, 6>>, <<\h2a, 6>>, <<\h7, 5>>, <<\h2b, 6>>, <<\h76, 7>>, <<\h2c, 6>>,
    <<\h8, 5>>, <<\h9, 5>>, <<\h2d, 6>>>>

Symbols118 ==
  <<<<\h77, 7>>, <<\h78, 7>>, <<\h79, 7>>, <<\h7a, 7>>, <<\h7b, 7>>, <<\h7ffe, 15>>, <<\h7fc, 11>>,
    <<\h3ffd, 14>>, <<\h1ffd, 13>>, <<\hffffffc, 28>>, <<\hfffe6, 20>>, <<\h3fffd2, 22>>, <<\hfffe7, 20>>,
    <<\hfffe8, 20>>, <<\h3fffd3, 22>>, <<\h3fffd4, 22>>, <<\h3fffd5, 22>>, <<\h7fffd9, 23>>, <<\h3fffd6, 22>>,
    <<\h7fffda, 23>>, <<\h7fffdb, 23>>, <<\h7fffdc, 23>>, <<\h7fffdd, 23>>, <<\h7fffde, 23>>, <<\hffffeb, 24>>,
    <<\h7fffdf, 23>>, <<\hffffec, 24>>, <<\hffffed, 24>>, <<\h3fffd7, 22>>, <<\h7fffe0, 23>>, <<\hffffee, 24>>,
    <<\h7fffe1, 23>>, <<\h7fffe2, 23>>, <<\h7fffe3, 23>>, <<\h7fffe4, 23>>, <<\h1fffdc, 21>>, <<\h3fffd8, 22>>>>

Symbols155 ==
  <<<<\h7fffe5, 23>>, <<\h3fffd9, 22>>, <<\h7fffe6, 23>>, <<\h7fffe7, 23>>, <<\hffffef, 24>>, <<\h3fffda, 22>>,
    <<\h1fffdd, 21>>, <<\hfffe9, 20>>, <<\h3fffdb, 22>>, <<\h3fffdc, 22>>, <<\h7fffe8, 23>>, <<\h7fffe9, 23>>,
    <<\h1fffde, 21>>, <<\h7fffea, 23>>, <<\h3fffdd, 22>>, <<\h3fffde, 22>>, <<\hfffff0, 24>>, <<\h1fffdf, 21>>,
    <<\h3fffdf, 22>>, <<\h7fffeb, 23>>, <<\h7fffec, 23>>, <<\h1fffe0, 21>>, <<\h1fffe1, 21>>, <<\h3fffe0, 22>>,
    <<\h1fffe2, 21>>, <<\h7fffed, 23>>, <<\h3fffe1, 22>>, <<\h7fffee, 23>>, <<\h7fffef, 23>>, <<\hfffea, 20>>,
    <<\h3fffe2, 22>>, <<\h3fffe3, 22>>, <<\h3fffe4, 22>>, <<\h7ffff0, 23>>, <<\h3fffe5, 22>>, <<\h3fffe6, 22>>,
    <<\h7ffff1, 23>>>>

Symbols192 ==
  <<<<\h3ffffe0, 26>>, <<\h3ffffe1, 26>>, <<\hfffeb, 20>>, <<\h7fff1, 19>>, <<\h3fffe7, 22>>, <<\h7ffff2, 23>>,
    <<\h3fffe8, 22>>, <<\h1ffffec, 25>>, <<\h3ffffe2, 26>>, <<\h3ffffe3, 26>>, <<\h3ffffe4, 26>>,
    <<\h7ffffde, 27>>, <<\h7ffffdf, 27>>, <<\h3ffffe5, 26>>, <<\hfffff1, 24>>, <<\h1ffffed, 25>>,
    <<\h7fff2, 19>>, <<\h1fffe3, 21>>, <<\h3ffffe6, 26>>, <<\h7ffffe0, 27>>, <<\h7ffffe1, 27>>,
    <<\h3ffffe7, 26>>, <<\h7ffffe2, 27>>, <<\hfffff2, 24>>, <<\h1fffe4, 21>>, <<\h1fffe5, 21>>,
    <<\h3ffffe8, 26>>, <<\h3ffffe9, 26>>, <<\hffffffd, 28>>, <<\h7ffffe3, 27>>, <<\h7ffffe4, 27>>,
    <<\h7ffffe5, 27>>, <<\hfffec, 20>>, <<\hfffff3, 24>>, <<\hfffed, 20>>, <<\h1fffe6, 21>>, <<\h3fffe9, 22>>>>

Symbols229 ==
  <<<<\h1fffe7, 21>>, <<\h1fffe8, 21>>, <<\h7ffff3, 23>>, <<\h3fffea, 22>>, <<\h3fffeb, 22>>,
    <<\h1ffffee, 25>>, <<\h1ffffef, 25>>, <<\hfffff4, 24>>, <<\hfffff5, 24>>, <<\h3ffffea, 26>>,
    <<\h7ffff4, 23>>, <<\h3ffffeb, 26>>, <<\h7ffffe6, 27>>, <<\h3ffffec, 26>>, <<\h3ffffed, 26>>,
    <<\h7ffffe7, 27>>, <<\h7ffffe8, 27>>, <<\h7ffffe9, 27>>, <<\h7ffffea, 27>>, <<\h7ffffeb, 27>>,
    <<\hffffffe, 28>>, <<\h7ffffec, 27>>, <<\h7ffffed, 27>>, <<\h7ffffee, 27>>, <<\h7ffffef, 27>>,
    <<\h7fffff0, 27>>, <<\h3ffffee, 26>>, <<\h3fffffff, 30>>>>

HUFFMAN_TABLE == Symbols0 \o Symbols37 \o Symbols76 \o Symbols118
                 \o Symbols155 \o Symbols192 \o Symbols229

CodeBits ==
  [sym \in 0 .. EOS |-> LET e == HUFFMAN_TABLE[sym + 1]
                        IN  [i \in 1 .. e[2] |-> (e[1] \div 2 ^ (e[2] - i)) % 2]]

(* build_decode_tree: a node is the path to it; the leaves carry the symbols. *)
Leaves == {CodeBits[sym] : sym \in 0 .. EOS}
LeafSymbol == [path \in Leaves |-> CHOOSE sym \in 0 .. EOS : CodeBits[sym] = path]
Internal == UNION {{SubSeq(path, 1, k) : k \in 0 .. Len(path) - 1} : path \in Leaves}

DivCeil(n, k) == (n + k - 1) \div k

EncodedLen(text) == DivCeil(FoldLeft(LAMBDA n, sym : n + HUFFMAN_TABLE[sym + 1][2], 0, text), 8)

Ones(n) == [i \in 1 .. n |-> 1]

ByteOf(bits) == FoldLeft(LAMBDA n, b : 2 * n + b, 0, bits)

(* encode: the codes one after the other, the last byte filled up. *)
Bytes(bits) == [i \in 1 .. Len(bits) \div 8 |-> ByteOf(SubSeq(bits, 8 * i - 7, 8 * i))]

PaddedZeros(bits) == bits \o [i \in 1 .. 8 * DivCeil(Len(bits), 8) - Len(bits) |-> 0]

Padded(bits) == bits \o Ones(8 * DivCeil(Len(bits), 8) - Len(bits))

HuffmanEncode(text) == Bytes(Padded(FlattenSeq([i \in DOMAIN text |-> CodeBits[text[i]]])))

BitsOf(bytes) == [i \in 1 .. 8 * Len(bytes) |-> (bytes[(i + 7) \div 8] \div 2 ^ (7 - ((i - 1) % 8))) % 2]

(* decode: path is node_idx, and padding counts the bits of the last byte since the last      *)
(* symbol.                                                                                    *)
RECURSIVE Walk(_, _, _)
Walk(bits, i, acc) ==
  LET path == Append(acc.path, bits[i])
  IN  IF i > Len(bits) THEN acc
      ELSE CASE path \in Leaves /\ path # CodeBits[EOS] ->
                  Walk(bits, i + 1, [acc EXCEPT !.out = Append(@, LeafSymbol[path]), !.path = <<>>, !.padding = 0])
             [] path \in Internal ->
                  Walk(bits, i + 1, [acc EXCEPT !.path = path, !.padding = IF i > Len(bits) - 8 THEN @ + 1 ELSE @])
             [] OTHER -> [acc EXCEPT !.ok = FALSE]

(* The check of the padding: from the node reached, right as many times as bits were counted. *)
RightMost(path, n) ==
  LET stop == {k \in 0 .. n - 1 : path \o Ones(k) \in Leaves}
  IN  stop = {} \/ LeafSymbol[path \o Ones(CHOOSE k \in stop : \A j \in stop : k <= j)] = EOS

Unpadded(acc) ==
  [ok |-> acc.ok /\ (acc.path # <<>> => acc.padding <= 7 /\ RightMost(acc.path, acc.padding)),
   text |-> acc.out]

HuffmanDecode(bytes) ==
  Unpadded(Walk(BitsOf(bytes), 1, [ok |-> TRUE, out |-> <<>>, path |-> <<>>, padding |-> 0]))

=================================================================================

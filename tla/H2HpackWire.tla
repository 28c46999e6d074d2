---------------------------- MODULE H2HpackWire ----------------------------
(* The octets of a header block: the integers and strings of hpack/          *)
(* encoder.rs and decoder.rs.  H2Hpack decides which representation stands   *)
(* for a header; this module writes it and reads it back while the block     *)
(* arrives cut, at any octet, into HEADERS and CONTINUATION frames.          *)
(*                                                                           *)
(* A field is [rep, idx, name, val]: the representation, the index of the    *)
(* header or of its name (0: the name is spelt out), or the new table size.  *)
EXTENDS Integers, Sequences, SequencesExt, FiniteSetsExt

CONSTANTS Strings,     \* what a name or a value may be; "" among them
          Huffman,     \* the octets huffman::encode writes for a string (external):
                       \* some, and for no two strings the same
          Indices,     \* the indices and sizes the fields name
          MaxFields,   \* fields of the block
          MaxCuts      \* how often the block is cut

VARIABLES sent,   \* the fields written
          block,  \* octets of the block that have not arrived
          src,    \* the decoder's buffer: arrived, not consumed
          got,    \* the fields decoded
          err,    \* the DecoderError that ended decoding, "" for none
          cuts

vars == <<sent, block, src, got, err, cuts>>

(******************************** encoder.rs *******************************)
Varint[v \in Nat] == IF v >= 128 THEN <<128 + (v % 128)>> \o Varint[v \div 128] ELSE <<v>>
encode_int_one_byte(v, p) == v < 2^p - 1
encode_int(v, p, first) ==
  IF encode_int_one_byte(v, p) THEN <<first + v>>
  ELSE <<first + 2^p - 1>> \o Varint[v - (2^p - 1)]

(* The code writes one placeholder, the string behind it and, when the head  *)
(* is longer than the placeholder, moves the string from its last octet on.  *)
Shift_up(dst, from, by, n) ==
  [i \in DOMAIN dst |-> IF i \in (from + by)..(from + by + n - 1)
                        THEN dst[from + ((i - from) % by)] ELSE dst[i]]
Shift(dst, from, by, n) ==
  [i \in DOMAIN dst |-> IF i \in (from + by)..(from + by + n - 1) THEN dst[i - by] ELSE dst[i]]
encode_str(s) ==
  IF s = "" THEN <<0>>
  ELSE LET huff == Huffman[s]
           n == Len(huff)
           head == encode_int(n, 7, 128)
           k == Len(head)
           dst == Shift(<<0>> \o huff \o SubSeq(head, 2, k), 2, k - 1, n)
       IN  IF encode_int_one_byte(n, 7) THEN <<128 + n>> \o huff
           ELSE [i \in DOMAIN dst |-> IF i <= k THEN head[i] ELSE dst[i]]

Prefix(rep) == CASE rep = "indexed" -> <<7, 128>>
                 [] rep = "literal" -> <<6, 64>>
                 [] rep = "plain" -> <<4, 0>>
                 [] rep = "never" -> <<4, 16>>
                 [] rep = "size" -> <<5, 32>>
IsLiteral(rep) == rep \in {"literal", "plain", "never"}
encode_field(f) ==
  encode_int(f.idx, Prefix(f.rep)[1], Prefix(f.rep)[2])
    \o (IF ~IsLiteral(f.rep) THEN <<>>
        ELSE (IF f.idx = 0 THEN encode_str(f.name) ELSE <<>>) \o encode_str(f.val))

(******************************** decoder.rs *******************************)
MAX_BYTES == 5
Ok(v, rest) == [err |-> "", v |-> v, rest |-> rest]
Fail(e) == [err |-> e]
(* What is left once an integer is read; two errors ask for more octets.     *)
NeedMore == {"IntegerUnderflow", "UnexpectedEndOfStream", "StringUnderflow"}
Digits(buf, n) ==
  FoldFunction(+, 0, [i \in 2..n |-> (buf[i] % 128) * 128^(i - 2)])
decode_int(buf, p) ==
  LET mask == 2^p - 1
      last == {i \in 2..Len(buf) : i <= MAX_BYTES /\ buf[i] < 128}
  IN  CASE buf = <<>> -> Fail("IntegerUnderflow")
        [] buf # <<>> /\ buf[1] % 2^p < mask -> Ok(buf[1] % 2^p, Tail(buf))
        [] buf # <<>> /\ buf[1] % 2^p = mask /\ last # {} ->
             Ok(mask + Digits(buf, Min(last)), SubSeq(buf, Min(last) + 1, Len(buf)))
        [] OTHER -> Fail(IF Len(buf) >= MAX_BYTES THEN "IntegerOverflow" ELSE "IntegerUnderflow")

(* huffman::decode (external): the string of these octets, or an error.      *)
HuffmanDecode(raw) ==
  LET found == {s \in Strings \ {""} : Huffman[s] = raw}
  IN  IF found = {} THEN Fail("InvalidHuffmanCode") ELSE Ok(CHOOSE s \in found : TRUE, <<>>)
(* Its own encoder writes no string that is not Huffman coded, "" excepted.  *)
StringThen(s, rest) == IF s.err # "" THEN s ELSE Ok(s.v, rest)
StringOf(huff, n) ==
  IF n.err # "" THEN n
  ELSE IF n.v > Len(n.rest) THEN Fail("StringUnderflow")
  ELSE StringThen(IF huff THEN HuffmanDecode(SubSeq(n.rest, 1, n.v)) ELSE Ok("", <<>>),
                  SubSeq(n.rest, n.v + 1, Len(n.rest)))
try_decode_string(buf) ==
  IF buf = <<>> THEN Fail("UnexpectedEndOfStream") ELSE StringOf(buf[1] >= 128, decode_int(buf, 7))

representation(b) ==
  CASE b >= 128 -> "indexed"
    [] b \in 64..127 -> "literal"
    [] b \in 0..15 -> "plain"
    [] b \in 16..31 -> "never"
    [] b \in 32..63 -> "size"
Field(rep, idx, name, val) == [rep |-> rep, idx |-> idx, name |-> name, val |-> val]
WithValue(rep, idx, name, val) ==
  IF val.err # "" THEN val ELSE Ok(Field(rep, idx, name, val.v), val.rest)
WithName(rep, idx, name) ==
  IF name.err # "" THEN name ELSE WithValue(rep, idx, name.v, try_decode_string(name.rest))
FieldOf(rep, n) ==
  IF n.err # "" THEN n
  ELSE IF ~IsLiteral(rep) THEN Ok(Field(rep, n.v, "", ""), n.rest)
  ELSE WithName(rep, n.v, IF n.v = 0 THEN try_decode_string(n.rest) ELSE Ok("", n.rest))
decode_field(buf) ==
  LET rep == representation(buf[1]) IN FieldOf(rep, decode_int(buf, Prefix(rep)[1]))

(* Decoder::decode: every field that has arrived whole; what is left stays.  *)
RECURSIVE decode(_, _)
DecodeOn(buf, fields, r) ==
  IF r.err # "" THEN [src |-> buf, got |-> fields, err |-> IF r.err \in NeedMore THEN "" ELSE r.err]
  ELSE decode(r.rest, Append(fields, r.v))
decode(buf, fields) ==
  IF buf = <<>> THEN [src |-> buf, got |-> fields, err |-> ""]
  ELSE DecodeOn(buf, fields, decode_field(buf))

(********************************* the block *******************************)
Fields ==
  {f \in [rep : {"indexed", "literal", "plain", "never", "size"}, idx : Indices,
          name : Strings, val : Strings] :
     /\ f.name # "" <=> (IsLiteral(f.rep) /\ f.idx = 0)
     /\ f.val # "" => IsLiteral(f.rep)
     /\ f.rep = "indexed" => f.idx # 0}

Init ==
  /\ sent = <<>> /\ block = <<>> /\ src = <<>> /\ got = <<>> /\ err = "" /\ cuts = 0

(* Encoder::encode writes the next field into the block, which is whole      *)
(* before its first frame leaves.                                            *)
Encode ==
  /\ cuts = 0 /\ Len(sent) < MaxFields
  /\ \E f \in Fields : sent' = Append(sent, f) /\ block' = block \o encode_field(f)
  /\ UNCHANGED <<src, got, err, cuts>>

(* A frame brings n more octets: HeaderBlock::load decodes what it can.      *)
Load(n) ==
  /\ err = "" /\ block # <<>>
  /\ n = Len(block) \/ cuts < MaxCuts
  /\ cuts' = cuts + 1
  /\ block' = SubSeq(block, n + 1, Len(block))
  /\ \E r \in {decode(src \o SubSeq(block, 1, n), got)} :
       src' = r.src /\ got' = r.got /\ err' = r.err
  /\ UNCHANGED sent

Next ==
  \/ Encode
  \/ \E n \in 1..Len(block) : Load(n)
Spec == Init /\ [][Next]_vars

(* However the block is cut, the decoder reads back the fields the encoder   *)
(* wrote, in their order and each exactly once: encode_int and decode_int,   *)
(* encode_str and try_decode_string agree on every length and prefix.        *)
FieldsInOrder == IsPrefix(got, sent)
(* Nothing the encoder writes is refused, and a cut, wherever it falls, only *)
(* ever asks for more: the whole block decodes once it has arrived.          *)
BlockDecodes == err = "" /\ (cuts > 0 /\ block = <<>> => got = sent /\ src = <<>>)
(* The decoder waits only for a field that has not arrived whole: what it    *)
(* keeps back is never a complete representation, so decode_int and          *)
(* try_decode_string ask for more at every cut that needs it and at no other.*)
KeepsPartOfOne ==
  src # <<>> /\ err = "" =>
    /\ Len(got) < Len(sent)
    /\ Len(src) < Len(encode_field(sent[Len(got) + 1]))
    /\ IsPrefix(src, encode_field(sent[Len(got) + 1]))
=============================================================================

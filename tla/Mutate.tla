------------------------------- MODULE Mutate -------------------------------
(* The header mutation filter, on octets: the code generate_mutate_filter    *)
(* writes, _mutate_msg of base.bpf.c and the ranges of the context that      *)
(* later removals and the framing of the message rely on.                    *)
(*                                                                           *)
(* A message is [h2, start, headers, body]: headers is a sequence of         *)
(* <<key, value>>, each a sequence of octets.  Octets counts it out.         *)
EXTENDS Integers, Sequences, SequencesExt

CONSTANTS Messages,   \* what clients send: no header name occurs twice in one
          Filters     \* [remove, add] of a mutate filter, in the order the code has them

VARIABLES orig, filter,   \* the message and the filter that runs on it
          msg,            \* the octets of the sk_msg
          ranges,         \* ctx->{key}_range: key -> [idx, len], len 0 if the message lacks it
          done_idx,       \* ctx->done_idx, the end of the header block
          verdict
vars == <<orig, filter, msg, ranges, done_idx, verdict>>

CR == 13
LF == 10
(* The ranges are unsigned; _mutate_msg takes them as u16.                   *)
U16(x) == x % 65536

(* A header on the wire: a line of text, or a literal with indexing and two  *)
(* lengths whose first bit says Huffman.                                     *)
Line(h) == h[1] \o <<58, 32>> \o h[2] \o <<CR, LF>>
h2_hdr(h) == <<64, 128 + Len(h[1])>> \o h[1] \o <<128 + Len(h[2])>> \o h[2]
Header(h2, h) == IF h2 THEN h2_hdr(h) ELSE Line(h)
Block(h2, hs) == FlattenSeq([i \in DOMAIN hs |-> Header(h2, hs[i])])
FrameHead(n) == <<(n \div 65536) % 256, (n \div 256) % 256, n % 256, 1, 4, 0, 0, 0, 1>>
HeadOf(m) ==
  IF m.h2 THEN FrameHead(Len(Block(TRUE, m.headers))) \o Block(TRUE, m.headers)
  ELSE m.start \o <<CR, LF>> \o Block(FALSE, m.headers) \o <<CR, LF>>
Octets(m) == HeadOf(m) \o m.body

(* The parser's captures: where the value of each variable stands, from 0.   *)
Captures(m, keys) ==
  [k \in keys |->
     LET at == {i \in DOMAIN m.headers : m.headers[i][1] = k}
         i == CHOOSE j \in at : TRUE
         before == IF m.h2 THEN 9 ELSE Len(m.start) + 2
     IN  IF at = {} THEN [idx |-> 0, len |-> 0]
         ELSE [idx |-> before + Len(Block(m.h2, SubSeq(m.headers, 1, i - 1)))
                         + Len(k) + (IF m.h2 THEN 3 ELSE 2),
               len |-> Len(m.headers[i][2])]]
(* The variables of the context: the keys of all filters and a length.       *)
ContentLength == <<99>>
Keys == {ContentLength} \union UNION {ToSet(f.remove) : f \in Filters}

(******************************* base.bpf.c ********************************)
Cut(s, idx, n) == SubSeq(s, 1, idx) \o SubSeq(s, idx + n + 1, Len(s))
Insert(s, idx, t) == SubSeq(s, 1, idx) \o t \o SubSeq(s, idx + 1, Len(s))
FrameLen(s) == s[1] * 65536 + s[2] * 256 + s[3]
(* The frame's length field, then pop and push: the code removes or inserts. *)
_mutate_msg(s, range, str, h2) ==
  LET n == FrameLen(s) + Len(str) - range.len
      t == IF h2 THEN FrameHead(n) \o SubSeq(s, 10, Len(s)) ELSE s
  IN  Insert(Cut(t, range.idx, range.len), range.idx, str)

(******************************** compiler.rs ******************************)
(* ok: no edit has failed so far; a pop past the end of the message does.    *)
State(s, rs, done, ok) == [msg |-> s, ranges |-> rs, done |-> done, ok |-> ok]
offset(rs, idx, off) ==
  [k \in DOMAIN rs |-> IF rs[k].idx >= idx THEN [rs[k] EXCEPT !.idx = U16(@ + off)] ELSE rs[k]]
RemoveHeader(h2, st, key) ==
  LET r == st.ranges[key]
      range == [idx |-> r.idx - (Len(key) + 2), len |-> r.len + Len(key) + 4]
  IN  IF r.len = 0 \/ ~st.ok THEN st
      ELSE IF range.idx + range.len > Len(st.msg) THEN [st EXCEPT !.ok = FALSE]
      ELSE State(_mutate_msg(st.msg, range, <<>>, h2),
                 offset(st.ranges, range.idx, -range.len), st.done - range.len, TRUE)
append_idx_end(h2, done) == done
append_idx(h2, done) == IF h2 THEN done ELSE done - 2
AddHeader(h2, st, h) ==
  LET new == Header(h2, h)
  IN  IF ~st.ok THEN st
      ELSE State(_mutate_msg(st.msg, [idx |-> append_idx(h2, st.done), len |-> 0], new, h2),
                 st.ranges, st.done + Len(new), TRUE)
(* The whole filter: the removals, then the additions.                       *)
Mutated(h2, st, f) ==
  FoldLeft(LAMBDA x, h : AddHeader(h2, x, h),
           FoldLeft(LAMBDA x, k : RemoveHeader(h2, x, k), st, f.remove), f.add)

Init ==
  /\ orig \in Messages /\ filter \in Filters
  /\ msg = Octets(orig)
  /\ ranges = Captures(orig, Keys)
  /\ done_idx = Len(HeadOf(orig))
  /\ verdict = "none"
MutateFilter ==
  /\ verdict = "none"
  /\ LET st == Mutated(orig.h2, State(msg, ranges, done_idx, TRUE), filter)
     IN  /\ msg' = st.msg /\ ranges' = st.ranges /\ done_idx' = st.done
         /\ verdict' = IF st.ok THEN "PASS" ELSE "DROP"
  /\ UNCHANGED <<orig, filter>>
(* A push, pop or pull for which the kernel has no memory drops the message. *)
MutateFails ==
  /\ verdict = "none"
  /\ verdict' = "DROP"
  /\ UNCHANGED <<orig, filter, msg, ranges, done_idx>>
Next == MutateFilter \/ MutateFails
Spec == Init /\ [][Next]_vars

(* The message without the headers to remove, with those to add at the end.  *)
Wanted ==
  [orig EXCEPT !.headers =
     SelectSeq(@, LAMBDA h : ~Contains(filter.remove, h[1])) \o filter.add]
(* The octets that go on are the message the configuration asks for: every   *)
(* other header, the end of the block, the body and the length of an HTTP/2  *)
(* frame included.                                                           *)
MessageAsWanted == verdict = "PASS" => msg = Octets(Wanted)
(* After the filter the context still describes the message: done_idx is     *)
(* the end of its head, which the verdict's byte count is made of, and the   *)
(* range of every variable it has is where its value now stands.             *)
ContextFollows ==
  verdict = "PASS" =>
    /\ done_idx = Len(HeadOf(Wanted))
    /\ \A k \in Keys \ ToSet(filter.remove) :
         k \notin {filter.add[i][1] : i \in DOMAIN filter.add} => ranges[k] = Captures(Wanted, Keys)[k]
=============================================================================

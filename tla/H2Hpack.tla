------------------------------ MODULE H2Hpack ------------------------------
(* Header compression of the HTTP/2 library: hpack/encoder.rs, table.rs,     *)
(* decoder.rs and header.rs.  A header is [n, v, s]: its name, its value and *)
(* whether the value is marked sensitive; the name "" is the None that a     *)
(* HeaderMap yields for a further value of the same name.  A representation  *)
(* is a record, not its octets: H2HpackWire has the integers.                *)
EXTENDS Integers, Sequences, SequencesExt, FiniteSetsExt

CONSTANTS HashOf(_),   \* hash_header: FNV of the name, 16 bits
          LenOf(_),    \* the length of a header: 32, its name and its value
          RawCap       \* capacity of the first allocation (8 in reserve_one)

None == [none |-> TRUE]
NoIndex == 0   \* a slot's index is negative
Hdr(n, v, s) == [n |-> n, v |-> v, s |-> s]

(**************************** the static table *****************************)
FieldNames ==
  <<"accept-charset", "accept-encoding", "accept-language", "accept-ranges", "accept",
    "access-control-allow-origin", "age", "allow", "authorization", "cache-control",
    "content-disposition", "content-encoding", "content-language", "content-length",
    "content-location", "content-range", "content-type", "cookie", "date", "etag", "expect",
    "expires", "from", "host", "if-match", "if-modified-since", "if-none-match", "if-range",
    "if-unmodified-since", "last-modified", "link", "location", "max-forwards",
    "proxy-authenticate", "proxy-authorization", "range", "referer", "refresh",
    "retry-after", "server", "set-cookie", "strict-transport-security",
    "transfer-encoding", "user-agent", "vary", "via", "www-authenticate">>
Statuses == <<"200", "204", "206", "304", "400", "404", "500">>
DYN_OFFSET == 62

get_static(i) ==
  CASE i = 1 -> Hdr(":authority", "", FALSE)
    [] i \in 2..3 -> Hdr(":method", <<"GET", "POST">>[i - 1], FALSE)
    [] i \in 4..5 -> Hdr(":path", <<"/", "/index.html">>[i - 3], FALSE)
    [] i \in 6..7 -> Hdr(":scheme", <<"http", "https">>[i - 5], FALSE)
    [] i \in 8..14 -> Hdr(":status", Statuses[i - 7], FALSE)
    [] i \in 15..61 -> Hdr(FieldNames[i - 14], IF i = 16 THEN "gzip, deflate" ELSE "", FALSE)

(* The index of the name and whether the value matches too; 0 for no match.  *)
Among(base, values, v) ==
  IF Contains(values, v) THEN <<base + (CHOOSE j \in DOMAIN values : values[j] = v) - 1, TRUE>>
  ELSE <<base, FALSE>>
index_static(h) ==
  CASE h.n = ":authority" -> <<1, FALSE>>
    [] h.n = ":method" -> Among(2, <<"GET", "POST">>, h.v)
    [] h.n = ":path" -> Among(4, <<"/", "/index.html">>, h.v)
    [] h.n = ":scheme" -> Among(6, <<"http", "https">>, h.v)
    [] h.n = ":status" -> Among(8, Statuses, h.v)
    [] Contains(FieldNames, h.n) ->
         LET i == 14 + CHOOSE j \in DOMAIN FieldNames : FieldNames[j] = h.n
         IN  <<i, i = 16 /\ h.v = "gzip, deflate">>
    [] OTHER -> <<0, FALSE>>

is_sensitive(h) == h.s
skip_value_index(h) ==
  h.n \in {"age", "authorization", "content-length", "etag", "if-modified-since",
           "if-none-match", "location", "cookie", "set-cookie", ":path"}

(************************* the encoder's table *****************************)
(* indices is a robin-hood hash of the names: a Pos [index, hash] or None.   *)
(* A slot's index counts from the insertion on, so it stays the same while   *)
(* newer slots push the deque; index + inserted is its place in slots.       *)
NewTable(max) ==
  [indices |-> <<>>, slots |-> <<>>, inserted |-> 0, size |-> 0, max |-> max, stuck |-> FALSE]
Cap(t) == Len(t.indices)
usable_capacity(cap) == cap - cap \div 4
At(t, p) == t.indices[(p % Cap(t)) + 1]
Slot(t, index) == t.slots[index + t.inserted + 1]
desired_pos(t, hash) == hash % Cap(t)
probe_distance(t, hash, p) == (p + Cap(t) - desired_pos(t, hash)) % Cap(t)
(* A function over 1..n, as a tuple.                                         *)
Tuple(f) == f \o <<>>
Empties(n) == Tuple([i \in 1..n |-> None])
(* The steps of a probe loop before it is back where it began, and the first *)
(* of those at which it stops; it runs on for ever when there is none, which *)
(* the flag stuck records.                                                   *)
ProbeSteps(t) == 0..(Cap(t) - 1)
FirstOf(steps) == IF steps = {} THEN -1 ELSE Min(steps)
(* The first step from bucket p on at which there is an empty one.           *)
FirstEmpty(t, p) == FirstOf({d \in ProbeSteps(t) : At(t, p + d) = None})

IndexNew(st, h) ==
  IF st[1] = 0 THEN [k |-> "NotIndexed", i |-> 0, h |-> h]
  ELSE [k |-> IF st[2] THEN "Indexed" ELSE "Name", i |-> st[1], h |-> h]

(* reinsert_entry_in_order: the first empty bucket.                          *)
reinsert(t, pos) ==
  LET want == desired_pos(t, pos.hash)
  IN  [t EXCEPT !.indices[((want + FirstEmpty(t, want)) % Cap(t)) + 1] = pos]
(* The buckets from the first entry that is where its hash wants it on.      *)
From(s, first) == SubSeq(s, first, Len(s)) \o SubSeq(s, 1, first - 1)
Ideal(t) ==
  FirstOf({d \in ProbeSteps(t) : At(t, d) # None /\ probe_distance(t, At(t, d).hash, d) = 0})
grow(t, cap) ==
  FoldLeft(LAMBDA u, pos : IF pos = None THEN u ELSE reinsert(u, pos),
           [t EXCEPT !.indices = Empties(cap)],
           From(t.indices, IF Ideal(t) < 0 THEN 1 ELSE Ideal(t) + 1))
reserve_one(t) ==
  IF Len(t.slots) # usable_capacity(Cap(t)) THEN t
  ELSE IF t.slots = <<>> THEN [t EXCEPT !.indices = Empties(RawCap)]
  ELSE grow(t, 2 * Cap(t))

(* How far bucket p lies behind bucket q.                                    *)
Behind(t, p, q) == (p + Cap(t) - q) % Cap(t)
MoveBack(t, hole, stop) ==
  [t EXCEPT !.indices = Tuple([i \in 1..Cap(t) |->
     IF Behind(t, i - 1, hole) < stop THEN At(t, i)
     ELSE IF Behind(t, i - 1, hole) = stop THEN None ELSE @[i]])]
remove_phase_two_none(t, hole) == t
(* remove_phase_two: the displaced entries after the hole move back by one.  *)
remove_phase_two(t, hole) ==
  MoveBack(t, hole, FirstOf({d \in ProbeSteps(t) :
    \/ At(t, hole + 1 + d) = None
    \/ probe_distance(t, At(t, hole + 1 + d).hash, (hole + 1 + d) % Cap(t)) = 0}))
(* The step from the bucket of hash on at which the Pos of index is found.   *)
Lookup(t, hash, index) ==
  FirstOf({d \in ProbeSteps(t) : /\ At(t, desired_pos(t, hash) + d) # None
                                 /\ At(t, desired_pos(t, hash) + d).index = index})
(* prev is the last slot of the name that is being inserted, or NoIndex;     *)
(* p is the bucket of the slot that went.                                    *)
Unindex(t, slot, index, p, prev) ==
  IF slot.next # NoIndex THEN [t EXCEPT !.indices[p + 1].index = slot.next]
  ELSE IF prev = index THEN [t EXCEPT !.indices[p + 1].index = -(t.inserted + 1)]
  ELSE remove_phase_two([t EXCEPT !.indices[p + 1] = None], p)
EvictSlot(t, slot, index, d, prev) ==
  IF d < 0 THEN [t EXCEPT !.stuck = TRUE]
  ELSE Unindex(t, slot, index, (desired_pos(t, slot.hash) + d) % Cap(t), prev)
evict(t, prev) ==
  LET index == Len(t.slots) - 1 - t.inserted
  IN  EvictSlot([t EXCEPT !.slots = Front(@), !.size = @ - LenOf(Last(t.slots).h)], Last(t.slots),
                index, Lookup(t, Last(t.slots).hash, index), prev)
RECURSIVE converge(_, _)
converge(t, prev) ==
  IF t.size <= t.max \/ t.stuck THEN t ELSE converge(evict(t, prev), prev)
resize(t, size) ==
  IF size = 0 THEN [NewTable(0) EXCEPT !.indices = Empties(Cap(t))]
  ELSE converge([t EXCEPT !.max = size], NoIndex)

tinsert(t, h, hash) ==
  [t EXCEPT !.inserted = @ + 1,
            !.slots = <<[hash |-> hash, h |-> h, next |-> NoIndex]>> \o @]
RECURSIVE chain_end(_, _, _)
(* The slot of the name's list whose value matches, else the last one.       *)
chain_end(t, index, h) ==
  IF Slot(t, index).h.v = h.v \/ Slot(t, index).next = NoIndex THEN index
  ELSE chain_end(t, Slot(t, index).next, h)
(* The new slot becomes the next of slot index, unless that one was evicted. *)
LinkNew(t, index) ==
  IF index + t.inserted < Len(t.slots)
  THEN [t EXCEPT !.slots[index + t.inserted + 1].next = -t.inserted] ELSE t
OccupiedAt(t, h, hash, index, st) ==
  LET real == index + t.inserted + DYN_OFFSET IN
  IF Slot(t, index).h.v = h.v THEN <<t, [k |-> "Indexed", i |-> real, h |-> h]>>
  ELSE IF is_sensitive(h) THEN <<t, [k |-> "Name", i |-> real, h |-> h]>>
  ELSE <<LinkNew(tinsert(converge([t EXCEPT !.size = @ + LenOf(h)], index), h, hash), index),
         [k |-> "InsertedValue", h |-> h, i |-> IF st[1] # 0 THEN st[1] ELSE real]>>
index_occupied(t, h, hash, first, st) == OccupiedAt(t, h, hash, chain_end(t, first, h), st)

(* Evictions may have emptied buckets before the one the probe stopped at.   *)
RECURSIVE step_back(_, _, _)
step_back(t, p, dist) ==
  LET back == (p + Cap(t) - 1) % Cap(t) IN
  IF dist # 0 /\ (At(t, back) = None \/ probe_distance(t, At(t, back).hash, back) < dist - 1)
  THEN step_back(t, back, dist - 1) ELSE p
(* The newest slot's Pos takes bucket p; those of the run that follows move  *)
(* on by one.                                                                *)
ShiftFrom(t, hash, p, run) ==
  [t EXCEPT !.stuck = @ \/ run < 0,
            !.indices = Tuple([i \in 1..Cap(t) |->
              IF Behind(t, i - 1, p) = 0 THEN [index |-> -t.inserted, hash |-> hash]
              ELSE IF Behind(t, i - 1, p) <= run THEN At(t, i - 2 + Cap(t)) ELSE @[i]])]
InsertPos(t, hash, p) == ShiftFrom(t, hash, p, FirstEmpty(t, p))
index_vacant(t, h, hash, dist, p, st) ==
  IF is_sensitive(h) THEN <<t, IndexNew(st, h)>>
  ELSE LET room == converge([t EXCEPT !.size = @ + LenOf(h)], NoIndex)
       IN  <<InsertPos(tinsert(room, h, hash), hash,
                       IF t.size + LenOf(h) > t.max THEN step_back(room, p, dist) ELSE p),
             [k |-> IF st[1] # 0 THEN "InsertedValue" ELSE "Inserted", i |-> st[1], h |-> h]>>

(* The probe loop ends at bucket p after d steps: at an empty bucket, at an  *)
(* entry closer to its home, or at the name's own.                           *)
Vacant(t, p, d) == At(t, p) = None \/ probe_distance(t, At(t, p).hash, p % Cap(t)) < d
SameName(t, p, h) == At(t, p).hash = HashOf(h.n) /\ Slot(t, At(t, p).index).h.n = h.n
Probe(t, h, want) ==
  FirstOf({d \in ProbeSteps(t) : Vacant(t, want + d, d) \/ SameName(t, want + d, h)})
IndexAt(t, h, st, want, d) ==
  IF d < 0 THEN <<[t EXCEPT !.stuck = TRUE], IndexNew(st, h)>>
  ELSE IF Vacant(t, want + d, d)
  THEN index_vacant(t, h, HashOf(h.n), d, (want + d) % Cap(t), st)
  ELSE index_occupied(t, h, HashOf(h.n), At(t, want + d).index, st)
IndexReserved(t, h, st) ==
  LET want == desired_pos(t, HashOf(h.n)) IN
  IF Cap(t) = 0 THEN <<t, IndexNew(st, h)>> ELSE IndexAt(t, h, st, want, Probe(t, h, want))
index_dynamic(t, h, st) ==
  IndexReserved(IF LenOf(h) + t.size < t.max \/ ~is_sensitive(h) THEN reserve_one(t) ELSE t, h, st)

(* Table::index: the table after it and how the header is to be sent.        *)
IndexWith(t, h, st) ==
  IF skip_value_index(h) THEN <<t, IndexNew(st, h)>>
  ELSE IF st[2] \/ LenOf(h) * 4 > t.max * 3 THEN <<t, IndexNew(st, h)>>
  ELSE index_dynamic(t, h, st)
index(t, h) == IndexWith(t, h, index_static(h))

(******************************* encoder.rs ********************************)
(* upd is the size_update: <<>>, One <<v>> or Two <<min, max>>.              *)
NewEncoder(max) == [t |-> NewTable(max), upd |-> <<>>]
update_max_size(e, val) ==
  [e EXCEPT !.upd =
     CASE Len(@) = 0 -> IF val # e.t.max THEN <<val>> ELSE <<>>
       [] Len(@) = 1 -> IF val > @[1] /\ @[1] <= e.t.max THEN <<@[1], val>> ELSE <<val>>
       [] Len(@) = 2 -> IF val < @[1] THEN <<val>> ELSE <<@[1], val>>]

Indexed(i) == [k |-> "indexed", i |-> i]
Literal(i, n, v, ix, never) == [k |-> "literal", i |-> i, n |-> n, v |-> v, ix |-> ix, never |-> never]
SizeUpdate(n) == [k |-> "size", i |-> n]

encode_header(x) ==
  CASE x.k = "Indexed" -> Indexed(x.i)
    [] x.k = "Name" -> Literal(x.i, "", x.h.v, FALSE, x.h.s)
    [] x.k = "Inserted" -> Literal(0, x.h.n, x.h.v, TRUE, FALSE)
    [] x.k = "InsertedValue" -> Literal(x.i, "", x.h.v, TRUE, FALSE)
    [] x.k = "NotIndexed" -> Literal(0, x.h.n, x.h.v, FALSE, x.h.s)
resolve_idx_name(x) == x.i
resolve_idx(x) == IF x.k \in {"Inserted", "InsertedValue"} THEN DYN_OFFSET ELSE x.i
encode_header_without_name(last, h) ==
  IF last.k = "NotIndexed" THEN Literal(0, last.h.n, h.v, FALSE, h.s)
  ELSE Literal(resolve_idx(last), "", h.v, FALSE, h.s)
encode_size_updates_last(e) == [t |-> IF e.upd = <<>> THEN e.t ELSE resize(e.t, Last(e.upd)), upd |-> <<>>]
encode_size_updates(e) == [t |-> FoldLeft(resize, e.t, e.upd), upd |-> <<>>]
(* The encoder after a header block and the block's representations.         *)
AfterIndex(out, x) == [t |-> x[1], last |-> x[2], out |-> Append(out, encode_header(x[2]))]
encode_step(acc, h) ==
  IF h.n = "" THEN [acc EXCEPT !.out = Append(@, encode_header_without_name(acc.last, h))]
  ELSE AfterIndex(acc.out, index(acc.t, h))
Encoded(end) == <<[t |-> end.t, upd |-> <<>>], end.out>>
encode(e, hs) ==
  Encoded(FoldLeft(encode_step, [t |-> encode_size_updates(e).t, last |-> None,
                                 out |-> [i \in DOMAIN e.upd |-> SizeUpdate(e.upd[i])]], hs))

(******************************* decoder.rs ********************************)
(* pend is max_size_update (-1 for None), last is last_max_update.           *)
NewDecoder(max) == [entries |-> <<>>, size |-> 0, max |-> max, last |-> max, pend |-> -1]
queue_size_update(d, n) == [d EXCEPT !.pend = IF n > @ THEN n ELSE @]
RECURSIVE drop_oldest(_, _)
drop_oldest(d, room) ==
  IF d.size + room <= d.max \/ d.entries = <<>> THEN d
  ELSE drop_oldest([d EXCEPT !.size = @ - LenOf(Last(d.entries)), !.entries = Front(@)], room)
AddEntry(d, h) ==
  IF d.size + LenOf(h) > d.max THEN d
  ELSE [d EXCEPT !.size = @ + LenOf(h), !.entries = <<h>> \o @]
dinsert(d, h) == AddEntry(drop_oldest(d, LenOf(h)), h)
set_max_size(d, n) == drop_oldest([d EXCEPT !.max = n], 0)
(* Table::get; None is InvalidTableIndex.                                    *)
get(d, i) ==
  IF i = 0 \/ i - DYN_OFFSET >= Len(d.entries) THEN None
  ELSE IF i < DYN_OFFSET THEN get_static(i) ELSE d.entries[i - DYN_OFFSET + 1]
(* One representation: acc is [d, out, resize, err].                         *)
decode_step(acc, r) ==
  LET d == acc.d
      name == IF r.k = "literal" /\ r.i = 0 THEN Hdr(r.n, "", FALSE) ELSE get(d, r.i)
      h == IF r.k = "literal" THEN Hdr(name.n, r.v, FALSE) ELSE name
      fail == [acc EXCEPT !.err = TRUE]
  IN  IF acc.err THEN acc
      ELSE IF r.k = "size"
      THEN IF ~acc.resize \/ r.i > d.last THEN fail ELSE [acc EXCEPT !.d = set_max_size(d, r.i)]
      ELSE IF name = None THEN fail
      ELSE [acc EXCEPT !.resize = FALSE, !.out = Append(@, h),
                       !.d = IF r.k = "literal" /\ r.ix THEN dinsert(d, h) ELSE d]
(* Decoder::decode of what one frame holds: [d, out, resize, err].           *)
decode(d, reps) ==
  FoldLeft(decode_step, [d |-> [d EXCEPT !.last = IF d.pend >= 0 THEN d.pend ELSE @, !.pend = -1],
                         out |-> <<>>, resize |-> TRUE, err |-> FALSE], reps)
=============================================================================

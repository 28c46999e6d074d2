----------------------------- MODULE H2Tables ------------------------------
(* The header tables of two peers in step: the encoder sends a block of one  *)
(* or two headers, the decoder reads it, and now and then the table's limit  *)
(* changes (SETTINGS_HEADER_TABLE_SIZE, acknowledged).  What is explored is  *)
(* the encoder's table: its robin-hood index, the chains of one name's       *)
(* values, eviction and growth.                                              *)
EXTENDS H2Hpack

CONSTANTS Headers,    \* headers to send
          Sizes,      \* limits the decoder's side may announce
          MaxBlocks,  \* blocks sent
          MaxChanges  \* changes of the limit

VARIABLES e, d,   \* the encoder and the decoder
          sent,   \* the headers of the last block
          got,    \* what the decoder made of them
          n       \* blocks and changes so far

vars == <<e, d, sent, got, n>>

Init ==
  /\ e = NewEncoder(5) /\ d = NewDecoder(5)
  /\ sent = <<>> /\ got = <<>> /\ n = [blocks |-> 0, changes |-> 0]

SendBlock ==
  /\ n.blocks < MaxBlocks
  /\ \E h \in Headers, more \in {<<>>, <<Hdr("", "9", FALSE)>>} :
       \E x \in {encode(e, <<h>> \o more)} : \E y \in {decode(d, x[2])} :
         /\ e' = x[1] /\ d' = y.d
         /\ sent' = <<h>> \o more
         /\ got' = IF y.err THEN <<"error">> ELSE y.out
  /\ n' = [n EXCEPT !.blocks = @ + 1]
ChangeLimit ==
  /\ n.changes < MaxChanges
  /\ \E s \in Sizes : e' = update_max_size(e, s) /\ d' = queue_size_update(d, s)
  /\ n' = [n EXCEPT !.changes = @ + 1]
  /\ UNCHANGED <<sent, got>>
Next == SendBlock \/ ChangeLimit
Spec == Init /\ [][Next]_vars

(* The decoder hands out the headers the encoder was given, for every table  *)
(* history: evicted, chained, displaced or never stored (Table::index,       *)
(* index_occupied, encode_header, Decoder::decode).                          *)
HeadersSurvive ==
  got = [i \in DOMAIN sent |-> Hdr(sent[1].n, sent[i].v, FALSE)]

(* Both tables hold the same entries whenever no limit change is pending.    *)
TablesInStep ==
  e.upd = <<>> => /\ d.entries = [i \in DOMAIN e.t.slots |-> e.t.slots[i].h]
                  /\ d.size = e.t.size /\ d.max = e.t.max

(* The check that table.rs has in assert_valid_state, commented out: every   *)
(* Pos names a slot with its hash, no slot is named twice, and each slot is  *)
(* reached by probing from its hash's bucket without meeting a bucket that   *)
(* is empty or closer to home, or by exactly one next link.                  *)
IndexSound ==
  LET t == e.t
      real(i) == t.indices[i].index + t.inserted + 1
      used == {i \in 1..Cap(t) : t.indices[i] # None}
      home(i) == desired_pos(t, t.indices[i].hash)
      dist(i) == probe_distance(t, t.indices[i].hash, i - 1)
  IN  /\ ~t.stuck
      /\ \A i \in used : real(i) \in DOMAIN t.slots /\ t.slots[real(i)].hash = t.indices[i].hash
      /\ \A i, j \in used : real(i) = real(j) => i = j
      /\ \A i \in used : \A k \in 0..dist(i) :
           At(t, home(i) + k) # None /\ dist(((home(i) + k) % Cap(t)) + 1) >= k
      /\ \A s \in DOMAIN t.slots :
           Cardinality({i \in used : real(i) = s})
           + Cardinality({p \in DOMAIN t.slots : t.slots[p].next # NoIndex
                                                 /\ t.slots[p].next + t.inserted + 1 = s}) = 1
=============================================================================

------------------------------ MODULE H2Codec ------------------------------
(* The HTTP/2 codec: FramedWrite with the loop that feeds it                 *)
(* (Prioritize::poll_complete), the wire, and FramedRead, with the header    *)
(* compression of H2Hpack between them.  A frame crosses the wire whole (the *)
(* length-delimited reader sees no less), but a header block is cut wherever *)
(* the frame size says: one representation takes two units, so a cut falls   *)
(* between representations or inside one.                                    *)
EXTENDS H2Hpack

CONSTANTS MaxFrame,        \* max_frame_size, in units
          ChainThreshold,  \* payloads this long are chained, not copied
          BufCap,          \* frames the write buffer takes
          MaxList,         \* max_header_list_size
          InitialTable,    \* DEFAULT_SETTINGS_HEADER_TABLE_SIZE
          Blocks,          \* header blocks the streams may queue
          DataLen,         \* stream id -> length of the data it sends
          TableSizes,      \* SETTINGS_HEADER_TABLE_SIZE values the reader sends
          Budget           \* how often each input happens

VARIABLES q,      \* frames queued on the streams, in the order they are popped
          w,      \* FramedWrite, and Prioritize's in_flight_data_frame
          wire,   \* frames written and not yet read
          r,      \* FramedRead
          exp,    \* what the reader has still to deliver, in order
          sync,   \* the reader's SETTINGS: sent value, -1 none, -2 none in flight
          left    \* inputs left

vars == <<q, w, wire, r, exp, sync, left>>

(******************************** the writer *******************************)
Units(reps) == FlattenSeq([i \in DOMAIN reps |-> <<[r |-> reps[i], h |-> 1], [r |-> reps[i], h |-> 2]>>])
has_capacity(x) == x.next = None /\ Len(x.buf) < BufCap

(* EncodingHeaderBlock::encode: what does not fit waits as a Continuation;   *)
(* pre is what the frame writes before the block (the promised stream id).   *)
encode_block(x, t, id, units, pre) ==
  LET fits == Len(units) + pre <= MaxFrame
      n == IF fits THEN Len(units) ELSE MaxFrame - pre
      f == [t |-> t, id |-> id, end |-> fits, u |-> SubSeq(units, 1, n)]
  IN  [x EXCEPT !.buf = Append(@, f),
                !.next = IF fits THEN None
                         ELSE [k |-> "cont", id |-> id, u |-> SubSeq(units, n + 1, Len(units))]]
BufferBlock(x, f, e) ==
  encode_block([x EXCEPT !.enc = e[1]], f.t, f.id, Units(e[2]), IF f.t = "P" THEN 1 ELSE 0)
buffer(x, f) ==
  IF f.t \in {"H", "P"} THEN BufferBlock(x, f, encode(x.enc, f.hs))
  ELSE IF f.t = "D" /\ f.len >= ChainThreshold THEN [x EXCEPT !.next = [k |-> "data", f |-> f]]
  ELSE IF f.t = "D" THEN [x EXCEPT !.buf = Append(@, f), !.last = f]
  ELSE [x EXCEPT !.buf = Append(@, f)]
unset_frame_forget(x) == IF x.buf # <<>> \/ x.next = None THEN x ELSE [x EXCEPT !.next = None]
(* unset_frame, once everything before it is written.                        *)
unset_frame(x) ==
  IF x.buf # <<>> \/ x.next = None THEN x
  ELSE IF x.next.k = "data" THEN [x EXCEPT !.next = None, !.last = x.next.f]
  ELSE encode_block([x EXCEPT !.next = None], "C", x.next.id, x.next.u, 0)

(* reclaim_frame: what is left of the data frame goes back to its stream.    *)
reclaimed(x) ==
  IF x.last # None /\ x.inflight = "data" /\ x.last.rem > 0
  THEN <<[t |-> "D", id |-> x.last.id, len |-> x.last.rem, eos |-> x.last.weos]>> ELSE <<>>
reclaim(x) ==
  IF x.last = None THEN x
  ELSE [x EXCEPT !.last = None, !.inflight = "nothing", !.panic = @ \/ x.inflight = "nothing"]
(* pop_frame cuts DATA at the frame size; END_STREAM goes with the last cut. *)
cut(f) ==
  IF f.t # "D" THEN f
  ELSE LET n == IF f.len > MaxFrame THEN MaxFrame ELSE f.len
       IN  [t |-> "D", id |-> f.id, len |-> n, eos |-> f.eos /\ n = f.len,
            rem |-> f.len - n, weos |-> f.eos]

(******************************** the reader *******************************)
Pseudos == {":method", ":scheme", ":authority", ":path", ":protocol", ":status"}
connection_level(h) ==
  \/ h.n \in {"connection", "transfer-encoding", "upgrade", "keep-alive", "proxy-connection"}
  \/ h.n = "te" /\ h.v # "trailers"
EmptyBlock == [pseudo |-> <<>>, fields |-> <<>>, over |-> FALSE]
SizeOf(hs) == FoldLeft(LAMBDA n, h : n + LenOf(h), 0, hs)
(* calculate_header_list_size: it leaves :protocol out.                      *)
calculate_header_list_size(b) ==
  SizeOf(SelectSeq(b.pseudo, LAMBDA h : h.n # ":protocol")) + SizeOf(b.fields)
(* The closure of HeaderBlock::load for one header: [b, reg, bad, size].     *)
load_header(a, h) ==
  LET size == a.size + LenOf(h) IN
  IF h.n \in Pseudos
  THEN IF a.reg \/ \E i \in DOMAIN a.b.pseudo : a.b.pseudo[i].n = h.n THEN [a EXCEPT !.bad = TRUE]
       ELSE IF size < MaxList THEN [a EXCEPT !.size = size, !.b.pseudo = Append(@, h)]
       ELSE [a EXCEPT !.size = size, !.b.over = TRUE]
  ELSE IF connection_level(h) THEN [a EXCEPT !.bad = TRUE]
  ELSE IF size < MaxList THEN [a EXCEPT !.size = size, !.reg = TRUE, !.b.fields = Append(@, h)]
  ELSE [a EXCEPT !.size = size, !.reg = TRUE, !.b.over = TRUE]
LoadHeaders(b, hs) ==
  FoldLeft(load_header, [b |-> b, reg |-> b.fields # <<>>, bad |-> FALSE,
                         size |-> calculate_header_list_size(b)], hs)
LoadResult(a, d, rest) ==
  [b |-> a.b, dec |-> d.d, rest |-> rest,
   res |-> IF d.err THEN "hpack" ELSE IF rest # <<>> THEN "more" ELSE IF a.bad THEN "malformed" ELSE "ok"]
LoadDecoded(b, d, rest) == LoadResult(LoadHeaders(b, d.out), d, rest)
(* HeaderBlock::load of a buffer: the representations it holds whole.        *)
load(b, dec, buf) ==
  LET whole == Len(buf) \div 2
  IN  LoadDecoded(b, decode(dec, [i \in 1..whole |-> buf[2 * i].r]), SubSeq(buf, 2 * whole + 1, Len(buf)))

calc_max_continuation_frames ==
  LET n == IF MaxList \div MaxFrame > 1 THEN MaxList \div MaxFrame ELSE 1
      m == n + n \div 4
  IN  IF m > 5 THEN m ELSE 5
go_away(x, why) == [x EXCEPT !.dead = why, !.part = None, !.out = None]
(* The frame is loaded: deliver it, keep it as partial, or fail.             *)
loaded(x, part, l, end) ==
  LET y == [x EXCEPT !.dec = l.dec, !.part = None, !.out = None] IN
  IF l.res = "malformed" THEN [y EXCEPT !.out = [t |-> "reset", id |-> part.id]]
  ELSE IF l.res = "hpack" \/ (l.res = "more" /\ end) THEN go_away(y, "PROTOCOL_ERROR")
  ELSE IF end THEN [y EXCEPT !.out = [t |-> part.t, id |-> part.id, b |-> l.b]]
  ELSE [y EXCEPT !.part = [part EXCEPT !.b = l.b, !.buf = l.rest]]
decode_continuation(x, f) ==
  LET p == x.part
      buf == p.buf \o f.u
  IN  IF p = None \/ p.id # f.id THEN go_away(x, "PROTOCOL_ERROR")
      ELSE IF ~f.end /\ p.cnt + 1 > calc_max_continuation_frames
      THEN go_away(x, "ENHANCE_YOUR_CALM")
      ELSE IF p.buf # <<>> /\ p.b.over /\ Len(buf) > MaxList THEN go_away(x, "COMPRESSION_ERROR")
      ELSE loaded(x, [p EXCEPT !.cnt = IF f.end THEN 0 ELSE @ + 1], load(p.b, x.dec, buf), f.end)
decode_frame(x, f) ==
  IF x.part # None /\ f.t # "C" THEN go_away(x, "PROTOCOL_ERROR")
  ELSE CASE f.t \in {"H", "P"} ->
              loaded(x, [t |-> f.t, id |-> f.id, b |-> EmptyBlock, buf |-> <<>>, cnt |-> 0],
                     load(EmptyBlock, x.dec, f.u), f.end)
         [] f.t = "C" -> decode_continuation(x, f)
         [] f.t = "D" -> [x EXCEPT !.out = [t |-> "D", id |-> f.id, len |-> f.len, eos |-> f.eos]]
         [] OTHER -> [x EXCEPT !.out = f]

(******************************* the system ********************************)
(* What the peer should see of a block: every value with its name, or only   *)
(* that the list was too long.                                               *)
Named(hs) == [i \in DOMAIN hs |->
  IF hs[i].n # "" THEN Hdr(hs[i].n, hs[i].v, FALSE)
  ELSE Hdr(hs[Max({j \in 1..i : hs[j].n # ""})].n, hs[i].v, FALSE)]
Expected(f) ==
  IF f.t \notin {"H", "P"} THEN f
  ELSE LET hs == Named(f.hs) IN
       [t |-> f.t, id |-> f.id,
        b |-> [pseudo |-> SelectSeq(hs, LAMBDA h : h.n \in Pseudos),
               fields |-> SelectSeq(hs, LAMBDA h : h.n \notin Pseudos),
               over |-> SizeOf(hs) >= MaxList]]
(* A frame in the order of the others and as it was sent; DATA by its stream *)
(* and its place in what the stream sends.                                   *)
Delivers(x, got, want) ==
  IF got.t = "D" THEN LET n == x.rcv[got.id] + got.len
                      IN  want.t = "D" /\ want.id = got.id /\ n <= DataLen[got.id]
                          /\ (got.eos <=> n = DataLen[got.id])
  ELSE IF got.t \in {"H", "P"} /\ want.t = got.t /\ want.b.over
  THEN got.id = want.id /\ got.b.over
  ELSE got = want

Spend(op) == left[op] > 0 /\ left' = [left EXCEPT ![op] = @ - 1]

Init ==
  /\ q = <<>> /\ wire = <<>> /\ exp = <<>> /\ sync = -2
  /\ w = [enc |-> NewEncoder(InitialTable), buf |-> <<>>, next |-> None, last |-> None,
          inflight |-> "nothing", panic |-> FALSE, fresh |-> DOMAIN DataLen, gone |-> {}]
  /\ r = [dec |-> NewDecoder(InitialTable), part |-> None, dead |-> "", out |-> None, bad |-> FALSE,
          rcv |-> [id \in DOMAIN DataLen |-> 0]]
  /\ left = Budget

(* The handles queue a frame on a stream.                                    *)
Queue ==
  /\ Spend("queue")
  /\ \E f \in Blocks : q' = Append(q, f)
  /\ UNCHANGED <<w, wire, r, exp, sync>>
QueueData ==
  /\ \E id \in w.fresh :
       /\ q' = Append(q, [t |-> "D", id |-> id, len |-> DataLen[id], eos |-> TRUE])
       /\ w' = [w EXCEPT !.fresh = @ \ {id}]
  /\ UNCHANGED <<wire, r, exp, sync, left>>
(* clear_queue: a reset stream drops what it had queued; a frame of its that *)
(* the codec holds is not to come back.                                      *)
Cancel ==
  /\ Spend("cancel")
  /\ \E id \in DOMAIN DataLen :
       /\ q' = SelectSeq(q, LAMBDA f : f.id # id)
       /\ w' = IF w.inflight = "data" /\ \/ w.next # None /\ w.next.k = "data" /\ w.next.f.id = id
                                         \/ w.last # None /\ w.last.id = id
               THEN [w EXCEPT !.inflight = "drop", !.gone = @ \cup {id}, !.fresh = @ \ {id}]
               ELSE [w EXCEPT !.gone = @ \cup {id}, !.fresh = @ \ {id}]
  /\ UNCHANGED <<wire, r, exp, sync>>
(* One turn of poll_complete's loop: the codec is ready, take back the frame *)
(* it has written, pop the next one and buffer it.                           *)
PollComplete ==
  LET back == reclaimed(w) \o q
      x == reclaim(w)
      f == cut(Head(back))
  IN  /\ has_capacity(w)
      /\ w.last # None \/ q # <<>>
      /\ IF back = <<>> THEN w' = x /\ q' = back /\ exp' = exp
         ELSE /\ q' = Tail(back)
              /\ w' = buffer([x EXCEPT !.panic = @ \/ x.inflight # "nothing",
                                       !.inflight = IF f.t = "D" THEN "data" ELSE @], f)
              /\ exp' = Append(exp, Expected(f))
      /\ UNCHANGED <<wire, r, sync, left>>
(* Other writers (PING, WINDOW_UPDATE) buffer their frame directly.          *)
Control ==
  /\ Spend("control")
  /\ has_capacity(w)
  /\ w' = buffer(w, [t |-> "ping", id |-> 0])
  /\ exp' = Append(exp, [t |-> "ping", id |-> 0])
  /\ UNCHANGED <<q, wire, r, sync>>
(* FramedWrite::flush: the socket takes a frame.                             *)
Flush ==
  /\ w.buf # <<>> \/ w.next # None
  /\ IF w.buf # <<>>
     THEN /\ wire' = Append(wire, Head(w.buf))
          /\ w' = IF Len(w.buf) = 1 /\ w.next # None /\ w.next.k = "cont"
                  THEN unset_frame([w EXCEPT !.buf = <<>>]) ELSE [w EXCEPT !.buf = Tail(@)]
     ELSE wire' = Append(wire, w.next.f) /\ w' = unset_frame(w)
  /\ UNCHANGED <<q, r, exp, sync, left>>

(* FramedRead::poll_next, and what the connection does with a SETTINGS ACK.  *)
(* What is delivered is not what comes next; the frame of a reset stream's   *)
(* block is gone.                                                            *)
Misdelivered(out) ==
  /\ out # None /\ out.t # "reset"
  /\ exp = <<>> \/ ~Delivers(r, out, Head(exp))
PollNext ==
  /\ wire # <<>> /\ r.dead = ""
  /\ wire' = Tail(wire)
  /\ \E f \in {Head(wire)} : \E x \in {decode_frame([r EXCEPT !.out = None], f)} :
       LET ack == f.t = "ack" /\ x.dead = "" IN
       /\ r' = [x EXCEPT !.out = None, !.bad = @ \/ Misdelivered(x.out),
                         !.rcv = IF f.t = "D" /\ x.out # None THEN [@ EXCEPT ![f.id] = @ + f.len] ELSE @,
                         !.dec = IF ack THEN queue_size_update(@, sync) ELSE @]
       /\ exp' = IF x.out # None /\ exp # <<>> THEN Tail(exp) ELSE exp
       /\ sync' = IF ack THEN -2 ELSE sync
  /\ UNCHANGED <<q, w, left>>
(* The reader changes SETTINGS_HEADER_TABLE_SIZE (one change in flight); the *)
(* writer acknowledges it and applies it to its encoder.                     *)
SendSettings ==
  /\ Spend("settings")
  /\ sync = -2
  /\ \E n \in TableSizes : sync' = n
  /\ UNCHANGED <<q, w, wire, r, exp>>
RecvSettings ==
  /\ sync >= 0 /\ has_capacity(w)
  /\ \A f \in {w.buf[i] : i \in DOMAIN w.buf} \cup {wire[i] : i \in DOMAIN wire} : f.t # "ack"
  /\ w' = [buffer(w, [t |-> "ack", id |-> 0]) EXCEPT !.enc = update_max_size(@, sync)]
  /\ exp' = Append(exp, [t |-> "ack", id |-> 0])
  /\ UNCHANGED <<q, wire, r, sync, left>>

Next ==
  \/ Queue \/ QueueData \/ Cancel \/ PollComplete \/ Control \/ Flush \/ PollNext \/ SendSettings \/ RecvSettings

Spec == Init /\ [][Next]_vars

Quiet == q = <<>> /\ w.buf = <<>> /\ w.next = None /\ wire = <<>>

(* FramedRead delivers exactly the frames that poll_complete buffered, in    *)
(* their order, with the headers they were sent with, however the block is   *)
(* cut into CONTINUATION frames (header_block! and Kind::Continuation of     *)
(* decode_frame, EncodingHeaderBlock::encode), and END_STREAM with the last  *)
(* byte of a stream's data only.  None is a connection error: no index the   *)
(* decoder lacks, no size update above its limit, no frame inside a block,   *)
(* no CONTINUATION that counts as a flood.                                   *)
FramesSurvive == ~r.bad /\ r.dead = ""

(* Once everything is delivered, the decoder's table is the encoder's, entry *)
(* by entry and of the same size, or later indices name other headers.       *)
TablesEqual ==
  Quiet /\ r.dead = "" =>
    /\ r.dec.entries = [i \in DOMAIN w.enc.t.slots |-> w.enc.t.slots[i].h]
    /\ r.dec.size = w.enc.t.size /\ r.dec.max = w.enc.t.max

(* All of a stream's data arrives, unless the stream was reset: however the  *)
(* frame was cut, chained and handed back, nothing is left with the codec.   *)
(* poll_complete never pops a frame while the codec still owes it a DATA     *)
(* frame (its debug_assert), and never gets one back that it did not expect  *)
(* (the panic of reclaim_frame_inner).                                       *)
DataComplete ==
  /\ ~w.panic
  /\ Quiet /\ w.last = None =>
       /\ w.inflight = "nothing" /\ exp = <<>>
       /\ \A id \in DOMAIN DataLen \ (w.gone \cup w.fresh) : r.rcv[id] = DataLen[id]
=============================================================================

------------------------------ MODULE H2Store ------------------------------
(* What the HTTP/2 library keeps of a connection's streams: stream.rs,       *)
(* store.rs, buffer.rs, counts.rs and flow_control.rs of proto/streams.      *)
(*                                                                           *)
(* One endpoint's state is a record "me", and a method is an operator that   *)
(* returns the record it leaves.  A stream pointer (store::Ptr) is the index *)
(* k of the stream in me.slab; me.ids lists, in the order of the IndexMap,   *)
(* the indices of the streams that can be found by their id.  The intrusive  *)
(* queues are sequences of such indices, so a stream's is_pending_... flag   *)
(* is its membership.  A waker that is registered is TRUE; waking takes it.  *)
(* me.panic names the first assert, unwrap or panic that fired, me.dbg the   *)
(* first debug_assert, me.res is the Result of the call and me.out collects  *)
(* the frames handed to the codec.                                           *)
EXTENDS Integers, Sequences, SequencesExt, FiniteSetsExt, TLC, H2State

CONSTANTS MaxWindow,   \* MAX_WINDOW_SIZE, and i32::MAX with it
          MaxFrame,    \* the codec's max_send_frame_size
          MaxBuffer    \* max_send_buffer_size

Smaller(a, b) == IF a < b THEN a ELSE b
Larger(a, b) == IF a > b THEN a ELSE b

(***************************** flow_control.rs *****************************)
(* w is the window, a the capacity available; both are i32.                  *)
Flow(w, a) == [w |-> w, a |-> a]
as_size(x) == Larger(x, 0)
has_unavailable(f) == f.w >= 0 /\ f.w > f.a
claim_capacity(f, n) == IF f.a - n < -MaxWindow - 1 THEN f ELSE [f EXCEPT !.a = @ - n]
assign_capacity(f, n) == IF f.a + n > MaxWindow THEN f ELSE [f EXCEPT !.a = @ + n]
(* Zero stands for None: nothing worth a WINDOW_UPDATE.                      *)
unclaimed_capacity(f) ==
  IF f.w >= f.a \/ f.a - f.w < f.w \div 2 THEN 0 ELSE f.a - f.w
inc_window(f, n) == [f EXCEPT !.w = Smaller(@ + n, MaxWindow)]
(* No window of the runs comes near i32::MIN, where decrease_by fails.       *)
dec_send_window(f, n) == [f EXCEPT !.w = @ - n]
dec_recv_window(f, n) == [f EXCEPT !.w = @ - n, !.a = @ - n]
flow_send_data_window(f, n) == [f EXCEPT !.w = @ - n]
flow_send_data(f, n) == IF n > 0 THEN [f EXCEPT !.w = @ - n, !.a = @ - n] ELSE f

(******************************** stream.rs ********************************)
Omitted == -1   \* ContentLength::Omitted; a number is Remaining
HeadResponse == -2

NewStream(id, sendWin, recvWin) ==
  [id |-> id, state |-> Idle, counted |-> FALSE, refs |-> 0,
   sf |-> Flow(sendWin, 0), req |-> 0, buf |-> 0, psend |-> <<>>, sendTask |-> FALSE,
   capInc |-> FALSE, pendingPush |-> FALSE,
   rf |-> Flow(recvWin, recvWin), inFlight |-> 0, precv |-> <<>>, isRecv |-> TRUE,
   recvTask |-> FALSE, pushTask |-> FALSE, ppp |-> <<>>, cl |-> Omitted]

stream_is_closed(s) == is_closed(s.state) /\ s.psend = <<>> /\ s.buf = 0
is_canceled_interest(s) == s.refs = 0 /\ ~is_closed(s.state)
capacity(s) == as_size(Smaller(as_size(s.sf.a), MaxBuffer) - s.buf)
notify_send(s) == [s EXCEPT !.sendTask = FALSE]
notify_recv(s) == [s EXCEPT !.recvTask = FALSE]
notify_push(s) == [s EXCEPT !.pushTask = FALSE]
notify_capacity(s) == [s EXCEPT !.capInc = TRUE, !.sendTask = FALSE]
(* t is the stream s after a call: its sender is told of more capacity.      *)
NotifyIfMore(s, t) == IF capacity(s) < capacity(t) THEN notify_capacity(t) ELSE t
stream_assign_capacity(s, n) == NotifyIfMore(s, [s EXCEPT !.sf = assign_capacity(@, n)])
stream_send_data(s, n) ==
  NotifyIfMore(s, [s EXCEPT !.sf = flow_send_data(@, n), !.buf = @ - n, !.req = @ - n])
stream_set_reset(s, why, by) ==
  notify_recv(notify_push([s EXCEPT !.state = Closed(by, why)]))
(* dec_content_length's refusal, and the stream after it.                    *)
content_length_exceeded(s, n) ==
  (s.cl >= 0 /\ n > s.cl) \/ (s.cl = HeadResponse /\ n # 0)
dec_content_length(s, n) == IF s.cl >= 0 THEN [s EXCEPT !.cl = @ - n] ELSE s
ensure_content_length_zero(s) == s.cl <= 0

(********************************* store.rs ********************************)
Check(me, ok, name) == IF ok \/ me.panic # "" THEN me ELSE [me EXCEPT !.panic = name]
DebugCheck(me, ok, name) == IF ok \/ me.dbg # "" THEN me ELSE [me EXCEPT !.dbg = name]

Upd(me, k, s) == [me EXCEPT !.slab[k] = s]
Keys(me) == DOMAIN me.slab
(* find_mut: the index of a linked stream, 0 for none.                       *)
find(me, id) ==
  IF \A k \in ToSet(me.ids) : me.slab[k].id # id THEN 0
  ELSE CHOOSE k \in ToSet(me.ids) : me.slab[k].id = id
(* Slab::insert takes a vacant slot; which one is of no consequence.         *)
next_key(me) == CHOOSE k \in 1..(Cardinality(Keys(me)) + 1) : k \notin Keys(me)
insert(me, s) ==
  [Check(me, find(me, s.id) = 0, "store.rs:108") EXCEPT
     !.slab = @ @@ (next_key(me) :> s), !.ids = Append(@, next_key(me))]

is_queued(me, q, k) ==
  \/ Contains(me.q[q], k)
  \/ q = "accept" /\ \E j \in Keys(me) : Contains(me.slab[j].ppp, k)
(* Queue::push and push_front with the set_queued of each queue's Next.      *)
queued_ok(me, q, k) ==
  DebugCheck(me, ~(\/ q = "send" /\ is_queued(me, "open", k)
                   \/ q = "open" /\ is_queued(me, "send", k)), "stream.rs:490/561")
push(me, q, k) ==
  IF is_queued(me, q, k) THEN me
  ELSE [queued_ok(me, q, k) EXCEPT !.q[q] = Append(@, k)]
push_front(me, q, k) ==
  IF is_queued(me, q, k) THEN me
  ELSE [queued_ok(me, q, k) EXCEPT !.q[q] = <<k>> \o @]
pop(me, q) == [me EXCEPT !.q[q] = Tail(@)]

is_send_ready(me, k) == ~is_queued(me, "open", k) /\ ~me.slab[k].pendingPush
is_released(me, k) ==
  /\ stream_is_closed(me.slab[k])
  /\ me.slab[k].refs = 0
  /\ \A q \in DOMAIN me.q : ~is_queued(me, q, k)
remove(me, k) ==
  [DebugCheck(me, find(me, me.slab[k].id) = 0, "store.rs:406") EXCEPT
     !.slab = [j \in Keys(me) \ {k} |-> me.slab[j]]]
(* IndexMap::swap_remove of the stream's id: the last entry takes its place. *)
swap_remove(ids, k) ==
  [i \in 1..(Len(ids) - 1) |-> IF ids[i] = k THEN Last(ids) ELSE ids[i]]
unlink_none(me, k) == me
unlink(me, k) ==
  IF find(me, me.slab[k].id) = 0 THEN me
  ELSE [me EXCEPT !.ids = swap_remove(@, find(me, me.slab[k].id))]

(********************************* counts.rs *******************************)
is_local_init(me, id) == me.srv = (id % 2 = 0)
has_streams(me) == me.numSend # 0 \/ me.numRecv # 0
next_send_stream_will_reach_capacity(me) == me.maxSend <= me.numSend + 1
can_inc_num_local_error_resets(me) == me.maxErrReset > me.numErrReset
can_inc_num_recv_streams(me) == me.maxRecv > me.numRecv
can_inc_num_send_streams(me) == me.maxSend > me.numSend
can_inc_num_reset_streams(me) == me.maxReset > me.numReset
can_inc_num_remote_reset_streams(me) == me.maxRemoteReset > me.numRemoteReset

inc_num_recv_streams_uncounted(me, k) == [me EXCEPT !.numRecv = @ + 1]
inc_num_recv_streams(me, k) ==
  [Check(Check(me, can_inc_num_recv_streams(me), "counts.rs:112"),
         ~me.slab[k].counted, "counts.rs:113") EXCEPT
     !.numRecv = @ + 1, !.slab[k].counted = TRUE]
inc_num_send_streams(me, k) ==
  [Check(Check(me, can_inc_num_send_streams(me), "counts.rs:131"),
         ~me.slab[k].counted, "counts.rs:132") EXCEPT
     !.numSend = @ + 1, !.slab[k].counted = TRUE]
inc_num_local_error_resets(me) ==
  [Check(me, can_inc_num_local_error_resets(me), "counts.rs:90") EXCEPT !.numErrReset = @ + 1]
inc_num_reset_streams(me) ==
  [Check(me, can_inc_num_reset_streams(me), "counts.rs:150") EXCEPT !.numReset = @ + 1]
inc_num_remote_reset_streams(me) ==
  [Check(me, can_inc_num_remote_reset_streams(me), "counts.rs:172") EXCEPT !.numRemoteReset = @ + 1]
dec_num_remote_reset_streams(me) ==
  [Check(me, me.numRemoteReset > 0, "counts.rs:178") EXCEPT !.numRemoteReset = @ - 1]
dec_num_reset_streams(me) ==
  [Check(me, me.numReset > 0, "counts.rs:275") EXCEPT !.numReset = @ - 1]
dec_num_streams(me, k) ==
  IF is_local_init(me, me.slab[k].id)
  THEN [Check(me, me.numSend > 0, "counts.rs:264") EXCEPT
          !.numSend = @ - 1, !.slab[k].counted = FALSE]
  ELSE [Check(me, me.numRecv > 0, "counts.rs:268") EXCEPT
          !.numRecv = @ - 1, !.slab[k].counted = FALSE]

(* No limit for a usize::MAX; max is None when the SETTINGS name none.       *)
Unlimited == 1000
counts_apply_remote_settings(me, max, initial) ==
  IF max >= 0 THEN [me EXCEPT !.maxSend = max]
  ELSE IF initial THEN [me EXCEPT !.maxSend = Unlimited] ELSE me

(* transition_after for a closed stream: it can no longer be found by its id *)
(* unless its reset is remembered, and it frees the slot it was counted for. *)
UnlinkClosed(me, k, resetCounted) ==
  IF is_queued(me, "reset", k) THEN me
  ELSE IF resetCounted THEN dec_num_reset_streams(unlink(me, k)) ELSE unlink(me, k)
UncountClosed(me, k) ==
  IF ~is_scheduled_reset(me.slab[k].state) /\ me.slab[k].counted THEN dec_num_streams(me, k) ELSE me
RemoveReleased(me, k) == IF is_released(me, k) THEN remove(me, k) ELSE me
transition_after(me, k, resetCounted) ==
  RemoveReleased(IF stream_is_closed(me.slab[k]) THEN UncountClosed(UnlinkClosed(me, k, resetCounted), k)
                 ELSE me, k)
(* Counts::transition around an action whose result is after.                *)
transition(me, k, after) == transition_after(after, k, is_queued(me, "reset", k))
=============================================================================

---------------------------- MODULE H2Prioritize ----------------------------
(* The sending half of the HTTP/2 library: prioritize.rs and send.rs.  The   *)
(* connection's send window is me.sf, the queues pending_send,               *)
(* pending_capacity and pending_open are me.q.send, .cap and .open.          *)
(* me.task is the connection task's registered waker: FALSE once it is woken.*)
EXTENDS H2Store

HeadersFrame(id, eos, kind, cl) ==
  [t |-> "HEADERS", id |-> id, eos |-> eos, kind |-> kind, cl |-> cl]
DataFrame(id, len, eos) == [t |-> "DATA", id |-> id, len |-> len, eos |-> eos]
ResetFrame(id, why) == [t |-> "RST_STREAM", id |-> id, why |-> why]
PushFrame(id, promised) == [t |-> "PUSH_PROMISE", id |-> id, promised |-> promised]
UpdateFrame(id, inc) == [t |-> "WINDOW_UPDATE", id |-> id, inc |-> inc]

(* The Result of a call: e is "ok", "user", "reset" or "goaway", or what a   *)
(* poll returned; why is the reason or the UserError, id the stream reset.   *)
Res(e, why, id) == [e |-> e, why |-> why, id |-> id]
OkRes == Res("ok", "-", 0)
Ok(me) == [me EXCEPT !.res = OkRes]
UserErr(me, why) == [me EXCEPT !.res = Res("user", why, 0)]
library_reset(me, id, why) == [me EXCEPT !.res = Res("reset", why, id)]
library_go_away(me, why) == [me EXCEPT !.res = Res("goaway", why, 0)]
Polled(me, e) == [me EXCEPT !.res = Res(e, "-", 0)]
wake(me) == [me EXCEPT !.task = FALSE]
emit(me, f) == [me EXCEPT !.out = Append(@, f)]

(****************************** prioritize.rs ******************************)
schedule_send_asleep(me, k) == IF is_send_ready(me, k) THEN push(me, "send", k) ELSE me
schedule_send(me, k) == IF is_send_ready(me, k) THEN wake(push(me, "send", k)) ELSE me
queue_frame(me, k, f) == schedule_send([me EXCEPT !.slab[k].psend = Append(@, f)], k)
queue_open(me, k) == push(me, "open", k)

(* What try_assign_capacity works with: the capacity stream k asks for and   *)
(* may have, the part of it the connection has left, and the requeueing.     *)
Additional(s) == Smaller(s.req, as_size(s.sf.w)) - as_size(s.sf.a)
Give(me, k, n) ==
  [me EXCEPT !.slab[k] = stream_assign_capacity(@, n), !.sf = claim_capacity(@, n)]
KeepWaiting(me, k) ==
  IF me.slab[k].sf.a < me.slab[k].req /\ has_unavailable(me.slab[k].sf) THEN push(me, "cap", k) ELSE me
SendBuffered(me, k) ==
  IF me.slab[k].buf > 0 /\ is_send_ready(me, k) THEN push(me, "send", k) ELSE me
CheckWindows(me, s) ==
  Check(DebugCheck(me, s.sf.a <= s.req, "prioritize.rs:417"),
        s.req >= as_size(s.sf.a) /\ as_size(s.sf.w) >= as_size(s.sf.a), "prioritize.rs:422")
CheckWanted(me, s) == DebugCheck(me, is_send_streaming(s.state) \/ s.buf > 0, "prioritize.rs:443")
try_assign_capacity_once(me, k) ==
  IF is_queued(me, "open", k) \/ me.sf.a <= 0 \/ Additional(me.slab[k]) <= 0 THEN me
  ELSE SendBuffered(Give(me, k, Smaller(me.sf.a, Additional(me.slab[k]))), k)
try_assign_capacity(me, k) ==
  IF is_queued(me, "open", k) THEN me
  ELSE IF Additional(me.slab[k]) <= 0 THEN CheckWindows(me, me.slab[k])
  ELSE SendBuffered(KeepWaiting(
         Give(CheckWanted(CheckWindows(me, me.slab[k]), me.slab[k]), k,
              Smaller(as_size(me.sf.a), Additional(me.slab[k]))), k), k)

AssignNext(me, k) == transition(me, k, try_assign_capacity(me, k))
RECURSIVE AssignPending(_)
AssignPending(me) ==
  IF me.sf.a <= 0 \/ me.q.cap = <<>> THEN me
  ELSE LET k == Head(me.q.cap) IN
       AssignPending(IF is_send_streaming(me.slab[k].state) \/ me.slab[k].buf > 0
                     THEN AssignNext(pop(me, "cap"), k) ELSE pop(me, "cap"))
assign_connection_capacity(me, inc) ==
  AssignPending([DebugCheck(me, me.sf.a + inc <= MaxWindow, "prioritize.rs:379")
                   EXCEPT !.sf = assign_capacity(@, inc)])

(* Capacity that stream k holds goes back to the connection.                 *)
Return(me, k, n) ==
  IF n > 0 THEN assign_connection_capacity([me EXCEPT !.slab[k].sf = claim_capacity(@, n)], n)
  ELSE me

reserve_capacity(me, k, n) ==
  LET s == me.slab[k]
      cap == n + s.buf
  IN  IF cap < s.req
      THEN Return([me EXCEPT !.slab[k].req = cap], k, as_size(s.sf.a) - cap)
      ELSE IF cap = s.req \/ is_send_closed(s.state) THEN me
      ELSE try_assign_capacity([me EXCEPT !.slab[k].req = cap], k)

(* send_data: the body grows, the stream asks for capacity, its end gives    *)
(* back what was reserved beyond it, and the frame is queued.                *)
BufferData(me, k, len) ==
  LET s == me.slab[k] IN
  IF s.req >= s.buf + len THEN [me EXCEPT !.slab[k].buf = @ + len]
  ELSE try_assign_capacity([me EXCEPT !.slab[k].buf = @ + len, !.slab[k].req = s.buf + len], k)
EndData(me, k, eos) ==
  IF eos THEN reserve_capacity([me EXCEPT !.slab[k].state = send_close(@)], k, 0) ELSE me
QueueData(me, k, f) ==
  IF me.slab[k].sf.a > 0 \/ me.slab[k].buf = 0 THEN queue_frame(me, k, f)
  ELSE [me EXCEPT !.slab[k].psend = Append(@, f)]
prioritize_send_data(me, k, len, eos) ==
  LET s == me.slab[k] IN
  IF ~is_send_streaming(s.state)
  THEN UserErr(me, IF is_closed(s.state) THEN "InactiveStreamId" ELSE "UnexpectedFrameType")
  ELSE Ok(QueueData(EndData(BufferData(me, k, len), k, eos), k, DataFrame(s.id, len, eos)))

prioritize_recv_stream_window_update(me, k, inc) ==
  IF is_send_closed(me.slab[k].state) /\ me.slab[k].buf = 0 THEN me
  ELSE try_assign_capacity([me EXCEPT !.slab[k].sf = inc_window(@, inc)], k)
recv_connection_window_update(me, inc) ==
  assign_connection_capacity([me EXCEPT !.sf = inc_window(@, inc)], inc)

reclaim_all_capacity(me, k) == Return(me, k, as_size(me.slab[k].sf.a))
reclaim_reserved_capacity(me, k) == Return(me, k, as_size(me.slab[k].sf.a) - me.slab[k].buf)

(* in_flight_data_frame: NoFrame, DropFrame, or the key and the bytes of the *)
(* frame that the codec has not written.                                     *)
NoFrame == [k |-> 0, rest |-> 0, eos |-> FALSE]
DropFrame == [k |-> -1, rest |-> 0, eos |-> FALSE]

clear_queue(me, k) ==
  [me EXCEPT !.slab[k].psend = <<>>, !.slab[k].buf = 0, !.slab[k].req = 0,
             !.inFlightFrame = IF @.k = k THEN DropFrame ELSE @]

(* reclaim_frame, reclaim_frame_inner and push_back_frame.                   *)
push_back_frame(me, k, f) ==
  LET m == [me EXCEPT !.slab[k].psend = <<f>> \o @] IN
  IF me.slab[k].sf.a > 0 THEN push(m, "send", k) ELSE m
reclaim_frame(me) ==
  LET f == me.inFlightFrame
      m == [me EXCEPT !.inFlightFrame = NoFrame]
  IN  IF f.k <= 0 \/ f.rest = 0 THEN m
      ELSE push_back_frame(m, f.k, DataFrame(me.slab[f.k].id, f.rest, f.eos))

(* After a frame of stream k is taken: requeue it if there is more to send.  *)
AfterPop(me, k, resetCounted) ==
  LET more == me.slab[k].psend # <<>> \/ is_scheduled_reset(me.slab[k].state)
  IN  transition_after(IF more THEN push(me, "send", k) ELSE me, k, resetCounted)

DataLen(s) == Smaller(Smaller(Head(s.psend).len, MaxFrame), as_size(s.sf.a))
(* Without capacity, or with a window that shrank, stream s is passed over.  *)
Stalled(s) ==
  \/ Head(s.psend).len > 0 /\ s.sf.a = 0
  \/ DataLen(s) > 0 /\ DataLen(s) > as_size(s.sf.w)
PopData(me, k, f, len) ==
  emit([Check(Check(me, len = 0 \/ me.slab[k].sf.w >= len, "flow_control.rs:186"),
              len = 0 \/ me.sf.w >= len, "flow_control.rs:186") EXCEPT
          !.slab[k] = stream_send_data([@ EXCEPT !.psend = Tail(@)], len),
          !.sf = flow_send_data(assign_capacity(@, len), len),
          !.inFlightFrame = [k |-> k, rest |-> f.len - len, eos |-> f.eos]],
       DataFrame(me.slab[k].id, len, f.eos /\ f.len = len))

(* The promise leaves, and with it the response p may already have.          *)
OpenPushed(me, p) ==
  IF me.slab[p].psend = <<>> THEN me
  ELSE IF can_inc_num_send_streams(me) THEN push(inc_num_send_streams(me, p), "send", p)
  ELSE queue_open(me, p)
PopPush(me, k, f) ==
  LET p == find(me, f.promised) IN
  IF p = 0 THEN Check(me, FALSE, "prioritize.rs:822")
  ELSE emit([OpenPushed([me EXCEPT !.slab[p].pendingPush = FALSE], p) EXCEPT
               !.slab[k].psend = Tail(@)], f)

PopReset(me, k, why) ==
  emit([me EXCEPT !.slab[k] = stream_set_reset(@, why, "Reset.Library")],
       ResetFrame(me.slab[k].id, why))
(* The next frame of stream k, which has left the queue.                     *)
PopFrom(me, k) ==
  LET s == me.slab[k]
      f == Head(s.psend)
  IN  CASE s.psend = <<>> -> PopReset(me, k, s.state.why)
        [] s.psend # <<>> /\ f.t = "DATA" ->
             PopData(DebugCheck(me, DataLen(s) <= as_size(me.sf.w), "prioritize.rs:769"), k, f, DataLen(s))
        [] s.psend # <<>> /\ f.t = "PUSH_PROMISE" -> PopPush(me, k, f)
        [] OTHER -> emit([me EXCEPT !.slab[k].psend = Tail(@)], f)

RECURSIVE pop_frame(_)
pop_frame(me) ==
  LET k == Head(me.q.send)
      s == me.slab[k]
  IN  IF me.q.send = <<>> THEN me
      ELSE IF s.psend = <<>> /\ ~is_scheduled_reset(s.state)
      THEN pop_frame(transition_after(
             DebugCheck(pop(me, "send"), is_closed(s.state), "prioritize.rs:856"),
             k, is_queued(me, "reset", k)))
      ELSE IF s.psend # <<>> /\ Head(s.psend).t = "DATA" /\ Stalled(s) THEN pop_frame(pop(me, "send"))
      ELSE AfterPop(PopFrom(pop(me, "send"), k), k, is_queued(me, "reset", k))

OpenNext(me, k) ==
  try_assign_capacity(push_front([inc_num_send_streams(me, k) EXCEPT !.slab[k] = notify_send(@)],
                                 "send", k), k)
pop_pending_open(me) ==
  IF me.q.open = <<>> \/ ~can_inc_num_send_streams(me) THEN me
  ELSE OpenNext(pop(me, "open"), Head(me.q.open))

(* One turn of Prioritize::poll_complete's loop: the frame, if any, is at the*)
(* end of me.out.  Between two turns the codec may not be ready and the call *)
(* return Pending, so each turn is a step of the model.                      *)
prioritize_poll_complete(me) == pop_frame(pop_pending_open(reclaim_frame(me)))

ClearSend(me, k) ==
  IF ~is_scheduled_reset(me.slab[k].state) THEN me
  ELSE [me EXCEPT !.slab[k] = stream_set_reset(@, @.state.why, "Reset.Library")]
RECURSIVE clear_pending_capacity(_), clear_pending_send(_), clear_pending_open(_)
clear_pending_capacity(me) ==
  IF me.q.cap = <<>> THEN me
  ELSE clear_pending_capacity(transition(me, Head(me.q.cap), pop(me, "cap")))
clear_pending_send(me) ==
  IF me.q.send = <<>> THEN me
  ELSE clear_pending_send(transition(me, Head(me.q.send), ClearSend(pop(me, "send"), Head(me.q.send))))
clear_pending_open(me) ==
  IF me.q.open = <<>> THEN me
  ELSE clear_pending_open(transition(me, Head(me.q.open), pop(me, "open")))
send_clear_queues(me) == clear_pending_open(clear_pending_send(clear_pending_capacity(me)))

(********************************* send.rs *********************************)
(* A frame's kind is "bad" when check_headers refuses its fields.            *)
check_headers(f) == f.kind # "bad"

(* A stream this endpoint opens waits in pending_open for a slot.            *)
QueueHeaders(me, k, f) ==
  IF is_local_init(me, f.id) /\ ~me.slab[k].pendingPush
  THEN wake(queue_frame(queue_open(me, k), k, f)) ELSE queue_frame(me, k, f)
send_headers(me, k, f) ==
  LET opened == send_open(me.slab[k].state, f.eos) IN
  IF ~check_headers(f) THEN UserErr(me, "MalformedHeaders")
  ELSE IF opened = NoState THEN UserErr(me, "UnexpectedFrameType")
  ELSE Ok(QueueHeaders([me EXCEPT !.slab[k].state = opened], k, f))
send_interim_informational_headers(me, k, f) ==
  IF ~check_headers(f) THEN UserErr(me, "MalformedHeaders") ELSE Ok(queue_frame(me, k, f))
send_send_push_promise(me, k, f) ==
  IF ~me.sendPush THEN UserErr(me, "PeerDisabledServerPush") ELSE Ok(queue_frame(me, k, f))

send_send_reset(me, k, why, by) ==
  LET s == me.slab[k]
      m == [me EXCEPT !.slab[k] = stream_set_reset(@, why, by)]
  IN  IF is_reset(s.state) THEN me
      ELSE IF is_closed(s.state) /\ s.psend = <<>> THEN m
      ELSE reclaim_all_capacity(queue_frame(clear_queue(m, k), k, ResetFrame(s.id, why)), k)

schedule_implicit_reset(me, k, why) ==
  IF is_closed(me.slab[k].state) THEN me
  ELSE schedule_send(
         reclaim_reserved_capacity([me EXCEPT !.slab[k].state = set_scheduled_reset(why)], k), k)

send_send_trailers(me, k, f) ==
  IF ~is_send_streaming(me.slab[k].state) THEN UserErr(me, "UnexpectedFrameType")
  ELSE Ok(reserve_capacity(queue_frame([me EXCEPT !.slab[k].state = send_close(@)], k, f), k, 0))

(* "none": the stream is over; "pending": the waker is kept; "ready".        *)
send_poll_capacity(me, k) ==
  IF ~is_send_streaming(me.slab[k].state) THEN Polled(me, "none")
  ELSE IF ~me.slab[k].capInc THEN Polled([me EXCEPT !.slab[k].sendTask = TRUE], "pending")
  ELSE Polled([me EXCEPT !.slab[k].capInc = FALSE], "ready")
send_poll_reset(me, k, mode) ==
  LET r == ensure_reason(me.slab[k].state, mode) IN
  IF r = "none" THEN Polled([me EXCEPT !.slab[k].sendTask = TRUE], "pending") ELSE Polled(me, r)

send_recv_go_away(me, last) ==
  IF last > me.sendMaxId THEN library_go_away(me, "PROTOCOL_ERROR")
  ELSE Ok([me EXCEPT !.sendMaxId = last])
send_handle_error(me, k) == reclaim_all_capacity(clear_queue(me, k), k)

(* Store::try_for_each: F takes the endpoint and the index of one stream.    *)
(* After a stream the loop stays where it is if the stream was removed.      *)
NextPlace(at, left) ==
  IF left < at.len THEN [at EXCEPT !.len = @ - 1] ELSE [at EXCEPT !.i = @ + 1]
RECURSIVE ForEachFrom(_, _, _)
ForEachFrom(me, F(_, _), at) ==
  IF at.i > at.len THEN me
  ELSE LET n == F(me, me.ids[at.i]) IN ForEachFrom(n, F, NextPlace(at, Len(n.ids)))
for_each(me, F(_, _)) == ForEachFrom(me, F, [i |-> 1, len |-> Len(me.ids)])

(* The initial window shrinks by dec: a stream's window may become negative, *)
(* and the capacity it holds above it goes to me.reclaimed.                  *)
ShrinkStream(me, k, dec) ==
  LET s == me.slab[k]
      f == dec_send_window(s.sf, dec)
      excess == as_size(as_size(f.a) - as_size(f.w))
  IN  IF is_send_closed(s.state) /\ s.buf = 0 THEN me
      ELSE [me EXCEPT !.slab[k].sf = claim_capacity(f, excess), !.reclaimed = @ + excess]
AssignReclaimed(me) == assign_connection_capacity([me EXCEPT !.reclaimed = 0], me.reclaimed)
send_apply_remote_settings(me, win) ==
  LET old == me.sendInitWin
      m == [me EXCEPT !.sendInitWin = win]
  IN  CASE win < 0 \/ win = old -> me
        [] win < old -> AssignReclaimed(for_each(m, LAMBDA e, k : ShrinkStream(e, k, old - win)))
        [] OTHER -> for_each(m, LAMBDA e, k : prioritize_recv_stream_window_update(e, k, win - old))

(* Stream ids have no bound here, so next_stream_id never overflows.         *)
send_ensure_not_idle(me, id) == id < me.sendNextId
send_may_have_created_stream(me, id) == id < me.sendNextId
send_maybe_reset_next_stream_id(me, id) ==
  IF id >= me.sendNextId THEN [me EXCEPT !.sendNextId = id + 2] ELSE me
=============================================================================

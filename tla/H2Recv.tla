------------------------------- MODULE H2Recv -------------------------------
(* The receiving half of the HTTP/2 library: recv.rs.  The connection's      *)
(* receive window is me.rf, the data the application still holds is          *)
(* me.inFlight, and the queues pending_window_updates, pending_accept and    *)
(* pending_reset_expired are me.q.wu, .accept and .reset.                    *)
EXTENDS H2Prioritize

Event(ev, len) == [ev |-> ev, len |-> len]
PushEvent(me, k, e) == [me EXCEPT !.slab[k] = notify_recv([@ EXCEPT !.precv = Append(@, e)])]

(* recv.open: the stream is refused when the peer has too many.              *)
recv_open_stream(me, id) ==
  [Check(me, me.refused = 0, "recv.rs:134") EXCEPT
     !.recvNextId = id + 2, !.refused = IF can_inc_num_recv_streams(me) THEN @ ELSE id]

(* f.kind: "plain", "info" (1xx), "nobody" (204 or 304), "over" (the header  *)
(* list is too large), "bad" (convert_poll_message or a pseudo-header check  *)
(* refuses it); f.cl is the content-length, -1 for none.                     *)
CountOpened(me, k, initial) ==
  IF initial THEN inc_num_recv_streams([me EXCEPT !.lastProcessed = Larger(@, me.slab[k].id)], k) ELSE me
SetLength(me, k, cl) ==
  IF me.slab[k].cl # HeadResponse /\ cl >= 0 THEN [me EXCEPT !.slab[k].cl = cl] ELSE me
Accepting(me, k) == IF me.srv THEN push(me, "accept", k) ELSE me
(* What is left of recv_headers once the state has changed.                  *)
TakeHeaders(me, k, f, initial) ==
  CASE me.slab[k].cl # HeadResponse /\ f.cl > 0 /\ f.eos /\ f.kind # "nobody" ->
         library_reset(me, f.id, "PROTOCOL_ERROR")
    [] f.kind = "over" -> Polled(me, IF me.srv /\ initial THEN "oversize431" ELSE "oversize")
    [] f.kind = "bad" \/ (f.kind \in {"info", "nobody"} /\ me.srv) ->
         library_reset(me, f.id, "PROTOCOL_ERROR")
    [] OTHER ->
         Ok(Accepting(PushEvent(me, k, Event(IF f.kind = "info" THEN "Info" ELSE "Headers", 0)), k))
recv_recv_headers(me, k, f) ==
  LET s == me.slab[k]
      opened == recv_open(s.state, f.eos, f.kind = "info")
  IN  IF opened = NoState THEN library_go_away(me, "PROTOCOL_ERROR")
      ELSE TakeHeaders(
             SetLength(CountOpened([me EXCEPT !.slab[k].state = opened], k, is_initial(s.state)), k, f.cl),
             k, f, is_initial(s.state))

recv_recv_trailers(me, k) ==
  LET closed == recv_close(me.slab[k].state)
      m == [me EXCEPT !.slab[k].state = closed]
  IN  IF closed = NoState THEN library_go_away(me, "PROTOCOL_ERROR")
      ELSE IF ~ensure_content_length_zero(me.slab[k])
      THEN library_reset(m, me.slab[k].id, "PROTOCOL_ERROR")
      ELSE Ok(PushEvent(m, k, Event("Trailers", 0)))

(* wakes is FALSE where the code passes no task (it runs in the task).       *)
WakeIf(me, now) == IF now THEN wake(me) ELSE me
WakeToUpdate(me, wakes) == WakeIf(me, wakes /\ unclaimed_capacity(me.rf) > 0)
release_connection_capacity(me, n, wakes) ==
  WakeToUpdate([Check(me, me.inFlight >= n, "recv.rs:437") EXCEPT
                  !.inFlight = @ - n, !.rf = assign_capacity(@, n)], wakes)
QueueUpdate(me, k, wakes) ==
  IF unclaimed_capacity(me.slab[k].rf) = 0 THEN me ELSE WakeIf(push(me, "wu", k), wakes)
recv_release_capacity(me, k, n, wakes) ==
  IF n > me.slab[k].inFlight THEN UserErr(me, "ReleaseCapacityTooBig")
  ELSE Ok(QueueUpdate([release_connection_capacity(me, n, wakes) EXCEPT
                         !.slab[k].inFlight = @ - n, !.slab[k].rf = assign_capacity(@, n)], k, wakes))
recv_clear_recv_buffer(me, k) == [me EXCEPT !.slab[k].precv = <<>>]
release_closed_capacity(me, k) ==
  LET n == me.slab[k].inFlight IN
  IF n = 0 THEN me
  ELSE recv_clear_recv_buffer(
         [release_connection_capacity(me, n, TRUE) EXCEPT !.slab[k].inFlight = 0], k)

set_target_connection_window(me, target) ==
  LET current == me.rf.a + me.inFlight IN
  WakeToUpdate([Check(me, current >= 0, "flow_control.rs:216") EXCEPT
                  !.rf = IF target > current THEN assign_capacity(@, target - current)
                         ELSE claim_capacity(@, current - target)], TRUE)

recv_apply_local_settings(me, win) ==
  LET old == me.recvInitWin
      Shrink(e, k) == [e EXCEPT !.slab[k].rf = dec_recv_window(@, old - win)]
      Grow(e, k) == [e EXCEPT !.slab[k].rf = assign_capacity(inc_window(@, win - old), win - old)]
      m == [me EXCEPT !.recvInitWin = win]
  IN  CASE win < 0 \/ win = old -> me
        [] win < old -> for_each(m, Shrink)
        [] OTHER -> for_each(m, Grow)

(* An assertion on the argument of flow_control.rs send_data cannot fail     *)
(* here: the window was compared with n first.                               *)
consume_connection_window(me, n) ==
  IF as_size(me.rf.w) < n THEN library_go_away(me, "FLOW_CONTROL_ERROR")
  ELSE Ok([me EXCEPT !.rf = flow_send_data(@, n), !.inFlight = @ + n])
recv_ignore_data_free(me, n) == Ok(me)
ReleaseIgnored(me, n) == IF me.res # OkRes THEN me ELSE release_connection_capacity(me, n, FALSE)
recv_ignore_data(me, n) == ReleaseIgnored(consume_connection_window(me, n), n)

CloseAtEnd(s, eos) == IF eos THEN [s EXCEPT !.state = recv_close(@)] ELSE s
(* The data goes to the application, or is given back when nobody reads.     *)
StoreData(me, k, len) ==
  IF ~me.slab[k].isRecv THEN release_connection_capacity(me, len, FALSE)
  ELSE PushEvent([me EXCEPT !.slab[k].rf = flow_send_data(@, len), !.slab[k].inFlight = @ + len],
                 k, Event("Data", len))
(* recv_data once the connection's window is charged.                        *)
TakeData(me, k, f) ==
  LET s == me.slab[k]
      t == dec_content_length(s, f.len)
  IN  IF me.res # OkRes THEN me
      ELSE IF as_size(s.rf.w) < f.len THEN library_reset(me, f.id, "FLOW_CONTROL_ERROR")
      ELSE IF content_length_exceeded(s, f.len) THEN library_reset(me, f.id, "PROTOCOL_ERROR")
      ELSE IF f.eos /\ ~ensure_content_length_zero(t)
      THEN library_reset(Upd(me, k, t), f.id, "PROTOCOL_ERROR")
      ELSE StoreData(Upd(me, k, CloseAtEnd(t, f.eos)), k, f.len)
recv_recv_data(me, k, f) ==
  IF is_local_error(me.slab[k].state) THEN recv_ignore_data(me, f.len)
  ELSE IF ~is_recv_streaming(me.slab[k].state) THEN Ok(me)
  ELSE TakeData(consume_connection_window(me, f.len), k, f)

recv_recv_push_promise(me, k) ==
  LET s == me.slab[k] IN
  IF reserve_remote(s.state) = NoState THEN library_go_away(me, "PROTOCOL_ERROR")
  ELSE Ok(PushEvent([me EXCEPT !.slab[k] = notify_push([@ EXCEPT !.state = reserve_remote(@)])],
                    k, Event("Promise", 0)))

notify_all(s) == notify_push(notify_recv(notify_send(s)))
recv_recv_reset(me, k, why) ==
  LET pending == is_queued(me, "accept", k)
      m == IF pending THEN inc_num_remote_reset_streams(me) ELSE me
  IN  IF pending /\ ~can_inc_num_remote_reset_streams(me) THEN library_go_away(me, "ENHANCE_YOUR_CALM")
      ELSE Ok([m EXCEPT !.slab[k] =
                 notify_all([@ EXCEPT !.state = recv_reset(@, why, is_queued(me, "send", k))])])
recv_handle_error_silent(me, k, by, why) == [me EXCEPT !.slab[k].state = handle_error(@, by, why)]
recv_handle_error(me, k, by, why) ==
  [me EXCEPT !.slab[k] = notify_all([@ EXCEPT !.state = handle_error(@, by, why)])]
recv_recv_eof(me, k) == [me EXCEPT !.slab[k] = notify_all([@ EXCEPT !.state = recv_eof(@)])]
recv_go_away(me, last) ==
  [Check(me, me.recvMaxId >= last, "recv.rs:918") EXCEPT !.recvMaxId = last]

recv_may_have_created_stream(me, id) == id < me.recvNextId
recv_maybe_reset_next_stream_id(me, id) ==
  IF id >= me.recvNextId THEN [me EXCEPT !.recvNextId = id + 2] ELSE me

enqueue_reset_expiration(me, k) ==
  IF ~is_local_error(me.slab[k].state) \/ is_queued(me, "reset", k) \/ ~can_inc_num_reset_streams(me)
  THEN me ELSE push(inc_num_reset_streams(me), "reset", k)
recv_send_pending_refusal(me) ==
  IF me.refused = 0 THEN me ELSE [emit(me, ResetFrame(me.refused, "REFUSED_STREAM")) EXCEPT !.refused = 0]

clear_expired_reset_stream_pop(me) == dec_num_reset_streams(pop(me, "reset"))
(* The oldest pending reset outlived reset_duration: one turn of the loop.   *)
clear_expired_reset_stream(me) == transition_after(pop(me, "reset"), Head(me.q.reset), TRUE)

(* The clear_... loops: every stream leaves the queue and is transitioned.   *)
RECURSIVE clear_wu(_), clear_reset(_), clear_accept(_)
clear_wu(me) ==
  IF me.q.wu = <<>> THEN me
  ELSE clear_wu(transition(me, Head(me.q.wu), pop(me, "wu")))
clear_reset(me) == IF me.q.reset = <<>> THEN me ELSE clear_reset(clear_expired_reset_stream(me))
clear_accept(me) ==
  IF me.q.accept = <<>> THEN me
  ELSE clear_accept(transition_after(pop(me, "accept"), Head(me.q.accept), FALSE))
ClearAccept(me, accept) == IF accept THEN clear_accept(me) ELSE me
recv_clear_queues(me, accept) == ClearAccept(clear_reset(clear_wu(me)), accept)

send_connection_window_update(me) ==
  LET n == unclaimed_capacity(me.rf) IN [emit(me, UpdateFrame(0, n)) EXCEPT !.rf = inc_window(@, n)]
EmitUpdate(me, k, n) ==
  IF is_recv_streaming(me.slab[k].state) /\ n > 0
  THEN [emit(me, UpdateFrame(me.slab[k].id, n)) EXCEPT !.slab[k].rf = inc_window(@, n)] ELSE me
send_stream_window_update(me) ==
  LET k == Head(me.q.wu) IN
  transition(me, k, EmitUpdate(pop(me, "wu"), k, unclaimed_capacity(me.slab[k].rf)))

(* What a poll of the application returns; "pending" leaves its waker.       *)
schedule_recv(me, k) ==
  LET o == ensure_recv_open(me.slab[k].state) IN
  CASE o = "open" -> Polled([me EXCEPT !.slab[k].recvTask = TRUE], "pending")
    [] o = "end" -> Polled(me, "none")
    [] OTHER -> Polled(me, "err")
PopEvent(me, k) == [me EXCEPT !.slab[k].precv = Tail(@)]
FrontEvent(me, k) == IF me.slab[k].precv = <<>> THEN Event("-", 0) ELSE Head(me.slab[k].precv)

recv_poll_data(me, k) ==
  CASE FrontEvent(me, k).ev = "Data" -> Polled(PopEvent(me, k), "data")
    [] FrontEvent(me, k).ev = "-" -> schedule_recv(me, k)
    [] OTHER -> Polled([me EXCEPT !.slab[k] = notify_recv(@)], "none")
recv_poll_trailers(me, k) ==
  CASE FrontEvent(me, k).ev = "Trailers" -> Polled(PopEvent(me, k), "trailers")
    [] FrontEvent(me, k).ev = "-" -> schedule_recv(me, k)
    [] OTHER -> Polled(me, "pending")
RECURSIVE recv_poll_response(_, _)
recv_poll_response(me, k) ==
  LET e == FrontEvent(me, k).ev IN
  CASE e = "Headers" -> Polled(PopEvent(me, k), "response")
    [] e = "Info" -> recv_poll_response(PopEvent(me, k), k)
    [] e = "-" -> LET m == schedule_recv(me, k) IN
                  IF m.res.e = "none" THEN Polled(me, "err") ELSE m
    [] OTHER -> Check(me, FALSE, "recv.rs:352")
recv_poll_informational(me, k) ==
  IF FrontEvent(me, k).ev = "Info" THEN Polled(PopEvent(me, k), "info") ELSE schedule_recv(me, k)
recv_take_request(me, k) ==
  PopEvent(Check(me, FrontEvent(me, k).ev = "Headers", "recv.rs:300"), k)
(* poll_pushed leaves the pushed stream's key in me.res.id.                  *)
recv_poll_pushed(me, k) ==
  LET ppp == me.slab[k].ppp
      p == Head(ppp)
      m == Check(me, FrontEvent(me, p).ev = "Promise", "recv.rs:318")
      o == ensure_recv_open(me.slab[k].state)
  IN  IF ppp # <<>> THEN [PopEvent([m EXCEPT !.slab[k].ppp = Tail(@)], p) EXCEPT
                            !.res = Res("pushed", "-", p)]
      ELSE CASE o = "open" -> Polled([me EXCEPT !.slab[k].pushTask = TRUE], "pending")
             [] o = "end" -> Polled(me, "none")
             [] OTHER -> Polled(me, "err")
=============================================================================

------------------------------ MODULE H2Streams ------------------------------
(* The streams of one HTTP/2 connection as its users see them: streams.rs.   *)
(* Every operator is one call made under the lock of Inner: those named      *)
(* inner_... are made by the connection task for a frame, the others by the  *)
(* application through a StreamRef (the stream's index k) or a Streams.      *)
EXTENDS H2Recv

(* What one endpoint is configured with.                                     *)
CONSTANT DefaultWindow   \* DEFAULT_INITIAL_WINDOW_SIZE

Queues == {"send", "cap", "open", "wu", "accept", "reset"}
MaxId == 1000   \* StreamId::MAX

(* Config: maxSend, maxRecv, maxReset, maxRemoteReset, maxErrReset, push.    *)
NewInner(srv, cfg) ==
  [srv |-> srv, slab |-> <<>>, ids |-> <<>>, q |-> [x \in Queues |-> <<>>],
   maxSend |-> cfg.maxSend, numSend |-> 0, maxRecv |-> cfg.maxRecv, numRecv |-> 0,
   maxReset |-> cfg.maxReset, numReset |-> 0,
   maxRemoteReset |-> cfg.maxRemoteReset, numRemoteReset |-> 0,
   maxErrReset |-> cfg.maxErrReset, numErrReset |-> 0,
   sf |-> Flow(DefaultWindow, DefaultWindow), sendInitWin |-> DefaultWindow,
   sendNextId |-> IF srv THEN 2 ELSE 1, sendMaxId |-> MaxId, sendPush |-> TRUE,
   inFlightFrame |-> NoFrame, reclaimed |-> 0,
   rf |-> Flow(DefaultWindow, DefaultWindow), recvInitWin |-> DefaultWindow, inFlight |-> 0,
   recvNextId |-> IF srv THEN 1 ELSE 2, lastProcessed |-> 0, recvMaxId |-> MaxId,
   refused |-> 0, recvPush |-> cfg.push,
   task |-> FALSE, connErr |-> "-", refs |-> 1,
   res |-> OkRes, out |-> <<>>, panic |-> "", dbg |-> ""]

(********************************* Actions *********************************)
ResetStream(me, k, why, by) ==
  Ok([enqueue_reset_expiration(send_send_reset(me, k, why, by), k) EXCEPT !.slab[k] = notify_recv(@)])
(* A reset that the library decides on is counted, and only so many are.     *)
ResetCounted(me, k, why) ==
  IF ~can_inc_num_local_error_resets(me) THEN library_go_away(me, "ENHANCE_YOUR_CALM")
  ELSE ResetStream(inc_num_local_error_resets(me), k, why, "Reset.Library")
actions_send_reset(me, k, why, by) ==
  transition(me, k, IF by = "Reset.Library" THEN ResetCounted(me, k, why)
                    ELSE ResetStream(me, k, why, by))
(* A stream error of the call that left me.res resets stream k.              *)
reset_on_recv_stream_err(me, k) ==
  IF me.res.e # "reset" THEN me ELSE ResetCounted(me, k, me.res.why)

(* The receiving half's ensure_not_idle always succeeds.                     *)
ensure_not_idle(me, id) == is_local_init(me, id) => send_ensure_not_idle(me, id)
may_have_forgotten_stream(me, id) ==
  IF is_local_init(me, id) THEN send_may_have_created_stream(me, id)
  ELSE recv_may_have_created_stream(me, id)
clear_queues(me, accept) == send_clear_queues(recv_clear_queues(me, accept))

(****************************** frames received ****************************)
NewRecvStream(me, id) == NewStream(id, me.sendInitWin, me.recvInitWin)

(* A header list too large for a server is answered with a 431.              *)
Answer431(me, k, f) == send_headers(me, k, HeadersFrame(f.id, TRUE, "plain", -1))
Refuse431(me, k) ==
  Ok(enqueue_reset_expiration(
       schedule_implicit_reset(DebugCheck(me, me.res = OkRes, "streams.rs:548"), k, "PROTOCOL_ERROR"), k))
AfterHeaders(me, k, f) ==
  CASE me.res.e = "oversize431" -> Refuse431(Answer431(me, k, f), k)
    [] me.res.e = "oversize" -> reset_on_recv_stream_err(library_reset(me, f.id, "PROTOCOL_ERROR"), k)
    [] OTHER -> reset_on_recv_stream_err(me, k)
recv_headers_on(me, k, f) ==
  LET s == me.slab[k] IN
  IF is_local_error(s.state) THEN Ok(me)
  ELSE transition(me, k,
         IF is_recv_headers(s.state) THEN AfterHeaders(recv_recv_headers(me, k, f), k, f)
         ELSE IF ~f.eos THEN library_reset(me, f.id, "PROTOCOL_ERROR")
         ELSE reset_on_recv_stream_err(recv_recv_trailers(me, k), k))

(* The stream that HEADERS open, unless recv.open refused it.                *)
InsertOpened(me, id) == IF me.refused # 0 THEN Ok(me) ELSE insert(me, NewRecvStream(me, id))
HeadersFound(me, f) ==
  IF find(me, f.id) = 0 THEN me ELSE recv_headers_on(me, find(me, f.id), f)
inner_recv_headers(me, f) ==
  IF f.id > me.recvMaxId THEN Ok(me)
  ELSE IF find(me, f.id) = 0 /\ ~me.srv /\ may_have_forgotten_stream(me, f.id)
  THEN library_reset(me, f.id, "STREAM_CLOSED")
  ELSE HeadersFound(IF find(me, f.id) # 0 THEN me ELSE InsertOpened(recv_open_stream(me, f.id), f.id), f)

(* DATA for an id the store does not hold opens a stream for it.             *)
ReleaseOfReset(me, len) ==
  IF me.res.e = "reset" THEN release_connection_capacity(me, len, FALSE) ELSE me
recv_data_on(me, k, f) ==
  transition(me, k, reset_on_recv_stream_err(ReleaseOfReset(recv_recv_data(me, k, f), f.len), k))
DataFound(me, f) == recv_data_on(me, find(me, f.id), f)
inner_recv_data(me, f) ==
  LET known == find(me, f.id) # 0 IN
  IF ~known /\ f.id > me.recvMaxId THEN Ok(me)
  ELSE DataFound(IF known THEN me ELSE insert(me, NewStream(f.id, MaxWindow, MaxWindow)), f)

CheckClosed(me, k) == Check(me, is_closed(me.slab[k].state), "streams.rs:673")
AfterReset(me, k) == IF me.res # OkRes THEN me ELSE CheckClosed(send_handle_error(me, k), k)
inner_recv_reset(me, f) ==
  LET k == find(me, f.id) IN
  IF f.id > me.recvMaxId THEN Ok(me)
  ELSE IF k # 0 THEN transition(me, k, AfterReset(recv_recv_reset(me, k, f.why), k))
  ELSE IF ensure_not_idle(me, f.id) THEN Ok(me) ELSE library_go_away(me, "PROTOCOL_ERROR")

(* inc_window never fails in this library, so no stream is reset here.       *)
inner_recv_window_update(me, f) ==
  LET k == find(me, f.id) IN
  IF f.id = 0 THEN Ok(recv_connection_window_update(me, f.inc))
  ELSE IF k # 0 THEN Ok(prioritize_recv_stream_window_update(me, k, f.inc))
  ELSE IF ensure_not_idle(me, f.id) THEN Ok(me) ELSE library_go_away(me, "PROTOCOL_ERROR")

(* The streams above last fail; an error of the connection fails them all.   *)
FailAbove(me, last, by, why) ==
  [for_each(me, LAMBDA e, k :
              IF e.slab[k].id <= last THEN e
              ELSE transition(e, k, send_handle_error(recv_handle_error(e, k, by, why), k)))
     EXCEPT !.connErr = by]
inner_handle_error(me, by, why) == FailAbove(me, -1, by, why)
AfterGoAway(me, last, why) ==
  IF me.res # OkRes THEN me ELSE FailAbove(me, last, "GoAway.Remote", why)
inner_recv_go_away(me, last, why) == AfterGoAway(send_recv_go_away(me, last), last, why)

(* The error the parent of a promise was closed with is returned as it is,   *)
(* and Connection::handle_poll2_result asserts that a reset is the library's.*)
ParentError(me, s) ==
  CASE s.state.by = "Io" -> [me EXCEPT !.res = Res("io", "-", 0)]
    [] s.state.by \in {"Reset.User", "Reset.Library", "Reset.Remote"} ->
         DebugCheck(library_reset(me, s.id, s.state.why), s.state.by = "Reset.Library", "connection.rs:457")
    [] OTHER -> library_go_away(me, s.state.why)
(* The promised stream is linked to its parent once it is reserved.          *)
AfterPromise(me, parent, k, r) ==
  IF r.res # OkRes THEN transition(me, k, reset_on_recv_stream_err(r, k))
  ELSE [transition(me, k, r) EXCEPT !.slab[parent] = notify_push([@ EXCEPT !.ppp = Append(@, k)])]
promise_on(me, parent, k) == AfterPromise(me, parent, k, recv_recv_push_promise(me, k))
PromiseFound(me, parent, f) ==
  IF me.refused # 0 THEN me ELSE promise_on(me, parent, find(me, f.promised))
inner_recv_push_promise(me, f) ==
  LET parent == find(me, f.id)
      o == ensure_recv_open(me.slab[parent].state)
  IN  IF parent = 0 THEN library_go_away(me, "PROTOCOL_ERROR")
      ELSE IF f.id > me.recvMaxId THEN Ok(me)
      ELSE IF o = "err" THEN ParentError(me, me.slab[parent])
      ELSE IF o # "open" \/ ~me.recvPush THEN library_go_away(me, "PROTOCOL_ERROR")
      ELSE PromiseFound(InsertOpened(recv_open_stream(me, f.promised), f.promised), parent, f)

inner_recv_eof(me, accept) ==
  clear_queues(for_each([me EXCEPT !.connErr = IF @ = "-" THEN "Io" ELSE @],
                        LAMBDA e, k : transition(e, k, send_handle_error(recv_recv_eof(e, k), k))), accept)

(* A connection-level reset: an unknown id is opened to be reset.            *)
maybe_reset_next_stream_id(me, id) ==
  IF is_local_init(me, id) THEN send_maybe_reset_next_stream_id(me, id)
  ELSE recv_maybe_reset_next_stream_id(me, id)
ResetFound(me, id, why) == actions_send_reset(me, find(me, id), why, "Reset.Library")
inner_send_reset(me, id, why) ==
  ResetFound(IF find(me, id) # 0 THEN me
             ELSE insert(maybe_reset_next_stream_id(me, id), NewStream(id, 0, 0)), id, why)

(* One turn of Inner::poll_complete; with nothing left it keeps the waker.   *)
KeepWaker(me) == IF me.out = <<>> THEN [me EXCEPT !.task = TRUE] ELSE me
poll_complete_turn(me) ==
  IF unclaimed_capacity(me.rf) > 0 THEN send_connection_window_update(me)
  ELSE IF me.q.wu # <<>> THEN send_stream_window_update(me)
  ELSE KeepWaker(prioritize_poll_complete(me))

ApplyPush(me, p) == IF p = "-" THEN me ELSE [me EXCEPT !.sendPush = (p = "on")]
apply_remote_settings(me, set, initial) ==
  ApplyPush(send_apply_remote_settings(counts_apply_remote_settings(me, set.max, initial), set.win),
            set.push)

(**************************** calls of the users ***************************)
ref_inc(me, k) == [me EXCEPT !.refs = @ + 1, !.slab[k].refs = @ + 1]

(* pending is the index of the stream the client last opened, 0 for none.    *)
NewRequest(me, head) ==
  insert([me EXCEPT !.sendNextId = @ + 2],
         [NewRecvStream(me, me.sendNextId) EXCEPT !.cl = IF head THEN HeadResponse ELSE Omitted])
AfterSend(me, k) == IF me.res # OkRes THEN remove(unlink(me, k), k) ELSE ref_inc(me, k)
CheckNotClosed(me, k) == DebugCheck(me, ~is_closed(me.slab[k].state), "streams.rs:338")
SendOn(me, k, eos, kind) ==
  AfterSend(CheckNotClosed(send_headers(me, k, HeadersFrame(me.slab[k].id, eos, kind, -1)), k), k)
send_request(me, pending, eos, kind, head) ==
  IF me.connErr # "-" THEN UserErr(me, "ConnError")
  ELSE IF pending # 0 /\ is_queued(me, "open", pending) THEN UserErr(me, "Rejected")
  ELSE IF me.srv THEN UserErr(me, "UnexpectedFrameType")
  ELSE SendOn(NewRequest(me, head), next_key(me), eos, kind)
poll_pending_open(me, pending) ==
  IF me.connErr # "-" THEN Polled(me, "err")
  ELSE IF pending # 0 /\ is_queued(me, "open", pending)
  THEN Polled([me EXCEPT !.slab[pending] = [@ EXCEPT !.sendTask = TRUE]], "pending")
  ELSE Polled(me, "ready")

ForgetReset(me, k) == IF is_remote_reset(me.slab[k].state) THEN dec_num_remote_reset_streams(me) ELSE me
next_incoming(me) == ref_inc(ForgetReset(pop(me, "accept"), Head(me.q.accept)), Head(me.q.accept))

send_data(me, k, len, eos) == transition(me, k, prioritize_send_data(me, k, len, eos))
send_trailers(me, k) ==
  transition(me, k, send_send_trailers(me, k, HeadersFrame(me.slab[k].id, TRUE, "plain", -1)))
send_response(me, k, eos, kind, cl) ==
  transition(me, k, send_headers(me, k, HeadersFrame(me.slab[k].id, eos, kind, cl)))
send_informational_headers(me, k) ==
  transition(me, k, send_interim_informational_headers(me, k,
                      HeadersFrame(me.slab[k].id, FALSE, "info", -1)))
send_reset(me, k, why) == actions_send_reset(me, k, why, "Reset.User")

NewPromise(me) ==
  insert([me EXCEPT !.sendNextId = @ + 2],
         [NewRecvStream(me, me.sendNextId) EXCEPT !.state = reserve_local(@), !.pendingPush = TRUE])
send_push_promise(me, k) ==
  AfterSend(send_send_push_promise(NewPromise(me), k, PushFrame(me.slab[k].id, me.sendNextId)),
            next_key(me))

release_capacity(me, k, n) == recv_release_capacity(me, k, n, TRUE)
clear_recv_buffer(me, k) == recv_clear_recv_buffer([me EXCEPT !.slab[k].isRecv = FALSE], k)
RefPushed(me) == IF me.res.e = "pushed" THEN ref_inc(me, me.res.id) ELSE me
poll_pushed(me, k) == RefPushed(recv_poll_pushed(me, k))

maybe_cancel(me, k) ==
  LET s == me.slab[k]
      early == me.srv /\ is_send_closed(s.state) /\ is_recv_streaming(s.state)
  IN  IF ~is_canceled_interest(s) THEN me
      ELSE enqueue_reset_expiration(
             schedule_implicit_reset(me, k, IF early THEN "NO_ERROR" ELSE "CANCEL"), k)

CancelPromise(me, p) == transition(me, p, maybe_cancel(me, p))
RECURSIVE CancelPromises(_, _)
CancelPromises(me, k) ==
  LET ppp == me.slab[k].ppp IN
  IF ppp = <<>> THEN me
  ELSE CancelPromises(CancelPromise([me EXCEPT !.slab[k].ppp = Tail(@)], Head(ppp)), k)

DropRef(me, k) ==
  [Check(me, me.slab[k].refs > 0, "stream.rs:208") EXCEPT !.refs = @ - 1, !.slab[k].refs = @ - 1]
WakeAtLast(me, k) ==
  WakeIf(me, me.slab[k].refs = 0 /\ stream_is_closed(me.slab[k]))
ReleaseAtLast(me, k) ==
  IF me.slab[k].refs = 0 THEN CancelPromises(release_closed_capacity(me, k), k) ELSE me
drop_stream_ref(me, k) ==
  transition(me, k, ReleaseAtLast(maybe_cancel(WakeAtLast(DropRef(me, k), k), k), k))
(* Dropping a clone of Streams (the client's SendRequest).                   *)
drop_streams(me) == WakeIf([me EXCEPT !.refs = @ - 1], me.refs = 2)
=============================================================================

------------------------------- MODULE H2Conn -------------------------------
(* The connection task of one endpoint: connection.rs with go_away.rs,       *)
(* settings.rs and the shutdown ping of ping_pong.rs (the pings of the user  *)
(* are in H2Ping).  One operator is one turn of the task's loop.             *)
EXTENDS H2Streams, TLC

GoAwayFrame(last, why) == [t |-> "GOAWAY", last |-> last, why |-> why]
NoGoAway == GoAwayFrame(-1, "-")
PingFrame(ack) == [t |-> "PING", ack |-> ack]
(* A value of -1 or "-" is a parameter the SETTINGS frame does not name.     *)
Settings(win, max, p) == [win |-> win, max |-> max, push |-> p]
NoSettings == Settings(-2, -2, "none")
SettingsFrame(set) == [t |-> "SETTINGS", ack |-> FALSE, set |-> set]
SettingsAck == [t |-> "SETTINGS", ack |-> TRUE, set |-> NoSettings]
Eof == [t |-> "EOF"]       \* the peer shut its side of the transport down
IoError == [t |-> "IO"]    \* reading failed

NewConnection(srv, cfg, set) ==
  NewInner(srv, cfg) @@
  [cs |-> "Open", theirs |-> "-", closeNow |-> FALSE, byUser |-> FALSE,
   going |-> NoGoAway, pending |-> NoGoAway, ping |-> "none", pong |-> FALSE,
   local |-> "WaitingAck", localSet |-> set, remote |-> NoSettings, initialSeen |-> FALSE]

(******************************** go_away.rs *******************************)
ga_go_away(me, f) ==
  [Check(me, me.going # NoGoAway => f.last <= me.going.last, "go_away.rs:55") EXCEPT
     !.going = f, !.pending = f]
ga_go_away_now(me, f) ==
  IF me.going = f THEN [me EXCEPT !.closeNow = TRUE]
  ELSE ga_go_away([me EXCEPT !.closeNow = TRUE], f)
should_close_now(me) == me.pending = NoGoAway /\ me.closeNow
should_close_on_idle(me) == ~me.closeNow /\ me.going # NoGoAway /\ me.going.last # MaxId

(******************************* connection.rs *****************************)
conn_go_away(me, last, why) == ga_go_away(recv_go_away(me, last), GoAwayFrame(last, why))
go_away_now_first(me, why) == ga_go_away_now(me, GoAwayFrame(0, why))
go_away_now(me, why) == ga_go_away_now(me, GoAwayFrame(me.lastProcessed, why))
go_away_from_user(me, why) ==
  inner_handle_error(go_away_now([me EXCEPT !.byUser = TRUE], why), "GoAway.User", why)

handle_go_away(me, why) ==
  IF me.going # NoGoAway /\ me.going.why = why THEN [me EXCEPT !.cs = "Closing"]
  ELSE go_away_now(inner_handle_error(me, "GoAway.Library", why), why)

(* Only an end of file in a server, or after a clean GOAWAY, with nothing    *)
(* left to send is not reported as an error.                                 *)
BufferEmpty(me) == \A k \in Keys(me) : me.slab[k].psend = <<>> /\ me.slab[k].precv = <<>>
CloseFailed(me) ==
  [me EXCEPT !.cs = IF BufferEmpty(me) /\ (me.srv \/ me.theirs = "NO_ERROR")
                    THEN "Closed" ELSE "Failed"]
GoAwayOrOn(me) == IF me.res.e = "goaway" THEN handle_go_away(me, me.res.why) ELSE me
handle_poll2_result(me) ==
  CASE me.res.e = "ok" -> [me EXCEPT !.cs = "Closing"]
    [] me.res.e = "io" -> CloseFailed(inner_handle_error(me, "Io", "-"))
    [] me.res.e \in {"goaway", "reset"} ->
         GoAwayOrOn(IF me.res.e = "reset" THEN inner_send_reset(me, me.res.id, me.res.why) ELSE me)

go_away_gracefully(me) ==
  IF me.going # NoGoAway THEN me
  ELSE [Check(conn_go_away(me, MaxId, "NO_ERROR"), me.ping = "none", "ping_pong.rs:89")
          EXCEPT !.ping = "unsent", !.task = FALSE]

ShutdownPong(me) ==
  conn_go_away(Check([me EXCEPT !.ping = "none"], me.going # NoGoAway, "connection.rs:557"),
               me.lastProcessed, "NO_ERROR")
TakePing(me, f) ==
  IF ~f.ack THEN [me EXCEPT !.pong = TRUE] ELSE IF me.ping = "none" THEN me ELSE ShutdownPong(me)
recv_ping(me, f) == Ok(TakePing(Check(me, ~me.pong, "ping_pong.rs:101"), f))

(******************************** settings.rs ******************************)
recv_settings(me, f) ==
  IF ~f.ack THEN Ok([Check(me, me.remote = NoSettings, "settings.rs:85") EXCEPT !.remote = f.set])
  ELSE IF me.local # "WaitingAck" THEN library_go_away(me, "PROTOCOL_ERROR")
  ELSE Ok([recv_apply_local_settings(me, me.localSet.win) EXCEPT !.local = "Synced"])
send_settings(me, set) ==
  IF me.local # "Synced" THEN UserErr(me, "SendSettingsWhilePending")
  ELSE Ok([me EXCEPT !.local = "ToSend", !.localSet = set, !.task = FALSE])
ack_settings(me) ==
  [apply_remote_settings(emit(me, SettingsAck), me.remote, ~me.initialSeen) EXCEPT
     !.remote = NoSettings, !.initialSeen = TRUE]

(****************************** turns of the task **************************)
NoteGoAway(me, why) == IF me.res # OkRes THEN me ELSE [me EXCEPT !.theirs = why]
recv_frame(me, f) ==
  CASE f.t = "HEADERS" -> inner_recv_headers(me, f)
    [] f.t = "DATA" -> inner_recv_data(me, f)
    [] f.t = "RST_STREAM" -> inner_recv_reset(me, f)
    [] f.t = "PUSH_PROMISE" -> inner_recv_push_promise(me, f)
    [] f.t = "SETTINGS" -> recv_settings(me, f)
    [] f.t = "GOAWAY" -> NoteGoAway(inner_recv_go_away(me, f.last, f.why), f.why)
    [] f.t = "PING" -> recv_ping(me, f)
    [] f.t = "WINDOW_UPDATE" -> inner_recv_window_update(me, f)
    [] f.t = "EOF" -> Ok(inner_recv_eof(me, FALSE))
    [] f.t = "IO" -> [me EXCEPT !.res = Res("io", "-", 0)]

(* poll2 writes what is pending before it reads the next frame.              *)
HasControl(me) ==
  \/ me.pending # NoGoAway \/ me.closeNow \/ me.pong \/ me.ping = "unsent"
  \/ me.remote # NoSettings \/ me.local = "ToSend" \/ me.refused # 0
SendGoAway(me) ==
  IF me.pending = NoGoAway THEN me ELSE emit([me EXCEPT !.pending = NoGoAway], me.pending)
AfterGoAwaySent(me, why) ==
  IF should_close_now(me)
  THEN handle_poll2_result(IF me.byUser THEN Ok(me) ELSE library_go_away(me, me.going.why))
  ELSE DebugCheck(me, why = "NO_ERROR", "connection.rs:350")
poll_go_away(me) == AfterGoAwaySent(SendGoAway(me), me.pending.why)
poll_ready(me) ==
  CASE me.pong -> emit([me EXCEPT !.pong = FALSE], PingFrame(TRUE))
    [] ~me.pong /\ me.ping = "unsent" -> emit([me EXCEPT !.ping = "sent"], PingFrame(FALSE))
    [] ~me.pong /\ me.ping # "unsent" /\ me.remote # NoSettings -> ack_settings(me)
    [] ~me.pong /\ me.ping # "unsent" /\ me.remote = NoSettings ->
         IF me.local = "ToSend"
         THEN emit([me EXCEPT !.local = "WaitingAck"], SettingsFrame(me.localSet))
         ELSE recv_send_pending_refusal(me)
control_turn(me) ==
  IF me.pending # NoGoAway \/ me.closeNow THEN poll_go_away(me) ELSE poll_ready(me)

AfterFrame(me, f) == IF f.t # "EOF" /\ me.res = OkRes THEN me ELSE handle_poll2_result(me)
recv_turn(me, f) == AfterFrame(recv_frame(wake(me), f), f)

(* poll_complete after poll2 found nothing to read.                          *)
CloseIdle(me) ==
  IF me.task /\ (me.theirs # "-" \/ should_close_on_idle(me)) /\ ~has_streams(me)
  THEN wake(go_away_now(me, "NO_ERROR")) ELSE me
write_turn(me) == CloseIdle(poll_complete_turn(me))

(* The client's task closes a connection that nobody refers to any more, and *)
(* polls once more after the last reference or stream is gone.               *)
unreferenced(me) == ~has_streams(me) /\ me.refs <= 1
maybe_close_connection_if_no_streams(me) == wake(go_away_now(me, "NO_ERROR"))
CloseUnreferenced(me) ==
  IF ~me.srv /\ unreferenced(me) THEN maybe_close_connection_if_no_streams(me) ELSE me
(* Connection's Drop, once its task has ended.                               *)
drop_connection(me) == [inner_recv_eof(me, TRUE) EXCEPT !.cs = "Dropped", !.refs = @ - 1]
=============================================================================

------------------------------- MODULE H2Link -------------------------------
(* A client and a server endpoint of the HTTP/2 library over a reliable      *)
(* transport, each with its connection task and with application tasks that  *)
(* hold the stream handles of client.rs, server.rs and share.rs.  A step is  *)
(* one call of an application, or one turn of a connection task: the frame   *)
(* it reads or the frame it writes.                                          *)
EXTENDS H2Conn

CONSTANTS
  Plans,       \* what the applications do: how often each operation, with what
  ClientCfg, ServerCfg, ClientSettings, ServerSettings,
  Windows,     \* the initial windows a later SETTINGS frame may choose
  Careful      \* whether 1xx responses and promises come before the response

VARIABLES
  ep,     \* the two endpoints
  net,    \* net[e]: the frames on their way to e
  h,      \* h[e]: the handles the applications of e hold: [k, half]
  left    \* the plan, and what remains of it
vars == <<ep, net, h, left>>

Ends == {"c", "s"}
Other(e) == IF e = "c" THEN "s" ELSE "c"
Alive(e) == ep[e].panic = ""
Handle(k, half) == [k |-> k, half |-> half]

(* A plan also says which requests a client makes ([eos, head]), the sizes   *)
(* of the DATA an application sends, how many streams the server allows, and *)
(* whether the first SETTINGS of both were exchanged before.                 *)
Plan(budget, requests, lens, slots, handshaken) ==
  budget @@ [requests |-> requests, lens |-> lens, slots |-> slots, handshaken |-> handshaken]

(* The client's Streams has two references: the connection's, SendRequest's. *)
SettingsOf(e) ==
  IF e = "c" THEN ClientSettings ELSE [ServerSettings EXCEPT !.max = left.slots]
NewEnd(e) ==
  IF e = "c" THEN [NewConnection(FALSE, ClientCfg, ClientSettings) EXCEPT !.refs = 2]
  ELSE NewConnection(TRUE, [ServerCfg EXCEPT !.maxRecv = left.slots], SettingsOf("s"))
(* The endpoint after both SETTINGS frames were acknowledged.                *)
Synced(e) ==
  [ack_settings(recv_settings(recv_settings(NewEnd(e), SettingsAck),
                              SettingsFrame(SettingsOf(Other(e))))) EXCEPT !.out = <<>>, !.task = TRUE]
Init ==
  /\ left \in Plans
  /\ ep = [e \in Ends |-> IF left.handshaken THEN Synced(e) ELSE NewEnd(e)]
  /\ net = [e \in Ends |-> IF left.handshaken THEN <<>> ELSE <<SettingsFrame(SettingsOf(Other(e)))>>]
  /\ h = [e \in Ends |-> IF e = "c" THEN {Handle(0, "request")} ELSE {}]

(* The result of a call and the frames it wrote leave the endpoint.          *)
Done(e, m) ==
  /\ ep' = [ep EXCEPT ![e] = [m EXCEPT !.out = <<>>, !.res = OkRes]]
  /\ net' = [net EXCEPT ![Other(e)] = IF ep[Other(e)].cs = "Dropped" THEN <<>> ELSE @ \o m.out]
Spend(op) ==
  /\ op \in DOMAIN left /\ left[op] > 0
  /\ left' = [left EXCEPT ![op] = @ - 1]
(* An operation of an application that keeps its handles.                    *)
App(e, op, m) == Alive(e) /\ Spend(op) /\ Done(e, m) /\ UNCHANGED h

(****************************** the applications ***************************)
Pending == {x.k : x \in {y \in h["c"] : y.half = "pending"}}
PendingKey == IF Pending = {} THEN 0 ELSE CHOOSE k \in Pending : TRUE
NewHandles(m, k) ==
  {Handle(k, "send"), Handle(k, "response")} \cup
  (IF is_queued(m, "open", k) /\ next_send_stream_will_reach_capacity(m)
   THEN {Handle(k, "pending")} ELSE {})
(* SendRequest::send_request; each further handle is a clone of the stream's,*)
(* and a new pending stream replaces the one SendRequest kept.  A call that  *)
(* is refused changes nothing.                                               *)
Replaced(new, k) == IF Handle(k, "pending") \in new THEN Pending ELSE {}
ref_clone(m, k, n) == [m EXCEPT !.refs = @ + n, !.slab[k].refs = @ + n]
SendRequest(r) ==
  /\ Alive("c") /\ Handle(0, "request") \in h["c"] /\ Spend("request")
  /\ \E m \in {send_request(ep["c"], PendingKey, r.eos, "plain", r.head)}, k \in {next_key(ep["c"])} :
       /\ m.res = OkRes
       /\ \E new \in {NewHandles(m, k)} :
            /\ Done("c", IF Replaced(new, k) = {} THEN ref_clone(m, k, Cardinality(new) - 1)
                         ELSE drop_stream_ref(ref_clone(m, k, Cardinality(new) - 1), PendingKey))
            /\ h' = [h EXCEPT !["c"] =
                       (@ \ {Handle(j, "pending") : j \in Replaced(new, k)}) \cup new]
(* SendRequest::poll_ready: the handle of the pending stream is dropped.     *)
PollReady ==
  LET m == poll_pending_open(ep["c"], PendingKey) IN
  /\ Alive("c") /\ Handle(0, "request") \in h["c"] /\ Pending # {}
  /\ ep["c"].slab[PendingKey].sendTask = FALSE
  /\ IF m.res.e = "ready"
     THEN Done("c", drop_stream_ref(m, PendingKey)) /\ h' = [h EXCEPT !["c"] = @ \ {Handle(PendingKey, "pending")}]
     ELSE Done("c", m) /\ UNCHANGED h
  /\ UNCHANGED left
DropSendRequest ==
  /\ Alive("c") /\ Handle(0, "request") \in h["c"] /\ Pending = {} /\ Spend("dropRequest")
  /\ Done("c", drop_streams(ep["c"]))
  /\ h' = [h EXCEPT !["c"] = @ \ {Handle(0, "request")}]

(* Connection::accept and the two handles it returns.                        *)
Accept ==
  LET k == Head(ep["s"].q.accept)
  IN  /\ Alive("s") /\ ep["s"].cs = "Open" /\ ep["s"].q.accept # <<>>
      /\ Done("s", ref_inc(recv_take_request(next_incoming(ep["s"]), k), k))
      /\ h' = [h EXCEPT !["s"] = @ \cup {Handle(k, "respond"), Handle(k, "body")}]
      /\ UNCHANGED left

(* SendResponse::send_response, and SendPushedResponse's: the SendStream is a *)
(* clone of the handle.                                                      *)
Respond(k, eos, kind) ==
  /\ Alive("s") /\ h["s"] \cap {Handle(k, "respond"), Handle(k, "pushed")} # {} /\ Spend("respond")
  /\ \E m \in {send_response(ep["s"], k, eos, kind, -1)} : m.res = OkRes /\ Done("s", ref_inc(m, k))
  /\ h' = [h EXCEPT !["s"] = @ \cup {Handle(k, "send")}]
Early(k) == Careful => ep["s"].slab[k].state.lo = "A"
Inform(k) ==
  /\ Handle(k, "respond") \in h["s"] /\ Early(k)
  /\ App("s", "inform", send_informational_headers(ep["s"], k))
SendData(e, k, len, eos) ==
  /\ Handle(k, "send") \in h[e] /\ is_send_streaming(ep[e].slab[k].state)
  /\ App(e, "data", send_data(ep[e], k, len, eos))
SendTrailers(e, k) ==
  /\ Handle(k, "send") \in h[e] /\ is_send_streaming(ep[e].slab[k].state)
  /\ App(e, "trailers", send_trailers(ep[e], k))
ReserveCapacity(e, k, n) ==
  /\ Handle(k, "send") \in h[e]
  /\ App(e, "reserve", reserve_capacity(ep[e], k, n))
PollCapacity(e, k) ==
  /\ Handle(k, "send") \in h[e] /\ ~ep[e].slab[k].sendTask
  /\ App(e, "pollCapacity", send_poll_capacity(ep[e], k))
(* SendStream::poll_reset, and SendResponse's before it has answered.        *)
PollReset(e, x) ==
  LET mode == IF x.half = "send" THEN "Streaming" ELSE "AwaitingHeaders" IN
  /\ x.half \in {"send", "respond"} /\ ~ep[e].slab[x.k].sendTask
  /\ App(e, "pollReset", send_poll_reset(ep[e], x.k, mode))
SendReset(e, k) ==
  /\ h[e] \cap {Handle(k, "send"), Handle(k, "respond"), Handle(k, "pushed")} # {}
  /\ App(e, "reset", send_reset(ep[e], k, "CANCEL"))

(* ResponseFuture: once resolved it is replaced by the body's handle.        *)
PollResponse(x) ==
  LET m == recv_poll_response(ep["c"], x.k) IN
  /\ Alive("c") /\ x.half \in {"response", "promised"} /\ ~ep["c"].slab[x.k].recvTask
  /\ Done("c", m)
  /\ h' = IF m.res.e = "response"
          THEN [h EXCEPT !["c"] = (@ \ {x}) \cup {Handle(x.k, "body")}] ELSE h
  /\ UNCHANGED left
PollInformational(k) ==
  /\ Handle(k, "response") \in h["c"]
  /\ App("c", "pollInfo", recv_poll_informational(ep["c"], k))
(* RecvStream: the data read is released at once or when the body ends.      *)
PollData(e, k) ==
  /\ Alive(e) /\ Handle(k, "body") \in h[e] /\ ~ep[e].slab[k].recvTask
  /\ FrontEvent(ep[e], k).ev \in {"Data", "-"}
  /\ Done(e, recv_poll_data(ep[e], k))
  /\ UNCHANGED <<h, left>>
PollTrailers(e, k) ==
  /\ Alive(e) /\ Handle(k, "body") \in h[e] /\ FrontEvent(ep[e], k).ev = "Trailers"
  /\ Done(e, recv_poll_trailers(ep[e], k))
  /\ UNCHANGED <<h, left>>
Unreleased(e, k) ==
  ep[e].slab[k].inFlight - FoldSeq(LAMBDA v, n : n + v.len, 0, ep[e].slab[k].precv)
ReleaseCapacity(e, k) ==
  /\ Alive(e) /\ Handle(k, "body") \in h[e] /\ Unreleased(e, k) > 0
  /\ Done(e, release_capacity(ep[e], k, Unreleased(e, k)))
  /\ UNCHANGED <<h, left>>
(* A RecvStream discards what it has not read when it is dropped.            *)
DropHandle(e, x) ==
  LET m == IF x.half = "body" THEN clear_recv_buffer(ep[e], x.k) ELSE ep[e] IN
  /\ Alive(e) /\ x.k # 0 /\ x.half # "pending" /\ Spend("drop")
  /\ Done(e, drop_stream_ref(m, x.k))
  /\ h' = [h EXCEPT ![e] = @ \ {x}]

SendPushPromise(k) ==
  /\ Alive("s") /\ Handle(k, "respond") \in h["s"] /\ Early(k) /\ Spend("push")
  /\ \E m \in {send_push_promise(ep["s"], k)} :
       /\ Done("s", m)
       /\ h' = IF m.res = OkRes
               THEN [h EXCEPT !["s"] = @ \cup {Handle(next_key(ep["s"]), "pushed")}] ELSE h
(* ResponseFuture::push_promises clones the handle; a PushPromise holds a    *)
(* PushedResponseFuture.                                                     *)
PushPromises(k) ==
  /\ Alive("c") /\ Handle(k, "response") \in h["c"] /\ Handle(k, "promises") \notin h["c"]
  /\ Spend("pushes")
  /\ Done("c", ref_inc(ep["c"], k))
  /\ h' = [h EXCEPT !["c"] = @ \cup {Handle(k, "promises")}]
PollPushed(k) ==
  LET m == poll_pushed(ep["c"], k) IN
  /\ Alive("c") /\ Handle(k, "promises") \in h["c"] /\ ep["c"].slab[k].ppp # <<>>
  /\ Done("c", m)
  /\ h' = [h EXCEPT !["c"] = @ \cup {Handle(m.res.id, "promised")}]
  /\ UNCHANGED left

(* What the owner of a Connection asks of it.                                *)
GracefulShutdown == ep["s"].cs = "Open" /\ App("s", "shutdown", go_away_gracefully(ep["s"]))
AbruptShutdown == ep["s"].cs = "Open" /\ App("s", "abort", wake(go_away_from_user(ep["s"], "INTERNAL_ERROR")))
SetInitialWindow(e, win) ==
  /\ ep[e].cs = "Open" /\ ep[e].local = "Synced"
  /\ App(e, "window", send_settings(ep[e], Settings(win, -1, "-")))
SetTargetWindow(e, n) ==
  /\ ep[e].cs = "Open"
  /\ App(e, "target", set_target_connection_window(ep[e], n))

(**************************** the connection tasks *************************)
Control(e) ==
  /\ Alive(e) /\ ep[e].cs = "Open" /\ HasControl(ep[e])
  /\ Done(e, control_turn(ep[e]))
  /\ UNCHANGED <<h, left>>
Recv(e) ==
  /\ Alive(e) /\ ep[e].cs = "Open" /\ ~HasControl(ep[e]) /\ net[e] # <<>>
  /\ ep' = [ep EXCEPT ![e] = [recv_turn(@, Head(net[e])) EXCEPT !.out = <<>>, !.res = OkRes]]
  /\ net' = [net EXCEPT ![e] = Tail(@)]
  /\ UNCHANGED <<h, left>>
Write(e) ==
  /\ Alive(e) /\ ep[e].cs = "Open" /\ ~HasControl(ep[e]) /\ ~ep[e].task
  /\ Done(e, CloseUnreferenced(write_turn(ep[e])))
  /\ UNCHANGED <<h, left>>
ExpireReset(e) ==
  /\ Alive(e) /\ ep[e].cs = "Open" /\ ep[e].q.reset # <<>> /\ Spend("expire")
  /\ Done(e, clear_expired_reset_stream(ep[e]))
  /\ UNCHANGED h
(* Closing flushes the codec and shuts the transport down; the task ends and *)
(* drops the Connection.                                                     *)
Close(e) ==
  /\ Alive(e) /\ ep[e].cs \in {"Closing", "Closed", "Failed"}
  /\ Done(e, emit(drop_connection(ep[e]), Eof))
  /\ UNCHANGED <<h, left>>

(* The transport breaks: what was on its way is lost and both sides read an  *)
(* error.                                                                    *)
Break ==
  /\ \A e \in Ends : ep[e].cs # "Dropped"
  /\ Spend("break")
  /\ net' = [e \in Ends |-> <<IoError>>]
  /\ UNCHANGED <<ep, h>>

AppStep(e) ==
  \E k \in Keys(ep[e]) :
    \/ \E len \in left.lens, eos \in BOOLEAN : SendData(e, k, len, eos)
    \/ SendTrailers(e, k)
    \/ \E n \in left.lens \cup {0} : ReserveCapacity(e, k, n)
    \/ PollCapacity(e, k) \/ SendReset(e, k)
    \/ PollData(e, k) \/ PollTrailers(e, k) \/ ReleaseCapacity(e, k)
ClientStep ==
  \/ \E r \in left.requests : SendRequest(r)
  \/ PollReady \/ DropSendRequest
  \/ \E x \in h["c"] : PollResponse(x)
  \/ \E k \in Keys(ep["c"]) : PollInformational(k) \/ PushPromises(k) \/ PollPushed(k)
ServerStep ==
  \/ Accept \/ GracefulShutdown \/ AbruptShutdown
  \/ \E k \in Keys(ep["s"]) :
       \/ \E eos \in BOOLEAN : Respond(k, eos, "plain")
       \/ Inform(k) \/ SendPushPromise(k)
TaskStep(e) == Control(e) \/ Recv(e) \/ Write(e) \/ ExpireReset(e) \/ Close(e)
Next ==
  \/ ClientStep \/ ServerStep \/ Break
  \/ \E e \in Ends :
       \/ AppStep(e) \/ TaskStep(e)
       \/ \E x \in h[e] : DropHandle(e, x) \/ PollReset(e, x)
       \/ \E n \in Windows : SetInitialWindow(e, n) \/ SetTargetWindow(e, n)
Spec == Init /\ [][Next]_vars
=============================================================================

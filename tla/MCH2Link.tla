------------------------------ MODULE MCH2Link ------------------------------
(* Instances of H2Link for TLC, and what the two endpoints must keep true.   *)
EXTENDS H2Link

Cfg(maxSend, maxRecv, maxReset) ==
  [maxSend |-> maxSend, maxRecv |-> maxRecv, maxReset |-> maxReset,
   maxRemoteReset |-> 1, maxErrReset |-> 2, push |-> TRUE]
RoomyClientCfg == Cfg(2, 1000, 2)
RoomyServerCfg == Cfg(0, 1, 2)
MCClientSettings == Settings(-1, -1, "-")
MCServerSettings == Settings(-1, 1, "-")
MCWindows == {1, 3}
Post == [eos |-> FALSE, head |-> FALSE]
Get == [eos |-> TRUE, head |-> FALSE]
Posts == {Post}
Gets == {Get}

(* What the applications do in the runs: each plan reaches one part of the   *)
(* library with the others idle, so that all of its interleavings fit.       *)
Upload == Plan([request |-> 2, data |-> 2], Posts, {1, 3}, 1, TRUE)
Download ==
  Plan([request |-> 1, respond |-> 1, data |-> 2, trailers |-> 1, pollCapacity |-> 1],
       Gets, {1, 3}, 1, TRUE)
WiderWindow ==
  Plan([request |-> 1, respond |-> 1, data |-> 2, target |-> 1], Gets, {1, 3}, 1, TRUE)
Resets == Plan([request |-> 2, data |-> 1, reset |-> 1], Posts, {3}, 1, TRUE)
Drops == Plan([request |-> 2, data |-> 1, drop |-> 1], Posts, {3}, 1, TRUE)
ResetAndDrop == Plan([request |-> 1, data |-> 1, reset |-> 1, drop |-> 1], Posts, {3}, 1, TRUE)
NewSettings == Plan([request |-> 1, data |-> 1, reserve |-> 1, window |-> 1], Posts, {3}, 1, FALSE)
FlowPlans == {Upload, Download, WiderWindow, Resets, Drops, ResetAndDrop, NewSettings}
Expiry == Plan([request |-> 1, respond |-> 1, reset |-> 1, drop |-> 2, expire |-> 1], Gets, {3}, 1, TRUE)
Refilled == Plan([request |-> 2, reset |-> 1, drop |-> 2, expire |-> 1], Gets, {3}, 1, TRUE)
Pushes ==
  Plan([request |-> 1, respond |-> 2, push |-> 1, pushes |-> 1, inform |-> 1, pollInfo |-> 1],
       Gets, {3}, 1, TRUE)
Shutdown ==
  Plan([request |-> 2, respond |-> 1, dropRequest |-> 1, shutdown |-> 1, abort |-> 1, drop |-> 1],
       Gets, {3}, 1, TRUE)
Broken == Plan([request |-> 1, data |-> 1, respond |-> 1, break |-> 1], Posts, {3}, 1, TRUE)
Watched == Plan([request |-> 1, pollReset |-> 1, respond |-> 1, break |-> 1], Posts, {3}, 1, TRUE)
LifePlans == {Expiry, Refilled, Pushes, Shutdown, Broken, Watched}
Queueing == Plan([request |-> 2, respond |-> 2, trailers |-> 2, break |-> 1], Gets, {3}, 1, TRUE)
Sharing == Plan([request |-> 2, data |-> 2], Posts, {2}, 3, TRUE)
LivePlans == {Queueing, Sharing}

UpTo(m) == m.cs = "Open"

(* No assert, unwrap, expect, unreachable or debug_assert of the library     *)
(* fires, whatever the applications do and however the frames interleave.    *)
NoPanic == \A e \in Ends : ep[e].panic = "" /\ ep[e].dbg = ""

SumOver(S, F(_)) == FoldSet(LAMBDA x, n : n + F(x), 0, S)
(* The capacity assigned to streams and what the connection keeps is the     *)
(* connection's send window: none is lost and none is made up.               *)
CapacityConserved ==
  \A e \in Ends :
    ep[e].sf.a + SumOver(Keys(ep[e]), LAMBDA k : ep[e].slab[k].sf.a) = ep[e].sf.w

SumNet(e, F(_)) == FoldSeq(LAMBDA f, n : n + F(f), 0, net[e])
Updates(e, id) == SumNet(e, LAMBDA f : IF f.t = "WINDOW_UPDATE" /\ f.id = id THEN f.inc ELSE 0)
DataTo(e, ids) == SumNet(e, LAMBDA f : IF f.t = "DATA" /\ f.id \in ids THEN f.len ELSE 0)
BothOpen == \A e \in Ends : UpTo(ep[e])
(* What an endpoint may still send on the connection is what its peer is     *)
(* still ready to receive, counting the frames on their way.                 *)
ConnWindowsAgree ==
  BothOpen => \A e \in Ends :
    ep[e].sf.w + Updates(e, 0) + DataTo(Other(e), 1..MaxId) = ep[Other(e)].rf.w
(* The same of each stream that one end still sends on and the other still   *)
(* reads, unless a change of the initial window is on its way.               *)
StreamWindowsAgree ==
  BothOpen => \A e \in Ends : \A k \in Keys(ep[e]), j \in Keys(ep[Other(e)]) :
    LET s == ep[e].slab[k]
        r == ep[Other(e)].slab[j]
    IN  (/\ s.id = r.id /\ ~is_send_closed(s.state) /\ r.isRecv
         /\ ~is_closed(r.state) /\ ~is_recv_end_stream(r.state) /\ ep[Other(e)].local = "Synced")
        => s.sf.w + Updates(e, s.id) + DataTo(Other(e), {s.id}) = r.rf.w
(* The two ends' views of every window, the connection's and the streams',   *)
(* differ by no more than the frames on their way: FlowControl's counts are  *)
(* never charged twice, released twice or forgotten (recv_data,              *)
(* release_capacity, send_data, recv_window_update).                         *)
WindowsAgree == ConnWindowsAgree /\ StreamWindowsAgree

Sendable(m, k) ==
  LET s == m.slab[k] IN
  /\ Contains(m.q.send, k)
  /\ IF s.psend = <<>> THEN is_scheduled_reset(s.state)
     ELSE Head(s.psend).t # "DATA" \/ Head(s.psend).len = 0 \/ s.sf.a > 0
(* A connection task that sleeps has nothing to write: whoever gave it       *)
(* something to write has woken it.                                          *)
NoLostWake ==
  \A e \in Ends : (ep[e].task /\ UpTo(ep[e])) =>
     /\ \A k \in Keys(ep[e]) : ~Sendable(ep[e], k)
     /\ ep[e].q.wu = <<>>
     /\ unclaimed_capacity(ep[e].rf) = 0
     /\ ep[e].q.open # <<>> => ~can_inc_num_send_streams(ep[e])

Quiet == BothOpen /\ \A e \in Ends : net[e] = <<>> /\ ep[e].task /\ ~HasControl(ep[e])
Flushed(m, k) ==
  m.slab[k].psend = <<>> /\ ~is_queued(m, "open", k) /\ ~m.slab[k].pendingPush
(* Once everything is delivered, a stream that is open at one end and has    *)
(* nothing left to send is open at the other, and a half that one end has    *)
(* finished is finished for the other.                                       *)
QuietAgree ==
  Quiet => \A e \in Ends : \A k \in ToSet(ep[e].ids) :
    LET s == ep[e].slab[k]
        o == ep[Other(e)]
        j == find(o, s.id)
    IN  (~is_closed(s.state) /\ Flushed(ep[e], k) /\ (j # 0 => Flushed(o, j))) =>
          /\ j # 0 /\ ~is_closed(o.slab[j].state)
          /\ is_send_closed(s.state) => is_recv_end_stream(o.slab[j].state) \/ s.state.st = "ReservedRemote"
          /\ is_recv_end_stream(s.state) => is_send_closed(o.slab[j].state)

Counted(m, mine) == {k \in Keys(m) : m.slab[k].counted /\ is_local_init(m, m.slab[k].id) = mine}
(* The counters that limit the streams say how many are in use: a slot is    *)
(* neither lost nor given back twice (Counts::transition and dec_num_streams)*)
SlotsExact ==
  \A e \in Ends :
    /\ ep[e].numSend = Cardinality(Counted(ep[e], TRUE))
    /\ ep[e].numRecv = Cardinality(Counted(ep[e], FALSE))
(* A stream nobody refers to that is over does not stay in the store.        *)
NoLeak == \A e \in Ends : \A k \in Keys(ep[e]) : ~is_released(ep[e], k)

(* A request that the client is told by a GOAWAY was not processed, and that *)
(* it may therefore repeat, was never handed to the server's application.    *)
RetrySafe ==
  \A k \in Keys(ep["c"]) : ep["c"].slab[k].state.by = "GoAway.Remote" =>
    \A j \in Keys(ep["s"]) : ep["s"].slab[j].id = ep["c"].slab[k].id =>
      ~\E x \in h["s"] : x.k = j
(* When the connection task has ended, for whatever reason, no application   *)
(* is left waiting to be woken by it.                                        *)
NobodyWaits ==
  \A e \in Ends : ep[e].cs = "Dropped" => \A k \in Keys(ep[e]) :
    LET s == ep[e].slab[k] IN
    ~s.recvTask /\ ~s.pushTask /\ (s.state.by # "EndStream" => ~s.sendTask)

(* Weak fairness of the steps that somebody takes whenever they are possible:*)
(* the runtime polls a connection task that was woken or has something to    *)
(* read, the applications poll what they hold, release what they have read   *)
(* and answer every request to the end.  What enables a step is written out. *)
Changes(e, m) == [m EXCEPT !.out = <<>>, !.res = OkRes] # ep[e]
TaskReady(e) ==
  \/ ep[e].cs = "Open" /\ (HasControl(ep[e]) \/ net[e] # <<>> \/ ~ep[e].task)
  \/ ep[e].cs \in {"Closing", "Closed", "Failed"}
BodyReady(e, x) ==
  x.half = "body" /\ (\/ Unreleased(e, x.k) > 0
                      \/ /\ ~ep[e].slab[x.k].recvTask /\ FrontEvent(ep[e], x.k).ev \in {"Data", "-"}
                         /\ Changes(e, recv_poll_data(ep[e], x.k)))
ClientReady ==
  \/ /\ Pending # {} /\ Handle(0, "request") \in h["c"] /\ ~ep["c"].slab[PendingKey].sendTask
  \/ \E x \in h["c"] : /\ x.half \in {"response", "promised"} /\ ~ep["c"].slab[x.k].recvTask
                        /\ Changes("c", recv_poll_response(ep["c"], x.k))
ServerReady ==
  \/ ep["s"].cs = "Open" /\ ep["s"].q.accept # <<>>
  \/ \E x \in h["s"] : /\ x.half = "respond" /\ "respond" \in DOMAIN left /\ left.respond > 0
                        /\ send_response(ep["s"], x.k, TRUE, "plain", -1).res = OkRes
  \/ \E x \in h["s"] : /\ x.half = "send" /\ is_send_streaming(ep["s"].slab[x.k].state)
                        /\ "trailers" \in DOMAIN left /\ left.trailers > 0
Ready ==
  \/ \E e \in Ends : Alive(e) /\ (TaskReady(e) \/ \E x \in h[e] : BodyReady(e, x))
  \/ Alive("c") /\ ClientReady
  \/ Alive("s") /\ ServerReady
FairStep ==
  \/ \E e \in Ends : \/ Control(e) \/ Recv(e) \/ Write(e) \/ Close(e)
                     \/ \E k \in Keys(ep[e]) : PollData(e, k) \/ ReleaseCapacity(e, k)
  \/ PollReady \/ \E x \in h["c"] : PollResponse(x)
  \/ Accept \/ \E k \in Keys(ep["s"]) : Respond(k, TRUE, "plain") \/ SendTrailers("s", k)
LiveSpec == Spec /\ ([]<>(~Ready) \/ []<><<FairStep>>_vars)
StreamOf(e, id) == {k \in Keys(ep[e]) : ep[e].slab[k].id = id}
(* Uploads that share a connection window smaller than their bodies together *)
(* all arrive in full, as long as the server reads and the connection stays  *)
(* up: capacity that one stream is done with goes to the next                *)
(* (assign_connection_capacity, try_assign_capacity).                        *)
BodyArrives ==
  \A id \in {1, 3} :
    (\E k \in StreamOf("c", id) : is_send_closed(ep["c"].slab[k].state))
    ~> (\E j \in StreamOf("s", id) : LET r == ep["s"].slab[j] IN
          is_recv_end_stream(r.state) /\ r.precv = <<>> /\ r.inFlight = 0)
       \/ ~BothOpen
Failed(k) ==
  LET s == ep["c"].slab[k] IN is_closed(s.state) /\ s.state.by # "EndStream" /\ ~s.recvTask
(* Where the server's application answers, every request is answered or      *)
(* fails, also those that wait for a slot and those on a connection that     *)
(* breaks: nothing waits forever.                                            *)
RequestResolves ==
  \A id \in {1, 3} :
    ("respond" \in DOMAIN left /\ \E k \in StreamOf("c", id) : Handle(k, "response") \in h["c"])
    ~> (\A k \in StreamOf("c", id) : Handle(k, "response") \notin h["c"] \/ Failed(k))
=============================================================================

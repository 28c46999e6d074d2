------------------------------- MODULE H2Ping -------------------------------
(* PING frames of the HTTP/2 library: proto/ping_pong.rs with the part of    *)
(* Connection::poll2 that runs it.  The connection task and the user of a    *)
(* PingPong handle run on different threads and share an atomic state and    *)
(* two AtomicWakers, so each atomic operation is a step of its own.          *)
EXTENDS Naturals

CONSTANT MaxPings   \* how many PINGs the peer sends

ASSUME MaxPingsAssumption == MaxPings \in Nat

VARIABLES state,     \* UserPingsInner.state
          pingTask,  \* ping_task holds the connection task's waker
          pongTask,  \* pong_task holds the user's waker
          user,      \* where the user is
          task,      \* where the connection task is
          seen,      \* what send_pending_ping has loaded
          notified,  \* the connection task is scheduled to run again
          pending,   \* pending_ping, which is the one for a shutdown
          going,     \* go_away_gracefully was called
          pong,      \* pending_pong
          room,      \* the codec is ready for a frame
          out,       \* our PINGs on their way, by payload
          back,      \* acknowledgements of them on their way back
          theirs,    \* the peer's PINGs on their way
          sent,      \* how many the peer has sent
          answered   \* how many we have acknowledged

vars == <<state, pingTask, pongTask, user, task, seen, notified, pending, going, pong, room,
          out, back, theirs, sent, answered>>
wire == <<out, back, theirs, sent, answered>>
shutdown == <<pending, going>>

EMPTY == 0          \* no user ping pending
PENDING_PING == 1   \* the user has called send_ping
PENDING_PONG == 2   \* the PING is written
RECEIVED_PONG == 3  \* it is acknowledged, the user has to poll
CLOSED == 4
UserStates == {EMPTY, PENDING_PING, PENDING_PONG, RECEIVED_PONG, CLOSED}
Payloads == {"USER", "SHUTDOWN"}

(* The user has taken its handle and the connection task has not run yet.    *)
Init ==
  /\ state = EMPTY /\ pingTask = FALSE /\ pongTask = FALSE
  /\ user = "idle" /\ task = "pong" /\ seen = EMPTY /\ notified = FALSE
  /\ pending = "none" /\ going = FALSE /\ pong = FALSE /\ room = TRUE
  /\ out = [p \in Payloads |-> 0] /\ back = [p \in Payloads |-> 0]
  /\ theirs = 0 /\ sent = 0 /\ answered = 0

(********************************* the user ********************************)
(* UserPings::send_ping: the exchange, and the wake of the connection task.  *)
SendPing ==
  /\ user \in {"idle", "wait"}
  /\ IF state = EMPTY THEN state' = PENDING_PING /\ user' = "wake"
     ELSE state' = state /\ user' = "idle"
  /\ UNCHANGED <<pingTask, pongTask, task, seen, notified, shutdown, pong, room, wire>>
WakePing ==
  /\ user = "wake" /\ user' = "poll"
  /\ notified' = (notified \/ pingTask)
  /\ pingTask' = FALSE
  /\ UNCHANGED <<state, pongTask, task, seen, shutdown, pong, room, wire>>

(* UserPings::poll_pong: the waker is registered before the state is looked  *)
(* at.  PollPong is a poll the user makes on its own, Woken one it owes to   *)
(* its waker.                                                                *)
PollPong ==
  /\ user \in {"idle", "wait"} /\ user' = "poll"
  /\ UNCHANGED <<state, pingTask, pongTask, task, seen, notified, shutdown, pong, room, wire>>
Woken ==
  /\ user = "wait" /\ ~pongTask /\ user' = "poll"
  /\ UNCHANGED <<state, pingTask, pongTask, task, seen, notified, shutdown, pong, room, wire>>
RegisterPong ==
  /\ user = "poll" /\ user' = "check"
  /\ pongTask' = TRUE
  /\ UNCHANGED <<state, pingTask, task, seen, notified, shutdown, pong, room, wire>>
CheckPong ==
  /\ user = "check"
  /\ state' = IF state = RECEIVED_PONG THEN EMPTY ELSE state
  /\ user' = IF state \in {RECEIVED_PONG, CLOSED} THEN "idle" ELSE "wait"
  /\ UNCHANGED <<pingTask, pongTask, task, seen, notified, shutdown, pong, room, wire>>

(**************************** the connection task **************************)
Inbound == theirs > 0 \/ \E p \in Payloads : back[p] > 0

(* The executor runs the task when it was woken, or when the transport can   *)
(* do what the task went to sleep for.                                       *)
Run ==
  /\ \/ task \in {"sleepRead", "sleepWrite"} /\ notified
     \/ task = "sleepRead" /\ Inbound
     \/ task = "sleepWrite" /\ room
  /\ task' = "pong" /\ notified' = FALSE
  /\ UNCHANGED <<state, pingTask, pongTask, user, seen, shutdown, pong, room, wire>>

(* send_pending_pong: a pong the codec has no room for is put back.          *)
SendPendingPong_lost ==
  /\ task = "pong" /\ pong' = FALSE
  /\ IF pong /\ ~room THEN task' = "sleepWrite" /\ UNCHANGED <<room, answered>>
     ELSE /\ task' = "ping" /\ answered' = IF pong THEN answered + 1 ELSE answered
          /\ IF pong THEN room' \in BOOLEAN ELSE room' = room
  /\ UNCHANGED <<state, pingTask, pongTask, user, seen, notified, shutdown, out, back, theirs, sent>>
SendPendingPong ==
  /\ task = "pong"
  /\ IF pong /\ ~room
     THEN task' = "sleepWrite" /\ UNCHANGED <<pong, room, answered>>
     ELSE /\ task' = "ping" /\ pong' = FALSE
          /\ answered' = IF pong THEN answered + 1 ELSE answered
          /\ IF pong THEN room' \in BOOLEAN ELSE room' = room
  /\ UNCHANGED <<state, pingTask, pongTask, user, seen, notified, shutdown, out, back, theirs, sent>>

(* send_pending_ping: a shutdown's ping goes before the user's.              *)
SendShutdownPing ==
  /\ task = "ping" /\ pending # "none"
  /\ IF pending = "unsent" /\ ~room
     THEN task' = "sleepWrite" /\ UNCHANGED <<pending, room, out>>
     ELSE /\ task' = "recv" /\ pending' = "sent"
          /\ out' = IF pending = "unsent" THEN [out EXCEPT !["SHUTDOWN"] = @ + 1] ELSE out
          /\ IF pending = "unsent" THEN room' \in BOOLEAN ELSE room' = room
  /\ UNCHANGED <<state, pingTask, pongTask, user, seen, notified, going, pong, back, theirs, sent, answered>>
LoadState ==
  /\ task = "ping" /\ pending = "none"
  /\ seen' = state /\ task' = "act"
  /\ UNCHANGED <<state, pingTask, pongTask, user, notified, shutdown, pong, room, wire>>
WriteUserPing_again ==
  /\ task = "act" /\ seen \in {PENDING_PING, PENDING_PONG}
  /\ IF room THEN /\ task' = "store" /\ room' \in BOOLEAN
                  /\ out' = [out EXCEPT !["USER"] = @ + 1]
     ELSE task' = "sleepWrite" /\ UNCHANGED <<room, out>>
  /\ UNCHANGED <<state, pingTask, pongTask, user, seen, notified, shutdown, pong, back, theirs, sent, answered>>
WriteUserPing ==
  /\ task = "act" /\ seen = PENDING_PING
  /\ IF room THEN /\ task' = "store" /\ room' \in BOOLEAN
                  /\ out' = [out EXCEPT !["USER"] = @ + 1]
     ELSE task' = "sleepWrite" /\ UNCHANGED <<room, out>>
  /\ UNCHANGED <<state, pingTask, pongTask, user, seen, notified, shutdown, pong, back, theirs, sent, answered>>
StorePendingPong ==
  /\ task = "store" /\ task' = "recv"
  /\ state' = PENDING_PONG
  /\ UNCHANGED <<pingTask, pongTask, user, seen, notified, shutdown, pong, room, wire>>
RegisterPing ==
  /\ task = "act" /\ seen # PENDING_PING /\ task' = "recv"
  /\ pingTask' = TRUE
  /\ UNCHANGED <<state, pongTask, user, seen, notified, shutdown, pong, room, wire>>

(* recv_ping and, for an acknowledged user ping, receive_pong.               *)
receive_pong(s) == IF s = PENDING_PONG THEN RECEIVED_PONG ELSE s
RecvUserPong_silent ==
  /\ task = "recv" /\ back["USER"] > 0 /\ task' = "pong"
  /\ back' = [back EXCEPT !["USER"] = @ - 1]
  /\ state' = receive_pong(state)
  /\ UNCHANGED <<pingTask, pongTask, user, seen, notified, shutdown, pong, room, out, theirs, sent, answered>>
RecvUserPong ==
  /\ task = "recv" /\ back["USER"] > 0
  /\ back' = [back EXCEPT !["USER"] = @ - 1]
  /\ state' = receive_pong(state)
  /\ task' = IF state = PENDING_PONG THEN "wakePong" ELSE "pong"
  /\ UNCHANGED <<pingTask, pongTask, user, seen, notified, shutdown, pong, room, out, theirs, sent, answered>>
RecvShutdownPong ==
  /\ task = "recv" /\ back["SHUTDOWN"] > 0 /\ task' = "pong"
  /\ back' = [back EXCEPT !["SHUTDOWN"] = @ - 1]
  /\ pending' = "none"
  /\ UNCHANGED <<state, pingTask, pongTask, user, seen, notified, going, pong, room, out, theirs, sent, answered>>
RecvPing ==
  /\ task = "recv" /\ theirs > 0 /\ task' = "pong"
  /\ theirs' = theirs - 1 /\ pong' = TRUE
  /\ UNCHANGED <<state, pingTask, pongTask, user, seen, notified, shutdown, room, out, back, sent, answered>>
RecvNothing ==
  /\ task = "recv" /\ ~Inbound /\ task' = "sleepRead"
  /\ UNCHANGED <<state, pingTask, pongTask, user, seen, notified, shutdown, pong, room, wire>>
WakePong ==
  /\ task \in {"wakePong", "dropWake"}
  /\ task' = IF task = "wakePong" THEN "pong" ELSE "gone"
  /\ pongTask' = FALSE
  /\ UNCHANGED <<state, pingTask, user, seen, notified, shutdown, pong, room, wire>>

(* The owner of the Connection, between two polls: go_away_gracefully, and   *)
(* the end of the connection, which drops UserPingsRx.                       *)
Shutdown ==
  /\ task \in {"sleepRead", "sleepWrite"} /\ ~going
  /\ going' = TRUE /\ pending' = "unsent" /\ notified' = TRUE
  /\ UNCHANGED <<state, pingTask, pongTask, user, task, seen, pong, room, wire>>
Drop_silent ==
  /\ task \in {"sleepRead", "sleepWrite", "recv"}
  /\ state' = CLOSED /\ task' = "gone"
  /\ UNCHANGED <<pingTask, pongTask, user, seen, notified, shutdown, pong, room, wire>>
Drop ==
  /\ task \in {"sleepRead", "sleepWrite", "recv"}
  /\ state' = CLOSED /\ task' = "dropWake"
  /\ UNCHANGED <<pingTask, pongTask, user, seen, notified, shutdown, pong, room, wire>>

(********************** the peer and the transport *************************)
PeerPing ==
  /\ sent < MaxPings
  /\ sent' = sent + 1 /\ theirs' = theirs + 1
  /\ UNCHANGED <<state, pingTask, pongTask, user, task, seen, notified, shutdown, pong, room, out, back, answered>>
PeerAck ==
  /\ \E p \in Payloads :
       /\ out[p] > 0
       /\ out' = [out EXCEPT ![p] = @ - 1]
       /\ back' = [back EXCEPT ![p] = @ + 1]
  /\ UNCHANGED <<state, pingTask, pongTask, user, task, seen, notified, shutdown, pong, room, theirs, sent, answered>>
Flush ==
  /\ ~room /\ room' = TRUE
  /\ UNCHANGED <<state, pingTask, pongTask, user, task, seen, notified, shutdown, pong, wire>>

UserStep == SendPing \/ WakePing \/ PollPong \/ Woken \/ RegisterPong \/ CheckPong
TaskStep ==
  \/ Run \/ SendPendingPong \/ SendShutdownPing \/ LoadState \/ WriteUserPing \/ StorePendingPong
  \/ RegisterPing \/ RecvUserPong \/ RecvShutdownPong \/ RecvPing \/ RecvNothing \/ WakePong
EnvStep == Shutdown \/ Drop \/ PeerPing \/ PeerAck \/ Flush
Next == UserStep \/ TaskStep \/ EnvStep
Spec == Init /\ [][Next]_vars

(* The executor keeps running a scheduled task and the user's future, the    *)
(* peer acknowledges what it reads and the transport drains.                 *)
Fairness ==
  /\ WF_vars(TaskStep)
  /\ WF_vars(WakePing) /\ WF_vars(Woken) /\ WF_vars(RegisterPong) /\ WF_vars(CheckPong)
  /\ WF_vars(PeerAck) /\ WF_vars(Flush)
FairSpec == Spec /\ Fairness

(******************************** properties *******************************)
(* Every variable has a value the code can give it.                          *)
TypeOK ==
  /\ state \in UserStates /\ seen \in UserStates
  /\ pingTask \in BOOLEAN /\ pongTask \in BOOLEAN /\ notified \in BOOLEAN
  /\ going \in BOOLEAN /\ pong \in BOOLEAN /\ room \in BOOLEAN
  /\ user \in {"idle", "wake", "poll", "check", "wait"}
  /\ task \in {"pong", "ping", "act", "store", "recv", "wakePong", "sleepRead", "sleepWrite",
               "dropWake", "gone"}
  /\ pending \in {"none", "unsent", "sent"}
  /\ out \in [Payloads -> Nat] /\ back \in [Payloads -> Nat]
  /\ theirs \in Nat /\ sent \in Nat /\ answered \in Nat

Outstanding(p) == out[p] + back[p]
(* receive_pong takes the acknowledgement for the ping of the state it finds *)
(* there: while the connection lives, a USER ping is outstanding exactly     *)
(* from the step that writes it to the one that makes the state              *)
(* RECEIVED_PONG, so no ping is answered by the acknowledgement of another.  *)
OneUserPing ==
  state # CLOSED =>
    Outstanding("USER") = IF state = PENDING_PONG \/ task = "store" THEN 1 ELSE 0
(* poll_pong registers first: a user who waits with a waker still registered *)
(* has nothing to be told, unless the task is about to wake them.            *)
NoLostPong ==
  user = "wait" /\ pongTask /\ state \in {RECEIVED_PONG, CLOSED} => task \in {"wakePong", "dropWake"}
(* recv_ping never overwrites a pong: every PING of the peer is on its way,  *)
(* waits in pending_pong or was acknowledged, and recv_ping's assert holds.  *)
PongsExact ==
  /\ sent = theirs + answered + IF pong THEN 1 ELSE 0
  /\ task = "recv" => ~pong

(* A user who waits for a ping that is written, or on a connection that      *)
(* ends, is woken and gets an answer without polling again on their own.     *)
UserHears == (user = "wait" /\ state \in {PENDING_PONG, RECEIVED_PONG, CLOSED}) ~> (user # "wait")
=============================================================================

---------------------------- MODULE H2Ping_proof ----------------------------
(* The safety properties of H2Ping for every number of the peer's PINGs.     *)
(* None of them is inductive alone: a lone acknowledgement could answer a    *)
(* ping that is still to be written if the state could change between the    *)
(* load of send_pending_ping and its store.  IInv adds that it cannot, that  *)
(* CLOSED is the state of a dropped connection only, and that a pong is      *)
(* pending only before send_pending_pong.                                    *)
EXTENDS H2Ping, TLAPS

Gone == task \in {"dropWake", "gone"}
IInv ==
  /\ TypeOK
  /\ OneUserPing
  /\ NoLostPong
  /\ PongsExact
  /\ state = CLOSED <=> Gone
  /\ task = "store" => state = PENDING_PING
  /\ task = "act" /\ seen = PENDING_PING => state = PENDING_PING
  /\ task \in {"ping", "act", "store", "recv"} => ~pong

(* A connection starts in a state that satisfies the invariant.              *)
LEMMA InitInv == Init => IInv
<1> SUFFICES ASSUME Init PROVE IInv
  OBVIOUS
<1> USE DEF Init, EMPTY, PENDING_PING, PENDING_PONG, RECEIVED_PONG, CLOSED
<1>1. TypeOK BY DEF TypeOK, UserStates, Payloads
<1>2. OneUserPing BY DEF OneUserPing, Outstanding, Payloads
<1>3. NoLostPong BY DEF NoLostPong
<1>4. PongsExact BY DEF PongsExact
<1> QED BY <1>1, <1>2, <1>3, <1>4 DEF IInv, Gone

(* send_ping, poll_pong and the wake-ups of the user's thread keep it.       *)
LEMMA UserInv == IInv /\ UserStep => IInv'
<1> USE DEF IInv, TypeOK, OneUserPing, NoLostPong, PongsExact, Outstanding, Gone, UserStates, Payloads,
        EMPTY, PENDING_PING, PENDING_PONG, RECEIVED_PONG, CLOSED, shutdown, wire
<1> SUFFICES ASSUME IInv, UserStep PROVE IInv'
  OBVIOUS
<1>1. CASE SendPing BY <1>1 DEF SendPing
<1>2. CASE WakePing
  <2>1. notified' \in BOOLEAN /\ pingTask' \in BOOLEAN BY <1>2, Zenon DEF WakePing
  <2> QED BY <1>2, <2>1 DEF WakePing
<1>3. CASE PollPong BY <1>3 DEF PollPong
<1>4. CASE Woken BY <1>4 DEF Woken
<1>5. CASE RegisterPong BY <1>5 DEF RegisterPong
<1>6. CASE CheckPong BY <1>6 DEF CheckPong
<1> QED BY <1>1, <1>2, <1>3, <1>4, <1>5, <1>6 DEF UserStep

(* So does every step of the connection task.                                *)
LEMMA TaskInv == IInv /\ TaskStep => IInv'
<1> USE DEF IInv, TypeOK, OneUserPing, NoLostPong, PongsExact, Outstanding, Gone, UserStates, Payloads,
        EMPTY, PENDING_PING, PENDING_PONG, RECEIVED_PONG, CLOSED, shutdown, wire
<1> SUFFICES ASSUME IInv, TaskStep PROVE IInv'
  OBVIOUS
<1>1. CASE Run
  <2>1. notified' \in BOOLEAN /\ task' = "pong" /\ task \in {"sleepRead", "sleepWrite"} BY <1>1, Zenon DEF Run
  <2>2. UNCHANGED <<state, pingTask, pongTask, user, seen, pending, going, pong, room, out, back, theirs,
                    sent, answered>> BY <1>1, Zenon DEF Run
  <2> QED BY <2>1, <2>2
<1>2. CASE SendPendingPong
  <2>1. UNCHANGED <<state, pingTask, pongTask, user, seen, notified, pending, going, out, back, theirs, sent>>
    BY <1>2 DEF SendPendingPong
  <2>2. CASE pong /\ ~room
    <3>1. task' = "sleepWrite" /\ UNCHANGED <<pong, room, answered>> BY <1>2, <2>2 DEF SendPendingPong
    <3> QED BY <1>2, <2>1, <3>1 DEF SendPendingPong
  <2>3. CASE ~(pong /\ ~room)
    <3>1. task = "pong" /\ task' = "ping" /\ room' \in BOOLEAN BY <1>2, <2>3 DEF SendPendingPong
    <3>2. pong' \in BOOLEAN /\ ~pong' BY <1>2, <2>3, Zenon DEF SendPendingPong
    <3>3. answered' = answered + IF pong THEN 1 ELSE 0 BY <1>2, <2>3 DEF SendPendingPong
    <3> QED BY <2>1, <3>1, <3>2, <3>3
  <2> QED BY <2>2, <2>3
<1>3. CASE SendShutdownPing BY <1>3 DEF SendShutdownPing
<1>4. CASE LoadState BY <1>4 DEF LoadState
<1>5. CASE WriteUserPing BY <1>5 DEF WriteUserPing
<1>6. CASE StorePendingPong BY <1>6 DEF StorePendingPong
<1>7. CASE RegisterPing BY <1>7 DEF RegisterPing
<1>8. CASE RecvUserPong BY <1>8 DEF RecvUserPong, receive_pong
<1>9. CASE RecvShutdownPong BY <1>9 DEF RecvShutdownPong
<1>10. CASE RecvPing BY <1>10 DEF RecvPing
<1>11. CASE RecvNothing BY <1>11 DEF RecvNothing
<1>12. CASE WakePong
  <2>1. pongTask' \in BOOLEAN /\ ~pongTask' BY <1>12, Zenon DEF WakePong
  <2>2. UNCHANGED <<state, pingTask, user, seen, notified, pending, going, pong, room, out, back, theirs,
                    sent, answered>> BY <1>12 DEF WakePong
  <2>3. \/ task = "wakePong" /\ task' = "pong"
        \/ task = "dropWake" /\ task' = "gone" BY <1>12 DEF WakePong
  <2> QED BY <2>1, <2>2, <2>3
<1> QED BY <1>1, <1>2, <1>3, <1>4, <1>5, <1>6, <1>7, <1>8, <1>9, <1>10, <1>11, <1>12 DEF TaskStep

(* So do a shutdown, the end of the connection, the peer and the transport.  *)
LEMMA EnvInv == IInv /\ EnvStep => IInv'
<1> USE DEF IInv, TypeOK, OneUserPing, NoLostPong, PongsExact, Outstanding, Gone, UserStates, Payloads,
        EMPTY, PENDING_PING, PENDING_PONG, RECEIVED_PONG, CLOSED, shutdown, wire
<1> SUFFICES ASSUME IInv, EnvStep PROVE IInv'
  OBVIOUS
<1>1. CASE Shutdown BY <1>1 DEF Shutdown
<1>2. CASE Drop BY <1>2 DEF Drop
<1>3. CASE PeerPing BY <1>3, MaxPingsAssumption DEF PeerPing
<1>4. CASE PeerAck BY <1>4 DEF PeerAck
<1>5. CASE Flush BY <1>5 DEF Flush
<1> QED BY <1>1, <1>2, <1>3, <1>4, <1>5 DEF EnvStep

(* The invariant holds in every reachable state.                             *)
THEOREM Invariance == Spec => []IInv
<1>1. IInv /\ [Next]_vars => IInv'
  <2> SUFFICES ASSUME IInv, [Next]_vars PROVE IInv'
    OBVIOUS
  <2>1. CASE Next BY <2>1, UserInv, TaskInv, EnvInv DEF Next
  <2>2. CASE UNCHANGED vars
    BY <2>2 DEF vars, IInv, TypeOK, OneUserPing, NoLostPong, PongsExact, Outstanding, Gone
  <2> QED BY <2>1, <2>2
<1> QED BY <1>1, InitInv, PTL DEF Spec

(* A user ping is answered by its own acknowledgement (receive_pong).        *)
THEOREM OneUserPingHolds == Spec => []OneUserPing
BY Invariance, PTL DEF IInv
(* poll_pong's user misses neither a pong nor the end of the connection.     *)
THEOREM NoLostPongHolds == Spec => []NoLostPong
BY Invariance, PTL DEF IInv
(* recv_ping's assert never fires and no PING of the peer stays unanswered.  *)
THEOREM PongsExactHolds == Spec => []PongsExact
BY Invariance, PTL DEF IInv
=============================================================================

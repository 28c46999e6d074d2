------------------------------ MODULE H1Refine ------------------------------
(***************************************************************************)
(* H1Proxy implements RequestReply: where a client's request is in the     *)
(* proxy gives the phase of its exchange.                                  *)
(***************************************************************************)
EXTENDS H1ProxyInv

(* The server on l has read the whole of the request that c waits for.       *)
ServedAt(c, l) ==
  server[l].c = c /\ server[l].n = client[c].n /\ server[l].st \in {"ready", "answer", "sending"}
Served(c) == \E l \in Locals : ServedAt(c, l)

Phase(c) ==
  IF client[c].st # "waiting" THEN "none"
  ELSE IF crx[c] # <<>> THEN "replied"
  ELSE IF Served(c) THEN "served"
  ELSE IF c \in lost THEN "lost" ELSE "asked"
AnswerLen(c) == IF Phase(c) = "replied" THEN crx[c][1].len ELSE 0
AnswerGot(c) == IF Phase(c) = "replied" THEN Len(crx[c]) ELSE 0

ExchangeOf(c) ==
  [st |-> client[c].st, n |-> client[c].n, phase |-> Phase(c),
   len |-> AnswerLen(c), got |-> AnswerGot(c)]

(* Nothing of a lost request is left anywhere, in process_msg, in the        *)
(* control plane's buffer, in a socket or in a server, that could still be   *)
(* answered.                                                                 *)
Nowhere(c) == dsprog[c] = Idle /\ dsin[c] = <<>> /\ \A l \in Locals : ~At(c, l)
LostIsNowhere == \A c \in Clients : c \in lost /\ client[c].st = "waiting" => Nowhere(c)

Exchanges == [c \in Clients |-> ExchangeOf(c)]
R == INSTANCE RequestReply WITH exch <- Exchanges

(* Whatever the order of the steps of process_msg, of the tasks and of the   *)
(* servers, a client sees the exchanges of RequestReply: one server has its  *)
(* request at most once, an answer comes from that server and whole, a 500   *)
(* only while no server has the request, and after a loss comes nothing.     *)
ImplementsRequestReply == R!Spec
=============================================================================

----------------------------- MODULE H2ProxyInv ------------------------------
(***************************************************************************)
(* The inductive invariant behind IncreasingIds, for a single client.  The *)
(* ids process_msg gives out on a connection stay behind the number of     *)
(* streams the client has opened, so that a stream it opens is never one   *)
(* that h2_streams knows already.                                          *)
(***************************************************************************)
EXTENDS H2Proxy

OneClient == \E c : Clients = {c}

(* process_msg has taken an id on l and not yet used it. *)
Assigning(c, l) == prog[c] # Idle /\ ~prog[c].uturn /\ prog[c].l = l

(* The streams a client has opened are the first ones. *)
InvSent ==
  \A c \in Clients : /\ NextStream(c) \in Ids
                     /\ \A i \in Ids : sent[c][i] # "no" <=> i < NextStream(c)

(* No connection has got more ids than that. *)
InvIds == \A c \in Clients, l \in Locals : h2_conns[l] < NextStream(c)

(* A stream that is still to be opened is assigned to none, and streams are  *)
(* assigned across the proxy.                                                *)
InvStreams ==
  /\ \A c \in Clients, s \in Ids : s >= NextStream(c) => h2_streams[<<c, s>>] = NoStream
  /\ \A l \in Locals, t \in Ids : h2_streams[<<l, t>>] = NoStream \/ h2_streams[<<l, t>>][1] \in Hosts
  /\ \A h \in Hosts, s \in Ids : h2_streams[<<h, s>>] = NoStream \/ h2_streams[<<h, s>>][1] \in Locals

(* What the control plane has not sent HEADERS on is unused. *)
Heads(l) == {i \in 1..Len(inbox[l]) : inbox[l][i].kind \in {"head", "bare"}}
Opened(l) == {t \in Ids : sstream[l][t].st # "none"}
Fresh(l) ==
  /\ Heads(l) = {} /\ Opened(l) = {}
  /\ h2_conns[l] = 1
  /\ \A i \in 1..Len(fib_upstream) : fib_upstream[i] # l
  /\ \A c \in Clients : prog[c].l # l
TaskInv(c, id) ==
  LET t == task[c][id] IN
  /\ t.pc # "none" => id < NextStream(c) /\ t.src \in Ids
  /\ t.pc \in {"connect", "send", "body", "response"} => t.l \in Locals
  /\ t.pc = "connect" => conn[t.l] = "bound"
  /\ t.pc \in {"send", "body"} => conn[t.l] \in {"est", "open", "closed"}
  /\ t.pc \in {"connect", "send"} => Fresh(t.l)
Opening(c, id) == task[c][id].pc \in {"connect", "send"}
InvTasks ==
  \A c \in Clients :
    /\ \A id \in Ids : TaskInv(c, id)
    /\ \A i, j \in Ids : Opening(c, i) /\ Opening(c, j) => i = j

(* A connection in the queue, or in process_msg, has been open. *)
Used(l) == conn[l] \in {"open", "closed"} /\ h2_conns[l] \in Ids
InvProg ==
  /\ \A i \in 1..Len(fib_upstream) : Used(fib_upstream[i])
  /\ \A c \in Clients : prog[c] # Idle =>
       /\ prog[c].s \in Ids /\ prog[c].sid \in Ids /\ prog[c].sid < NextStream(c)
       /\ prog[c].l \in Locals => Used(prog[c].l)
       /\ ~prog[c].uturn => prog[c].l \in Locals
ConnInv(l) ==
  /\ conn[l] \in {"free", "bound"} => inbox[l] = <<>>
  /\ \A i \in 1..Len(inbox[l]) : inbox[l][i].kind \in {"head", "data", "bare"}
  /\ conn[l] # "open" => Opened(l) = {}
  /\ \A t \in Opened(l) : sstream[l][t].c \in Clients /\ sstream[l][t].s \in Ids
InvConn == \A l \in Locals : ConnInv(l)

(* The ids on a connection, in its socket and at its server, go up to the    *)
(* one in h2_conns, which is new while process_msg is about to use it.       *)
Below(l, n) ==
  /\ n <= h2_conns[l]
  /\ \A c \in Clients : Assigning(c, l) => n < h2_conns[l]
BoundInv(l) ==
  /\ \A i \in Heads(l) : Below(l, inbox[l][i].id)
  /\ \A t \in Opened(l) : Below(l, t)
InvBound == \A l \in Locals : BoundInv(l)

(* IncreasingIds, in these terms. *)
OrderInv(l) ==
  \A i \in Heads(l) :
    /\ \A t \in Opened(l) : t < inbox[l][i].id
    /\ \A j \in Heads(l) : j < i => inbox[l][j].id < inbox[l][i].id
InvOrder == \A l \in Locals : OrderInv(l)

HInv ==
  /\ TypeOK
  /\ InvSent /\ InvIds /\ InvStreams /\ InvTasks /\ InvProg /\ InvConn /\ InvBound /\ InvOrder
-----------------------------------------------------------------------------
(* What is on a connection, in its socket and at its server, belongs to a    *)
(* stream of the client.  It is that of the request, as long as no           *)
(* connection has been closed.                                               *)
Names(l, t, s) == h2_streams[<<l, t>>] # NoStream /\ (NoneClosed => h2_streams[<<l, t>>][2] = s)
InvHeads == \A l \in Locals : \A i \in Heads(l) : Names(l, inbox[l][i].id, inbox[l][i].s)
InvOpened == \A l \in Locals : \A t \in Opened(l) : Names(l, t, sstream[l][t].s)
InvOpening == \A c \in Clients, id \in Ids : Opening(c, id) => Names(task[c][id].l, 1, id)

(* An answer that is not at its end has no rest yet. *)
RestInv(r) ==
  /\ r.st # "done" => r.rest = NoAddr
  /\ r.st = "none" => r.to = NoAddr
InvRest == \A l \in Locals, t \in Ids : RestInv(sstream[l][t])

(* Where clients are seen under their own addresses, answers are theirs. *)
OwnAddresses == \A c \in Clients : Seen[c] = c
InvOwn ==
  OwnAddresses => \A l \in Locals, t \in Ids : h2_streams[<<l, t>>] = NoStream \/ h2_streams[<<l, t>>][1] \in Clients
InvTogether == OwnAddresses => AnswerStaysTogether

(* As long as no connection has been closed, a stream keeps its id on the    *)
(* way to the control plane,                                                 *)
InvSame ==
  NoneClosed => \A c \in Clients :
    /\ prog[c] # Idle => /\ prog[c].sid = prog[c].s /\ task[c][prog[c].sid].pc = "none"
                         /\ prog[c].uturn => prog[c].l = NoAddr
    /\ \A id \in Ids : task[c][id].pc # "none" => task[c][id].src = id
(* and one that is to be assigned is not assigned yet.                       *)
Settled(m) ==
  \A c \in Clients : /\ m[2] < NextStream(c)
                     /\ prog[c] # Idle => m[2] # prog[c].sid
                     /\ task[c][m[2]].pc # "new"
InvBack ==
  NoneClosed => \A l \in Locals, t \in Ids :
    h2_streams[<<l, t>>] # NoStream => Settled(h2_streams[<<l, t>>]) /\ h2_streams[h2_streams[<<l, t>>]] = <<l, t>>

AInv ==
  /\ InvHeads /\ InvOpened /\ InvOpening /\ InvRest /\ InvOwn /\ InvTogether
  /\ InvSame /\ InvBack /\ AnswerWhileOpen
=============================================================================

----------------------------- MODULE H1ProxyInv -----------------------------
(***************************************************************************)
(* The inductive invariant of H1Proxy, in named parts.  Each part is about *)
(* one of the places a request or a connection can be in.                  *)
(***************************************************************************)
EXTENDS H1Proxy

Busy(c) == task[c].pc \in {"connect", "fib", "write"}
Has(c, l) == \E i \in 1..Len(inbox[l]) : inbox[l][i].c = c

(* The request the server has started to read still awaits its answer. *)
Unanswered(l) ==
  \/ server[l].st \in {"reading", "ready"}
  \/ server[l].st = "answer" /\ usprog[l].pc = "post"

(* process_msg of c holds the connection on l. *)
Holds(c, l) == dsprog[c].pc \in {"post", "redirect"} /\ dsprog[c].ekey = UsKey(l)

(* The task of c opens the connection on l. *)
Opens(c, l) == Busy(c) /\ task[c].l = l

(* The socket maps agree with the state of the sockets. *)
ClientSocket(c) == DsKey(c) \in msg_sock_map <=> client[c].st \in {"idle", "waiting"}
ServerSocket(l) ==
  /\ \A u \in Upstreams : <<u, l>> \in msg_sock_map <=> (conn[l] = "open" /\ peer[l] = u)
  /\ conn[l] # "free" => peer[l] \in Upstreams
  /\ conn[l] \in {"bound", "est"} => UsKey(l) \in sock_map_wait_list
InvSockets == (\A c \in Clients : ClientSocket(c)) /\ (\A l \in Locals : ServerSocket(l))

(* A task that opens a connection is alone with it, and holds a request. *)
TaskInv(c) ==
  /\ Busy(c) => /\ task[c].l \in Locals
                /\ task[c].key = DsKey(c)
                /\ Whole(dsin[c])
                /\ dsverdict[c].left = 0 \/ dsverdict[c].to # Proxy
  /\ task[c].pc = "connect" => conn[task[c].l] = "bound"
  /\ task[c].pc \in {"fib", "write"} => conn[task[c].l] \in {"est", "open", "closed"}
InvTasks ==
  /\ \A c \in Clients : TaskInv(c)
  /\ \A l \in Locals : \A c, d \in Clients : Opens(c, l) /\ Opens(d, l) => c = d

(* A server socket is inactive unless its connection is open. *)
ServerInv(l) ==
  /\ conn[l] # "open" => server[l] = NoRequest
  /\ conn[l] \notin {"est", "open"} => inbox[l] = <<>>
  /\ usprog[l].pc # "idle" <=> server[l].st = "answer"
  /\ usprog[l].pc = "idle" => usprog[l] = Idle
  /\ server[l].st # "idle" => server[l].c \in Clients /\ server[l].n \in 1..MaxReqs
  /\ server[l].st = "reading" => server[l].left > 0
  /\ server[l].st = "sending" =>
       usverdict[l].left > 0 /\ usverdict[l].left <= server[l].left
InvServers == \A l \in Locals : ServerInv(l)

(* process_msg runs for a client that waits, and has nothing elsewhere. *)
ProgInv(c) ==
  /\ dsprog[c].pc = "idle" => dsprog[c] = Idle
  /\ dsprog[c].pc # "idle" => /\ client[c].st = "waiting"
                              /\ dsprog[c].len = client[c].len
                              /\ dsprog[c].dest \in Upstreams
                              /\ dsin[c] = <<>>
                              /\ dsverdict[c].left = 0
  /\ dsprog[c].pc = "redirect" => dsprog[c].ekey # NullKey
  /\ dsprog[c].pc \in {"post", "redirect"} /\ dsprog[c].ekey # NullKey =>
       \E l \in Locals : Holds(c, l) /\ conn[l] \in {"open", "closed"}
ClientInv(c) ==
  /\ client[c].st = "waiting" => client[c].n > 0
  /\ client[c].st \in {"new", "idle"} => dsin[c] = <<>> /\ ~Busy(c)
  /\ dsverdict[c].left > 0 => client[c].st = "waiting"
  /\ dsverdict[c].left <= client[c].len
InvProgs == \A c \in Clients : ProgInv(c) /\ ClientInv(c)

(* What the queues hold. *)
QueueInv(u) ==
  /\ \A i \in 1..Len(fib_upstream[u]) :
       \E l \in Locals : /\ fib_upstream[u][i] = <<u, l>>
                         /\ peer[l] = u
                         /\ conn[l] \in {"open", "closed"}
  /\ \A i, j \in 1..Len(fib_upstream[u]) : fib_upstream[u][i] = fib_upstream[u][j] => i = j
InvQueues == \A u \in Upstreams : QueueInv(u)

(* The places an upstream connection can be in exclude each other. *)
LeaseInv(l) ==
  /\ \A c, d \in Clients : Holds(c, l) /\ Holds(d, l) => c = d
  /\ \A c \in Clients : Holds(c, l) => /\ ~Queued(l)
                                       /\ inbox[l] = <<>>
                                       /\ ~Unanswered(l)
                                       /\ \A d \in Clients : ~Opens(d, l)
  /\ \A c \in Clients : Opens(c, l) => ~Queued(l) /\ inbox[l] = <<>> /\ server[l] = NoRequest
  /\ Queued(l) => inbox[l] = <<>> /\ ~Unanswered(l)
InvLeases == \A l \in Locals : LeaseInv(l)

(* The parts in a server's socket are consecutive parts of one request, from *)
(* its head or from where the server stopped reading.                        *)
InboxInv(l) ==
  inbox[l] # <<>> =>
    LET m == inbox[l][1] IN
    /\ \A i \in 1..Len(inbox[l]) : /\ inbox[l][i].c = m.c
                                   /\ inbox[l][i].n = m.n
                                   /\ inbox[l][i].len = m.len
                                   /\ inbox[l][i].k = m.k + i - 1
    /\ m.k + Len(inbox[l]) <= m.len + 1
    /\ IF server[l].st = "reading"
       THEN m.c = server[l].c /\ m.n = server[l].n /\ m.k + server[l].left = m.len + 1
       ELSE m.k = 0 /\ ~Unanswered(l)
InvInbox == \A l \in Locals : InboxInv(l)

(* The parts a client has still to send continue what is in the socket. *)
RestAt(c, l) ==
  /\ \A i \in 1..Len(inbox[l]) : /\ inbox[l][i].c = c
                                 /\ inbox[l][i].n = client[c].n
                                 /\ inbox[l][i].len = client[c].len
  /\ IF server[l].st = "reading"
     THEN /\ server[l].c = c /\ server[l].n = client[c].n
          /\ server[l].left = Len(inbox[l]) + dsverdict[c].left
     ELSE inbox[l] # <<>> /\ Len(inbox[l]) + dsverdict[c].left = client[c].len + 1
RestInBuffer(c) ==
  /\ dsin[c] # <<>>
  /\ dsin[c][1].len = client[c].len
  /\ dsin[c][1].n = client[c].n
  /\ Len(dsin[c]) + dsverdict[c].left = client[c].len + 1
InvRest ==
  \A c \in Clients : dsverdict[c].left > 0 =>
    /\ \A l \in Locals : dsverdict[c].to = l /\ conn[l] = "open" => RestAt(c, l)
    /\ dsverdict[c].to = Proxy => RestInBuffer(c)

(* The buffer of a task holds consecutive parts of one request of its client. *)
BufferInv(c) ==
  /\ \A i \in 1..Len(dsin[c]) : /\ dsin[c][i].c = c
                                /\ dsin[c][i].n = dsin[c][1].n
                                /\ dsin[c][i].len = dsin[c][1].len
                                /\ dsin[c][i].k = i - 1
  /\ dsin[c] # <<>> => Len(dsin[c]) <= dsin[c][1].len + 1
InvBuffer == \A c \in Clients : BufferInv(c)

(* Who waits on a connection is who the answer goes back to. *)
Route(l, c) == fib_downstream[l] \in {NullKey, DsKey(c)}
RouteInv(c, l) ==
  /\ dsprog[c].pc = "redirect" /\ Holds(c, l) => Route(l, c)
  /\ task[c].pc = "write" /\ task[c].l = l => Route(l, c)
  /\ Has(c, l) => Route(l, c)
  /\ server[l].st \in {"reading", "ready"} /\ server[l].c = c => Route(l, c)
  /\ server[l].st = "answer" /\ server[l].c = c => usprog[l].ekey \in {NullKey, DsKey(c)}
AnswerInv(l) ==
  /\ usprog[l].pc \in {"redirect", "utrn"} => usprog[l].ekey # NullKey
  /\ usprog[l].pc = "utrn" => client[server[l].c].st = "closed"
  /\ server[l].st = "sending" =>
       \/ usverdict[l].to = server[l].c
       \/ usverdict[l].to = Proxy /\ client[server[l].c].st = "closed"
InvRoutes == \A l \in Locals : AnswerInv(l) /\ \A c \in Clients : RouteInv(c, l)

(* A request is with one server at most, and then nowhere else. *)
Serves(l, c) == server[l].st # "idle" /\ server[l].c = c
At(c, l) == Has(c, l) \/ Serves(l, c)
PlaceAt(c, l) ==
  At(c, l) =>
    /\ client[c].st = "waiting" /\ dsprog[c] = Idle /\ dsin[c] = <<>>
    /\ \A i \in 1..Len(inbox[l]) : inbox[l][i].c = c => inbox[l][i].n = client[c].n
    /\ Serves(l, c) => server[l].n = client[c].n
    /\ Serves(l, c) /\ server[l].st # "reading" => ~Has(c, l)
    /\ crx[c] # <<>> => Serves(l, c) /\ server[l].st = "sending"
    /\ Serves(l, c) /\ server[l].st = "sending" =>
         /\ crx[c] # <<>> /\ crx[c][1].len = server[l].left
         /\ Len(crx[c]) + usverdict[l].left = server[l].left + 1
    /\ dsverdict[c].left > 0 => dsverdict[c].to = l
PlaceElse(c) ==
  /\ dsverdict[c].left > 0 => crx[c] = <<>> /\ (dsin[c] # <<>> => dsverdict[c].to = Proxy)
  /\ dsin[c] # <<>> => client[c].st = "waiting" /\ crx[c] = <<>> /\ dsin[c][1].n = client[c].n
  /\ dsprog[c].pc # "idle" => crx[c] = <<>>
Received(c) ==
  /\ crx[c] # <<>> => client[c].st = "waiting" /\ Len(crx[c]) <= crx[c][1].len + 1
  /\ \A i \in 1..Len(crx[c]) : /\ crx[c][i].c = c
                               /\ crx[c][i].n = client[c].n
                               /\ crx[c][i].k = i - 1
                               /\ crx[c][i].len = crx[c][1].len
PlaceInv(c) ==
  /\ \A l \in Locals : PlaceAt(c, l)
  /\ \A k, l \in Locals : At(c, k) /\ At(c, l) => k = l
  /\ PlaceElse(c)
  /\ Received(c)
InvPlaces == \A c \in Clients : client[c].st # "closed" => PlaceInv(c)

(* What is left of a verdict was for a socket that has been open. *)
InvVerdicts ==
  \A c \in Clients, l \in Locals :
    dsverdict[c].left > 0 /\ dsverdict[c].to = l => conn[l] \in {"open", "closed"}

(* Tokens of requests are left under the keys of clients. *)
InvTokens == \A k \in HostKeys : utrn_wait_list[k] # NoAddr => k \in DsKeys

IInv ==
  /\ TypeOK
  /\ InvSockets /\ InvTasks /\ InvServers /\ InvProgs /\ InvQueues /\ InvLeases
  /\ InvInbox /\ InvRest /\ InvBuffer
  /\ InvRoutes /\ InvPlaces /\ InvVerdicts /\ InvTokens
-----------------------------------------------------------------------------
(* What holds besides where the maps are as large as what they can hold: a   *)
(* token for every client and every upstream connection, and a place for     *)
(* every upstream connection in the queue of an instance.                    *)
TokensFit == IsFiniteSet(DsKeys \cup UsKeys) /\ Cardinality(DsKeys \cup UsKeys) <= UtrnCap
QueuesFit == IsFiniteSet(Locals) /\ Cardinality(Locals) <= QueueCap

(* A task that has a part of a request, and has not taken its token, will    *)
(* find it: under the key the data plane has for the client.                 *)
TokenHeld(c) == task[c].pc = "read" /\ dsin[c] # <<>> => utrn_wait_list[DsKey(c)] # NoAddr
InvTokensHeld == \A c \in Clients : TokenHeld(c)

(* An upstream connection that both ends still have is in a queue, or in the *)
(* hands of process_msg or of a task, or has a request to answer; also while *)
(* its server's end is not yet established.                                  *)
Kept(l) ==
  \/ Queued(l)
  \/ \E c \in Clients : Holds(c, l) \/ Opens(c, l)
  \/ inbox[l] # <<>>
  \/ Unanswered(l)
InvConnsKept == \A l \in Locals : conn[l] \in {"est", "open"} => Kept(l)
=============================================================================

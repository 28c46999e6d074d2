------------------------------- MODULE H2Proxy -------------------------------
(***************************************************************************)
(* The HTTP/2 path of beeline over plain TCP: the frames process_msg sees   *)
(* (base.bpf.c) and the tasks handle_h2_downstream starts (proxy.rs).       *)
(*                                                                         *)
(* An upstream connection carries the streams of many clients.  The first  *)
(* HEADERS frame of a request is routed like an HTTP/1.1 request, except   *)
(* that its connection stays in the queue; the stream gets a new id there, *)
(* and h2_streams remembers both directions.  All other frames follow that *)
(* mapping.  A request that finds no connection makes a U-turn: a task of  *)
(* the control plane opens a connection and sends it there as stream 1.    *)
(*                                                                         *)
(* A request is HEADERS and one DATA frame, or HEADERS with END_STREAM; an *)
(* answer is HEADERS and trailers, or trailers alone.  There is one        *)
(* instance (queues of different instances do not interact) and all maps   *)
(* but the queue are large enough.  A connection is named by its far end:  *)
(* client c is the sock_key {c, proxy}, local address l the sock_key       *)
(* {instance, l}.  That process_msg runs for, and can redirect to, exactly *)
(* the established ones is the subject of H1Proxy (ServersMonitored).      *)
(***************************************************************************)
EXTENDS Naturals, Sequences, FiniteSets

CONSTANTS
  Clients,    \* addresses of the clients' sockets, as the data plane sees them
  NatAddrs,   \* other addresses the control plane may see for a client
  Locals,     \* local addresses the control plane can bind a socket to
  Proxy,      \* the control plane
  NoAddr,     \* the zero address
  Seen,       \* the address the control plane sees for a client
  Gw,         \* the gateway's address with the port of that client
  QueueCap,   \* max_entries of the queue of connections
  MaxStreams, \* bound: streams a client opens
  MaxClose    \* bound: the server closes connections while fewer are closed

ASSUME H2Assumption ==
  /\ Seen \in [Clients -> Clients \cup NatAddrs]
  /\ Gw \in [Clients -> Clients \cup NatAddrs]
  /\ \A c \in Clients : Seen[c] = c \/ (Seen[c] \notin Clients /\ Gw[c] = c)
  /\ Cardinality(Clients) \in Nat \ {0}
  /\ QueueCap \in Nat \ {0} /\ MaxStreams \in Nat \ {0} /\ MaxClose \in Nat

(* The upstream side of the proxy and its clients' side share no address.    *)
ASSUME H2AddrAssumption ==
  /\ (Clients \cup NatAddrs) \cap Locals = {}
  /\ NoAddr \notin Clients \cup NatAddrs \cup Locals

VARIABLES
  fib_upstream,   \* the queue of connections of the instance
  fib_downstream, \* where answers on a local address are sent
  utrn_wait_list, \* the U-turn tokens
  h2_conns,       \* the last stream id of an upstream connection
  h2_streams,     \* the stream at the other side of a stream
  prog,           \* process_msg in progress for a client's HEADERS
  up,             \* the clients that have a connection, flagged in h2_conns
  sent,           \* what a client has sent on its streams
  crx,            \* frames the clients received
  task, body,     \* requests and DATA frames the control plane got from a client
  conn,           \* the upstream connections
  inbox,          \* frames in the receive queue of their servers
  sstream         \* the streams of the server

maps == <<fib_upstream, fib_downstream, utrn_wait_list, h2_conns, h2_streams>>
client == <<up, sent, crx>>
cp == <<task, body>>
server == <<conn, inbox, sstream>>
vars == <<maps, prog, client, cp, server>>
-----------------------------------------------------------------------------
LastId == 2 * MaxStreams * Cardinality(Clients) + 1
Ids == {i \in 1..LastId : i % 2 = 1}
Hosts == Clients \cup NatAddrs
Streams == (Hosts \cup Locals) \X Ids
NoStream == <<NoAddr, 0>>

(* A frame on stream id of some connection; it belongs to stream s of client *)
(* c.  kind "bare" is HEADERS with END_STREAM.                               *)
Frame(id, kind, c, s, via) == [id |-> id, kind |-> kind, c |-> c, s |-> s, via |-> via]
Frames == [id : Ids, kind : {"head", "data", "bare", "trailers", "error"}, c : Clients, s : Ids,
           via : {"data_plane", "control_plane"}]

Idle     == [s |-> 0, sid |-> 0, l |-> NoAddr, uturn |-> FALSE]
NoTask   == [pc |-> "none", l |-> NoAddr, src |-> 0, ended |-> FALSE]
NotOpen  == [st |-> "none", c |-> NoAddr, s |-> 0, to |-> NoAddr, rest |-> NoAddr]

ProgState == [s : Ids \cup {0}, sid : Ids \cup {0}, l : Locals \cup {NoAddr}, uturn : BOOLEAN]
TaskState == [pc : {"none", "new", "connect", "send", "body", "response", "done"},
              l : Locals \cup {NoAddr}, src : Ids \cup {0}, ended : BOOLEAN]
StreamState == [st : {"none", "open", "ready", "headers", "done"}, c : Clients \cup {NoAddr},
                s : Ids \cup {0}, to : Clients \cup {NoAddr}, rest : Clients \cup {Proxy, NoAddr}]

TypeOK ==
  /\ fib_upstream \in Seq(Locals) /\ Len(fib_upstream) <= QueueCap
  /\ fib_downstream \in [Locals -> Clients \cup {NoAddr}]
  /\ utrn_wait_list \subseteq Hosts \X Ids
  /\ h2_conns \in [Locals -> Ids \cup {0}]
  /\ h2_streams \in [Streams -> Streams \cup {NoStream}]
  /\ prog \in [Clients -> ProgState]
  /\ up \subseteq Clients
  /\ sent \in [Clients -> [Ids -> {"no", "head", "all"}]]
  /\ crx \in [Clients -> SUBSET Frames]
  /\ task \in [Clients -> [Ids -> TaskState]]
  /\ body \in [Clients -> [Ids -> Seq(Ids)]]
  /\ conn \in [Locals -> {"free", "bound", "est", "open", "closed"}]
  /\ inbox \in [Locals -> Seq(Frames)]
  /\ sstream \in [Locals -> [Ids -> StreamState]]

Init ==
  /\ fib_upstream = <<>>
  /\ fib_downstream = [l \in Locals |-> NoAddr]
  /\ utrn_wait_list = {}
  /\ h2_conns = [l \in Locals |-> 0]
  /\ h2_streams = [k \in Streams |-> NoStream]
  /\ prog = [c \in Clients |-> Idle]
  /\ up = {}
  /\ sent = [c \in Clients |-> [i \in Ids |-> "no"]]
  /\ crx = [c \in Clients |-> {}]
  /\ task = [c \in Clients |-> [i \in Ids |-> NoTask]]
  /\ body = [c \in Clients |-> [i \in Ids |-> <<>>]]
  /\ conn = [l \in Locals |-> "free"]
  /\ inbox = [l \in Locals |-> <<>>]
  /\ sstream = [l \in Locals |-> [i \in Ids |-> NotOpen]]
-----------------------------------------------------------------------------
(* bpf_msg_redirect_hash finds the socket.                                   *)
Redirectable(k) == k \in up \/ (k \in Locals /\ conn[k] = "open")

(* A client connects and sends the HTTP/2 preface: process_msg flags its     *)
(* connection as HTTP/2.                                                     *)
Preface(c) ==
  /\ c \notin up /\ \A i \in Ids : sent[c][i] = "no"
  /\ up' = up \cup {c}
  /\ UNCHANGED <<maps, prog, sent, crx, cp, server>>

GiveUp(c) ==
  /\ c \in up /\ prog[c] = Idle
  /\ up' = up \ {c}
  /\ UNCHANGED <<maps, prog, sent, crx, cp, server>>

(* The control plane gets HEADERS on stream id, which has to be a new one,   *)
(* or DATA, which has to be on one it knows; it closes the connection if not.*)
NewAtCp(c, id) == \A i \in Ids : task[c][i].pc # "none" => i < id
CpHead(c, id, s, ended) ==
  IF NewAtCp(c, id)
  THEN /\ task' = [task EXCEPT ![c][id] = [NoTask EXCEPT !.pc = "new", !.src = s, !.ended = ended]]
       /\ UNCHANGED up
  ELSE up' = up \ {c} /\ UNCHANGED task
CpData(c, id, s) ==
  IF NewAtCp(c, id) THEN up' = up \ {c} /\ UNCHANGED body
  ELSE body' = [body EXCEPT ![c][id] = Append(@, s)] /\ UNCHANGED up
-----------------------------------------------------------------------------
(* The first stream that a client has not used.                              *)
NextStream(c) == CHOOSE i \in Ids : sent[c][i] = "no" /\ \A j \in Ids : j < i => sent[c][j] # "no"
CanOpen(c) == c \in up /\ prog[c] = Idle /\ NextStream(c) < 2 * MaxStreams

(* The stream id of an upstream connection for the next request, and how     *)
(* process_msg reads it.                                                     *)
NextId(id) == id + 2
NewIdOld(l) == h2_conns[l] - 2    \* mutant of NewId: the value before the increase
NewId(l) == h2_conns[l]

(* Two streams are assigned to each other.                                   *)
AssignBack(ist, est) == [h2_streams EXCEPT ![est] = ist]    \* mutants of Assign
AssignOut(ist, est) == [h2_streams EXCEPT ![ist] = est]
Assign(ist, est) == [h2_streams EXCEPT ![ist] = est, ![est] = ist]

(* process_msg for the first HEADERS of a request: _match drops it,          *)
DsDrop(c) ==
  /\ CanOpen(c)
  /\ sent' = [sent EXCEPT ![c][NextStream(c)] = "all"]
  /\ UNCHANGED <<maps, prog, up, crx, cp, server>>

(* or _fib_query peeks at the queue, post_forward_ds_conn sets the way back, *)
(* the redirect finds the socket or not, and the connection's stream id is   *)
(* increased regardless.  A stream that is in h2_streams already has its id  *)
(* replaced first.                                                           *)
DsHeaders(c) ==
  /\ CanOpen(c)
  /\ LET s == NextStream(c)
         m == h2_streams[<<c, s>>]
         l == IF fib_upstream = <<>> THEN NoAddr ELSE Head(fib_upstream)
     IN  /\ sent' = [sent EXCEPT ![c][s] = "head"]
         /\ prog' = [prog EXCEPT ![c] = [s |-> s, sid |-> IF m = NoStream THEN s ELSE m[2], l |-> l,
                                         uturn |-> ~Redirectable(l)]]
         /\ fib_downstream' = IF l = NoAddr THEN fib_downstream
                              ELSE [fib_downstream EXCEPT ![l] = c]
         /\ h2_conns' = IF l = NoAddr THEN h2_conns ELSE [h2_conns EXCEPT ![l] = NextId(@)]
  /\ UNCHANGED <<fib_upstream, utrn_wait_list, h2_streams, up, crx, cp, server>>

(* The id is read again and becomes the stream's, in both directions if the  *)
(* redirect worked.                                                          *)
DsAssign(c) ==
  /\ prog[c] # Idle /\ ~prog[c].uturn
  /\ LET l   == prog[c].l
         est == <<l, NewId(l)>>
     IN  /\ h2_streams' = Assign(<<c, prog[c].sid>>, est)
         /\ inbox' = IF conn[l] = "open"
                     THEN [inbox EXCEPT ![l] = Append(@, Frame(est[2], "head", c, prog[c].s,
                                                               "data_plane"))]
                     ELSE inbox
  /\ prog' = [prog EXCEPT ![c] = Idle]
  /\ UNCHANGED <<fib_upstream, fib_downstream, utrn_wait_list, h2_conns, client, cp, conn, sstream>>

(* The U-turn: no connection in the queue, or one that is not there.         *)
Uturning(c) == prog[c] # Idle /\ prog[c].uturn
UturnId(c) == IF prog[c].l = NoAddr THEN prog[c].sid ELSE NewId(prog[c].l)
DsUturn(c) ==
  /\ Uturning(c)
  /\ utrn_wait_list' = utrn_wait_list \cup {<<c, UturnId(c)>>}
  /\ CpHead(c, UturnId(c), prog[c].s, FALSE)
  /\ prog' = [prog EXCEPT ![c] = Idle]
  /\ UNCHANGED <<fib_upstream, fib_downstream, h2_conns, h2_streams, sent, crx, body, server>>

(* process_msg for DATA, and for HEADERS with END_STREAM: to the socket      *)
(* h2_streams names, or else to the control plane.                           *)
DsData(c, s) ==
  /\ c \in up /\ prog[c] = Idle /\ sent[c][s] = "head"
  /\ sent' = [sent EXCEPT ![c][s] = "all"]
  /\ LET m == h2_streams[<<c, s>>] IN
     IF m # NoStream /\ Redirectable(m[1])
     THEN /\ inbox' = [inbox EXCEPT ![m[1]] = Append(@, Frame(m[2], "data", c, s, "data_plane"))]
          /\ UNCHANGED <<up, body>>
     ELSE CpData(c, IF m = NoStream THEN s ELSE m[2], s) /\ UNCHANGED inbox
  /\ UNCHANGED <<maps, prog, crx, task, conn, sstream>>

DsBare(c) ==
  /\ CanOpen(c)
  /\ LET s == NextStream(c)
         m == h2_streams[<<c, s>>]
     IN  /\ sent' = [sent EXCEPT ![c][s] = "all"]
         /\ IF m # NoStream /\ Redirectable(m[1])
            THEN /\ inbox' = [inbox EXCEPT ![m[1]] = Append(@, Frame(m[2], "bare", c, s,
                                                                     "data_plane"))]
                 /\ UNCHANGED <<up, task>>
            ELSE CpHead(c, IF m = NoStream THEN s ELSE m[2], s, TRUE) /\ UNCHANGED inbox
  /\ UNCHANGED <<maps, prog, crx, body, conn, sstream>>
-----------------------------------------------------------------------------
(* A connection is closed with all that is in it.                            *)
Shut(l) ==
  /\ conn' = [conn EXCEPT ![l] = "closed"]
  /\ inbox' = [inbox EXCEPT ![l] = <<>>]
  /\ sstream' = [sstream EXCEPT ![l] = [i \in Ids |-> NotOpen]]

(* A server reads a frame.  A stream is opened with a larger id than all     *)
(* before it, and DATA comes on an open stream: anything else is a           *)
(* connection error.                                                         *)
ServerRead(l) ==
  /\ conn[l] = "open" /\ inbox[l] # <<>>
  /\ LET f == Head(inbox[l]) IN
     IF IF f.kind = "data" THEN sstream[l][f.id].st = "open"
        ELSE \A i \in Ids : sstream[l][i].st # "none" => i < f.id
     THEN /\ inbox' = [inbox EXCEPT ![l] = Tail(@)]
          /\ sstream' = [sstream EXCEPT ![l][f.id] =
               IF f.kind = "data" THEN [@ EXCEPT !.st = "ready"]
               ELSE [NotOpen EXCEPT !.st = IF f.kind = "head" THEN "open" ELSE "ready",
                                    !.c = f.c, !.s = f.s]]
          /\ UNCHANGED conn
     ELSE Shut(l)
  /\ UNCHANGED <<maps, prog, client, cp>>

(* The id of an answer's stream at the client.                               *)
AnswerIdKept(l, t) == t    \* mutant of AnswerId
AnswerId(l, t) == IF h2_streams[<<l, t>>] = NoStream THEN t ELSE h2_streams[<<l, t>>][2]

(* process_msg for the HEADERS of an answer: the id is replaced, the socket  *)
(* comes from fib_downstream, the connection goes to the queue once more     *)
(* (post_forward_us_conn), and an answer that cannot be redirected is        *)
(* dropped.                                                                  *)
UsHeaders(l, t) ==
  /\ sstream[l][t].st = "ready"
  /\ fib_upstream' = Append(IF Len(fib_upstream) < QueueCap THEN fib_upstream
                            ELSE Tail(fib_upstream), l)
  /\ LET to == fib_downstream[l]
         r  == sstream[l][t]
     IN  IF Redirectable(to)
         THEN /\ crx' = [crx EXCEPT ![to] = @ \cup {Frame(AnswerId(l, t), "head", r.c, r.s,
                                                          "data_plane")}]
              /\ sstream' = [sstream EXCEPT ![l][t].st = "headers", ![l][t].to = to]
         ELSE sstream' = [sstream EXCEPT ![l][t].st = "done"] /\ UNCHANGED crx
  /\ UNCHANGED <<fib_downstream, utrn_wait_list, h2_conns, h2_streams, prog, up, sent, cp, conn,
                 inbox>>

(* The trailers, after HEADERS or alone, follow h2_streams; where that does  *)
(* not help they pass to the control plane's end of the connection.          *)
UsTrailers(l, t) ==
  /\ sstream[l][t].st \in {"ready", "headers"}
  /\ LET m == h2_streams[<<l, t>>]
         r == sstream[l][t]
     IN  IF m # NoStream /\ Redirectable(m[1])
         THEN /\ crx' = [crx EXCEPT ![m[1]] = @ \cup {Frame(m[2], "trailers", r.c, r.s,
                                                            "data_plane")}]
              /\ sstream' = [sstream EXCEPT ![l][t].st = "done", ![l][t].rest = m[1]]
         ELSE /\ sstream' = [sstream EXCEPT ![l][t].st = "done", ![l][t].rest = Proxy]
              /\ UNCHANGED crx
  /\ UNCHANGED <<maps, prog, up, sent, cp, conn, inbox>>

(* The server closes a connection, or the control plane does because it got  *)
(* a frame of a stream it does not know.                                     *)
ConnClose(l) ==
  /\ conn[l] = "open"
  /\ \/ Cardinality({k \in Locals : conn[k] = "closed"}) < MaxClose
     \/ \E t \in Ids \ {1} : sstream[l][t].rest = Proxy
  /\ Shut(l)
  /\ UNCHANGED <<maps, prog, client, cp>>

(* The server's end of a connection is established.                          *)
Established(l) ==
  /\ conn[l] = "est"
  /\ conn' = [conn EXCEPT ![l] = "open"]
  /\ UNCHANGED <<maps, prog, client, cp, inbox, sstream>>
-----------------------------------------------------------------------------
(* handle_h2_downstream.  The tasks of one connection take its five mutexes  *)
(* in the same order, so the first of them decides; from the token to the    *)
(* end of the body a task holds them.                                        *)
Locked(c) == \E id \in Ids : task[c][id].pc \in {"connect", "send", "body"}
TokenOf(c, id) == IF <<Seen[c], id>> \in utrn_wait_list THEN <<Seen[c], id>> ELSE <<Gw[c], id>>

(* send_error ends the task.                                                 *)
SendError(c, id) ==
  /\ task' = [task EXCEPT ![c][id].pc = "done"]
  /\ crx' = IF c \in up THEN [crx EXCEPT ![c] = @ \cup {Frame(id, "error", c, task[c][id].src,
                                                              "control_plane")}] ELSE crx

(* No token, or no local address to bind to.                                 *)
TaskFail(c, id) ==
  /\ task[c][id].pc = "new" /\ ~Locked(c)
  /\ TokenOf(c, id) \in utrn_wait_list => \A l \in Locals : conn[l] # "free"
  /\ utrn_wait_list' = utrn_wait_list \ {TokenOf(c, id)}
  /\ SendError(c, id)
  /\ UNCHANGED <<fib_upstream, fib_downstream, h2_conns, h2_streams, prog, up, sent, body, server>>

(* The token is taken, a socket bound, its connection flagged and its stream *)
(* 1 assigned to the request, before it connects.                            *)
TaskBind(c, id, l) ==
  /\ task[c][id].pc = "new" /\ ~Locked(c)
  /\ TokenOf(c, id) \in utrn_wait_list
  /\ conn[l] = "free"
  /\ conn' = [conn EXCEPT ![l] = "bound"]
  /\ utrn_wait_list' = utrn_wait_list \ {TokenOf(c, id)}
  /\ h2_conns' = [h2_conns EXCEPT ![l] = 1]
  /\ h2_streams' = Assign(<<Seen[c], id>>, <<l, 1>>)
  /\ task' = [task EXCEPT ![c][id].pc = "connect", ![c][id].l = l]
  /\ UNCHANGED <<fib_upstream, fib_downstream, prog, client, body, inbox, sstream>>

TaskConnected(c, id) ==
  /\ task[c][id].pc = "connect"
  /\ conn' = [conn EXCEPT ![task[c][id].l] = "est"]
  /\ task' = [task EXCEPT ![c][id].pc = "send"]
  /\ UNCHANGED <<maps, prog, client, body, inbox, sstream>>

(* What was entered in the maps for the connection stays there.              *)
TaskConnectFail(c, id) ==
  /\ task[c][id].pc = "connect"
  /\ conn' = [conn EXCEPT ![task[c][id].l] = "free"]
  /\ SendError(c, id)
  /\ UNCHANGED <<maps, prog, up, sent, body, inbox, sstream>>

(* A frame on stream 1 of the connection of the task, if it is still there.  *)
Forward(c, id, kind, s) ==
  LET l == task[c][id].l IN
  inbox' = IF conn[l] = "closed" THEN inbox
           ELSE [inbox EXCEPT ![l] = Append(@, Frame(1, kind, c, s, "control_plane"))]

(* The way back is entered and HEADERS are sent; the task may panic when it   *)
(* finds the connection closed.                                              *)
TaskSend(c, id) ==
  /\ task[c][id].pc = "send"
  /\ fib_downstream' = [fib_downstream EXCEPT ![task[c][id].l] = c]
  /\ Forward(c, id, IF task[c][id].ended THEN "bare" ELSE "head", task[c][id].src)
  /\ \E pc \in {"body"} \cup IF conn[task[c][id].l] = "closed" THEN {"done"} ELSE {} :
       task' = [task EXCEPT ![c][id].pc = pc]
  /\ UNCHANGED <<fib_upstream, utrn_wait_list, h2_conns, h2_streams, prog, client, body, conn,
                 sstream>>

(* The body is passed on, then the mutexes are released.  Until the body has *)
(* come, or the connection has gone, the task waits with all of them.        *)
TaskBody(c, id) ==
  /\ task[c][id].pc = "body"
  /\ \/ body[c][id] # <<>> /\ Forward(c, id, "data", Head(body[c][id]))
     \/ body[c][id] = <<>> /\ (task[c][id].ended \/ c \notin up) /\ UNCHANGED inbox
  /\ task' = [task EXCEPT ![c][id].pc = "response"]
  /\ UNCHANGED <<maps, prog, client, body, conn, sstream>>

(* response.await ends with the connection, or with a frame of stream 1 that *)
(* passed to the control plane; then the way back goes.                      *)
TaskDelete(c, id) ==
  /\ task[c][id].pc = "response" /\ ~Locked(c)
  /\ conn[task[c][id].l] = "closed" \/ sstream[task[c][id].l][1].rest = Proxy
  /\ fib_downstream' = [fib_downstream EXCEPT ![task[c][id].l] = NoAddr]
  /\ task' = [task EXCEPT ![c][id].pc = "done"]
  /\ UNCHANGED <<fib_upstream, utrn_wait_list, h2_conns, h2_streams, prog, client, body, server>>
-----------------------------------------------------------------------------
Task(c, id) ==
  \/ TaskFail(c, id) \/ (\E l \in Locals : TaskBind(c, id, l)) \/ TaskConnected(c, id)
  \/ TaskConnectFail(c, id) \/ TaskSend(c, id) \/ TaskBody(c, id) \/ TaskDelete(c, id)

Next ==
  \/ \E c \in Clients :
       \/ Preface(c) \/ GiveUp(c) \/ DsDrop(c) \/ DsHeaders(c) \/ DsAssign(c) \/ DsUturn(c)
       \/ DsBare(c)
       \/ \E s \in Ids : DsData(c, s) \/ Task(c, s)
  \/ \E l \in Locals :
       \/ ServerRead(l) \/ ConnClose(l) \/ Established(l)
       \/ \E t \in Ids : UsHeaders(l, t) \/ UsTrailers(l, t)

Spec == Init /\ [][Next]_vars
-----------------------------------------------------------------------------
(* The requests on an upstream connection come with growing stream ids, as  *)
(* its server demands, also when CPUs assign ids at the same time           *)
(* (process_msg, __sync_fetch_and_add).                                     *)
IncreasingIds ==
  \A l \in Locals : \A i \in 1..Len(inbox[l]) :
    LET f == inbox[l][i] IN
    f.kind \in {"head", "bare"} =>
      /\ \A t \in Ids : sstream[l][t].st # "none" => t < f.id
      /\ \A j \in 1..(i - 1) : inbox[l][j].kind \in {"head", "bare"} => inbox[l][j].id < f.id

(* What process_msg sends to a client on a stream answers the request the   *)
(* client sent on that stream.                                              *)
AnswerToRequest ==
  \A c \in Clients : \A f \in crx[c] : f.via = "data_plane" => f.c = c /\ f.s = f.id

(* That holds as long as no upstream connection has been closed.  After     *)
(* that a U-turn takes the id of the closed connection for the stream's, in *)
(* h2_streams and in the message.                                           *)
NoneClosed == \A l \in Locals : conn[l] # "closed"
AnswerWhileOpen == NoneClosed => AnswerToRequest

(* The rest of an answer goes where its HEADERS went, while that client is  *)
(* connected (process_msg: all other frames are forwarded to the previous   *)
(* destination).                                                            *)
AnswerStaysTogether ==
  \A l \in Locals : \A t \in Ids :
    LET r == sstream[l][t] IN r.to \in up /\ r.rest # NoAddr => r.rest = r.to

(* The two directions of h2_streams agree, as long as no connection has     *)
(* been closed: the stream that gets the answers of a server's stream is    *)
(* one whose frames that server's stream gets.                              *)
TwoWays ==
  NoneClosed => \A k \in Locals \X Ids : h2_streams[k] # NoStream => h2_streams[h2_streams[k]] = k
=============================================================================

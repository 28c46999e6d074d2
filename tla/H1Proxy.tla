------------------------------- MODULE H1Proxy -------------------------------
(***************************************************************************)
(* The HTTP/1.1 path of beeline over plain TCP: the eBPF data plane        *)
(* (process_msg, the forwarding table and the sockops program of           *)
(* base.bpf.c) together with the control plane task of one downstream      *)
(* connection (handle_h1_downstream of proxy.rs).                          *)
(*                                                                         *)
(* A client sends a request on its connection to the proxy.  process_msg   *)
(* runs inside the client's sendmsg: it takes an idle upstream connection  *)
(* from the queue of the chosen instance and moves the bytes straight into *)
(* the server's socket.  When there is none, or it is dead, the request    *)
(* makes a "U-turn": a token with the chosen instance is left in           *)
(* utrn_wait_list and the bytes go to the control plane, which opens a new *)
(* upstream connection.  The answer takes the same way back, inside the    *)
(* server's sendmsg, which also puts the connection back into the queue.   *)
(*                                                                         *)
(* process_msg runs on the CPU of each sender, so its map operations       *)
(* interleave with those of all other senders: it is three to four steps   *)
(* here (query, post_forward, redirect, U-turn).  The code of the control  *)
(* plane between two of its awaits is one step, except where the data      *)
(* plane could tell the order of its map updates.                          *)
(*                                                                         *)
(* Abstracted: bytes (a message is a head and len body parts), the policy  *)
(* (the instance a request is routed to is any of them, or the request is  *)
(* dropped).  Clients do not pipeline.                                     *)
(***************************************************************************)
EXTENDS Naturals, Sequences, FiniteSets

CONSTANTS
  Clients,    \* addresses of the clients' sockets, as the data plane sees them
  Upstreams,  \* addresses of the instances of all hosts
  Locals,     \* local addresses the control plane can bind a socket to
  NatAddrs,   \* other addresses, see Seen and Gw
  Proxy,      \* the address the proxy listens on
  NoAddr,     \* the zero address 0.0.0.0:0
  Seen,       \* the address the control plane sees for a client
  Gw,         \* the gateway's address with the port of that client
  QueueCap,   \* max_entries of a queue of fib_upstream
  FibCap,     \* max_entries of fib_downstream
  UtrnCap,    \* max_entries of utrn_wait_list
  MaxReqs,    \* bound: requests a client sends
  MaxBody     \* bound: parts of a message after its head

Hosts == Clients \cup NatAddrs

(* The address groups are disjoint. *)
ASSUME AddrAssumption ==
  /\ Clients \cap (NatAddrs \cup Upstreams \cup Locals) = {}
  /\ NatAddrs \cap (Upstreams \cup Locals) = {}
  /\ Upstreams \cap Locals = {}
  /\ Proxy \notin Hosts \cup Upstreams \cup Locals \cup {NoAddr}
  /\ NoAddr \notin Hosts \cup Upstreams \cup Locals

(* The control plane sees a client under the address the data plane sees, or *)
(* else the gateway's address with the client's port is that address.  The   *)
(* gateway's address with the port of a client is never another client.      *)
ASSUME NatAssumption ==
  /\ Seen \in [Clients -> Hosts]
  /\ Gw \in [Clients -> Hosts]
  /\ \A c \in Clients : /\ Seen[c] = c \/ (Seen[c] \in NatAddrs /\ Gw[c] = c)
                        /\ Gw[c] \in NatAddrs \cup {c}

ASSUME BoundAssumption ==
  /\ QueueCap \in Nat \ {0}
  /\ FibCap \in Nat \ {0}
  /\ UtrnCap \in Nat \ {0}
  /\ MaxReqs \in Nat
  /\ MaxBody \in Nat

VARIABLES
  msg_sock_map,       \* the sock_keys of the sockets process_msg runs for
  sock_map_wait_list, \* the sock_keys that monitor_sockets is to add
  fib_upstream,       \* the queue of idle upstream sockets of each instance
  fib_downstream,     \* the client socket that waits on each local address
  utrn_wait_list,     \* the U-turn tokens: the instance for each sock_key
  dsprog,             \* process_msg in progress, for each client's socket
  dsverdict,          \* what is left of its last verdict's apply_bytes
  usprog, usverdict,  \* the same for each server's socket
  client,             \* the clients
  crx,                \* answers in the receive queue of each client
  dsin,               \* buf of the control plane's task of each client
  task,               \* handle_h1_downstream of each client
  conn,               \* state of the upstream connection on each local address
  peer,               \* its instance
  inbox,              \* receive queue of its server socket
  server,             \* what the server does with it
  lost                \* history: clients whose last request got lost

maps == <<msg_sock_map, sock_map_wait_list, fib_upstream, fib_downstream,
          utrn_wait_list>>
dsrun == <<dsprog, dsverdict>>
usrun == <<usprog, usverdict>>
ends == <<client, crx, dsin, task, conn, peer, inbox, server, lost>>
vars == <<maps, dsrun, usrun, ends>>
-----------------------------------------------------------------------------
(* Sockets are named by struct sock_key {local, remote}. *)
NullKey  == <<NoAddr, NoAddr>>
DsKey(c) == <<c, Proxy>>
UsKey(l) == <<peer[l], l>>
DsKeys   == Clients \X {Proxy}
HostKeys == Hosts \X {Proxy}
UsKeys   == Upstreams \X Locals

(* Part k of a message of len + 1 parts that belongs to request n of client *)
(* c; part 0 is the head.  ok is FALSE for the control plane's 500.         *)
Part(c, n, k, len, ok) == [c |-> c, n |-> n, k |-> k, len |-> len, ok |-> ok]
Parts == [c : Clients, n : 1..MaxReqs, k : 0..MaxBody, len : 0..MaxBody, ok : BOOLEAN]

(* The parts of one whole message. *)
Whole(s) == s # <<>> /\ Len(s) = s[1].len + 1

(* An update of an LRU hash: a full map gives up some other entry. *)
LruPut(m, k, v, none, cap) ==
  LET used == {x \in DOMAIN m : m[x] # none}
      put  == [m EXCEPT ![k] = v]
  IN  IF k \in used \/ Cardinality(used) < cap
      THEN {put}
      ELSE {[put EXCEPT ![x] = none] : x \in used}

(* bpf_map_push_elem with BPF_EXIST: a full queue gives up its oldest entry. *)
PushExist(q, key) == Append(IF Len(q) < QueueCap THEN q ELSE Tail(q), key)

Idle      == [pc |-> "idle", dest |-> NoAddr, ekey |-> NullKey, len |-> 0]
NoVerdict == [to |-> NoAddr, left |-> 0]
NoRequest == [st |-> "idle", c |-> NoAddr, n |-> 0, left |-> 0]
Reading   == [pc |-> "read", l |-> NoAddr, dest |-> NoAddr, key |-> NullKey]
-----------------------------------------------------------------------------
Pcs       == {"idle", "post", "redirect", "utrn"}
DsProg    == [pc : Pcs, dest : Upstreams \cup {NoAddr}, ekey : UsKeys \cup {NullKey},
              len : 0..MaxBody]
UsProg    == [pc : Pcs, dest : Locals \cup {NoAddr}, ekey : HostKeys \cup {NullKey},
              len : 0..MaxBody]
DsVerdict == [to : Locals \cup {Proxy, NoAddr}, left : 0..MaxBody]
UsVerdict == [to : Clients \cup {Proxy, NoAddr}, left : 0..MaxBody]
Client    == [st : {"new", "idle", "waiting", "closed"}, n : 0..MaxReqs, len : 0..MaxBody]
TaskState == [pc : {"none", "read", "connect", "fib", "write", "done"},
              l : Locals \cup {NoAddr}, dest : Upstreams \cup {NoAddr},
              key : HostKeys \cup {NullKey}]
Server    == [st : {"idle", "reading", "ready", "answer", "sending"},
              c : Clients \cup {NoAddr}, n : 0..MaxReqs, left : 0..MaxBody]

TypeOK ==
  /\ msg_sock_map \subseteq DsKeys \cup UsKeys
  /\ sock_map_wait_list \subseteq UsKeys
  /\ fib_upstream \in [Upstreams -> Seq(UsKeys)]
  /\ fib_downstream \in [Locals -> HostKeys \cup {NullKey}]
  /\ utrn_wait_list \in [HostKeys \cup UsKeys -> Upstreams \cup Locals \cup {NoAddr}]
  /\ \A k \in HostKeys : utrn_wait_list[k] \in Upstreams \cup {NoAddr}
  /\ dsprog \in [Clients -> DsProg]
  /\ dsverdict \in [Clients -> DsVerdict]
  /\ usprog \in [Locals -> UsProg]
  /\ usverdict \in [Locals -> UsVerdict]
  /\ client \in [Clients -> Client]
  /\ crx \in [Clients -> Seq(Parts)]
  /\ dsin \in [Clients -> Seq(Parts)]
  /\ task \in [Clients -> TaskState]
  /\ conn \in [Locals -> {"free", "bound", "est", "open", "closed"}]
  /\ peer \in [Locals -> Upstreams \cup {NoAddr}]
  /\ inbox \in [Locals -> Seq(Parts)]
  /\ server \in [Locals -> Server]
  /\ lost \subseteq Clients

Init ==
  /\ msg_sock_map = {}
  /\ sock_map_wait_list = {}
  /\ fib_upstream = [u \in Upstreams |-> <<>>]
  /\ fib_downstream = [l \in Locals |-> NullKey]
  /\ utrn_wait_list = [k \in HostKeys \cup UsKeys |-> NoAddr]
  /\ dsprog = [c \in Clients |-> Idle]
  /\ usprog = [l \in Locals |-> Idle]
  /\ dsverdict = [c \in Clients |-> NoVerdict]
  /\ usverdict = [l \in Locals |-> NoVerdict]
  /\ client = [c \in Clients |-> [st |-> "new", n |-> 0, len |-> 0]]
  /\ crx = [c \in Clients |-> <<>>]
  /\ dsin = [c \in Clients |-> <<>>]
  /\ task = [c \in Clients |-> [Reading EXCEPT !.pc = "none"]]
  /\ conn = [l \in Locals |-> "free"]
  /\ peer = [l \in Locals |-> NoAddr]
  /\ inbox = [l \in Locals |-> <<>>]
  /\ server = [l \in Locals |-> NoRequest]
  /\ lost = {}
-----------------------------------------------------------------------------
(* monitor_sockets for a socket that was just established.  Sockets of the   *)
(* accelerated network go to net_sock_map, which process_msg does not use.   *)
monitor_sockets(key) ==
  /\ msg_sock_map' = IF key \in sock_map_wait_list \/ key[2] = Proxy
                     THEN msg_sock_map \cup {key} ELSE msg_sock_map
  /\ sock_map_wait_list' = sock_map_wait_list \ {key}

(* bpf_msg_redirect_hash: the parts go to the receive queue of the socket    *)
(* behind the key.                                                           *)
Redirectable(key) == key \in msg_sock_map

(* A client connects to the proxy, which accepts and starts a task.          *)
Connect(c) ==
  /\ client[c].st = "new"
  /\ client' = [client EXCEPT ![c].st = "idle"]
  /\ monitor_sockets(DsKey(c))
  /\ task' = [task EXCEPT ![c] = Reading]
  /\ UNCHANGED <<fib_upstream, fib_downstream, utrn_wait_list, dsrun, usrun,
                 crx, dsin, conn, peer, inbox, server, lost>>

(* A client closes its connection, which takes its socket out of the map.    *)
(* It cannot do so inside process_msg, which runs under the socket's lock.   *)
GiveUp(c) ==
  /\ client[c].st \in {"idle", "waiting"}
  /\ dsprog[c] = Idle
  /\ client' = [client EXCEPT ![c].st = "closed"]
  /\ msg_sock_map' = msg_sock_map \ {DsKey(c)}
  /\ dsverdict' = [dsverdict EXCEPT ![c] = NoVerdict]
  /\ UNCHANGED <<sock_map_wait_list, fib_upstream, fib_downstream, utrn_wait_list,
                 dsprog, usrun, crx, dsin, task, conn, peer, inbox, server, lost>>

(* A client has read a whole answer.                                         *)
Finish(c) ==
  /\ client[c].st = "waiting"
  /\ dsprog[c] = Idle
  /\ Whole(crx[c])
  /\ client' = [client EXCEPT ![c].st = "idle"]
  /\ crx' = [crx EXCEPT ![c] = <<>>]
  /\ UNCHANGED <<maps, dsrun, usrun, dsin, task, conn, peer, inbox, server, lost>>
-----------------------------------------------------------------------------
(* process_msg for a request: sendmsg of the head of the next request of c.  *)
CanSend(c) == client[c].st = "idle" /\ client[c].n < MaxReqs

(* _match denies the request or leaves no destination: SK_DROP, the client's *)
(* sendmsg fails.                                                            *)
DsDrop(c) ==
  /\ CanSend(c)
  /\ client' = [client EXCEPT ![c].n = @ + 1]
  /\ lost' = lost \ {c}
  /\ UNCHANGED <<maps, dsrun, usrun, crx, dsin, task, conn, peer, inbox, server>>

(* Mutant of DsQuery: bpf_map_peek_elem, as for HTTP/2.                      *)
DsQueryPeek(c) ==
  /\ CanSend(c)
  /\ \E u \in Upstreams, len \in 0..MaxBody :
       LET q == fib_upstream[u] IN
       /\ client' = [client EXCEPT ![c] = [st |-> "waiting", n |-> @.n + 1, len |-> len]]
       /\ dsprog' = [dsprog EXCEPT ![c] =
                     [pc |-> "post", dest |-> u, len |-> len,
                      ekey |-> IF q = <<>> THEN NullKey ELSE Head(q)]]
  /\ lost' = lost \ {c}
  /\ UNCHANGED <<maps, dsverdict, usrun, crx, dsin, task, conn, peer, inbox, server>>

(* _match routes it to u; _fib_query pops the oldest idle socket of u.       *)
DsQuery(c) ==
  /\ CanSend(c)
  /\ \E u \in Upstreams, len \in 0..MaxBody :
       LET q == fib_upstream[u] IN
       /\ client' = [client EXCEPT ![c] = [st |-> "waiting", n |-> @.n + 1, len |-> len]]
       /\ dsprog' = [dsprog EXCEPT ![c] =
                     [pc |-> "post", dest |-> u, len |-> len,
                      ekey |-> IF q = <<>> THEN NullKey ELSE Head(q)]]
       /\ fib_upstream' = [fib_upstream EXCEPT ![u] = IF q = <<>> THEN q ELSE Tail(q)]
  /\ lost' = lost \ {c}
  /\ UNCHANGED <<msg_sock_map, sock_map_wait_list, fib_downstream, utrn_wait_list,
                 dsverdict, usrun, crx, dsin, task, conn, peer, inbox, server>>

(* Mutant of DsPost: fib_downstream is updated with BPF_NOEXIST.             *)
DsPostNoExist(c) ==
  /\ dsprog[c].pc = "post"
  /\ LET ekey == dsprog[c].ekey IN
     IF ekey = NullKey
     THEN /\ dsprog' = [dsprog EXCEPT ![c].pc = "utrn"]
          /\ UNCHANGED fib_downstream
     ELSE /\ dsprog' = [dsprog EXCEPT ![c].pc = "redirect"]
          /\ IF fib_downstream[ekey[2]] # NullKey THEN UNCHANGED fib_downstream
             ELSE fib_downstream' \in LruPut(fib_downstream, ekey[2], DsKey(c), NullKey, FibCap)
  /\ UNCHANGED <<msg_sock_map, sock_map_wait_list, fib_upstream, utrn_wait_list,
                 dsverdict, usrun, ends>>

(* post_forward_ds_conn: the answer is to be routed back to c.               *)
DsPost(c) ==
  /\ dsprog[c].pc = "post"
  /\ LET ekey == dsprog[c].ekey IN
     IF ekey = NullKey
     THEN /\ dsprog' = [dsprog EXCEPT ![c].pc = "utrn"]
          /\ UNCHANGED fib_downstream
     ELSE /\ dsprog' = [dsprog EXCEPT ![c].pc = "redirect"]
          /\ fib_downstream' \in LruPut(fib_downstream, ekey[2], DsKey(c), NullKey, FibCap)
  /\ UNCHANGED <<msg_sock_map, sock_map_wait_list, fib_upstream, utrn_wait_list,
                 dsverdict, usrun, ends>>

(* The head of the request in progress.                                      *)
DsHead(c) == Part(c, client[c].n, 0, dsprog[c].len, TRUE)

(* The request moves to the server's socket, or makes a U-turn.              *)
DsRedirect(c) ==
  /\ dsprog[c].pc = "redirect"
  /\ LET ekey == dsprog[c].ekey IN
     IF Redirectable(ekey)
     THEN /\ inbox' = [inbox EXCEPT ![ekey[2]] = Append(@, DsHead(c))]
          /\ dsverdict' = [dsverdict EXCEPT ![c] = [to |-> ekey[2], left |-> dsprog[c].len]]
          /\ dsprog' = [dsprog EXCEPT ![c] = Idle]
     ELSE /\ dsprog' = [dsprog EXCEPT ![c].pc = "utrn"]
          /\ UNCHANGED <<inbox, dsverdict>>
  /\ UNCHANGED <<maps, usrun, client, crx, dsin, task, conn, peer, server, lost>>

(* PR_UTRN: leave the token, pass the request to the control plane.          *)
DsUturn(c) ==
  /\ dsprog[c].pc = "utrn"
  /\ utrn_wait_list' \in LruPut(utrn_wait_list, DsKey(c), dsprog[c].dest, NoAddr, UtrnCap)
  /\ dsin' = [dsin EXCEPT ![c] = Append(@, DsHead(c))]
  /\ dsverdict' = [dsverdict EXCEPT ![c] = [to |-> Proxy, left |-> dsprog[c].len]]
  /\ dsprog' = [dsprog EXCEPT ![c] = Idle]
  /\ UNCHANGED <<msg_sock_map, sock_map_wait_list, fib_upstream, fib_downstream, usrun,
                 client, crx, task, conn, peer, inbox, server, lost>>

(* The rest of the request falls under the same verdict (apply_bytes): the   *)
(* program does not run for it.                                              *)
DsBody(c) ==
  /\ client[c].st = "waiting"
  /\ dsprog[c] = Idle
  /\ dsverdict[c].left > 0
  /\ LET to   == dsverdict[c].to
         part == Part(c, client[c].n, client[c].len - dsverdict[c].left + 1, client[c].len, TRUE)
     IN  /\ inbox' = IF to \in Locals /\ conn[to] = "open"
                     THEN [inbox EXCEPT ![to] = Append(@, part)] ELSE inbox
         /\ dsin' = IF to = Proxy THEN [dsin EXCEPT ![c] = Append(@, part)] ELSE dsin
  /\ dsverdict' = [dsverdict EXCEPT ![c].left = @ - 1]
  /\ UNCHANGED <<maps, dsprog, usrun, client, crx, task, conn, peer, server, lost>>
-----------------------------------------------------------------------------
(* A server reads the next part of a request from its socket.                *)
ServerRead(l) ==
  /\ conn[l] = "open"
  /\ inbox[l] # <<>>
  /\ LET m == Head(inbox[l]) IN
     \/ /\ server[l].st = "idle" /\ m.k = 0
        /\ server' = [server EXCEPT ![l] =
                        [st |-> IF m.len = 0 THEN "ready" ELSE "reading",
                         c |-> m.c, n |-> m.n, left |-> m.len]]
     \/ /\ server[l].st = "reading" /\ m.k > 0
        /\ server' = [server EXCEPT ![l].st = IF server[l].left = 1 THEN "ready" ELSE "reading",
                                    ![l].left = @ - 1]
  /\ inbox' = [inbox EXCEPT ![l] = Tail(@)]
  /\ UNCHANGED <<maps, dsrun, usrun, client, crx, dsin, task, conn, peer, lost>>

(* process_msg for an answer: sendmsg of its head.  forward_us_conn makes    *)
(* the proxy's end of the connection the destination, _fib_query looks up    *)
(* who waits there.                                                          *)
UsQuery(l) ==
  /\ server[l].st = "ready"
  /\ Redirectable(UsKey(l))
  /\ \E len \in 0..MaxBody :
       usprog' = [usprog EXCEPT ![l] = [pc |-> "post", dest |-> l, len |-> len,
                                    ekey |-> fib_downstream[l]]]
  /\ server' = [server EXCEPT ![l].st = "answer"]
  /\ UNCHANGED <<maps, dsrun, usverdict, client, crx, dsin, task, conn, peer, inbox, lost>>

(* Mutant of UsPost: the connection is pushed only if the client is there.   *)
UsPostIfClient(l) ==
  /\ usprog[l].pc = "post"
  /\ fib_upstream' = IF Redirectable(usprog[l].ekey)
                     THEN [fib_upstream EXCEPT ![peer[l]] = PushExist(@, UsKey(l))] ELSE fib_upstream
  /\ IF usprog[l].ekey = NullKey
     THEN /\ usprog' = [usprog EXCEPT ![l] = Idle]
          /\ lost' = lost \cup {server[l].c}
          /\ server' = [server EXCEPT ![l] = NoRequest]
     ELSE /\ usprog' = [usprog EXCEPT ![l].pc = "redirect"]
          /\ UNCHANGED <<server, lost>>
  /\ UNCHANGED <<msg_sock_map, sock_map_wait_list, fib_downstream, utrn_wait_list,
                 dsrun, usverdict, client, crx, dsin, task, conn, peer, inbox>>

(* post_forward_us_conn: the connection is available for new requests, also  *)
(* when nobody was found to wait for this answer (PR_DROP).                  *)
UsPost(l) ==
  /\ usprog[l].pc = "post"
  /\ fib_upstream' = [fib_upstream EXCEPT ![peer[l]] = PushExist(@, UsKey(l))]
  /\ IF usprog[l].ekey = NullKey
     THEN /\ usprog' = [usprog EXCEPT ![l] = Idle]
          /\ lost' = lost \cup {server[l].c}
          /\ server' = [server EXCEPT ![l] = NoRequest]
     ELSE /\ usprog' = [usprog EXCEPT ![l].pc = "redirect"]
          /\ UNCHANGED <<server, lost>>
  /\ UNCHANGED <<msg_sock_map, sock_map_wait_list, fib_downstream, utrn_wait_list,
                 dsrun, usverdict, client, crx, dsin, task, conn, peer, inbox>>

(* The answer in progress after its head went to "to".                       *)
Answering(l, to) ==
  /\ usverdict' = [usverdict EXCEPT ![l] = [to |-> to, left |-> usprog[l].len]]
  /\ usprog' = [usprog EXCEPT ![l] = Idle]
  /\ server' = [server EXCEPT ![l] = IF usprog[l].len = 0 THEN NoRequest
                                     ELSE [@ EXCEPT !.st = "sending", !.left = usprog[l].len]]

(* The answer moves to the client's socket, or makes a U-turn.               *)
UsRedirect(l) ==
  /\ usprog[l].pc = "redirect"
  /\ LET ekey == usprog[l].ekey IN
     IF Redirectable(ekey)
     THEN /\ crx' = [crx EXCEPT ![ekey[1]] =
                       Append(@, Part(server[l].c, server[l].n, 0, usprog[l].len, TRUE))]
          /\ Answering(l, ekey[1])
     ELSE /\ usprog' = [usprog EXCEPT ![l].pc = "utrn"]
          /\ UNCHANGED <<crx, usverdict, server>>
  /\ UNCHANGED <<maps, dsrun, client, dsin, task, conn, peer, inbox, lost>>

(* The control plane's end of the connection gets the answer; nobody reads   *)
(* it there, and nobody takes the token.                                     *)
UsUturn(l) ==
  /\ usprog[l].pc = "utrn"
  /\ utrn_wait_list' \in LruPut(utrn_wait_list, UsKey(l), usprog[l].dest, NoAddr, UtrnCap)
  /\ Answering(l, Proxy)
  /\ UNCHANGED <<msg_sock_map, sock_map_wait_list, fib_upstream, fib_downstream, dsrun,
                 client, crx, dsin, task, conn, peer, inbox, lost>>

(* The rest of the answer falls under the same verdict.                      *)
UsBody(l) ==
  /\ server[l].st = "sending"
  /\ LET to   == usverdict[l].to
         left == usverdict[l].left
         len  == server[l].left
         part == Part(server[l].c, server[l].n, len - left + 1, len, TRUE)
     IN  /\ crx' = IF to \in Clients /\ client[to].st # "closed"
                   THEN [crx EXCEPT ![to] = Append(@, part)] ELSE crx
         /\ server' = [server EXCEPT ![l] = IF left = 1 THEN NoRequest ELSE @]
         /\ usverdict' = [usverdict EXCEPT ![l].left = left - 1]
  /\ UNCHANGED <<maps, dsrun, usprog, client, dsin, task, conn, peer, inbox, lost>>

(* The clients whose request a connection carries.                           *)
Carried(l) == {inbox[l][i].c : i \in 1..Len(inbox[l])}
                 \cup (IF server[l].st = "idle" THEN {} ELSE {server[l].c})

(* The server closes a connection, with whatever it has not read or not      *)
(* answered; the socket leaves the map.                                      *)
ServerClose(l) ==
  /\ conn[l] = "open"
  /\ usprog[l] = Idle
  /\ conn' = [conn EXCEPT ![l] = "closed"]
  /\ msg_sock_map' = msg_sock_map \ {UsKey(l)}
  /\ lost' = lost \cup Carried(l)
  /\ inbox' = [inbox EXCEPT ![l] = <<>>]
  /\ server' = [server EXCEPT ![l] = NoRequest]
  /\ usverdict' = [usverdict EXCEPT ![l] = NoVerdict]
  /\ UNCHANGED <<sock_map_wait_list, fib_upstream, fib_downstream, utrn_wait_list,
                 dsrun, usprog, client, crx, dsin, task, peer>>
-----------------------------------------------------------------------------
(* Mutant of TokenKey: no fallback to the gateway's address.                 *)
TokenKeyNoGw(c) == <<Seen[c], Proxy>>

(* handle_h1_downstream: the token of the request in buf, under the address  *)
(* the control plane sees for the client or else under the gateway's.        *)
TokenKey(c) == IF utrn_wait_list[<<Seen[c], Proxy>>] # NoAddr
               THEN <<Seen[c], Proxy>> ELSE <<Gw[c], Proxy>>
TokenDest(c) == utrn_wait_list[TokenKey(c)]

(* send_error: buf is cleared, the client gets a 500.                        *)
SendError(c) ==
  /\ crx' = IF client[c].st = "closed" THEN crx
            ELSE [crx EXCEPT ![c] = Append(@, Part(c, dsin[c][1].n, 0, 0, FALSE))]
  /\ dsin' = [dsin EXCEPT ![c] = <<>>]
  /\ task' = [task EXCEPT ![c] = Reading]

(* A whole request was read.                                                 *)
HasRequest(c) == task[c].pc = "read" /\ Whole(dsin[c])

(* No token, neither under the one key nor under the other.                  *)
TaskNoToken(c) ==
  /\ HasRequest(c)
  /\ TokenDest(c) = NoAddr
  /\ SendError(c)
  /\ UNCHANGED <<maps, dsrun, usrun, client, conn, peer, inbox, server, lost>>

(* The token is taken, but there is no local address to bind to.             *)
TaskBindFail(c) ==
  /\ HasRequest(c)
  /\ TokenDest(c) # NoAddr
  /\ \A l \in Locals : conn[l] # "free"
  /\ utrn_wait_list' = [utrn_wait_list EXCEPT ![TokenKey(c)] = NoAddr]
  /\ SendError(c)
  /\ UNCHANGED <<msg_sock_map, sock_map_wait_list, fib_upstream, fib_downstream,
                 dsrun, usrun, client, conn, peer, inbox, server, lost>>

(* Mutant of TaskBind: the connection to come is not announced.              *)
TaskBindSilent(c, l) ==
  /\ HasRequest(c)
  /\ TokenDest(c) # NoAddr
  /\ conn[l] = "free"
  /\ utrn_wait_list' = [utrn_wait_list EXCEPT ![TokenKey(c)] = NoAddr]
  /\ conn' = [conn EXCEPT ![l] = "bound"]
  /\ peer' = [peer EXCEPT ![l] = TokenDest(c)]
  /\ task' = [task EXCEPT ![c] = [pc |-> "connect", l |-> l, dest |-> TokenDest(c),
                                  key |-> TokenKey(c)]]
  /\ UNCHANGED <<msg_sock_map, sock_map_wait_list, fib_upstream, fib_downstream, dsrun, usrun,
                 client, crx, dsin, inbox, server, lost>>

(* The token is taken, the new socket bound to l, and the server's end of    *)
(* the connection to come announced to monitor_sockets.                      *)
TaskBind(c, l) ==
  /\ HasRequest(c)
  /\ TokenDest(c) # NoAddr
  /\ conn[l] = "free"
  /\ utrn_wait_list' = [utrn_wait_list EXCEPT ![TokenKey(c)] = NoAddr]
  /\ sock_map_wait_list' = sock_map_wait_list \cup {<<TokenDest(c), l>>}
  /\ conn' = [conn EXCEPT ![l] = "bound"]
  /\ peer' = [peer EXCEPT ![l] = TokenDest(c)]
  /\ task' = [task EXCEPT ![c] = [pc |-> "connect", l |-> l, dest |-> TokenDest(c),
                                  key |-> TokenKey(c)]]
  /\ UNCHANGED <<msg_sock_map, fib_upstream, fib_downstream, dsrun, usrun, client,
                 crx, dsin, inbox, server, lost>>

(* socket.connect(...).await returns a connection.                           *)
TaskConnected(c) ==
  /\ task[c].pc = "connect"
  /\ conn' = [conn EXCEPT ![task[c].l] = "est"]
  /\ task' = [task EXCEPT ![c].pc = "fib"]
  /\ UNCHANGED <<maps, dsrun, usrun, client, crx, dsin, peer, inbox, server, lost>>

(* It returns an error: the socket goes, its entry in sock_map_wait_list     *)
(* stays.                                                                    *)
TaskConnectFail(c) ==
  /\ task[c].pc = "connect"
  /\ conn' = [conn EXCEPT ![task[c].l] = "free"]
  /\ SendError(c)
  /\ UNCHANGED <<maps, dsrun, usrun, client, peer, inbox, server, lost>>

(* The server's end is established.                                          *)
Established(l) ==
  /\ conn[l] = "est"
  /\ conn' = [conn EXCEPT ![l] = "open"]
  /\ monitor_sockets(UsKey(l))
  /\ UNCHANGED <<fib_upstream, fib_downstream, utrn_wait_list, dsrun, usrun, client,
                 crx, dsin, task, peer, inbox, server, lost>>

(* The answer that comes to the new socket is to go to the client.           *)
TaskFib(c) ==
  /\ task[c].pc = "fib"
  /\ fib_downstream' \in LruPut(fib_downstream, task[c].l, task[c].key, NullKey, FibCap)
  /\ task' = [task EXCEPT ![c].pc = "write"]
  /\ UNCHANGED <<msg_sock_map, sock_map_wait_list, fib_upstream, utrn_wait_list, dsrun,
                 usrun, client, crx, dsin, conn, peer, inbox, server, lost>>

(* Mutant of TaskWrite: buf is not drained.                                  *)
TaskWriteUndrained(c) ==
  /\ task[c].pc = "write"
  /\ LET l == task[c].l IN
     /\ inbox' = IF conn[l] \in {"est", "open"}
                 THEN [inbox EXCEPT ![l] = @ \o dsin[c]] ELSE inbox
     /\ lost' = IF conn[l] = "closed" THEN lost \cup {c} ELSE lost
  /\ task' = [task EXCEPT ![c] = Reading]
  /\ UNCHANGED <<maps, dsrun, usrun, client, crx, dsin, conn, peer, server>>

(* The request is written to the new socket, which the task then keeps.      *)
TaskWrite(c) ==
  /\ task[c].pc = "write"
  /\ LET l == task[c].l IN
     /\ inbox' = IF conn[l] \in {"est", "open"}
                 THEN [inbox EXCEPT ![l] = @ \o dsin[c]] ELSE inbox
     /\ lost' = IF conn[l] = "closed" THEN lost \cup {c} ELSE lost
  /\ dsin' = [dsin EXCEPT ![c] = <<>>]
  /\ task' = [task EXCEPT ![c] = Reading]
  /\ UNCHANGED <<maps, dsrun, usrun, client, crx, conn, peer, server>>

(* The write fails because the server has closed the connection.             *)
TaskWriteFail(c) ==
  /\ task[c].pc = "write"
  /\ conn[task[c].l] = "closed"
  /\ SendError(c)
  /\ UNCHANGED <<maps, dsrun, usrun, client, conn, peer, inbox, server, lost>>

(* The client has closed the connection: the task ends.                      *)
TaskEnd(c) ==
  /\ task[c].pc = "read"
  /\ client[c].st = "closed"
  /\ ~Whole(dsin[c])
  /\ task' = [task EXCEPT ![c].pc = "done"]
  /\ dsin' = [dsin EXCEPT ![c] = <<>>]
  /\ UNCHANGED <<maps, dsrun, usrun, client, crx, conn, peer, inbox, server, lost>>
-----------------------------------------------------------------------------
(* process_msg inside the sendmsg of a client, and of a server. *)
ProcessRequest(c) == DsPost(c) \/ DsRedirect(c) \/ DsUturn(c)
ProcessAnswer(l)  == UsQuery(l) \/ UsPost(l) \/ UsRedirect(l) \/ UsUturn(l)
Task(c) ==
  \/ TaskNoToken(c) \/ TaskBindFail(c) \/ (\E l \in Locals : TaskBind(c, l))
  \/ TaskConnected(c) \/ TaskConnectFail(c) \/ TaskFib(c)
  \/ TaskWrite(c) \/ TaskWriteFail(c) \/ TaskEnd(c)

Next ==
  \/ \E c \in Clients :
       \/ Connect(c) \/ GiveUp(c) \/ Finish(c) \/ DsDrop(c) \/ DsQuery(c) \/ DsBody(c)
       \/ ProcessRequest(c) \/ Task(c)
  \/ \E l \in Locals :
       \/ Established(l) \/ ServerRead(l) \/ UsBody(l) \/ ServerClose(l)
       \/ ProcessAnswer(l)

Spec == Init /\ [][Next]_vars

(* The programs, the runtime's tasks and the endpoints make progress; nobody *)
(* has to send another request, to close a connection or to give up.         *)
Fairness ==
  /\ \A c \in Clients :
       WF_vars(Finish(c)) /\ WF_vars(DsBody(c)) /\ WF_vars(ProcessRequest(c)) /\ WF_vars(Task(c))
  /\ \A l \in Locals :
       /\ WF_vars(Established(l)) /\ WF_vars(ServerRead(l))
       /\ WF_vars(UsBody(l)) /\ WF_vars(ProcessAnswer(l))

FairSpec == Spec /\ Fairness
-----------------------------------------------------------------------------
(* What a client receives on its connection is, part by part and in order,  *)
(* the answer to the request it waits for (or the 500 for it): process_msg  *)
(* never redirects an answer, nor the rest of one under apply_bytes, to a   *)
(* client that did not ask for it, whatever the other senders do to the     *)
(* forwarding table in the meantime.                                        *)
NoCrossDelivery ==
  \A c \in Clients : client[c].st # "closed" =>
    \A i \in 1..Len(crx[c]) :
      /\ crx[c][i].c = c
      /\ crx[c][i].n = client[c].n
      /\ crx[c][i].k = i - 1
      /\ client[c].st = "waiting"

(* The clients that have been given the connection on l and not been        *)
(* answered on it: in process_msg, in the control plane, in the socket's    *)
(* receive queue or in the server.                                          *)
Leased(l) ==
  {c \in Clients :
     \/ dsprog[c].pc \in {"post", "redirect"} /\ dsprog[c].ekey = UsKey(l)
     \/ task[c].pc \in {"connect", "fib", "write"} /\ task[c].l = l
     \/ \E i \in 1..Len(inbox[l]) : inbox[l][i].c = c
     \/ server[l].c = c /\ server[l].st \in {"reading", "ready"}
     \/ server[l].c = c /\ server[l].st = "answer" /\ usprog[l].pc = "post"}

Queued(l) == \E u \in Upstreams : \E i \in 1..Len(fib_upstream[u]) : fib_upstream[u][i][2] = l

(* An upstream connection is used by one request at a time: the queue of an *)
(* instance holds a connection at most once, and only while no request that *)
(* is still to be answered has it (_fib_query pops, post_forward_us_conn    *)
(* pushes back only when the answer is sent).                               *)
ExclusiveConn ==
  /\ \A l \in Locals :
       /\ \A c, d \in Leased(l) : c = d
       /\ Queued(l) => Leased(l) = {}
  /\ \A u \in Upstreams : \A i, j \in 1..Len(fib_upstream[u]) :
       /\ fib_upstream[u][i][1] = u
       /\ fib_upstream[u][i] = fib_upstream[u][j] => i = j

(* Bytes of two requests never mix in a server's socket: a server that      *)
(* starts reading finds the head of a request, and one that is in the       *)
(* middle of a request finds its next part.                                 *)
WellFramed ==
  \A l \in Locals : inbox[l] # <<>> =>
    LET m == Head(inbox[l]) IN
    /\ server[l].st = "idle" => m.k = 0
    /\ server[l].st = "reading" =>
         m.c = server[l].c /\ m.n = server[l].n /\ m.k = m.len - server[l].left + 1

(* process_msg runs for exactly the server sockets that are open: the       *)
(* control plane announces a connection in sock_map_wait_list before        *)
(* connecting, so monitor_sockets finds it there whenever it runs.          *)
ServersMonitored ==
  \A l \in Locals : (conn[l] = "open") <=> \E u \in Upstreams : <<u, l>> \in msg_sock_map

(* A request that reached the control plane has its token in                *)
(* utrn_wait_list, under one of the two keys the task tries (while that map *)
(* has room).                                                               *)
UturnHasToken == \A c \in Clients : HasRequest(c) => TokenDest(c) # NoAddr

(* A connection whose server can still answer is never forgotten: it is in  *)
(* the queue of its instance or some request has it (while queues have      *)
(* room).                                                                   *)
ConnNotLeaked == \A l \in Locals : conn[l] = "open" => Queued(l) \/ Leased(l) # {}

(* Every request is answered, by its server or with a 500, unless the       *)
(* client gives up, the server closes the connection on it or the route     *)
(* back to the client was evicted.                                          *)
Answered ==
  \A c \in Clients :
    client[c].st = "waiting" ~> (client[c].st # "waiting" \/ c \in lost)
=============================================================================

------------------------ MODULE H1ProxyServer_proof -------------------------
(***************************************************************************)
(* IInv is preserved by the steps of the servers, of process_msg for their *)
(* answers, and of the control plane.                                      *)
(***************************************************************************)
EXTENDS H1ProxyClient_proof

(* Most steps are first-order: Zenon, unless a step asks for the SMT solver.  *)
USE ZenonT(20)

(* monitor_sockets finds the new connection in sock_map_wait_list, where the *)
(* task has announced it.                                                    *)
LEMMA EstablishedInv == ASSUME IInv, NEW s \in Locals, Established(s) PROVE IInv'
<1>i. /\ TypeOK /\ InvSockets /\ InvTasks /\ InvServers /\ InvProgs /\ InvQueues /\ InvLeases
      /\ InvInbox /\ InvRest /\ InvBuffer /\ InvRoutes /\ InvPlaces
      /\ InvVerdicts /\ InvTokens
  BY DEF IInv
<1>f. /\ UNCHANGED <<fib_upstream, fib_downstream, utrn_wait_list, dsprog, dsverdict, usprog, usverdict,
                     client, crx, dsin, task, peer, inbox, server, lost>>
      /\ conn[s] = "est"
      /\ conn' = [conn EXCEPT ![s] = "open"]
      /\ monitor_sockets(UsKey(s))
  BY DEF Established, dsrun, usrun
<1>s. ServerSocket(s) BY <1>i DEF InvSockets
<1>k. UsKey(s) \in sock_map_wait_list /\ peer[s] \in Upstreams
  BY <1>s, <1>f DEF ServerSocket
<1>m. /\ msg_sock_map' = msg_sock_map \cup {<<peer[s], s>>}
      /\ sock_map_wait_list' = sock_map_wait_list \ {<<peer[s], s>>}
  BY <1>k, <1>f DEF monitor_sockets, UsKey
<1>c. conn'[s] = "open" /\ \A l \in Locals \ {s} : conn'[l] = conn[l]
  BY <1>f, <1>i DEF TypeOK
<1>u. UNCHANGED <<fib_upstream, fib_downstream, utrn_wait_list, dsprog, dsverdict, usprog, usverdict,
                  client, crx, dsin, task, peer, inbox, server, lost>>
  BY <1>f
<1>1. TypeOK'
  <2>1. conn' \in [Locals -> {"free", "bound", "est", "open", "closed"}] BY <1>f, <1>i DEF TypeOK
  <2>2. msg_sock_map' \subseteq DsKeys \cup UsKeys /\ sock_map_wait_list' \subseteq UsKeys
    BY <1>m, <1>k, <1>i, SMTT(60) DEF TypeOK, UsKeys
  <2> QED BY <2>1, <2>2, <1>u, <1>i DEF TypeOK
<1>2. InvSockets'
  <2>1. ASSUME NEW d \in Clients PROVE ClientSocket(d)'
    <3>1. ClientSocket(d) /\ DsKey(d)' = DsKey(d) BY <1>i DEF InvSockets, DsKey
    <3>2. DsKey(d) # <<peer[s], s>> BY AddrAssumption DEF DsKey
    <3> QED BY <3>1, <3>2, <1>m, <1>u DEF ClientSocket
  <2>2. ASSUME NEW l \in Locals PROVE ServerSocket(l)'
    <3>1. ServerSocket(l) BY <1>i DEF InvSockets
    <3>2. CASE l = s
      <4>1. \A u \in Upstreams : <<u, s>> \in msg_sock_map' <=> peer[s] = u
        BY <1>s, <1>m, <1>f DEF ServerSocket
      <4> QED BY <3>2, <4>1, <1>c, <1>k, <1>u DEF ServerSocket
    <3>3. CASE l # s
      <4>1. \A u \in Upstreams : <<u, l>> \in msg_sock_map' <=> <<u, l>> \in msg_sock_map
        BY <3>3, <1>m
      <4>2. UsKey(l)' = UsKey(l) /\ peer' = peer /\ conn'[l] = conn[l] BY <3>3, <1>c, <1>u DEF UsKey
      <4>3. UsKey(l) \in sock_map_wait_list => UsKey(l) \in sock_map_wait_list'
        BY <3>3, <1>m DEF UsKey
      <4> QED BY <3>1, <4>1, <4>2, <4>3 DEF ServerSocket
    <3> QED BY <3>2, <3>3
  <2> QED BY <2>1, <2>2 DEF InvSockets
<1>3. InvTasks'
  <2>1. ASSUME NEW d \in Clients PROVE TaskInv(d)'
    <3>1. TaskInv(d) BY <1>i DEF InvTasks
    <3>2. /\ task' = task /\ dsverdict' = dsverdict /\ DsKey(d)' = DsKey(d)
          /\ Busy(d)' <=> Busy(d)
          /\ Whole(dsin[d])' <=> Whole(dsin[d])
      BY <1>u DEF DsKey, Busy, Whole
    <3>3. task[d].pc = "connect" => task[d].l \in Locals \ {s}
      BY <3>1, <1>f DEF TaskInv, Busy
    <3>4. task[d].pc \in {"fib", "write"} => task[d].l \in Locals
      BY <3>1 DEF TaskInv, Busy
    <3> QED BY <3>1, <3>2, <3>3, <3>4, <1>c DEF TaskInv
  <2>2. ASSUME NEW d \in Clients, NEW l \in Locals PROVE Opens(d, l)' <=> Opens(d, l)
    BY <1>u DEF Opens, Busy
  <2> QED BY <2>1, <2>2, <1>i DEF InvTasks
<1>4. InvServers'
  <2> SUFFICES ASSUME NEW l \in Locals PROVE ServerInv(l)'
    BY DEF InvServers
  <2>1. ServerInv(l) BY <1>i DEF InvServers
  <2> QED BY <2>1, <1>c, <1>f, <1>u DEF ServerInv
<1>5. InvProgs'
  <2> SUFFICES ASSUME NEW d \in Clients PROVE ProgInv(d)' /\ ClientInv(d)'
    BY DEF InvProgs
  <2>1. ProgInv(d) /\ ClientInv(d) BY <1>i DEF InvProgs
  <2>2. ClientInv(d)' BY <2>1, <1>u DEF ClientInv, Busy
  <2>3. \A l \in Locals : conn[l] \in {"open", "closed"} => conn'[l] \in {"open", "closed"} BY <1>c
  <2>4. \A l \in Locals : Holds(d, l)' <=> Holds(d, l) BY <1>u DEF Holds, UsKey
  <2>5. ProgInv(d)' BY <2>1, <2>3, <2>4, <1>u DEF ProgInv
  <2> QED BY <2>2, <2>5
<1>6. InvQueues'
  <2> SUFFICES ASSUME NEW u \in Upstreams PROVE QueueInv(u)'
    BY DEF InvQueues
  <2>1. QueueInv(u) BY <1>i DEF InvQueues
  <2>2. \A l \in Locals : conn[l] \in {"open", "closed"} => conn'[l] \in {"open", "closed"} BY <1>c
  <2> QED BY <2>1, <2>2, <1>u DEF QueueInv
<1>8. InvRest'
  <2> SUFFICES ASSUME NEW d \in Clients, dsverdict[d].left > 0
               PROVE  /\ \A l \in Locals : dsverdict[d].to = l /\ conn'[l] = "open" => RestAt(d, l)'
                      /\ dsverdict[d].to = Proxy => RestInBuffer(d)'
    BY <1>u DEF InvRest
  <2>1. /\ \A l \in Locals : dsverdict[d].to = l /\ conn[l] = "open" => RestAt(d, l)
        /\ dsverdict[d].to = Proxy => RestInBuffer(d)
    BY <1>i DEF InvRest
  <2>2. dsverdict[d].to # s
    BY <1>f, <1>i DEF InvVerdicts
  <2>3. \A l \in Locals : dsverdict[d].to = l /\ conn'[l] = "open" => RestAt(d, l)
    BY <2>1, <2>2, <1>c
  <2>4. \A l \in Locals : RestAt(d, l) => RestAt(d, l)' BY <1>u, SameRest
  <2>5. RestInBuffer(d) => RestInBuffer(d)' BY <1>u, SameBuffer
  <2> QED BY <2>1, <2>3, <2>4, <2>5
<1>12. InvVerdicts'
  <2>1. \A l \in Locals : conn[l] \in {"open", "closed"} => conn'[l] \in {"open", "closed"} BY <1>c
  <2>2. InvVerdicts BY <1>i
  <2> QED BY <2>1, <2>2, <1>u DEF InvVerdicts
<1> QED
  BY <1>1, <1>2, <1>3, <1>4, <1>5, <1>6, <1>8, <1>12, <1>u, <1>i, FrameLeases, FrameInbox, FrameBuffer,
     FrameRoutes, FramePlaces, FrameTokens DEF IInv

(* A server takes the next part of one request from its socket.              *)
LEMMA ServerReadInv == ASSUME IInv, NEW s \in Locals, ServerRead(s) PROVE IInv'
<1>i. /\ TypeOK /\ InvSockets /\ InvTasks /\ InvServers /\ InvProgs /\ InvQueues /\ InvLeases
      /\ InvInbox /\ InvRest /\ InvBuffer /\ InvRoutes /\ InvPlaces
      /\ InvVerdicts /\ InvTokens
  BY DEF IInv
<1>t. inbox[s] \in Seq(Parts) /\ server[s] \in Server /\ usprog[s] \in UsProg
  BY <1>i DEF TypeOK
<1>q. /\ inbox[s] # <<>> /\ conn[s] = "open" /\ inbox' = [inbox EXCEPT ![s] = Tail(inbox[s])]
      /\ server[s].st \in {"idle", "reading"}
      /\ UNCHANGED <<msg_sock_map, sock_map_wait_list, fib_upstream, fib_downstream, utrn_wait_list,
                     dsprog, dsverdict, usprog, usverdict, client, crx, dsin, task, conn, peer, lost>>
  BY DEF ServerRead, maps, dsrun, usrun
<1>k. PICK m, c, n, k, len : /\ m = inbox[s][1] /\ Head(inbox[s]) = m /\ m \in Parts
                             /\ c = m.c /\ n = m.n /\ k = m.k /\ len = m.len
  BY <1>q, <1>t, TailFacts
<1>n. /\ c \in Clients /\ n \in 1..MaxReqs /\ k \in Nat /\ len \in Nat /\ len <= MaxBody
      /\ server[s].left \in Nat /\ MaxBody \in Nat
  BY BoundAssumption, <1>k, <1>t, SMTT(60) DEF Parts, Server
<1>b. /\ Len(inbox[s]) \in Nat /\ Len(inbox[s]) > 0
      /\ Len(inbox'[s]) = Len(inbox[s]) - 1 /\ inbox'[s] \in Seq(Parts)
  <2>1. inbox'[s] = Tail(inbox[s]) BY <1>i, <1>q DEF TypeOK
  <2> QED BY <2>1, <1>q, <1>t, TailFacts, EmptyFacts, SMTT(60)
<1>b2. \A i \in 1..Len(inbox'[s]) : i + 1 \in 1..Len(inbox[s]) /\ inbox'[s][i] = inbox[s][i + 1]
  <2>1. inbox'[s] = Tail(inbox[s]) BY <1>i, <1>q DEF TypeOK
  <2> QED BY <2>1, <1>q, <1>t, TailFacts, EmptyFacts, SMTT(60)
<1>l. \A l \in Locals \ {s} : inbox'[l] = inbox[l] /\ server'[l] = server[l]
  BY <1>i, <1>q DEF TypeOK, ServerRead
<1>m2. \A i \in 1..Len(inbox[s]) : /\ inbox[s][i].c = c
                                   /\ inbox[s][i].n = n
                                   /\ inbox[s][i].len = len
                                   /\ inbox[s][i].k = k + i - 1
  BY <1>i, <1>q, <1>k DEF InvInbox, InboxInv
<1>m3. \A i \in 1..Len(inbox'[s]) : /\ inbox'[s][i].c = c
                                    /\ inbox'[s][i].n = n
                                    /\ inbox'[s][i].len = len
                                    /\ inbox'[s][i].k = k + i
  <2> SUFFICES ASSUME NEW i \in 1..Len(inbox'[s])
               PROVE  /\ inbox'[s][i].c = c /\ inbox'[s][i].n = n
                      /\ inbox'[s][i].len = len /\ inbox'[s][i].k = k + i
    OBVIOUS
  <2>1. i + 1 \in 1..Len(inbox[s]) /\ inbox'[s][i] = inbox[s][i + 1]
    BY <1>b2
  <2>2. inbox[s][i + 1].k = k + (i + 1) - 1
    BY <2>1, <1>m2
  <2>3. k + (i + 1) - 1 = k + i
    BY <1>n, SMTT(60)
  <2> QED BY <2>1, <2>2, <2>3, <1>m2
<1>m. /\ k + Len(inbox[s]) <= len + 1
      /\ server[s].st = "reading" => c = server[s].c /\ n = server[s].n /\ k + server[s].left = len + 1
      /\ server[s].st # "reading" => k = 0
  BY <1>i, <1>q, <1>k DEF InvInbox, InboxInv
<1>s. /\ server'[s].st = IF k = len THEN "ready" ELSE "reading"
      /\ server'[s].c = c /\ server'[s].n = n /\ server'[s].left = len - k
      /\ server' \in [Locals -> Server]
  <2>1. CASE server[s].st = "idle"
    <3>1. server' = [server EXCEPT ![s] = [st |-> IF len = 0 THEN "ready" ELSE "reading",
                                           c |-> c, n |-> n, left |-> len]]
      BY <2>1, <1>k DEF ServerRead
    <3>2. k = 0 BY <2>1, <1>m
    <3> QED BY <3>1, <3>2, <1>i, <1>n, SMTT(60) DEF TypeOK, Server
  <2>2. CASE server[s].st = "reading"
    <3>1. server' = [server EXCEPT ![s].st = IF server[s].left = 1 THEN "ready" ELSE "reading",
                                   ![s].left = server[s].left - 1]
      BY <2>2 DEF ServerRead
    <3>2. server[s].left - 1 = len - k /\ (server[s].left = 1 <=> k = len) /\ server[s].left - 1 \in 0..MaxBody
      <4>1. k + server[s].left = len + 1 /\ k + Len(inbox[s]) <= len + 1
        BY <2>2, <1>m
      <4>2. k <= len
        BY <4>1, <1>n, <1>b, SMTT(60)
      <4>3. \A y \in Nat : k + y = len + 1 => y - 1 = len - k /\ (y = 1 <=> k = len) /\ y - 1 \in 0..MaxBody
        BY <4>2, <1>n, SMTT(60)
      <4> QED BY <4>1, <4>3, <1>n
    <3>3. server'[s] = [server[s] EXCEPT !.st = IF server[s].left = 1 THEN "ready" ELSE "reading",
                                         !.left = server[s].left - 1]
      BY <3>1, <1>i DEF TypeOK
    <3>4. server'[s] \in Server
      BY <3>2, <3>3, <1>t DEF Server
    <3>5. server' \in [Locals -> Server]
      BY <3>1, <3>3, <3>4, <1>i DEF TypeOK
    <3> QED BY <3>2, <3>3, <3>5, <2>2, <1>m, <1>t DEF Server
  <2> QED BY <2>1, <2>2, <1>q
<1>x. \A a, d \in Nat : k + (a + d) = len + 1 => (a - 1) + d = len - k
  BY <1>n, SMTT(60)
<1>e. Len(inbox'[s]) <= len - k /\ (k = len => inbox'[s] = <<>>)
  BY <1>b, <1>m, <1>n, EmptyFacts, SMTT(60)
<1>w. /\ Has(c, s) /\ At(c, s) /\ Route(s, c)
      /\ \A d \in Clients : Has(d, s) => d = c
  <2>1. Has(c, s) /\ \A d \in Clients : Has(d, s) => d = c
    BY <1>b, <1>m2, SMTT(60) DEF Has
  <2> QED BY <2>1, <1>n, <1>i DEF At, InvRoutes, RouteInv
<1>a1. ASSUME NEW d \in Clients, NEW l \in Locals
       PROVE  /\ Holds(d, l)' <=> Holds(d, l)
              /\ Opens(d, l)' <=> Opens(d, l)
              /\ Queued(l)' <=> Queued(l)
              /\ Route(l, d)' <=> Route(l, d)
  BY <1>q DEF Holds, UsKey, Opens, Busy, Queued, Route, DsKey
<1>a2. ASSUME NEW d \in Clients, NEW l \in Locals
       PROVE  /\ Has(d, l)' => Has(d, l)
              /\ Serves(l, d)' <=> IF l = s THEN d = c ELSE Serves(l, d)
              /\ At(d, l)' => At(d, l)
              /\ l # s => (Has(d, l)' <=> Has(d, l)) /\ (Unanswered(l)' <=> Unanswered(l))
  <2>1. CASE l = s
    <3>1. Has(d, l)' => Has(d, l)
      BY <2>1, <1>b2 DEF Has
    <3>2. Serves(s, d)' <=> d = c
      BY <1>s DEF Serves
    <3> QED BY <2>1, <3>1, <3>2, <1>w DEF At
  <2>2. CASE l # s
    BY <2>2, <1>l, <1>q DEF Has, Serves, At, Unanswered
  <2> QED BY <2>1, <2>2
<1>1. TypeOK'
  <2>1. inbox' \in [Locals -> Seq(Parts)]
    BY <1>i, <1>q, <1>b DEF TypeOK
  <2> QED BY <1>i, <1>q, <1>s, <2>1 DEF TypeOK
<1>2. InvServers'
  <2> SUFFICES ASSUME NEW l \in Locals PROVE ServerInv(l)'
    BY DEF InvServers
  <2>1. CASE l = s
    <3>1. ServerInv(s) /\ usprog[s].pc = "idle" BY <1>i, <1>q DEF InvServers, ServerInv
    <3>2. k # len => len - k > 0
      BY <1>b, <1>m, <1>n, SMTT(60)
    <3> QED BY <2>1, <3>1, <3>2, <1>q, <1>s, <1>n DEF ServerInv
  <2>2. CASE l # s
    BY <2>2, <1>i, <1>q, <1>l DEF InvServers, ServerInv
  <2> QED BY <2>1, <2>2
<1>3. InvLeases'
  <2> SUFFICES ASSUME NEW l \in Locals PROVE LeaseInv(l)'
    BY DEF InvLeases
  <2>1. LeaseInv(l) BY <1>i DEF InvLeases
  <2>2. CASE l = s
    <3>1. ~Queued(s) /\ \A d \in Clients : ~Holds(d, s) /\ ~Opens(d, s)
      BY <2>1, <2>2, <1>q DEF LeaseInv
    <3>2. ~Queued(s)' /\ \A d \in Clients : ~Holds(d, s)' /\ ~Opens(d, s)'
      BY <3>1, <1>a1, <1>n
    <3> QED BY <2>2, <3>2 DEF LeaseInv
  <2>3. CASE l # s
    BY <2>1, <2>3, <1>a1, <1>a2, <1>l, <1>q, <1>n DEF LeaseInv
  <2> QED BY <2>2, <2>3
<1>4. InvInbox'
  <2> SUFFICES ASSUME NEW l \in Locals PROVE InboxInv(l)'
    BY DEF InvInbox
  <2>1. CASE l = s
    <3> SUFFICES ASSUME inbox'[s] # <<>> PROVE InboxInv(s)'
      BY <2>1 DEF InboxInv
    <3>1. k # len /\ Len(inbox'[s]) > 0 /\ Len(inbox'[s]) \in Nat
      BY <1>e, <1>b, EmptyFacts, SMTT(60)
    <3>3. /\ inbox'[s][1].c = c /\ inbox'[s][1].n = n /\ inbox'[s][1].len = len
          /\ inbox'[s][1].k = k + 1
      BY <3>1, <1>m3, SMTT(60)
    <3>4. \A i \in 1..Len(inbox'[s]) : inbox'[s][i].k = inbox'[s][1].k + i - 1
      BY AddrAssumption, <1>m3, <3>3, <1>n, SMTT(60)
    <3>5. inbox'[s][1].k + Len(inbox'[s]) <= len + 1 /\ inbox'[s][1].k + server'[s].left = len + 1
      <4>1. server'[s].left = len - k /\ Len(inbox'[s]) <= len - k /\ Len(inbox'[s]) \in Nat
        BY <1>s, <1>e, <3>1
      <4>2. inbox'[s][1].k = k + 1
        BY <3>3
      <4>3. \A a \in Nat : a <= len - k => (k + 1) + a <= len + 1
        BY <1>n, SMTT(60)
      <4>4. (k + 1) + (len - k) = len + 1
        BY <1>n, SMTT(60)
      <4> QED BY <4>1, <4>2, <4>3, <4>4
    <3> QED BY <3>1, <3>3, <3>4, <3>5, <1>m3, <1>s DEF InboxInv
  <2>2. CASE l # s
    BY <2>2, <1>i, <1>q, <1>l, SMTT(60) DEF InvInbox, InboxInv, Unanswered
  <2> QED BY <2>1, <2>2
<1>5. InvRest'
  <2> SUFFICES ASSUME NEW d \in Clients, dsverdict[d].left > 0
               PROVE  /\ \A l \in Locals : dsverdict[d].to = l /\ conn[l] = "open" => RestAt(d, l)'
                      /\ dsverdict[d].to = Proxy => RestInBuffer(d)'
    BY <1>q DEF InvRest
  <2>1. ASSUME NEW l \in Locals, dsverdict[d].to = l, conn[l] = "open" PROVE RestAt(d, l)'
    <3>r. RestAt(d, l) BY <2>1, <1>i DEF InvRest
    <3>1. CASE l = s
      <4>0. 1 \in 1..Len(inbox[s]) BY <1>b, SMTT(60)
      <4>1. /\ d = c /\ client[d].n = n /\ client[d].len = len
        <5>1. inbox[s][1].c = d /\ inbox[s][1].n = client[d].n /\ inbox[s][1].len = client[d].len
          BY <4>0, <3>r, <3>1 DEF RestAt
        <5>2. inbox[s][1].c = c /\ inbox[s][1].n = n /\ inbox[s][1].len = len BY <4>0, <1>m2
        <5> QED BY <5>1, <5>2
      <4>2. dsverdict[d].left \in Nat
        BY <1>i, SMTT(60) DEF TypeOK, DsVerdict
      <4>3. Len(inbox'[s]) + dsverdict[d].left = len - k
        <5>1. CASE server[s].st = "reading"
          <6>1. server[s].left = Len(inbox[s]) + dsverdict[d].left
            BY <5>1, <3>r, <3>1 DEF RestAt
          <6>2. k + server[s].left = len + 1
            BY <5>1, <1>m
          <6>3. k + (Len(inbox[s]) + dsverdict[d].left) = len + 1
            BY <6>1, <6>2
          <6>4. (Len(inbox[s]) - 1) + dsverdict[d].left = len - k
            BY <6>3, <4>2, <1>b, <1>x
          <6> QED BY <6>4, <1>b
        <5>2. CASE server[s].st # "reading"
          <6>1. Len(inbox[s]) + dsverdict[d].left = len + 1
            BY <5>2, <3>r, <3>1, <4>1 DEF RestAt
          <6>2. k = 0
            BY <5>2, <1>m
          <6>3. (Len(inbox[s]) - 1) + dsverdict[d].left = len - k
            <7>1. Len(inbox[s]) \in Nat /\ len \in Nat BY <1>b, <1>n
            <7> QED BY <6>1, <6>2, <4>2, <7>1, SMTT(60)
          <6> QED BY <6>3, <1>b
        <5> QED BY <5>1, <5>2
      <4>4. k # len
        BY <4>2, <4>3, <1>b, <1>n, SMTT(60)
      <4> QED BY <3>1, <4>1, <4>3, <4>4, <1>m3, <1>s, <1>q, SMTT(60) DEF RestAt
    <3>2. CASE l # s
      BY <3>r, <3>2, <1>l, <1>q DEF RestAt
    <3> QED BY <3>1, <3>2
  <2> QED BY <2>1, <1>i, <1>q DEF InvRest, RestInBuffer
<1>6. InvRoutes'
  <2>1. ASSUME NEW l \in Locals PROVE AnswerInv(l)'
    BY <1>i, <1>q, <1>l, <1>s, SMTT(60) DEF InvRoutes, AnswerInv, InvServers, ServerInv
  <2>2. ASSUME NEW l \in Locals, NEW d \in Clients PROVE RouteInv(d, l)'
    <3>1. RouteInv(d, l) /\ DsKey(d)' = DsKey(d)
      BY <1>i DEF InvRoutes, DsKey
    <3>2. CASE l = s
      <4>1. server'[s].c = d => Route(s, d)
        BY <1>s, <1>w
      <4> QED BY <3>1, <3>2, <4>1, <1>a1, <1>a2, <1>q, <1>s DEF RouteInv
    <3>3. CASE l # s
      BY <3>1, <3>3, <1>a1, <1>a2, <1>l, <1>q DEF RouteInv
    <3> QED BY <3>2, <3>3
  <2> QED BY <2>1, <2>2 DEF InvRoutes
<1>7. InvPlaces'
  <2> SUFFICES ASSUME NEW d \in Clients, client'[d].st # "closed" PROVE PlaceInv(d)'
    BY DEF InvPlaces
  <2>p. PlaceInv(d)
    BY <1>q, <1>i DEF InvPlaces
  <2>1. ASSUME NEW l \in Locals PROVE PlaceAt(d, l)'
    <3> SUFFICES ASSUME At(d, l)' PROVE PlaceAt(d, l)'
      BY DEF PlaceAt
    <3>p. PlaceAt(d, l) /\ At(d, l)
      BY <2>p, <1>a2 DEF PlaceInv
    <3>1. CASE l = s
      <4>1. d = c
        BY <3>1, <1>a2, <1>w DEF At
      <4>2. /\ client[d].st = "waiting" /\ dsprog[d] = Idle /\ dsin[d] = <<>> /\ crx[d] = <<>>
            /\ dsverdict[d].left > 0 => dsverdict[d].to = l
            /\ \A i \in 1..Len(inbox[s]) : inbox[s][i].c = c => inbox[s][i].n = client[d].n
        BY <3>p, <3>1, <4>1, <1>q DEF PlaceAt
      <4>3. client[d].n = n
        BY AddrAssumption, <4>2, <1>m2, <1>b, SMTT(60)
      <4>5. server'[s].st # "reading" => ~Has(d, s)'
        BY <1>e, <1>s, SMTT(60) DEF Has
      <4> QED BY <3>1, <4>2, <4>3, <4>5, <1>m3, <1>s, <1>q DEF PlaceAt
    <3>2. CASE l # s
      BY AddrAssumption, <3>p, <3>2, <1>a2, <1>l, <1>q, SMTT(60) DEF PlaceAt
    <3> QED BY <3>1, <3>2
  <2>2. \A j, l \in Locals : At(d, j)' /\ At(d, l)' => j = l
    BY <2>p, <1>a2 DEF PlaceInv
  <2> QED BY <2>1, <2>2, <2>p, <1>q DEF PlaceInv, PlaceElse, Received
<1> QED
  BY <1>i, <1>q, <1>1, <1>2, <1>3, <1>4, <1>5, <1>6, <1>7, FrameSockets, FrameTasks, FrameProgs,
     FrameQueues, FrameBuffer, FrameVerdicts, FrameTokens DEF IInv

(* _fib_query of an answer reads the route that was set for the request.     *)
LEMMA UsQueryInv == ASSUME IInv, NEW s \in Locals, UsQuery(s) PROVE IInv'
<1>i. /\ TypeOK /\ InvSockets /\ InvTasks /\ InvServers /\ InvProgs /\ InvQueues /\ InvLeases
      /\ InvInbox /\ InvRest /\ InvBuffer /\ InvRoutes /\ InvPlaces
      /\ InvVerdicts /\ InvTokens
  BY DEF IInv
<1>f. /\ UNCHANGED <<msg_sock_map, sock_map_wait_list, fib_upstream, fib_downstream, utrn_wait_list,
                     dsprog, dsverdict, usverdict, client, crx, dsin, task, conn, peer, inbox, lost>>
      /\ server[s].st = "ready"
      /\ server' = [server EXCEPT ![s].st = "answer"]
  BY DEF UsQuery, maps, dsrun
<1>u. PICK len \in 0..MaxBody :
        usprog' = [usprog EXCEPT ![s] = [pc |-> "post", dest |-> s, len |-> len, ekey |-> fib_downstream[s]]]
  BY DEF UsQuery
<1>t. server[s] \in Server /\ usprog[s] \in UsProg /\ fib_downstream[s] \in HostKeys \cup {NullKey}
  BY <1>i DEF TypeOK
<1>c. /\ server'[s] = [server[s] EXCEPT !.st = "answer"] /\ server'[s].st = "answer"
      /\ server'[s].c = server[s].c /\ server'[s].n = server[s].n /\ server'[s].left = server[s].left
      /\ usprog'[s].pc = "post" /\ usprog'[s].ekey = fib_downstream[s]
  BY <1>i, <1>f, <1>u, <1>t DEF TypeOK, Server
<1>l. \A l \in Locals \ {s} : server'[l] = server[l] /\ usprog'[l] = usprog[l]
  BY <1>i, <1>f, <1>u DEF TypeOK
<1>e. /\ inbox[s] = <<>> /\ server[s] # NoRequest /\ conn[s] = "open"
      /\ server[s].c \in Clients /\ Route(s, server[s].c)
  <2>1. ServerInv(s) /\ InboxInv(s) BY <1>i DEF InvServers, InvInbox
  <2>2. inbox[s] = <<>> BY <2>1, <1>f DEF InboxInv, Unanswered
  <2>3. server[s] # NoRequest BY <1>f, SMTT(60) DEF NoRequest
  <2>4. conn[s] = "open" /\ server[s].c \in Clients BY <2>1, <2>3, <1>f DEF ServerInv
  <2> QED BY <2>2, <2>3, <2>4, <1>f, <1>i DEF InvRoutes, RouteInv
<1>a1. ASSUME NEW d \in Clients, NEW l \in Locals
       PROVE  /\ Holds(d, l)' <=> Holds(d, l)
              /\ Opens(d, l)' <=> Opens(d, l)
              /\ Queued(l)' <=> Queued(l)
              /\ Has(d, l)' <=> Has(d, l)
              /\ Route(l, d)' <=> Route(l, d)
              /\ Serves(l, d)' <=> Serves(l, d)
              /\ At(d, l)' <=> At(d, l)
  <2>1. Serves(l, d)' <=> Serves(l, d)
    BY <1>c, <1>l, <1>f DEF Serves
  <2> QED BY <2>1, <1>f DEF Holds, UsKey, Opens, Busy, Queued, Route, DsKey, Has, At
<1>a2. \A l \in Locals : Unanswered(l)' <=> Unanswered(l)
  BY <1>c, <1>l, <1>f DEF Unanswered
<1>1. TypeOK'
  <2>1. server'[s] \in Server
    BY <1>c, <1>t DEF Server
  <2>2. server' \in [Locals -> Server]
    BY <2>1, <1>i, <1>f, <1>c DEF TypeOK
  <2>3. usprog' \in [Locals -> UsProg]
    BY <1>i, <1>u, <1>t DEF TypeOK, UsProg, Pcs
  <2> QED BY <2>2, <2>3, <1>i, <1>f DEF TypeOK
<1>2. InvServers'
  <2> SUFFICES ASSUME NEW l \in Locals PROVE ServerInv(l)'
    BY DEF InvServers
  <2>1. ServerInv(l) BY <1>i DEF InvServers
  <2>2. CASE l = s
    BY <2>1, <2>2, <1>c, <1>e, <1>f DEF ServerInv
  <2>3. CASE l # s
    BY <2>1, <2>3, <1>l, <1>f DEF ServerInv
  <2> QED BY <2>2, <2>3
<1>3. InvLeases'
  <2> SUFFICES ASSUME NEW l \in Locals PROVE LeaseInv(l)'
    BY DEF InvLeases
  <2>1. LeaseInv(l) BY <1>i DEF InvLeases
  <2>2. ASSUME NEW d \in Clients, Opens(d, l) PROVE l # s
    BY <2>1, <2>2, <1>e DEF LeaseInv
  <2> QED BY <2>1, <2>2, <1>a1, <1>a2, <1>l, <1>f, <1>e DEF LeaseInv
<1>4. InvInbox'
  BY <1>i, <1>f, <1>e, <1>l, SMTT(60) DEF InvInbox, InboxInv, Unanswered
<1>5. InvRest'
  <2>1. ASSUME NEW d \in Clients, NEW l \in Locals, RestAt(d, l) PROVE RestAt(d, l)'
    <3>1. l # s BY <2>1, <1>e, <1>f DEF RestAt
    <3> QED BY <2>1, <3>1, <1>l, <1>f DEF RestAt
  <2>2. ASSUME NEW d \in Clients, RestInBuffer(d) PROVE RestInBuffer(d)'
    BY <2>2, <1>f DEF RestInBuffer
  <2> QED BY <2>1, <2>2, <1>i, <1>f DEF InvRest
<1>6. InvRoutes'
  <2>1. ASSUME NEW l \in Locals PROVE AnswerInv(l)'
    BY <1>i, <1>f, <1>l, <1>c, SMTT(60) DEF InvRoutes, AnswerInv
  <2>2. ASSUME NEW l \in Locals, NEW d \in Clients PROVE RouteInv(d, l)'
    <3>1. RouteInv(d, l) /\ DsKey(d)' = DsKey(d)
      BY <1>i DEF InvRoutes, DsKey
    <3>2. CASE l = s
      <4>1. server'[s].c = d => usprog'[s].ekey \in {NullKey, DsKey(d)}
        BY <1>c, <1>e DEF Route
      <4> QED BY <3>1, <3>2, <4>1, <1>a1, <1>f, <1>c DEF RouteInv
    <3>3. CASE l # s
      BY <3>1, <3>3, <1>a1, <1>l, <1>f DEF RouteInv
    <3> QED BY <3>2, <3>3
  <2> QED BY <2>1, <2>2 DEF InvRoutes
<1>7. InvPlaces'
  <2> SUFFICES ASSUME NEW d \in Clients, client'[d].st # "closed" PROVE PlaceInv(d)'
    BY DEF InvPlaces
  <2>p. PlaceInv(d)
    BY <1>f, <1>i DEF InvPlaces
  <2>1. ASSUME NEW l \in Locals PROVE PlaceAt(d, l)'
    <3>p. PlaceAt(d, l)
      BY <2>p DEF PlaceInv
    <3>1. CASE l = s
      BY <3>p, <3>1, <1>a1, <1>c, <1>f DEF PlaceAt
    <3>2. CASE l # s
      BY <3>p, <3>2, <1>a1, <1>l, <1>f DEF PlaceAt
    <3> QED BY <3>1, <3>2
  <2>2. \A j, l \in Locals : At(d, j)' /\ At(d, l)' => j = l
    BY <2>p, <1>a1 DEF PlaceInv
  <2> QED BY <2>1, <2>2, <2>p, <1>f DEF PlaceInv, PlaceElse, Received
<1> QED
  BY <1>i, <1>f, <1>1, <1>2, <1>3, <1>4, <1>5, <1>6, <1>7, FrameSockets, FrameTasks, FrameProgs,
     FrameQueues, FrameBuffer, FrameVerdicts, FrameTokens DEF IInv

(* post_forward_us_conn pushes a connection that no queue holds; a full      *)
(* queue only loses its oldest entry.                                        *)
LEMMA UsPostInv == ASSUME IInv, NEW s \in Locals, UsPost(s) PROVE IInv'
<1>i. /\ TypeOK /\ InvSockets /\ InvTasks /\ InvServers /\ InvProgs /\ InvQueues /\ InvLeases
      /\ InvInbox /\ InvRest /\ InvBuffer /\ InvRoutes /\ InvPlaces
      /\ InvVerdicts /\ InvTokens
  BY DEF IInv
<1> DEFINE ekey == usprog[s].ekey
           q == fib_upstream[peer[s]]
<1>f. /\ UNCHANGED <<msg_sock_map, sock_map_wait_list, fib_downstream, utrn_wait_list,
                     dsprog, dsverdict, usverdict, client, crx, dsin, task, conn, peer, inbox>>
      /\ usprog[s].pc = "post"
      /\ fib_upstream' = [fib_upstream EXCEPT ![peer[s]] = PushExist(q, UsKey(s))]
      /\ usprog' = IF ekey = NullKey THEN [usprog EXCEPT ![s] = Idle] ELSE [usprog EXCEPT ![s].pc = "redirect"]
      /\ server' = IF ekey = NullKey THEN [server EXCEPT ![s] = NoRequest] ELSE server
      /\ lost' = IF ekey = NullKey THEN lost \cup {server[s].c} ELSE lost
  BY DEF UsPost, dsrun
<1>t. server[s] \in Server /\ usprog[s] \in UsProg
  BY <1>i DEF TypeOK
<1>e. /\ server[s].st = "answer" /\ Unanswered(s) /\ server[s] # NoRequest
      /\ conn[s] = "open" /\ peer[s] \in Upstreams /\ server[s].c \in Clients
      /\ inbox[s] = <<>>
  <2>1. ServerInv(s) /\ InboxInv(s) /\ ServerSocket(s) BY <1>i DEF InvServers, InvInbox, InvSockets
  <2>2. server[s].st = "answer" BY <2>1, <1>f DEF ServerInv
  <2>3. Unanswered(s) /\ server[s] # NoRequest BY <2>2, <1>f, SMTT(60) DEF NoRequest, Unanswered
  <2>4. conn[s] = "open" /\ server[s].c \in Clients BY <2>1, <2>2, <2>3 DEF ServerInv
  <2>5. peer[s] \in Upstreams BY <2>1, <2>4 DEF ServerSocket
  <2>6. inbox[s] = <<>> BY <2>1, <2>2, <2>3 DEF InboxInv
  <2> QED BY <2>2, <2>3, <2>4, <2>5, <2>6
<1>g. ~Queued(s) /\ \A d \in Clients : ~Holds(d, s) /\ ~Opens(d, s)
  <2>1. LeaseInv(s) BY <1>i DEF InvLeases
  <2> QED BY <2>1, <1>e DEF LeaseInv
<1>c. /\ usprog'[s] = IF ekey = NullKey THEN Idle ELSE [usprog[s] EXCEPT !.pc = "redirect"]
      /\ server'[s] = IF ekey = NullKey THEN NoRequest ELSE server[s]
  BY <1>i, <1>f DEF TypeOK
<1>c2. /\ ekey = NullKey => usprog'[s].pc = "idle" /\ server'[s].st = "idle"
       /\ ekey # NullKey => usprog'[s].pc = "redirect" /\ usprog'[s].ekey = ekey
  BY <1>c, <1>t, SMTT(60) DEF Idle, NoRequest, UsProg
<1>l. \A l \in Locals \ {s} : server'[l] = server[l] /\ usprog'[l] = usprog[l]
  BY <1>i, <1>f DEF TypeOK
<1>k. PICK u \in Upstreams : u = peer[s]
  BY <1>e
<1>q. /\ fib_upstream[u] \in Seq(UsKeys) /\ <<u, s>> \in UsKeys
      /\ fib_upstream'[u] = PushExist(fib_upstream[u], <<u, s>>)
      /\ \A v \in Upstreams \ {u} : fib_upstream'[v] = fib_upstream[v]
  BY <1>i, <1>f, <1>k DEF TypeOK, UsKeys, UsKey
<1>r. PICK o \in {0, 1} :
        /\ fib_upstream'[u] \in Seq(UsKeys) /\ Len(fib_upstream'[u]) \in Nat /\ Len(fib_upstream'[u]) > 0
        /\ fib_upstream'[u][Len(fib_upstream'[u])] = <<u, s>>
        /\ \A i \in 1..Len(fib_upstream'[u]) - 1 :
             i + o \in 1..Len(fib_upstream[u]) /\ fib_upstream'[u][i] = fib_upstream[u][i + o]
  <2>1. PICK r : r = fib_upstream'[u] OBVIOUS
  <2>2. PICK g \in Seq(UsKeys) : g = fib_upstream[u] BY <1>q
  <2>3. PICK x \in UsKeys : x = <<u, s>> BY <1>q
  <2>4. r = PushExist(g, x) BY <1>q, <2>1, <2>2, <2>3
  <2>5. /\ r \in Seq(UsKeys) /\ Len(r) > 0 /\ r[Len(r)] = x
        /\ \E o \in {0, 1} : \A i \in 1..Len(r) - 1 : i + o \in 1..Len(g) /\ r[i] = g[i + o]
    BY BoundAssumption, <2>4, SMTT(60) DEF PushExist
  <2>6. Len(r) \in Nat BY <2>5, EmptyFacts
  <2> QED BY <2>1, <2>2, <2>3, <2>5, <2>6
<1>a0. \A l \in Locals : Queued(l)' => Queued(l) \/ l = s
  <2> SUFFICES ASSUME NEW l \in Locals, NEW v \in Upstreams, NEW j \in 1..Len(fib_upstream'[v]),
                      fib_upstream'[v][j][2] = l
               PROVE  Queued(l) \/ l = s
    BY DEF Queued
  <2>1. CASE v = u /\ j = Len(fib_upstream'[u])
    BY <2>1, <1>r, SMTT(60)
  <2>2. CASE v = u /\ j # Len(fib_upstream'[u])
    <3>1. j \in 1..Len(fib_upstream'[u]) - 1 BY <2>2, <1>r, SMTT(60)
    <3> QED BY <3>1, <2>2, <1>r DEF Queued
  <2>3. CASE v # u
    BY <2>3, <1>q DEF Queued
  <2> QED BY <2>1, <2>2, <2>3
<1>a1. ASSUME NEW d \in Clients, NEW l \in Locals
       PROVE  /\ Holds(d, l)' <=> Holds(d, l)
              /\ Opens(d, l)' <=> Opens(d, l)
              /\ Has(d, l)' <=> Has(d, l)
              /\ Route(l, d)' <=> Route(l, d)
              /\ Serves(l, d)' => Serves(l, d)
              /\ At(d, l)' => At(d, l)
              /\ l # s => (Serves(l, d)' <=> Serves(l, d))
  <2>1. /\ Serves(l, d)' => Serves(l, d)
        /\ l # s => (Serves(l, d)' <=> Serves(l, d))
    BY <1>c, <1>c2, <1>l DEF Serves
  <2> QED BY <2>1, <1>f DEF Holds, UsKey, Opens, Busy, Queued, Route, DsKey, Has, At
<1>a2. \A l \in Locals : Unanswered(l)' <=> Unanswered(l) /\ l # s
  <2>1. ~Unanswered(s)'
    BY <1>c, <1>c2, <1>e DEF Unanswered
  <2> QED BY <2>1, <1>l DEF Unanswered
<1>1. TypeOK'
  <2>1. server' \in [Locals -> Server]
    BY BoundAssumption, <1>i, <1>f, SMTT(60) DEF TypeOK, Server, NoRequest
  <2>2. usprog'[s] \in UsProg
    BY BoundAssumption, <1>c, <1>t, SMTT(60) DEF UsProg, Pcs, Idle
  <2>3. usprog' \in [Locals -> UsProg]
    BY <2>2, <1>c, <1>i, <1>f DEF TypeOK
  <2>4. fib_upstream' \in [Upstreams -> Seq(UsKeys)]
    BY <1>i, <1>f, <1>k, <1>q, <1>r DEF TypeOK
  <2>5. lost' \subseteq Clients
    BY <1>i, <1>f, <1>e DEF TypeOK
  <2> QED BY <2>1, <2>3, <2>4, <2>5, <1>i, <1>f DEF TypeOK
<1>2. InvServers'
  <2> SUFFICES ASSUME NEW l \in Locals PROVE ServerInv(l)'
    BY DEF InvServers
  <2>1. ServerInv(l) BY <1>i DEF InvServers
  <2>2. CASE l = s
    BY <2>1, <2>2, <1>c, <1>c2, <1>e, <1>f DEF ServerInv
  <2>3. CASE l # s
    BY <2>1, <2>3, <1>l, <1>f DEF ServerInv
  <2> QED BY <2>2, <2>3
<1>q2. InvQueues'
  <2> SUFFICES ASSUME NEW v \in Upstreams PROVE QueueInv(v)'
    BY DEF InvQueues
  <2>1. QueueInv(v) BY <1>i DEF InvQueues
  <2>2. CASE v = u
    <3> DEFINE r == fib_upstream'[u]
    <3>1. ASSUME NEW j \in 1..Len(r), j # Len(r)
          PROVE  /\ j + o \in 1..Len(fib_upstream[u]) /\ r[j] = fib_upstream[u][j + o] /\ r[j] # <<u, s>>
                 /\ \E l \in Locals : r[j] = <<u, l>> /\ peer[l] = u /\ conn[l] \in {"open", "closed"}
      <4>1. j \in 1..Len(r) - 1 BY <3>1, <1>r, SMTT(60)
      <4>2. j + o \in 1..Len(fib_upstream[u]) /\ r[j] = fib_upstream[u][j + o] BY <4>1, <1>r
      <4>3. r[j] # <<u, s>> BY <4>2, <1>g, SMTT(60) DEF Queued
      <4> QED BY <4>2, <4>3, <2>1, <2>2 DEF QueueInv
    <3>2. \A j \in 1..Len(r) :
            \E l \in Locals : r[j] = <<u, l>> /\ peer[l] = u /\ conn[l] \in {"open", "closed"}
      BY <3>1, <1>r, <1>k, <1>e
    <3>3. ASSUME NEW i \in 1..Len(r), NEW j \in 1..Len(r), r[i] = r[j] PROVE i = j
      <4>1. CASE i = Len(r) \/ j = Len(r)
        BY <4>1, <3>1, <3>3, <1>r
      <4>2. CASE i # Len(r) /\ j # Len(r)
        <5>1. i + o = j + o
          BY AddrAssumption, <4>2, <3>1, <3>3, <2>1, <2>2, SMTT(60) DEF QueueInv
        <5> QED BY <5>1, SMTT(60)
      <4> QED BY <4>1, <4>2
    <3>4. \A i, j \in 1..Len(r) : r[i] = r[j] => i = j BY <3>3
    <3>5. peer' = peer /\ conn' = conn BY <1>f
    <3>6. QueueInv(u)' BY <3>2, <3>4, <3>5 DEF QueueInv
    <3> QED BY <3>6, <2>2 DEF QueueInv
  <2>3. CASE v # u
    <3>1. fib_upstream'[v] = fib_upstream[v] /\ peer' = peer /\ conn' = conn BY <2>3, <1>q, <1>f
    <3> QED BY <2>1, <3>1, SMTT(60) DEF QueueInv
  <2> QED BY <2>2, <2>3
<1>3. InvLeases'
  <2> SUFFICES ASSUME NEW l \in Locals PROVE LeaseInv(l)'
    BY DEF InvLeases
  <2>1. LeaseInv(l) BY <1>i DEF InvLeases
  <2>2. CASE l = s
    <3>1. \A d \in Clients : ~Holds(d, s)' /\ ~Opens(d, s)' BY <1>g, <1>a1
    <3> QED BY <2>2, <3>1, <1>a2, <1>e, <1>f DEF LeaseInv
  <2>3. CASE l # s
    BY <2>1, <2>3, <1>a0, <1>a1, <1>a2, <1>l, <1>f, <1>e DEF LeaseInv
  <2> QED BY <2>2, <2>3
<1>4. InvInbox'
  BY <1>i, <1>f, <1>e, <1>l, SMTT(60) DEF InvInbox, InboxInv, Unanswered
<1>5. InvRest'
  <2>1. ASSUME NEW d \in Clients, NEW l \in Locals, RestAt(d, l) PROVE RestAt(d, l)'
    <3>1. l # s BY <2>1, <1>e, <1>f DEF RestAt
    <3> QED BY <2>1, <3>1, <1>l, <1>f DEF RestAt
  <2>2. ASSUME NEW d \in Clients, RestInBuffer(d) PROVE RestInBuffer(d)'
    BY <2>2, <1>f DEF RestInBuffer
  <2> QED BY <2>1, <2>2, <1>i, <1>f DEF InvRest
<1>6. InvRoutes'
  <2>1. ASSUME NEW l \in Locals PROVE AnswerInv(l)'
    <3>1. AnswerInv(l) BY <1>i DEF InvRoutes
    <3>2. CASE l = s
      BY <3>2, <1>c, <1>c2, <1>e DEF AnswerInv
    <3>3. CASE l # s
      BY <3>1, <3>3, <1>f, <1>l DEF AnswerInv
    <3> QED BY <3>2, <3>3
  <2>2. ASSUME NEW l \in Locals, NEW d \in Clients PROVE RouteInv(d, l)'
    <3>1. RouteInv(d, l) /\ DsKey(d)' = DsKey(d)
      BY <1>i DEF InvRoutes, DsKey
    <3>2. CASE l = s
      BY <3>1, <3>2, <1>a1, <1>f, <1>c, <1>c2, <1>e DEF RouteInv
    <3>3. CASE l # s
      BY <3>1, <3>3, <1>a1, <1>l, <1>f DEF RouteInv
    <3> QED BY <3>2, <3>3
  <2> QED BY <2>1, <2>2 DEF InvRoutes
<1>7. InvPlaces'
  <2> SUFFICES ASSUME NEW d \in Clients, client'[d].st # "closed" PROVE PlaceInv(d)'
    BY DEF InvPlaces
  <2>p. PlaceInv(d)
    BY <1>f, <1>i DEF InvPlaces
  <2>1. ASSUME NEW l \in Locals PROVE PlaceAt(d, l)'
    <3>p. PlaceAt(d, l)
      BY <2>p DEF PlaceInv
    <3>1. CASE l = s
      <4>1. ~Has(d, s)' BY <1>e, <1>f, SMTT(60) DEF Has
      <4>2. At(d, s)' => server'[s] = server[s] /\ Serves(s, d)
        BY <4>1, <1>a1, <1>c, <1>c2 DEF At, Serves
      <4> QED BY <3>p, <3>1, <4>1, <4>2, <1>a1, <1>e, <1>f DEF PlaceAt
    <3>2. CASE l # s
      BY <3>p, <3>2, <1>a1, <1>l, <1>f DEF PlaceAt
    <3> QED BY <3>1, <3>2
  <2>2. \A j, l \in Locals : At(d, j)' /\ At(d, l)' => j = l
    BY <2>p, <1>a1 DEF PlaceInv
  <2> QED BY <2>1, <2>2, <2>p, <1>f DEF PlaceInv, PlaceElse, Received
<1> QED
  BY <1>i, <1>f, <1>1, <1>2, <1>q2, <1>3, <1>4, <1>5, <1>6, <1>7, FrameSockets, FrameTasks, FrameProgs,
     FrameBuffer, FrameVerdicts, FrameTokens DEF IInv

(* The redirect of an answer fails because its client has closed the         *)
(* connection.                                                               *)
LEMMA UsRedirectFailInv ==
  ASSUME IInv, NEW s \in Locals, UsRedirect(s), ~Redirectable(usprog[s].ekey) PROVE IInv'
<1>i. /\ TypeOK /\ InvSockets /\ InvTasks /\ InvServers /\ InvProgs /\ InvQueues /\ InvLeases
      /\ InvInbox /\ InvRest /\ InvBuffer /\ InvRoutes /\ InvPlaces
      /\ InvVerdicts /\ InvTokens
  BY DEF IInv
<1>f. /\ UNCHANGED <<msg_sock_map, sock_map_wait_list, fib_upstream, fib_downstream, utrn_wait_list,
                     dsprog, dsverdict, usverdict, client, crx, dsin, task, conn, peer, inbox, server, lost>>
      /\ usprog[s].pc = "redirect"
      /\ usprog' = [usprog EXCEPT ![s].pc = "utrn"]
  BY DEF UsRedirect, maps, dsrun
<1>t. server[s] \in Server /\ usprog[s] \in UsProg
  BY <1>i DEF TypeOK
<1>c. /\ usprog'[s] = [usprog[s] EXCEPT !.pc = "utrn"]
      /\ usprog'[s].pc = "utrn" /\ usprog'[s].ekey = usprog[s].ekey
  BY <1>i, <1>f, <1>t DEF TypeOK, UsProg
<1>l. \A l \in Locals \ {s} : usprog'[l] = usprog[l]
  BY <1>i, <1>f DEF TypeOK
<1>e. server[s].st = "answer" /\ server[s].c \in Clients
  <2>1. ServerInv(s) BY <1>i DEF InvServers
  <2> QED BY <2>1, <1>f DEF ServerInv
<1>k. PICK b \in Clients : b = server[s].c
  BY <1>e
<1>g. client[b].st = "closed"
  <2> SUFFICES ASSUME client[b].st # "closed" PROVE FALSE
    OBVIOUS
  <2>1. usprog[s].ekey = DsKey(b)
    <3>1. AnswerInv(s) /\ RouteInv(b, s) BY <1>i DEF InvRoutes
    <3> QED BY <3>1, <1>e, <1>f, <1>k DEF AnswerInv, RouteInv
  <2>2. client[b].st = "waiting"
    <3>1. PlaceAt(b, s) /\ Serves(s, b)
      BY <1>i, <1>e, <1>k DEF InvPlaces, PlaceInv, Serves
    <3> QED BY <3>1 DEF PlaceAt, At
  <2>3. ClientSocket(b) BY <1>i DEF InvSockets
  <2> QED BY <2>1, <2>2, <2>3 DEF ClientSocket, Redirectable
<1>a2. \A l \in Locals : Unanswered(l)' <=> Unanswered(l)
  BY <1>c, <1>l, <1>f DEF Unanswered
<1>1. TypeOK'
  <2>1. usprog'[s] \in UsProg
    BY <1>c, <1>t DEF UsProg, Pcs
  <2>2. usprog' \in [Locals -> UsProg]
    BY <2>1, <1>c, <1>i, <1>f DEF TypeOK
  <2> QED BY <2>2, <1>i, <1>f DEF TypeOK
<1>2. InvServers'
  <2> SUFFICES ASSUME NEW l \in Locals PROVE ServerInv(l)'
    BY DEF InvServers
  <2>1. ServerInv(l) BY <1>i DEF InvServers
  <2>2. CASE l = s
    BY <2>1, <2>2, <1>c, <1>e, <1>f DEF ServerInv
  <2>3. CASE l # s
    BY <2>1, <2>3, <1>l, <1>f DEF ServerInv
  <2> QED BY <2>2, <2>3
<1>3. InvLeases'
  <2> SUFFICES ASSUME NEW l \in Locals PROVE LeaseInv(l)'
    BY DEF InvLeases
  <2>1. LeaseInv(l) BY <1>i DEF InvLeases
  <2>2. /\ Queued(l)' <=> Queued(l)
        /\ \A d \in Clients : (Holds(d, l)' <=> Holds(d, l)) /\ (Opens(d, l)' <=> Opens(d, l))
    BY <1>f DEF Holds, UsKey, Opens, Busy, Queued
  <2> QED BY <2>1, <2>2, <1>a2, <1>f DEF LeaseInv
<1>4. InvInbox'
  BY <1>i, <1>f, <1>a2 DEF InvInbox, InboxInv
<1>6. InvRoutes'
  <2>1. ASSUME NEW l \in Locals PROVE AnswerInv(l)'
    <3>1. AnswerInv(l) BY <1>i DEF InvRoutes
    <3>2. CASE l = s
      BY <3>1, <3>2, <1>f, <1>c, <1>g, <1>k DEF AnswerInv
    <3>3. CASE l # s
      BY <3>1, <3>3, <1>f, <1>l DEF AnswerInv
    <3> QED BY <3>2, <3>3
  <2>2. ASSUME NEW l \in Locals, NEW d \in Clients PROVE RouteInv(d, l)'
    <3>1. /\ RouteInv(d, l) /\ DsKey(d)' = DsKey(d)
          /\ Holds(d, l)' <=> Holds(d, l)
          /\ Has(d, l)' <=> Has(d, l)
          /\ Route(l, d)' <=> Route(l, d)
      BY <1>i, <1>f DEF InvRoutes, DsKey, Holds, UsKey, Has, Route
    <3>2. usprog'[l].ekey = usprog[l].ekey BY <1>c, <1>l
    <3> QED BY <3>1, <3>2, <1>f DEF RouteInv
  <2> QED BY <2>1, <2>2 DEF InvRoutes
<1> QED
  BY <1>i, <1>f, <1>1, <1>2, <1>3, <1>4, <1>6, FrameSockets, FrameTasks, FrameProgs,
     FrameQueues, FrameRest, FrameBuffer, FramePlaces, FrameVerdicts, FrameTokens DEF IInv

(* The head of an answer is out: what holds for it wherever it went, to its  *)
(* client or past a closed one to the control plane.                         *)
LEMMA AnsweringInv ==
  ASSUME IInv, NEW s \in Locals, NEW to \in Clients \cup {Proxy}, Answering(s, to),
         usprog[s].pc \in {"redirect", "utrn"},
         to = server[s].c \/ (to = Proxy /\ client[server[s].c].st = "closed"),
         UNCHANGED <<msg_sock_map, sock_map_wait_list, fib_upstream, fib_downstream,
                     dsprog, dsverdict, client, dsin, task, conn, peer, inbox, lost>>
  PROVE  /\ server' \in [Locals -> Server] /\ usprog' \in [Locals -> UsProg]
         /\ usverdict' \in [Locals -> UsVerdict]
         /\ InvServers' /\ InvLeases' /\ InvInbox' /\ InvRest' /\ InvRoutes'
         /\ \A d \in Clients : /\ d # server[s].c /\ client[d].st # "closed"
                               /\ crx'[d] = crx[d]
                              => PlaceInv(d)'
<1>i. /\ TypeOK /\ InvSockets /\ InvTasks /\ InvServers /\ InvProgs /\ InvQueues /\ InvLeases
      /\ InvInbox /\ InvRest /\ InvBuffer /\ InvRoutes /\ InvPlaces
      /\ InvVerdicts /\ InvTokens
  BY DEF IInv
<1>f. /\ UNCHANGED <<msg_sock_map, sock_map_wait_list, fib_upstream, fib_downstream,
                     dsprog, dsverdict, client, dsin, task, conn, peer, inbox, lost>>
      /\ usprog[s].pc \in {"redirect", "utrn"}
      /\ usprog' = [usprog EXCEPT ![s] = Idle]
      /\ usverdict' = [usverdict EXCEPT ![s] = [to |-> to, left |-> usprog[s].len]]
      /\ server' = [server EXCEPT ![s] = IF usprog[s].len = 0 THEN NoRequest
                                         ELSE [@ EXCEPT !.st = "sending", !.left = usprog[s].len]]
      /\ to = server[s].c \/ (to = Proxy /\ client[server[s].c].st = "closed")
  BY DEF Answering
<1>t. server[s] \in Server /\ usprog[s] \in UsProg
  BY <1>i DEF TypeOK
<1>k. PICK len \in 0..MaxBody : len = usprog[s].len
  BY <1>t DEF UsProg
<1>e. server[s].st = "answer" /\ server[s].c \in Clients /\ conn[s] = "open" /\ server[s] # NoRequest
  <2>1. ServerInv(s) BY <1>i DEF InvServers
  <2>2. server[s].st = "answer" BY <2>1, <1>f DEF ServerInv
  <2>3. server[s] # NoRequest BY <2>2, SMTT(60) DEF NoRequest
  <2> QED BY <2>1, <2>2, <2>3 DEF ServerInv
<1>b. PICK b \in Clients : b = server[s].c
  BY <1>e
<1>c. /\ server'[s] = IF len = 0 THEN NoRequest ELSE [server[s] EXCEPT !.st = "sending", !.left = len]
      /\ usprog'[s] = Idle /\ usverdict'[s] = [to |-> to, left |-> len]
  BY <1>i, <1>f, <1>k DEF TypeOK
<1>c2. /\ len = 0 => server'[s].st = "idle"
       /\ len # 0 => /\ server'[s].st = "sending" /\ server'[s].left = len
                     /\ server'[s].c = b /\ server'[s].n = server[s].n
       /\ usverdict'[s].left = len /\ usverdict'[s].to = to
       /\ usprog'[s].pc = "idle"
  BY <1>c, <1>t, <1>b, SMTT(60) DEF Idle, NoRequest, Server
<1>l. \A l \in Locals \ {s} : server'[l] = server[l] /\ usprog'[l] = usprog[l] /\ usverdict'[l] = usverdict[l]
  BY <1>i, <1>f DEF TypeOK
<1>a1. ASSUME NEW d \in Clients, NEW l \in Locals
       PROVE  /\ Holds(d, l)' <=> Holds(d, l)
              /\ Opens(d, l)' <=> Opens(d, l)
              /\ Queued(l)' <=> Queued(l)
              /\ Has(d, l)' <=> Has(d, l)
              /\ Route(l, d)' <=> Route(l, d)
              /\ d # b \/ l # s => (Serves(l, d)' <=> Serves(l, d)) /\ (At(d, l)' <=> At(d, l))
  <2>1. d # b \/ l # s => (Serves(l, d)' <=> Serves(l, d))
    BY <1>c2, <1>l, <1>b DEF Serves
  <2> QED BY <2>1, <1>f DEF Holds, UsKey, Opens, Busy, Queued, Route, DsKey, Has, At
<1>a2. \A l \in Locals : Unanswered(l)' <=> Unanswered(l)
  BY <1>c2, <1>l, <1>f, <1>e DEF Unanswered
<1>1. /\ server' \in [Locals -> Server] /\ usprog' \in [Locals -> UsProg]
      /\ usverdict' \in [Locals -> UsVerdict]
  <2>1. server'[s] \in Server
    <3>1. 0 \in 0..MaxReqs /\ 0 \in 0..MaxBody BY BoundAssumption, SMTT(60)
    <3>2. NoRequest \in Server BY <3>1 DEF Server, NoRequest
    <3>3. [server[s] EXCEPT !.st = "sending", !.left = len] \in Server BY <1>t DEF Server
    <3> QED BY <3>2, <3>3, <1>c
  <2>2. usprog'[s] \in UsProg
    BY BoundAssumption, <1>c, SMTT(60) DEF UsProg, Pcs, Idle
  <2>3. usverdict'[s] \in UsVerdict
    BY <1>c, SMTT(60) DEF UsVerdict
  <2>4. server' \in [Locals -> Server] BY <2>1, <1>c, <1>i, <1>f DEF TypeOK
  <2>5. usprog' \in [Locals -> UsProg] BY <2>2, <1>c, <1>i, <1>f DEF TypeOK
  <2>6. usverdict' \in [Locals -> UsVerdict] BY <2>3, <1>c, <1>i, <1>f DEF TypeOK
  <2> QED BY <2>4, <2>5, <2>6
<1>2. InvServers'
  <2> SUFFICES ASSUME NEW l \in Locals PROVE ServerInv(l)'
    BY DEF InvServers
  <2>1. ServerInv(l) BY <1>i DEF InvServers
  <2>2. CASE l = s
    <3>1. conn'[s] = "open" BY <1>e, <1>f
    <3>2. server'[s].n \in 1..MaxReqs \/ server'[s].st = "idle"
      BY <2>1, <2>2, <1>c2, <1>e DEF ServerInv
    <3>3. server'[s].st \in {"idle", "sending"} /\ usprog'[s] = Idle BY <1>c, <1>c2
    <3>4. server'[s].st = "sending" => usverdict'[s].left > 0 /\ usverdict'[s].left <= server'[s].left
      BY <1>c2, SMTT(60)
    <3> QED BY <2>2, <3>1, <3>2, <3>3, <3>4, <1>c2 DEF ServerInv
  <2>3. CASE l # s
    BY <2>1, <2>3, <1>l, <1>f DEF ServerInv
  <2> QED BY <2>2, <2>3
<1>3. InvLeases'
  <2> SUFFICES ASSUME NEW l \in Locals PROVE LeaseInv(l)'
    BY DEF InvLeases
  <2>1. LeaseInv(l) BY <1>i DEF InvLeases
  <2>2. ASSUME NEW d \in Clients, Opens(d, l) PROVE l # s
    BY <2>1, <2>2, <1>e DEF LeaseInv
  <2> QED BY <2>1, <2>2, <1>a1, <1>a2, <1>l, <1>f DEF LeaseInv
<1>4. InvInbox'
  <2> SUFFICES ASSUME NEW l \in Locals PROVE InboxInv(l)'
    BY DEF InvInbox
  <2>1. InboxInv(l) BY <1>i DEF InvInbox
  <2>2. (server'[l].st = "reading") <=> (server[l].st = "reading")
    BY <1>c2, <1>l, <1>e
  <2> QED BY <2>1, <2>2, <1>f, <1>l, <1>e, <1>a2, SMTT(60) DEF InboxInv
<1>5. InvRest'
  <2>1. ASSUME NEW d \in Clients, NEW l \in Locals, RestAt(d, l) PROVE RestAt(d, l)'
    <3>1. (server'[l].st = "reading") <=> (server[l].st = "reading")
      BY <1>c2, <1>l, <1>e
    <3> QED BY <2>1, <3>1, <1>l, <1>e, <1>f, SMTT(60) DEF RestAt
  <2>2. ASSUME NEW d \in Clients, RestInBuffer(d) PROVE RestInBuffer(d)'
    BY <2>2, <1>f DEF RestInBuffer
  <2> QED BY <2>1, <2>2, <1>i, <1>f DEF InvRest
<1>6. InvRoutes'
  <2>1. ASSUME NEW l \in Locals PROVE AnswerInv(l)'
    <3>1. AnswerInv(l) BY <1>i DEF InvRoutes
    <3>2. CASE l = s
      BY <3>2, <1>f, <1>c2, <1>b DEF AnswerInv
    <3>3. CASE l # s
      BY <3>1, <3>3, <1>f, <1>l DEF AnswerInv
    <3> QED BY <3>2, <3>3
  <2>2. ASSUME NEW l \in Locals, NEW d \in Clients PROVE RouteInv(d, l)'
    <3>1. RouteInv(d, l) /\ DsKey(d)' = DsKey(d)
      BY <1>i DEF InvRoutes, DsKey
    <3>2. CASE l = s
      BY <3>1, <3>2, <1>a1, <1>f, <1>c2 DEF RouteInv
    <3>3. CASE l # s
      BY <3>1, <3>3, <1>a1, <1>l, <1>f DEF RouteInv
    <3> QED BY <3>2, <3>3
  <2> QED BY <2>1, <2>2 DEF InvRoutes
<1>7. ASSUME NEW d \in Clients, d # server[s].c, client[d].st # "closed", crx'[d] = crx[d]
      PROVE  PlaceInv(d)'
  <2>p. PlaceInv(d)
    BY <1>7, <1>i DEF InvPlaces
  <2>b. d # b BY <1>7, <1>b
  <2>1. ASSUME NEW l \in Locals PROVE PlaceAt(d, l)'
    <3>p. PlaceAt(d, l)
      BY <2>p DEF PlaceInv
    <3>1. CASE l = s
      <4>1. ~Serves(s, d) BY <1>7 DEF Serves
      <4>2. ~Serves(s, d)' BY <4>1, <2>b, <1>a1
      <4> QED BY <3>p, <3>1, <4>1, <4>2, <2>b, <1>7, <1>a1, <1>f DEF PlaceAt
    <3>2. CASE l # s
      BY <3>p, <3>2, <2>b, <1>7, <1>a1, <1>l, <1>f, SMTT(60) DEF PlaceAt
    <3> QED BY <3>1, <3>2
  <2>2. \A j, l \in Locals : At(d, j)' /\ At(d, l)' => j = l
    BY <2>p, <2>b, <1>a1 DEF PlaceInv
  <2> QED BY <2>1, <2>2, <2>p, <1>7, <1>f DEF PlaceInv, PlaceElse, Received
<1> QED BY <1>1, <1>2, <1>3, <1>4, <1>5, <1>6, <1>7

(* The redirect of an answer puts its head first in the empty receive queue  *)
(* of the client that waits for it.                                          *)
LEMMA UsRedirectOkInv ==
  ASSUME IInv, NEW s \in Locals, UsRedirect(s), Redirectable(usprog[s].ekey) PROVE IInv'
<1>i. /\ TypeOK /\ InvSockets /\ InvTasks /\ InvServers /\ InvProgs /\ InvQueues /\ InvLeases
      /\ InvInbox /\ InvRest /\ InvBuffer /\ InvRoutes /\ InvPlaces
      /\ InvVerdicts /\ InvTokens
  BY DEF IInv
<1> DEFINE head == Part(server[s].c, server[s].n, 0, usprog[s].len, TRUE)
<1>f. /\ UNCHANGED <<msg_sock_map, sock_map_wait_list, fib_upstream, fib_downstream, utrn_wait_list,
                     dsprog, dsverdict, client, dsin, task, conn, peer, inbox, lost>>
      /\ usprog[s].pc = "redirect"
      /\ crx' = [crx EXCEPT ![usprog[s].ekey[1]] = Append(@, head)]
      /\ Answering(s, usprog[s].ekey[1])
  BY DEF UsRedirect, maps, dsrun
<1>t. server[s] \in Server /\ usprog[s] \in UsProg
  BY <1>i DEF TypeOK
<1>e. /\ server[s].st = "answer" /\ server[s].c \in Clients /\ server[s].n \in 1..MaxReqs
      /\ usprog[s].ekey = DsKey(server[s].c)
  <2>1. ServerInv(s) BY <1>i DEF InvServers
  <2>2. server[s].st = "answer" /\ server[s].c \in Clients /\ server[s].n \in 1..MaxReqs
    BY <2>1, <1>f DEF ServerInv
  <2>3. AnswerInv(s) /\ RouteInv(server[s].c, s) BY <2>2, <1>i DEF InvRoutes
  <2> QED BY <2>2, <2>3, <1>f DEF AnswerInv, RouteInv
<1>b. PICK b \in Clients : b = server[s].c
  BY <1>e
<1>k. PICK len \in 0..MaxBody : len = usprog[s].len
  BY <1>t DEF UsProg
<1>h. /\ head \in Parts /\ head.c = b /\ head.n = server[s].n /\ head.k = 0 /\ head.len = len
      /\ crx' = [crx EXCEPT ![b] = Append(crx[b], head)] /\ Answering(s, b)
  <2>1. head = [c |-> b, n |-> server[s].n, k |-> 0, len |-> len, ok |-> TRUE]
    BY <1>b, <1>k DEF Part
  <2>2. 0 \in 0..MaxBody BY BoundAssumption, SMTT(60)
  <2>4. usprog[s].ekey[1] = b BY <1>e, <1>b, SMTT(60) DEF DsKey
  <2>5. crx' = [crx EXCEPT ![b] = Append(crx[b], head)] /\ Answering(s, b) BY <2>4, <1>f
  <2> HIDE DEF head
  <2>3. head \in Parts BY <2>1, <2>2, <1>e, <1>b, <1>k DEF Parts
  <2>6. head.c = b /\ head.n = server[s].n /\ head.k = 0 /\ head.len = len BY <2>1
  <2> QED BY <2>3, <2>5, <2>6
<1>m. PICK m \in Parts : m = head
  BY <1>h
<1> HIDE DEF head
<1>w. /\ client[b].st = "waiting" /\ dsprog[b] = Idle /\ dsin[b] = <<>> /\ crx[b] = <<>>
      /\ server[s].n = client[b].n /\ ~Has(b, s) /\ dsverdict[b].left = 0
      /\ \A l \in Locals \ {s} : ~At(b, l)
      /\ PlaceInv(b)
  <2>1. DsKey(b) \in msg_sock_map BY <1>e, <1>b DEF Redirectable
  <2>2. client[b].st # "closed" /\ Serves(s, b) /\ At(b, s)
    BY <2>1, <1>i, <1>e, <1>b DEF InvSockets, ClientSocket, Serves, At
  <2>3. PlaceInv(b) BY <2>2, <1>i DEF InvPlaces
  <2>4. /\ client[b].st = "waiting" /\ dsprog[b] = Idle /\ dsin[b] = <<>> /\ crx[b] = <<>>
        /\ server[s].n = client[b].n /\ ~Has(b, s)
        /\ dsverdict[b].left > 0 => dsverdict[b].to = s
        /\ \A l \in Locals \ {s} : ~At(b, l)
    BY <2>2, <2>3, <1>e DEF PlaceInv, PlaceAt
  <2>5. dsverdict[b].left = 0
    <3> SUFFICES ASSUME dsverdict[b].left > 0 PROVE FALSE
      BY <1>i, SMTT(60) DEF TypeOK, DsVerdict
    <3>1. conn[s] = "open"
      <4>1. ServerInv(s) /\ server[s] # NoRequest BY <1>i, <1>e, SMTT(60) DEF InvServers, NoRequest
      <4> QED BY <4>1 DEF ServerInv
    <3>2. RestAt(b, s) BY <2>4, <3>1, <1>i DEF InvRest
    <3>3. inbox[s] # <<>> /\ \A i \in 1..Len(inbox[s]) : inbox[s][i].c = b
      BY <3>2, <1>e DEF RestAt
    <3>4. inbox[s] \in Seq(Parts) BY <1>i DEF TypeOK
    <3> QED BY <3>3, <3>4, <2>4, SMTT(60) DEF Has
  <2> QED BY <2>3, <2>4, <2>5
<1>r. crx'[b] \in Seq(Parts) /\ crx'[b] # <<>> /\ Len(crx'[b]) = 1 /\ crx'[b][1] = m
  <2>1. crx'[b] = Append(crx[b], m) BY <1>h, <1>m, <1>i DEF TypeOK
  <2>2. crx'[b] = Append(<<>>, m) BY <2>1, <1>w
  <2> QED BY <2>2, SMTT(60)
<1>d. \A d \in Clients \ {b} : crx'[d] = crx[d]
  BY <1>h, <1>i DEF TypeOK
<1>A. /\ server' \in [Locals -> Server] /\ usprog' \in [Locals -> UsProg]
      /\ usverdict' \in [Locals -> UsVerdict]
      /\ InvServers' /\ InvLeases' /\ InvInbox' /\ InvRest' /\ InvRoutes'
      /\ \A d \in Clients : /\ d # server[s].c /\ client[d].st # "closed"
                            /\ crx'[d] = crx[d]
                           => PlaceInv(d)'
  <2>1. b \in Clients \cup {Proxy} /\ usprog[s].pc \in {"redirect", "utrn"} BY <1>f
  <2> QED BY <2>1, <1>f, <1>h, <1>b, AnsweringInv
<1>1. TypeOK'
  <2>1. crx' \in [Clients -> Seq(Parts)] BY <1>h, <1>r, <1>i DEF TypeOK
  <2> QED BY <2>1, <1>A, <1>i, <1>f DEF TypeOK
<1>n. /\ len = 0 => server'[s].st = "idle"
      /\ len # 0 => /\ server'[s].st = "sending" /\ server'[s].left = len
                    /\ server'[s].c = b /\ server'[s].n = server[s].n
                    /\ usverdict'[s].left = len
  <2>1. /\ server'[s] = IF len = 0 THEN NoRequest ELSE [server[s] EXCEPT !.st = "sending", !.left = len]
        /\ usverdict'[s] = [to |-> b, left |-> len]
    BY <1>h, <1>k, <1>i DEF Answering, TypeOK
  <2> QED BY <2>1, <1>t, <1>b, SMTT(60) DEF Server, NoRequest
<1>l. \A l \in Locals \ {s} : server'[l] = server[l]
  BY <1>h, <1>i DEF Answering, TypeOK
<1>7. InvPlaces'
  <2> SUFFICES ASSUME NEW d \in Clients, client'[d].st # "closed" PROVE PlaceInv(d)'
    BY DEF InvPlaces
  <2>1. CASE d # b
    BY <2>1, <1>A, <1>d, <1>f, <1>b
  <2>2. CASE d = b
    <3>w. /\ client'[b].st = "waiting" /\ dsprog'[b] = Idle /\ dsin'[b] = <<>> /\ dsverdict'[b].left = 0
          /\ dsprog'[b].pc = "idle"
      <4>1. client' = client /\ dsprog' = dsprog /\ dsin' = dsin /\ dsverdict' = dsverdict BY <1>f
      <4> QED BY <4>1, <1>w, SMTT(60) DEF Idle
    <3>1. ~Has(b, s)' /\ (Serves(s, b)' => server'[s].st = "sending" /\ len # 0)
      BY <1>w, <1>f, <1>n DEF Has, Serves
    <3>2. ASSUME NEW l \in Locals \ {s} PROVE ~At(b, l)'
      BY <1>w, <1>l, <1>f DEF At, Has, Serves
    <3>3. PlaceAt(b, s)'
      <4> SUFFICES ASSUME Serves(s, b)' PROVE PlaceAt(b, s)'
        BY <3>1 DEF PlaceAt, At
      <4>1. /\ server'[s].st = "sending" /\ server'[s].left = len /\ server'[s].n = client'[b].n
            /\ usverdict'[s].left = len
        BY <3>1, <1>n, <1>w, <1>f
      <4>2. /\ crx'[b] # <<>> /\ crx'[b][1].len = server'[s].left
            /\ Len(crx'[b]) + usverdict'[s].left = server'[s].left + 1
        BY <4>1, <1>r, <1>h, <1>m, SMTT(60)
      <4>3. \A i \in 1..Len(inbox'[s]) : inbox'[s][i].c # b
        BY <3>1 DEF Has
      <4> QED BY <4>1, <4>2, <4>3, <3>1, <3>w, SMTT(60) DEF PlaceAt
    <3>4. ASSUME NEW l \in Locals PROVE PlaceAt(b, l)'
      BY <3>2, <3>3 DEF PlaceAt
    <3>5. \A j, l \in Locals : At(b, j)' /\ At(b, l)' => j = l
      BY <3>2
    <3>6. PlaceElse(b)'
      BY <3>w, SMTT(60) DEF PlaceElse
    <3>7. Received(b)'
      <4>1. /\ client'[b].st = "waiting" /\ client'[b].n = m.n /\ m.c = b /\ m.k = 0 /\ m.len \in Nat
        <5>1. client' = client BY <1>f
        <5>2. m.n = server[s].n /\ m.c = b /\ m.k = 0 /\ m.len \in Nat BY <1>h, <1>m, SMTT(60)
        <5> QED BY <5>1, <5>2, <1>w
      <4> QED BY <4>1, <1>r, SMTT(60) DEF Received
    <3>8. PlaceInv(b)' BY <3>4, <3>5, <3>6, <3>7 DEF PlaceInv
    <3> QED BY <3>8, <2>2
  <2> QED BY <2>1, <2>2
<1> QED
  BY <1>i, <1>f, <1>1, <1>A, <1>7, FrameSockets, FrameTasks, FrameProgs,
     FrameQueues, FrameBuffer, FrameVerdicts, FrameTokens DEF IInv

(* The answer for a closed client goes to the control plane; its token is    *)
(* none of a client.                                                         *)
LEMMA UsUturnInv == ASSUME IInv, NEW s \in Locals, UsUturn(s) PROVE IInv'
<1>i. /\ TypeOK /\ InvSockets /\ InvTasks /\ InvServers /\ InvProgs /\ InvQueues /\ InvLeases
      /\ InvInbox /\ InvRest /\ InvBuffer /\ InvRoutes /\ InvPlaces
      /\ InvVerdicts /\ InvTokens
  BY DEF IInv
<1>f. /\ UNCHANGED <<msg_sock_map, sock_map_wait_list, fib_upstream, fib_downstream,
                     dsprog, dsverdict, client, crx, dsin, task, conn, peer, inbox, lost>>
      /\ usprog[s].pc = "utrn"
      /\ utrn_wait_list' \in LruPut(utrn_wait_list, UsKey(s), usprog[s].dest, NoAddr, UtrnCap)
      /\ Answering(s, Proxy)
  BY DEF UsUturn, dsrun
<1>e. /\ server[s].c \in Clients /\ client[server[s].c].st = "closed" /\ peer[s] \in Upstreams
  <2>1. ServerInv(s) BY <1>i DEF InvServers
  <2>2. server[s].st = "answer" /\ server[s].c \in Clients BY <2>1, <1>f DEF ServerInv
  <2>3. AnswerInv(s) BY <1>i DEF InvRoutes
  <2>4. server[s] # NoRequest BY <2>2, SMTT(60) DEF NoRequest
  <2>5. ServerSocket(s) /\ conn[s] = "open" BY <2>1, <2>4, <1>i DEF ServerInv, InvSockets
  <2> QED BY <2>2, <2>3, <2>5, <1>f DEF AnswerInv, ServerSocket
<1>A. /\ server' \in [Locals -> Server] /\ usprog' \in [Locals -> UsProg]
      /\ usverdict' \in [Locals -> UsVerdict]
      /\ InvServers' /\ InvLeases' /\ InvInbox' /\ InvRest' /\ InvRoutes'
      /\ \A d \in Clients : /\ d # server[s].c /\ client[d].st # "closed"
                            /\ crx'[d] = crx[d]
                           => PlaceInv(d)'
  <2>1. Proxy \in Clients \cup {Proxy} /\ usprog[s].pc \in {"redirect", "utrn"} BY <1>f
  <2> QED BY <2>1, <1>f, <1>e, AnsweringInv
<1>z. /\ utrn_wait_list' \in [HostKeys \cup UsKeys -> Upstreams \cup Locals \cup {NoAddr}]
      /\ \A k \in HostKeys : utrn_wait_list'[k] \in Upstreams \cup {NoAddr}
      /\ \A x \in HostKeys : utrn_wait_list'[x] \in {utrn_wait_list[x], NoAddr}
  <2>1. PICK k : k = UsKey(s) OBVIOUS
  <2>2. PICK v : v = usprog[s].dest OBVIOUS
  <2>3. /\ utrn_wait_list \in [HostKeys \cup UsKeys -> Upstreams \cup Locals \cup {NoAddr}]
        /\ \A x \in HostKeys : utrn_wait_list[x] \in Upstreams \cup {NoAddr}
    BY <1>i DEF TypeOK
  <2>4. k \in UsKeys /\ k \notin HostKeys
    BY AddrAssumption, <2>1, <1>e DEF UsKey, UsKeys, HostKeys
  <2>5. v \in Upstreams \cup Locals \cup {NoAddr}
    BY <2>2, <1>i DEF TypeOK, UsProg
  <2>6. utrn_wait_list' \in LruPut(utrn_wait_list, k, v, NoAddr, UtrnCap)
    BY <2>1, <2>2, <1>f
  <2> QED BY <2>3, <2>4, <2>5, <2>6, UtrnPutFacts
<1>u. InvTokens'
  BY <1>z, <1>i DEF InvTokens
<1>1. TypeOK'
  BY <1>z, <1>A, <1>i, <1>f DEF TypeOK
<1>7. InvPlaces'
  <2> SUFFICES ASSUME NEW d \in Clients, client'[d].st # "closed" PROVE PlaceInv(d)'
    BY DEF InvPlaces
  <2> QED BY <1>A, <1>e, <1>f
<1> QED
  BY <1>i, <1>f, <1>1, <1>A, <1>7, FrameSockets, FrameTasks, FrameProgs,
     FrameQueues, FrameBuffer, FrameVerdicts, <1>u DEF IInv

(* The rest of an answer under apply_bytes follows its head, although the    *)
(* connection may serve the next request already.                            *)
LEMMA UsBodyInv == ASSUME IInv, NEW s \in Locals, UsBody(s) PROVE IInv'
<1>i. /\ TypeOK /\ InvSockets /\ InvTasks /\ InvServers /\ InvProgs /\ InvQueues /\ InvLeases
      /\ InvInbox /\ InvRest /\ InvBuffer /\ InvRoutes /\ InvPlaces
      /\ InvVerdicts /\ InvTokens
  BY DEF IInv
<1>t. server[s] \in Server /\ usverdict[s] \in UsVerdict
  BY <1>i DEF TypeOK
<1>s. server[s].st = "sending"
  BY DEF UsBody
<1>k. PICK len, left \in 0..MaxBody :
        len = server[s].left /\ left = usverdict[s].left /\ left > 0 /\ left <= len
  <2>1. ServerInv(s) BY <1>i DEF InvServers
  <2> QED BY <2>1, <1>t, <1>s DEF ServerInv, Server, UsVerdict
<1>b. PICK b \in Clients : b = server[s].c /\ server[s].n \in 1..MaxReqs
  BY <1>i, <1>s DEF InvServers, ServerInv
<1>e. conn[s] = "open" /\ server[s] # NoRequest
  <2>1. server[s] # NoRequest BY <1>s, SMTT(60) DEF NoRequest
  <2> QED BY <2>1, <1>i DEF InvServers, ServerInv
<1> DEFINE part == Part(b, server[s].n, len - left + 1, len, TRUE)
<1>h. /\ part \in Parts /\ part.c = b /\ part.n = server[s].n
      /\ part.k = len - left + 1 /\ part.len = len
  <2>1. len - left + 1 \in 0..MaxBody BY BoundAssumption, <1>k, SMTT(60)
  <2> QED BY <2>1, <1>b DEF Part, Parts
<1>f. /\ UNCHANGED <<msg_sock_map, sock_map_wait_list, fib_upstream, fib_downstream, utrn_wait_list,
                     dsprog, dsverdict, usprog, client, dsin, task, conn, peer, inbox, lost>>
      /\ server' = [server EXCEPT ![s] = IF left = 1 THEN NoRequest ELSE server[s]]
      /\ usverdict' = [usverdict EXCEPT ![s].left = left - 1]
      /\ crx' = IF usverdict[s].to \in Clients /\ client[usverdict[s].to].st # "closed"
                THEN [crx EXCEPT ![usverdict[s].to] = Append(@, part)] ELSE crx
  BY <1>k, <1>b DEF UsBody, maps, dsrun
<1>m. PICK m \in Parts : m = part
  BY <1>h
<1> HIDE DEF part
<1>x. /\ client[b].st # "closed" => crx' = [crx EXCEPT ![b] = Append(crx[b], m)]
      /\ client[b].st = "closed" => crx' = crx
  <2>1. AnswerInv(s) BY <1>i DEF InvRoutes
  <2>2. usverdict[s].to = b \/ (usverdict[s].to = Proxy /\ client[b].st = "closed")
    BY <2>1, <1>s, <1>b DEF AnswerInv
  <2>3. Proxy \notin Clients BY AddrAssumption DEF Hosts
  <2> QED BY <2>2, <2>3, <1>f, <1>m
<1>c. /\ server'[s] = IF left = 1 THEN NoRequest ELSE server[s]
      /\ usverdict'[s].left = left - 1 /\ usverdict'[s].to = usverdict[s].to
      /\ usverdict'[s] \in UsVerdict
  <2>1. usverdict'[s] = [usverdict[s] EXCEPT !.left = left - 1] BY <1>i, <1>f DEF TypeOK
  <2>2. left - 1 \in 0..MaxBody BY BoundAssumption, <1>k, SMTT(60)
  <2>3. server'[s] = IF left = 1 THEN NoRequest ELSE server[s] BY <1>i, <1>f DEF TypeOK
  <2> QED BY <2>1, <2>2, <2>3, <1>t DEF UsVerdict
<1>c2. /\ left = 1 => server'[s].st = "idle"
       /\ left # 1 => server'[s] = server[s]
  BY <1>c, SMTT(60) DEF NoRequest
<1>l. \A l \in Locals \ {s} : server'[l] = server[l] /\ usverdict'[l] = usverdict[l]
  BY <1>i, <1>f DEF TypeOK
<1>d. \A d \in Clients \ {b} : crx'[d] = crx[d]
  BY <1>x, <1>i DEF TypeOK
<1>a1. ASSUME NEW d \in Clients, NEW l \in Locals
       PROVE  /\ Holds(d, l)' <=> Holds(d, l)
              /\ Opens(d, l)' <=> Opens(d, l)
              /\ Queued(l)' <=> Queued(l)
              /\ Has(d, l)' <=> Has(d, l)
              /\ Route(l, d)' <=> Route(l, d)
              /\ Serves(l, d)' => Serves(l, d) /\ (l = s => left # 1)
              /\ At(d, l)' => At(d, l)
              /\ d # b \/ l # s => (Serves(l, d)' <=> Serves(l, d)) /\ (At(d, l)' <=> At(d, l))
  <2>1. /\ d # b \/ l # s => (Serves(l, d)' <=> Serves(l, d))
        /\ Serves(l, d)' => Serves(l, d) /\ (l = s => left # 1)
    BY <1>c2, <1>l, <1>b DEF Serves
  <2> QED BY <2>1, <1>f DEF Holds, UsKey, Opens, Busy, Queued, Route, DsKey, Has, At
<1>a2. \A l \in Locals : Unanswered(l)' <=> Unanswered(l)
  BY <1>c2, <1>l, <1>f, <1>s DEF Unanswered
<1>a3. \A l \in Locals : (server'[l].st = "reading") <=> (server[l].st = "reading")
  BY <1>c2, <1>l, <1>s
<1>1. TypeOK'
  <2>1. server' \in [Locals -> Server]
    <3>1. 0 \in 0..MaxReqs /\ 0 \in 0..MaxBody BY BoundAssumption, SMTT(60)
    <3>2. NoRequest \in Server BY <3>1 DEF Server, NoRequest
    <3> QED BY <3>2, <1>t, <1>i, <1>f DEF TypeOK
  <2>2. usverdict' \in [Locals -> UsVerdict] BY <1>c, <1>f, <1>i DEF TypeOK
  <2>3. crx' \in [Clients -> Seq(Parts)]
    <3>1. crx \in [Clients -> Seq(Parts)] /\ crx[b] \in Seq(Parts) BY <1>i DEF TypeOK
    <3>2. Append(crx[b], m) \in Seq(Parts) BY <3>1, AppendFacts
    <3> QED BY <3>1, <3>2, <1>x
  <2> QED BY <2>1, <2>2, <2>3, <1>i, <1>f DEF TypeOK
<1>2. InvServers'
  <2> SUFFICES ASSUME NEW l \in Locals PROVE ServerInv(l)'
    BY DEF InvServers
  <2>1. ServerInv(l) BY <1>i DEF InvServers
  <2>2. CASE l = s
    <3>1. conn'[s] = "open" /\ usprog' = usprog BY <1>e, <1>f
    <3>2. server'[s].st = "sending" => usverdict'[s].left > 0 /\ usverdict'[s].left <= server'[s].left
      BY <1>c2, <1>c, <1>k, SMTT(60)
    <3> QED BY <2>1, <2>2, <3>1, <3>2, <1>s, <1>c2 DEF ServerInv
  <2>3. CASE l # s
    BY <2>1, <2>3, <1>l, <1>f DEF ServerInv
  <2> QED BY <2>2, <2>3
<1>3. InvLeases'
  <2> SUFFICES ASSUME NEW l \in Locals PROVE LeaseInv(l)'
    BY DEF InvLeases
  <2>1. LeaseInv(l) BY <1>i DEF InvLeases
  <2>2. ASSUME NEW d \in Clients, Opens(d, l) PROVE l # s
    BY <2>1, <2>2, <1>e DEF LeaseInv
  <2> QED BY <2>1, <2>2, <1>a1, <1>a2, <1>l, <1>f DEF LeaseInv
<1>4. InvInbox'
  <2> SUFFICES ASSUME NEW l \in Locals PROVE InboxInv(l)'
    BY DEF InvInbox
  <2>1. InboxInv(l) BY <1>i DEF InvInbox
  <2> QED BY <2>1, <1>a3, <1>f, <1>l, <1>s, <1>a2 DEF InboxInv
<1>5. InvRest'
  <2>1. ASSUME NEW d \in Clients, NEW l \in Locals, RestAt(d, l) PROVE RestAt(d, l)'
    BY <2>1, <1>a3, <1>l, <1>s, <1>f DEF RestAt
  <2>2. ASSUME NEW d \in Clients, RestInBuffer(d) PROVE RestInBuffer(d)'
    BY <2>2, <1>f DEF RestInBuffer
  <2> QED BY <2>1, <2>2, <1>i, <1>f DEF InvRest
<1>6. InvRoutes'
  <2>1. ASSUME NEW l \in Locals PROVE AnswerInv(l)'
    <3>1. AnswerInv(l) BY <1>i DEF InvRoutes
    <3>2. CASE l = s
      <4>1. usprog[s].pc = "idle" BY <1>s, <1>i DEF InvServers, ServerInv
      <4> QED BY <3>1, <3>2, <4>1, <1>f, <1>c2, <1>c, <1>s DEF AnswerInv
    <3>3. CASE l # s
      BY <3>1, <3>3, <1>f, <1>l DEF AnswerInv
    <3> QED BY <3>2, <3>3
  <2>2. ASSUME NEW l \in Locals, NEW d \in Clients PROVE RouteInv(d, l)'
    <3>1. RouteInv(d, l) /\ DsKey(d)' = DsKey(d)
      BY <1>i DEF InvRoutes, DsKey
    <3>2. CASE l = s
      BY <3>1, <3>2, <1>a1, <1>f, <1>c2, <1>s DEF RouteInv
    <3>3. CASE l # s
      BY <3>1, <3>3, <1>a1, <1>l, <1>f DEF RouteInv
    <3> QED BY <3>2, <3>3
  <2> QED BY <2>1, <2>2 DEF InvRoutes
<1>7. ASSUME NEW d \in Clients, d # b, client[d].st # "closed"
      PROVE  PlaceInv(d)'
  <2>p. PlaceInv(d)
    BY <1>7, <1>i DEF InvPlaces
  <2>c. crx'[d] = crx[d] BY <1>7, <1>d
  <2>1. ASSUME NEW l \in Locals PROVE PlaceAt(d, l)'
    <3>p. PlaceAt(d, l)
      BY <2>p DEF PlaceInv
    <3>1. CASE l = s
      <4>1. ~Serves(s, d) BY <1>7, <1>b DEF Serves
      <4>2. ~Serves(s, d)' BY <4>1, <1>a1
      <4> QED BY <3>p, <3>1, <4>1, <4>2, <2>c, <1>7, <1>a1, <1>f DEF PlaceAt
    <3>2. CASE l # s
      BY <3>p, <3>2, <2>c, <1>7, <1>a1, <1>l, <1>f DEF PlaceAt
    <3> QED BY <3>1, <3>2
  <2>2. \A j, l \in Locals : At(d, j)' /\ At(d, l)' => j = l
    BY <2>p, <1>7, <1>a1 DEF PlaceInv
  <2> QED BY <2>1, <2>2, <2>p, <2>c, <1>7, <1>f DEF PlaceInv, PlaceElse, Received
<1>8. ASSUME client[b].st # "closed" PROVE PlaceInv(b)'
  <2>p. PlaceInv(b)
    BY <1>8, <1>i DEF InvPlaces
  <2>s. Serves(s, b) /\ At(b, s) BY <1>s, <1>b DEF Serves, At
  <2>w. /\ client[b].st = "waiting" /\ dsprog[b] = Idle /\ dsin[b] = <<>> /\ crx[b] # <<>>
        /\ server[s].n = client[b].n /\ ~Has(b, s)
        /\ crx[b][1].len = len /\ Len(crx[b]) + left = len + 1
    BY <2>p, <2>s, <1>s, <1>k DEF PlaceInv, PlaceAt
  <2>v. dsverdict[b].left = 0
    <3>1. dsverdict[b].left \in Nat BY <1>i, SMTT(60) DEF TypeOK, DsVerdict
    <3>2. ~(dsverdict[b].left > 0) BY <2>p, <2>w DEF PlaceInv, PlaceElse
    <3> QED BY <3>1, <3>2, SMTT(60)
  <2>f. /\ client'[b].st = "waiting" /\ dsprog'[b] = Idle /\ dsin'[b] = <<>> /\ dsverdict'[b].left = 0
        /\ dsprog'[b].pc = "idle" /\ ~Has(b, s)' /\ client'[b].n = client[b].n
    <3>1. Idle.pc = "idle"
      BY SMTT(60) DEF Idle
    <3> QED BY <3>1, <2>w, <2>v, <1>f, <1>a1
  <2>q. PICK n \in Nat : n = Len(crx[b]) /\ n > 0 /\ crx[b] \in Seq(Parts)
    <3>1. crx[b] \in Seq(Parts)
      BY <1>i DEF TypeOK
    <3>2. Len(crx[b]) > 0
      BY <3>1, <2>w, TailFacts
    <3>3. Len(crx[b]) \in Nat
      BY <3>1, EmptyFacts
    <3> QED BY <3>1, <3>2, <3>3
  <2>x. /\ crx'[b] # <<>> /\ Len(crx'[b]) = n + 1 /\ crx'[b][n + 1] = m
        /\ \A i \in 1..n : crx'[b][i] = crx[b][i]
        /\ \A i \in 1..Len(crx'[b]) : i \in 1..n \/ i = n + 1
    <3>1. crx'[b] = Append(crx[b], m) BY <1>8, <1>x, <1>i DEF TypeOK
    <3> QED BY <3>1, <2>q, AppendFacts, SMTT(60)
  <2>k. /\ n + left = len + 1 /\ m.k = n /\ n + 1 <= len + 1
        /\ left # 1 => (n + 1) + (left - 1) = len + 1
    <3>1. n + left = len + 1 BY <2>w, <2>q
    <3>2. m.k = len - left + 1 BY <1>h, <1>m
    <3> QED BY <3>1, <3>2, <1>k, SMTT(60)
  <2>o. crx'[b][1] = crx[b][1] /\ 1 \in 1..n BY <2>q, <2>x, SMTT(60)
  <2>1. ASSUME NEW l \in Locals PROVE PlaceAt(b, l)'
    <3>1. CASE l = s
      <4> SUFFICES ASSUME Serves(s, b)' PROVE PlaceAt(b, s)'
        BY <2>f, <3>1 DEF PlaceAt, At
      <4>1. left # 1 /\ server'[s] = server[s] BY <1>a1, <1>c2
      <4>2. \A i \in 1..Len(inbox'[s]) : inbox'[s][i].c # b
        BY <2>f DEF Has
      <4>3. server'[s].left = len /\ usverdict'[s].left = left - 1 /\ server'[s].n = client'[b].n
        BY <4>1, <1>c, <1>k, <2>w, <2>f
      <4>4. /\ crx'[b] # <<>> /\ crx'[b][1].len = server'[s].left
            /\ Len(crx'[b]) + usverdict'[s].left = server'[s].left + 1
        BY <4>1, <4>3, <2>x, <2>k, <2>o, <2>w
      <4> QED BY <4>1, <4>2, <4>3, <4>4, <2>f, <1>s, SMTT(60) DEF PlaceAt
    <3>2. CASE l # s
      <4>1. ~At(b, l) BY <2>p, <2>s, <3>2 DEF PlaceInv
      <4>2. ~At(b, l)' BY <4>1, <1>a1
      <4> QED BY <4>2 DEF PlaceAt
    <3> QED BY <3>1, <3>2
  <2>2. \A j, l \in Locals : At(b, j)' /\ At(b, l)' => j = l
    BY <2>p, <1>a1 DEF PlaceInv
  <2>3. PlaceElse(b)'
    BY <2>f, SMTT(60) DEF PlaceElse
  <2>4. Received(b)'
    <3>1. Received(b) BY <2>p DEF PlaceInv
    <3>2. m.c = b /\ m.n = client'[b].n /\ m.k = n /\ m.len = len
      BY <1>h, <1>m, <2>w, <2>f, <2>k
    <3>3. Len(crx'[b]) <= crx'[b][1].len + 1 BY <2>x, <2>o, <2>k, <2>w
    <3>4. ASSUME NEW i \in 1..n
          PROVE /\ crx'[b][i].c = b /\ crx'[b][i].n = client'[b].n
                /\ crx'[b][i].k = i - 1 /\ crx'[b][i].len = crx'[b][1].len
      <4>1. crx'[b][i] = crx[b][i] /\ i \in 1..Len(crx[b]) BY <2>q, <2>x
      <4>2. /\ crx[b][i].c = b /\ crx[b][i].n = client[b].n
            /\ crx[b][i].k = i - 1 /\ crx[b][i].len = crx[b][1].len
        BY <3>1, <4>1 DEF Received
      <4> QED BY <4>1, <4>2, <2>o, <2>f
    <3>5. /\ crx'[b][n + 1].c = b /\ crx'[b][n + 1].n = client'[b].n
          /\ crx'[b][n + 1].k = (n + 1) - 1 /\ crx'[b][n + 1].len = crx'[b][1].len
      BY <3>2, <2>x, <2>o, <2>w, AndBack
    <3>6. \A i \in 1..Len(crx'[b]) :
              /\ crx'[b][i].c = b /\ crx'[b][i].n = client'[b].n
              /\ crx'[b][i].k = i - 1 /\ crx'[b][i].len = crx'[b][1].len
      BY <3>4, <3>5, <2>x
    <3> QED BY <3>3, <3>6, <2>f DEF Received
  <2> QED BY <2>1, <2>2, <2>3, <2>4 DEF PlaceInv
<1>9. InvPlaces'
  <2> SUFFICES ASSUME NEW d \in Clients, client'[d].st # "closed" PROVE PlaceInv(d)'
    BY DEF InvPlaces
  <2> QED BY <1>7, <1>8, <1>f
<1> QED
  BY <1>i, <1>f, <1>1, <1>2, <1>3, <1>4, <1>5, <1>6, <1>9, FrameSockets, FrameTasks, FrameProgs,
     FrameQueues, FrameBuffer, FrameVerdicts, FrameTokens DEF IInv

(* A server closes a connection: the socket leaves the map with all it held; *)
(* routes, queues and programs may still name it.                            *)
LEMMA ServerCloseInv == ASSUME IInv, NEW s \in Locals, ServerClose(s) PROVE IInv'
<1>i. /\ TypeOK /\ InvSockets /\ InvTasks /\ InvServers /\ InvProgs /\ InvQueues /\ InvLeases
      /\ InvInbox /\ InvRest /\ InvBuffer /\ InvRoutes /\ InvPlaces
      /\ InvVerdicts /\ InvTokens
  BY DEF IInv
<1>f. /\ UNCHANGED <<sock_map_wait_list, fib_upstream, fib_downstream, utrn_wait_list,
                     dsprog, dsverdict, usprog, client, crx, dsin, task, peer>>
      /\ conn[s] = "open" /\ usprog[s] = Idle
      /\ conn' = [conn EXCEPT ![s] = "closed"]
      /\ msg_sock_map' = msg_sock_map \ {UsKey(s)}
      /\ lost' = lost \cup Carried(s)
      /\ inbox' = [inbox EXCEPT ![s] = <<>>]
      /\ server' = [server EXCEPT ![s] = NoRequest]
      /\ usverdict' = [usverdict EXCEPT ![s] = NoVerdict]
  BY DEF ServerClose, dsrun
<1>e. peer[s] \in Upstreams /\ UsKey(s) \in UsKeys
  BY <1>i, <1>f DEF InvSockets, ServerSocket, UsKey, UsKeys
<1>c. /\ conn'[s] = "closed" /\ inbox'[s] = <<>> /\ server'[s] = NoRequest /\ server'[s].st = "idle"
      /\ usprog'[s] = Idle /\ usprog'[s].pc = "idle"
  BY <1>i, <1>f, SMTT(60) DEF TypeOK, NoRequest, Idle
<1>l. \A l \in Locals \ {s} : /\ server'[l] = server[l] /\ usverdict'[l] = usverdict[l]
                              /\ inbox'[l] = inbox[l] /\ conn'[l] = conn[l]
  BY <1>i, <1>f DEF TypeOK
<1>n. \A d \in Clients : ~Has(d, s)' /\ ~Serves(s, d)' /\ ~At(d, s)'
  <2>1. ASSUME NEW d \in Clients PROVE ~Has(d, s)' BY <1>c, SMTT(60) DEF Has
  <2>2. ASSUME NEW d \in Clients PROVE ~Serves(s, d)' BY <1>c DEF Serves
  <2> QED BY <2>1, <2>2 DEF At
<1>a1. ASSUME NEW d \in Clients, NEW l \in Locals
       PROVE  /\ Holds(d, l)' <=> Holds(d, l)
              /\ Opens(d, l)' <=> Opens(d, l)
              /\ Queued(l)' <=> Queued(l)
              /\ Route(l, d)' <=> Route(l, d)
              /\ Has(d, l)' => Has(d, l) /\ l # s
              /\ Serves(l, d)' => Serves(l, d) /\ l # s
              /\ At(d, l)' => At(d, l) /\ l # s
              /\ l # s => /\ Has(d, l)' <=> Has(d, l)
                          /\ Serves(l, d)' <=> Serves(l, d)
                          /\ At(d, l)' <=> At(d, l)
  <2>1. l # s => (Has(d, l)' <=> Has(d, l)) BY <1>l DEF Has
  <2>2. l # s => (Serves(l, d)' <=> Serves(l, d)) BY <1>l DEF Serves
  <2>3. l # s => (At(d, l)' <=> At(d, l)) BY <2>1, <2>2 DEF At
  <2>4. /\ Holds(d, l)' <=> Holds(d, l)
        /\ Opens(d, l)' <=> Opens(d, l)
        /\ Queued(l)' <=> Queued(l)
        /\ Route(l, d)' <=> Route(l, d)
    BY <1>f DEF Holds, UsKey, Opens, Busy, Queued, Route, DsKey
  <2> QED BY <2>1, <2>2, <2>3, <2>4, <1>n
<1>a2. \A l \in Locals : Unanswered(l)' <=> Unanswered(l) /\ l # s
  BY <1>c, <1>l, <1>f DEF Unanswered
<1>1. TypeOK'
  <2>1. server' \in [Locals -> Server]
    <3>1. 0 \in 0..MaxReqs /\ 0 \in 0..MaxBody BY BoundAssumption, SMTT(60)
    <3>2. NoRequest \in Server BY <3>1 DEF Server, NoRequest
    <3> QED BY <3>2, <1>i, <1>f DEF TypeOK
  <2>2. usverdict' \in [Locals -> UsVerdict]
    <3>1. 0 \in 0..MaxBody BY BoundAssumption, SMTT(60)
    <3>2. NoVerdict \in UsVerdict BY <3>1 DEF UsVerdict, NoVerdict
    <3> QED BY <3>2, <1>f, <1>i DEF TypeOK
  <2>3. Carried(s) \subseteq Clients
    <3>1. \A i \in 1..Len(inbox[s]) : inbox[s][i] \in Parts
      BY <1>i, SMTT(60) DEF TypeOK
    <3>2. server[s].st # "idle" => server[s].c \in Clients
      BY <1>i DEF InvServers, ServerInv
    <3> QED BY <3>1, <3>2 DEF Carried, Parts
  <2>4. inbox' \in [Locals -> Seq(Parts)]
    BY <1>i, <1>f, SMTT(60) DEF TypeOK
  <2>5. lost' \subseteq Clients /\ msg_sock_map' \subseteq DsKeys \cup UsKeys
    BY <2>3, <1>i, <1>f DEF TypeOK
  <2>6. conn' \in [Locals -> {"free", "bound", "est", "open", "closed"}]
    BY <1>i, <1>f DEF TypeOK
  <2> QED BY <2>1, <2>2, <2>4, <2>5, <2>6, <1>i, <1>f DEF TypeOK
<1>s. InvSockets'
  <2>1. ASSUME NEW d \in Clients PROVE ClientSocket(d)'
    <3>1. DsKey(d) # UsKey(s)
      BY AddrAssumption, <1>e DEF DsKey, UsKey
    <3> QED BY <3>1, <1>i, <1>f DEF InvSockets, ClientSocket, DsKey
  <2>2. ASSUME NEW l \in Locals PROVE ServerSocket(l)'
    <3>1. ServerSocket(l) BY <1>i DEF InvSockets
    <3>2. UsKey(l)' = UsKey(l) BY <1>f DEF UsKey
    <3>3. CASE l = s
      BY <3>1, <3>2, <3>3, <1>f, <1>c DEF ServerSocket, UsKey
    <3>4. CASE l # s
      BY <3>1, <3>2, <3>4, <1>f, <1>l DEF ServerSocket, UsKey
    <3> QED BY <3>3, <3>4
  <2> QED BY <2>1, <2>2 DEF InvSockets
<1>k. InvTasks'
  <2>1. ASSUME NEW d \in Clients PROVE TaskInv(d)'
    <3>1. TaskInv(d) BY <1>i DEF InvTasks
    <3>2. Busy(d)' <=> Busy(d) BY <1>f DEF Busy
    <3>3. Busy(d) => task[d].l \in Locals BY <3>1 DEF TaskInv
    <3> QED BY AddrAssumption, <3>1, <3>2, <3>3, <1>c, <1>l, <1>f, SMTT(60) DEF TaskInv, DsKey, Whole, Busy
  <2> QED BY <2>1, <1>a1, <1>i DEF InvTasks
<1>2. InvServers'
  <2> SUFFICES ASSUME NEW l \in Locals PROVE ServerInv(l)'
    BY DEF InvServers
  <2>1. ServerInv(l) BY <1>i DEF InvServers
  <2>2. CASE l = s
    BY <2>1, <2>2, <1>c, <1>f DEF ServerInv
  <2>3. CASE l # s
    BY <2>1, <2>3, <1>l, <1>f DEF ServerInv
  <2> QED BY <2>2, <2>3
<1>p. InvProgs'
  <2> SUFFICES ASSUME NEW d \in Clients PROVE ProgInv(d)' /\ ClientInv(d)'
    BY DEF InvProgs
  <2>1. ProgInv(d) /\ ClientInv(d) BY <1>i DEF InvProgs
  <2>2. \A l \in Locals : conn[l] \in {"open", "closed"} => conn'[l] \in {"open", "closed"}
    BY <1>c, <1>l
  <2>3. ClientInv(d)' BY <2>1, <1>f DEF ClientInv, Busy
  <2>4. ProgInv(d)' BY <2>1, <2>2, <1>a1, <1>f DEF ProgInv
  <2> QED BY <2>3, <2>4
<1>q. InvQueues'
  <2> SUFFICES ASSUME NEW u \in Upstreams PROVE QueueInv(u)'
    BY DEF InvQueues
  <2>1. QueueInv(u) BY <1>i DEF InvQueues
  <2>2. \A l \in Locals : conn[l] \in {"open", "closed"} => conn'[l] \in {"open", "closed"}
    BY <1>c, <1>l
  <2>3. fib_upstream' = fib_upstream /\ peer' = peer BY <1>f
  <2> QED BY <2>1, <2>2, <2>3 DEF QueueInv
<1>3. InvLeases'
  <2> SUFFICES ASSUME NEW l \in Locals PROVE LeaseInv(l)'
    BY DEF InvLeases
  <2>1. LeaseInv(l) BY <1>i DEF InvLeases
  <2>2. CASE l = s
    BY <2>1, <2>2, <1>a1, <1>a2, <1>c, <1>f DEF LeaseInv
  <2>3. CASE l # s
    <3>1. server'[l] = server[l] /\ inbox'[l] = inbox[l] /\ (Unanswered(l)' <=> Unanswered(l))
      BY <2>3, <1>l, <1>a2
    <3>2. /\ Queued(l)' <=> Queued(l)
          /\ \A d \in Clients : (Holds(d, l)' <=> Holds(d, l)) /\ (Opens(d, l)' <=> Opens(d, l))
      BY <1>a1, <1>f DEF Queued
    <3> QED BY <2>1, <3>1, <3>2 DEF LeaseInv
  <2> QED BY <2>2, <2>3
<1>4. InvInbox'
  <2> SUFFICES ASSUME NEW l \in Locals PROVE InboxInv(l)'
    BY DEF InvInbox
  <2>1. InboxInv(l) BY <1>i DEF InvInbox
  <2>2. CASE l = s
    BY <2>2, <1>c DEF InboxInv
  <2>3. CASE l # s
    <3>1. server'[l] = server[l] /\ inbox'[l] = inbox[l] /\ (Unanswered(l)' <=> Unanswered(l))
      BY <2>3, <1>l, <1>a2
    <3> QED BY <2>1, <3>1 DEF InboxInv
  <2> QED BY <2>2, <2>3
<1>5. InvRest'
  <2>1. ASSUME NEW d \in Clients, NEW l \in Locals, l # s, RestAt(d, l) PROVE RestAt(d, l)'
    BY <2>1, <1>l, <1>f DEF RestAt
  <2>2. ASSUME NEW d \in Clients, RestInBuffer(d) PROVE RestInBuffer(d)'
    BY <2>2, <1>f DEF RestInBuffer
  <2> QED BY AddrAssumption, <2>1, <2>2, <1>i, <1>f, <1>c, <1>l, SMTT(60) DEF InvRest
<1>6. InvRoutes'
  <2>1. ASSUME NEW l \in Locals PROVE AnswerInv(l)'
    <3>1. AnswerInv(l) BY <1>i DEF InvRoutes
    <3>2. CASE l = s
      BY <3>2, <1>c DEF AnswerInv
    <3>3. CASE l # s
      BY <3>1, <3>3, <1>f, <1>l DEF AnswerInv
    <3> QED BY <3>2, <3>3
  <2>2. ASSUME NEW l \in Locals, NEW d \in Clients PROVE RouteInv(d, l)'
    <3>1. RouteInv(d, l) /\ DsKey(d)' = DsKey(d)
      BY <1>i DEF InvRoutes, DsKey
    <3>2. CASE l = s
      BY <3>1, <3>2, <1>a1, <1>f, <1>c DEF RouteInv
    <3>3. CASE l # s
      BY <3>1, <3>3, <1>a1, <1>l, <1>f DEF RouteInv
    <3> QED BY <3>2, <3>3
  <2> QED BY <2>1, <2>2 DEF InvRoutes
<1>7. InvPlaces'
  <2> SUFFICES ASSUME NEW d \in Clients, client'[d].st # "closed" PROVE PlaceInv(d)'
    BY DEF InvPlaces
  <2>p. PlaceInv(d)
    BY <1>f, <1>i DEF InvPlaces
  <2>1. ASSUME NEW l \in Locals PROVE PlaceAt(d, l)'
    <3>p. PlaceAt(d, l)
      BY <2>p DEF PlaceInv
    <3>1. CASE l = s
      BY <3>1, <1>n DEF PlaceAt
    <3>2. CASE l # s
      <4>1. /\ server'[l] = server[l] /\ inbox'[l] = inbox[l] /\ usverdict'[l] = usverdict[l]
            /\ At(d, l)' <=> At(d, l)
            /\ Has(d, l)' <=> Has(d, l)
            /\ Serves(l, d)' <=> Serves(l, d)
        BY <3>2, <1>a1, <1>l
      <4>2. client' = client /\ dsprog' = dsprog /\ dsin' = dsin /\ crx' = crx /\ dsverdict' = dsverdict
        BY <1>f
      <4> QED BY <3>p, <4>1, <4>2 DEF PlaceAt
    <3> QED BY <3>1, <3>2
  <2>2. \A j, l \in Locals : At(d, j)' /\ At(d, l)' => j = l
    BY <2>p, <1>a1 DEF PlaceInv
  <2> QED BY <2>1, <2>2, <2>p, <1>f DEF PlaceInv, PlaceElse, Received
<1>v. InvVerdicts'
  BY <1>i, <1>f, <1>c, <1>l DEF InvVerdicts
<1> QED
  BY <1>i, <1>f, <1>1, <1>s, <1>k, <1>2, <1>p, <1>q, <1>3, <1>4, <1>5, <1>6, <1>7, FrameBuffer, <1>v, FrameTokens DEF IInv

-----------------------------------------------------------------------------
(* The steps of the control plane. *)

(* A client whose whole request is in the buffer of its task has sent all of *)
(* it.                                                                       *)
LEMMA WholeSent ==
  ASSUME IInv, NEW c \in Clients, Whole(dsin[c]) PROVE dsverdict[c].left = 0
<1>i. /\ TypeOK /\ InvSockets /\ InvTasks /\ InvServers /\ InvProgs /\ InvQueues /\ InvLeases
      /\ InvInbox /\ InvRest /\ InvBuffer /\ InvRoutes /\ InvPlaces
      /\ InvVerdicts /\ InvTokens
  BY DEF IInv
<1>1. dsverdict[c].left \in Nat /\ dsin[c] \in Seq(Parts)
  BY <1>i, SMTT(60) DEF TypeOK, DsVerdict
<1> SUFFICES ASSUME dsverdict[c].left > 0 PROVE FALSE
  BY <1>1, SMTT(60)
<1>2. dsin[c] # <<>> /\ Len(dsin[c]) = dsin[c][1].len + 1
  BY DEF Whole
<1>3. client[c].st = "waiting"
  BY <1>i DEF InvProgs, ClientInv
<1>4. PlaceElse(c)
  BY <1>3, <1>i DEF InvPlaces, PlaceInv
<1>5. RestInBuffer(c)
  BY <1>2, <1>4, <1>i DEF PlaceElse, InvRest
<1>6. Len(dsin[c]) + dsverdict[c].left = dsin[c][1].len + 1 /\ Len(dsin[c]) \in Nat
  BY <1>5, <1>1, EmptyFacts DEF RestInBuffer
<1> QED BY <1>1, <1>2, <1>6, SMTT(60)

(* A step that answers the request in buf with send_error, gives up the      *)
(* socket it was to be written to, and may take the request's token.         *)
ErrorStep(c) ==
  /\ SendError(c)
  /\ Whole(dsin[c])
  /\ task[c].pc \in {"read", "connect", "write"}
  /\ UNCHANGED <<msg_sock_map, sock_map_wait_list, fib_upstream, fib_downstream, dsprog, dsverdict,
                 usprog, usverdict, client, peer, inbox, server, lost>>
  /\ conn' \in [Locals -> {"free", "bound", "est", "open", "closed"}]
  /\ \A l \in Locals : conn'[l] = conn[l] \/ (task[c].pc = "connect" /\ Opens(c, l) /\ conn'[l] = "free")
  /\ utrn_wait_list' \in [HostKeys \cup UsKeys -> Upstreams \cup Locals \cup {NoAddr}]
  /\ \A k \in HostKeys : utrn_wait_list'[k] \in Upstreams \cup {NoAddr}
  /\ InvTokens'

(* send_error answers the request in buf, which is nowhere else, and gives   *)
(* up the connection it was to be written to.                                *)
LEMMA SendErrorInv == ASSUME IInv, NEW c \in Clients, ErrorStep(c) PROVE IInv'
<1>i. /\ TypeOK /\ InvSockets /\ InvTasks /\ InvServers /\ InvProgs /\ InvQueues /\ InvLeases
      /\ InvInbox /\ InvRest /\ InvBuffer /\ InvRoutes /\ InvPlaces
      /\ InvVerdicts /\ InvTokens
  BY DEF IInv
<1> DEFINE err == Part(c, dsin[c][1].n, 0, 0, FALSE)
<1>f. /\ UNCHANGED <<msg_sock_map, sock_map_wait_list, fib_upstream, fib_downstream, dsprog, dsverdict,
                     usprog, usverdict, client, peer, inbox, server, lost>>
      /\ task[c].pc \in {"read", "connect", "write"}
      /\ crx' = IF client[c].st = "closed" THEN crx ELSE [crx EXCEPT ![c] = Append(@, err)]
      /\ dsin' = [dsin EXCEPT ![c] = <<>>]
      /\ task' = [task EXCEPT ![c] = Reading]
  BY DEF ErrorStep, SendError
<1>n. \A l \in Locals : conn'[l] = conn[l] \/ (task[c].pc = "connect" /\ Opens(c, l) /\ conn'[l] = "free")
  BY DEF ErrorStep
<1>v. dsverdict[c].left = 0 /\ dsin[c] # <<>> /\ dsin[c] \in Seq(Parts) /\ dsin[c][1] \in Parts
  BY <1>i, WholeSent, TailFacts DEF ErrorStep, Whole, TypeOK
<1>h. err \in Parts /\ err.c = c /\ err.n = dsin[c][1].n /\ err.k = 0 /\ err.len = 0
  <2>1. 0 \in 0..MaxBody /\ dsin[c][1].n \in 1..MaxReqs BY <1>v, BoundAssumption, SMTT(60) DEF Parts
  <2> QED BY <2>1 DEF Part, Parts
<1>m. PICK m \in Parts : m = err
  BY <1>h
<1> HIDE DEF err
<1>c. dsin'[c] = <<>> /\ task'[c] = Reading /\ task'[c].pc = "read"
  BY <1>i, <1>f DEF TypeOK, Reading
<1>d. \A d \in Clients \ {c} : dsin'[d] = dsin[d] /\ task'[d] = task[d] /\ crx'[d] = crx[d]
  BY <1>i, <1>f DEF TypeOK
<1>b. \A d \in Clients : Busy(d)' <=> Busy(d) /\ d # c
  BY <1>c, <1>d DEF Busy
<1>a1. ASSUME NEW d \in Clients, NEW l \in Locals
       PROVE  /\ Holds(d, l)' <=> Holds(d, l)
              /\ Opens(d, l)' <=> Opens(d, l) /\ d # c
              /\ Queued(l)' <=> Queued(l)
              /\ Unanswered(l)' <=> Unanswered(l)
              /\ Has(d, l)' <=> Has(d, l)
              /\ Route(l, d)' <=> Route(l, d)
              /\ Serves(l, d)' <=> Serves(l, d)
              /\ At(d, l)' <=> At(d, l)
  <2>1. Opens(d, l)' <=> Opens(d, l) /\ d # c
    BY <1>b, <1>c, <1>d DEF Opens
  <2> QED BY <2>1, <1>f DEF Holds, UsKey, Queued, Unanswered, Has, Route, DsKey, Serves, At
<1>e. \A l \in Locals : conn'[l] # conn[l] => conn[l] = "bound" /\ conn'[l] = "free" /\ Opens(c, l)
  <2> SUFFICES ASSUME NEW l \in Locals, conn'[l] # conn[l]
               PROVE  conn[l] = "bound" /\ conn'[l] = "free" /\ Opens(c, l)
    OBVIOUS
  <2>1. task[c].pc = "connect" /\ Opens(c, l) /\ conn'[l] = "free" BY <1>n
  <2>2. TaskInv(c) BY <1>i DEF InvTasks
  <2> QED BY <2>1, <2>2 DEF TaskInv, Opens
<1>1. TypeOK'
  <2>1. crx' \in [Clients -> Seq(Parts)]
    <3>1. crx \in [Clients -> Seq(Parts)] /\ crx[c] \in Seq(Parts) BY <1>i DEF TypeOK
    <3>2. Append(crx[c], err) \in Seq(Parts) BY <3>1, <1>h, AppendFacts
    <3> QED BY <3>1, <3>2, <1>f
  <2>2. dsin' \in [Clients -> Seq(Parts)] BY <1>i, <1>f, SMTT(60) DEF TypeOK
  <2>3. task' \in [Clients -> TaskState] BY <1>i, <1>f DEF TypeOK, TaskState, Reading
  <2>4. /\ conn' \in [Locals -> {"free", "bound", "est", "open", "closed"}]
        /\ utrn_wait_list' \in [HostKeys \cup UsKeys -> Upstreams \cup Locals \cup {NoAddr}]
        /\ \A k \in HostKeys : utrn_wait_list'[k] \in Upstreams \cup {NoAddr}
    BY DEF ErrorStep
  <2> QED BY <2>1, <2>2, <2>3, <2>4, <1>i, <1>f DEF TypeOK
<1>2. InvSockets'
  <2>1. ASSUME NEW d \in Clients PROVE ClientSocket(d)'
    <3>1. ClientSocket(d) BY <1>i DEF InvSockets
    <3> QED BY <3>1, <1>f DEF ClientSocket, DsKey
  <2>2. ASSUME NEW l \in Locals PROVE ServerSocket(l)'
    <3>1. ServerSocket(l) BY <1>i DEF InvSockets
    <3>2. UsKey(l)' = UsKey(l) BY <1>f DEF UsKey
    <3> QED BY <3>1, <3>2, <1>e, <1>f DEF ServerSocket
  <2> QED BY <2>1, <2>2 DEF InvSockets
<1>3. InvTasks'
  <2>1. ASSUME NEW d \in Clients PROVE TaskInv(d)'
    <3>1. TaskInv(d) BY <1>i DEF InvTasks
    <3>2. CASE d = c
      BY <3>2, <1>b, <1>c DEF TaskInv
    <3>3. CASE d # c
      <4>1. /\ task'[d] = task[d] /\ dsin'[d] = dsin[d] /\ dsverdict' = dsverdict
            /\ DsKey(d)' = DsKey(d)
        BY <3>3, <1>d, <1>f DEF DsKey
      <4>2. Busy(d) => task[d].l \in Locals /\ Opens(d, task[d].l) BY <3>1 DEF TaskInv, Opens
      <4>3. Busy(d) => conn'[task[d].l] = conn[task[d].l]
        BY <4>2, <3>3, <1>e, <1>i DEF InvTasks
      <4>4. Whole(dsin[d])' <=> Whole(dsin[d]) BY <4>1 DEF Whole
      <4> QED BY <3>1, <3>3, <4>1, <4>2, <4>3, <4>4, <1>b DEF TaskInv, Busy
    <3> QED BY <3>2, <3>3
  <2> QED BY <2>1, <1>a1, <1>i DEF InvTasks
<1>4. InvServers'
  <2> SUFFICES ASSUME NEW l \in Locals PROVE ServerInv(l)'
    BY DEF InvServers
  <2>1. ServerInv(l) BY <1>i DEF InvServers
  <2>2. server' = server /\ inbox' = inbox /\ usprog' = usprog /\ usverdict' = usverdict BY <1>f
  <2> QED BY <2>1, <2>2, <1>e DEF ServerInv
<1>5. InvProgs'
  <2> SUFFICES ASSUME NEW d \in Clients PROVE ProgInv(d)' /\ ClientInv(d)'
    BY DEF InvProgs
  <2>1. ProgInv(d) /\ ClientInv(d) BY <1>i DEF InvProgs
  <2>2. client' = client /\ dsprog' = dsprog /\ dsverdict' = dsverdict BY <1>f
  <2>3. dsin[d] = <<>> => dsin'[d] = <<>> BY <1>c, <1>d
  <2>4. ClientInv(d)' BY <2>1, <2>2, <2>3, <1>b DEF ClientInv
  <2>5. \A l \in Locals : conn[l] \in {"open", "closed"} => conn'[l] \in {"open", "closed"} BY <1>e
  <2>6. ProgInv(d)' BY <2>1, <2>2, <2>3, <2>5, <1>a1 DEF ProgInv
  <2> QED BY <2>4, <2>6
<1>6. InvQueues'
  <2> SUFFICES ASSUME NEW u \in Upstreams PROVE QueueInv(u)'
    BY DEF InvQueues
  <2>1. QueueInv(u) BY <1>i DEF InvQueues
  <2>2. \A l \in Locals : conn[l] \in {"open", "closed"} => conn'[l] \in {"open", "closed"} BY <1>e
  <2>3. fib_upstream' = fib_upstream /\ peer' = peer BY <1>f
  <2> QED BY <2>1, <2>2, <2>3 DEF QueueInv
<1>7. InvLeases'
  <2> SUFFICES ASSUME NEW l \in Locals PROVE LeaseInv(l)'
    BY DEF InvLeases
  <2>1. LeaseInv(l) BY <1>i DEF InvLeases
  <2>2. server' = server /\ inbox' = inbox BY <1>f
  <2>3. /\ Queued(l)' <=> Queued(l)
        /\ Unanswered(l)' <=> Unanswered(l)
    BY <1>f DEF Queued, Unanswered
  <2> QED BY <2>1, <2>2, <2>3, <1>a1 DEF LeaseInv
<1>8. InvRest'
  <2>1. client' = client /\ dsverdict' = dsverdict /\ inbox' = inbox /\ server' = server
    BY <1>f
  <2>2. \A l \in Locals : conn'[l] = "open" => conn[l] = "open" BY <1>e
  <2> SUFFICES ASSUME NEW d \in Clients, dsverdict[d].left > 0
               PROVE  /\ \A l \in Locals : dsverdict[d].to = l /\ conn'[l] = "open" => RestAt(d, l)'
                      /\ dsverdict[d].to = Proxy => RestInBuffer(d)'
    BY <2>1 DEF InvRest
  <2>3. d # c
    <3>1. 0 > 0 <=> FALSE BY SMTT(60)
    <3> QED BY <3>1, <1>v
  <2>4. /\ \A l \in Locals : dsverdict[d].to = l /\ conn[l] = "open" => RestAt(d, l)
        /\ dsverdict[d].to = Proxy => RestInBuffer(d)
    BY <1>i DEF InvRest
  <2>5. dsin'[d] = dsin[d] BY <2>3, <1>d
  <2>6. \A l \in Locals : RestAt(d, l) => RestAt(d, l)' BY <2>1, SameRest
  <2>7. RestInBuffer(d) => RestInBuffer(d)' BY <2>1, <2>5, SameBuffer
  <2> QED BY <2>2, <2>4, <2>6, <2>7
<1>9. InvBuffer'
  <2> SUFFICES ASSUME NEW d \in Clients PROVE BufferInv(d)'
    BY DEF InvBuffer
  <2>1. BufferInv(d) BY <1>i DEF InvBuffer
  <2>2. CASE d = c
    <3>1. dsin'[d] = <<>> /\ Len(<<>>) = 0 /\ 1..0 = {} BY <2>2, <1>c, SMTT(60)
    <3> QED BY <3>1 DEF BufferInv
  <2>3. CASE d # c
    <3>1. dsin'[d] = dsin[d] BY <2>3, <1>d
    <3> QED BY <2>1, <3>1 DEF BufferInv
  <2> QED BY <2>2, <2>3
<1>10. InvRoutes'
  <2>1. ASSUME NEW l \in Locals PROVE AnswerInv(l)'
    BY <1>i, <1>f DEF InvRoutes, AnswerInv
  <2>2. ASSUME NEW l \in Locals, NEW d \in Clients PROVE RouteInv(d, l)'
    <3>1. RouteInv(d, l) /\ DsKey(d)' = DsKey(d) BY <1>i DEF InvRoutes, DsKey
    <3>2. task'[d].pc = "write" => task'[d] = task[d] BY <1>c, <1>d
    <3> QED BY <3>1, <3>2, <1>a1, <1>f DEF RouteInv
  <2> QED BY <2>1, <2>2 DEF InvRoutes
<1>11. InvPlaces'
  <2> SUFFICES ASSUME NEW d \in Clients, client'[d].st # "closed" PROVE PlaceInv(d)'
    BY DEF InvPlaces
  <2>p. PlaceInv(d) BY <1>f, <1>i DEF InvPlaces
  <2>1. CASE d = c
    <3>1. /\ \A l \in Locals : ~At(c, l)
          /\ client[c].st = "waiting" /\ crx[c] = <<>> /\ dsin[c][1].n = client[c].n
      BY <2>p, <2>1, <1>v DEF PlaceInv, PlaceAt, PlaceElse
    <3>2. crx'[c] = Append(<<>>, m)
      BY <3>1, <1>f, <1>m, <1>i DEF TypeOK
    <3>3. crx'[c] # <<>> /\ Len(crx'[c]) = 1 /\ crx'[c][1] = m
      BY <3>2, SMTT(60)
    <3>4. /\ client'[c].st = "waiting" /\ dsin'[c] = <<>> /\ dsverdict'[c].left = 0
          /\ m.c = c /\ m.n = client'[c].n /\ m.k = 0 /\ m.len = 0
      BY <3>1, <1>c, <1>v, <1>f, <1>m, <1>h
    <3>5. dsprog'[c].pc = "idle"
      <4>1. ProgInv(c) BY <1>i DEF InvProgs
      <4> QED BY <4>1, <1>v, <1>f DEF ProgInv
    <3>6. \A l \in Locals : ~At(c, l)' BY <3>1, <1>a1
    <3>7. \A l \in Locals : PlaceAt(c, l)' BY <3>6 DEF PlaceAt
    <3>8. PlaceElse(c)' BY <3>4, <3>5, SMTT(60) DEF PlaceElse
    <3>9. \A i \in 1..1 : i = 1 BY SMTT(60)
    <3>10. /\ client'[c].st = "waiting" /\ Len(crx'[c]) <= crx'[c][1].len + 1
           /\ \A i \in 1..Len(crx'[c]) : i = 1
      BY <3>3, <3>4, <3>9, SMTT(60)
    <3>11. /\ crx'[c][1].c = c /\ crx'[c][1].n = client'[c].n /\ crx'[c][1].k = 1 - 1
      BY <3>3, <3>4, SMTT(60)
    <3>12. Received(c)' BY <3>10, <3>11 DEF Received
    <3> QED BY <2>1, <3>6, <3>7, <3>8, <3>12 DEF PlaceInv
  <2>2. CASE d # c
    BY <2>p, <2>2, <1>f, <1>d, SamePlace
  <2> QED BY <2>1, <2>2
<1>12. InvVerdicts'
  <2>1. dsverdict' = dsverdict BY <1>f
  <2>2. \A l \in Locals : conn[l] \in {"open", "closed"} => conn'[l] \in {"open", "closed"} BY <1>e
  <2>3. InvVerdicts BY <1>i
  <2> QED BY <2>1, <2>2, <2>3 DEF InvVerdicts
<1>13. InvTokens'
  BY DEF ErrorStep
<1>14. InvInbox'
  <2>1. UNCHANGED <<server, inbox, usprog>> BY <1>f
  <2> QED BY <2>1, <1>i, FrameInbox
<1> QED
  BY <1>1, <1>2, <1>3, <1>4, <1>5, <1>6, <1>7, <1>8, <1>9, <1>10, <1>11, <1>12, <1>13, <1>14 DEF IInv

(* The token a task finds, under the client's address or under the           *)
(* gateway's, is the token of its own client.                                *)
LEMMA TokenFacts ==
  ASSUME IInv, NEW c \in Clients
  PROVE  /\ TokenKey(c) \in HostKeys
         /\ TokenDest(c) \in Upstreams \cup {NoAddr}
         /\ TokenDest(c) # NoAddr => TokenKey(c) = DsKey(c) /\ TokenDest(c) \in Upstreams
<1>i. /\ TypeOK /\ InvSockets /\ InvTasks /\ InvServers /\ InvProgs /\ InvQueues /\ InvLeases
      /\ InvInbox /\ InvRest /\ InvBuffer /\ InvRoutes /\ InvPlaces
      /\ InvVerdicts /\ InvTokens
  BY DEF IInv
<1>1. Seen[c] \in Hosts /\ Gw[c] \in Hosts /\ Gw[c] \in NatAddrs \cup {c} /\ Seen[c] \in NatAddrs \cup {c}
  BY NatAssumption
<1>2. <<Seen[c], Proxy>> \in HostKeys /\ <<Gw[c], Proxy>> \in HostKeys
  BY <1>1 DEF HostKeys
<1>3. \A k \in HostKeys : utrn_wait_list[k] \in Upstreams \cup {NoAddr}
  BY <1>i DEF TypeOK
<1>4. TokenKey(c) \in HostKeys
  BY <1>2 DEF TokenKey
<1>5. TokenDest(c) \in Upstreams \cup {NoAddr}
  BY <1>3, <1>4 DEF TokenDest
<1>6. ASSUME TokenDest(c) # NoAddr PROVE TokenKey(c) = DsKey(c)
  <2>1. PICK s : s \in NatAddrs \cup {c} /\ TokenKey(c) = <<s, Proxy>>
    BY <1>1 DEF TokenKey
  <2>2. TokenKey(c) \in DsKeys
    BY <1>4, <1>6, <1>i DEF InvTokens, TokenDest
  <2>3. s \in Clients
    BY <2>1, <2>2, SMTT(60) DEF DsKeys
  <2>4. s = c
    BY <2>1, <2>3, AddrAssumption
  <2> QED BY <2>1, <2>4 DEF DsKey
<1> QED BY <1>4, <1>5, <1>6

(* Taking a token leaves the others.                                         *)
LEMMA TokenTaken ==
  ASSUME IInv, NEW c \in Clients,
         utrn_wait_list' = [utrn_wait_list EXCEPT ![TokenKey(c)] = NoAddr]
  PROVE  /\ utrn_wait_list' \in [HostKeys \cup UsKeys -> Upstreams \cup Locals \cup {NoAddr}]
         /\ \A k \in HostKeys : utrn_wait_list'[k] \in Upstreams \cup {NoAddr}
         /\ InvTokens'
<1>i. /\ TypeOK /\ InvSockets /\ InvTasks /\ InvServers /\ InvProgs /\ InvQueues /\ InvLeases
      /\ InvInbox /\ InvRest /\ InvBuffer /\ InvRoutes /\ InvPlaces
      /\ InvVerdicts /\ InvTokens
  BY DEF IInv
<1>1. utrn_wait_list \in [HostKeys \cup UsKeys -> Upstreams \cup Locals \cup {NoAddr}]
  BY <1>i DEF TypeOK
<1>2. PICK t \in HostKeys : t = TokenKey(c)
  BY TokenFacts
<1>3. utrn_wait_list' = [utrn_wait_list EXCEPT ![t] = NoAddr]
  BY <1>2
<1>4. \A k \in HostKeys : utrn_wait_list'[k] \in {utrn_wait_list[k], NoAddr}
  BY <1>1, <1>3
<1>5. \A k \in HostKeys : utrn_wait_list[k] \in Upstreams \cup {NoAddr}
  BY <1>i DEF TypeOK
<1>6. InvTokens
  BY <1>i
<1>7. InvTokens'
  BY <1>4, <1>6 DEF InvTokens
<1> QED BY <1>1, <1>3, <1>4, <1>5, <1>7

(* The task finds no token: it answers with a 500.                           *)
LEMMA TaskNoTokenInv == ASSUME IInv, NEW c \in Clients, TaskNoToken(c) PROVE IInv'
<1>i. /\ TypeOK /\ InvSockets /\ InvTasks /\ InvServers /\ InvProgs /\ InvQueues /\ InvLeases
      /\ InvInbox /\ InvRest /\ InvBuffer /\ InvRoutes /\ InvPlaces
      /\ InvVerdicts /\ InvTokens
  BY DEF IInv
<1>1. /\ Whole(dsin[c]) /\ task[c].pc = "read" /\ SendError(c)
      /\ UNCHANGED <<msg_sock_map, sock_map_wait_list, fib_upstream, fib_downstream, utrn_wait_list,
                     dsprog, dsverdict, usprog, usverdict, client, conn, peer, inbox, server, lost>>
  BY DEF TaskNoToken, HasRequest, maps, dsrun, usrun
<1>2. /\ conn' \in [Locals -> {"free", "bound", "est", "open", "closed"}]
      /\ utrn_wait_list' \in [HostKeys \cup UsKeys -> Upstreams \cup Locals \cup {NoAddr}]
      /\ \A k \in HostKeys : utrn_wait_list'[k] \in Upstreams \cup {NoAddr}
  BY <1>1, <1>i DEF TypeOK
<1>3. InvTokens'
  BY <1>1, <1>i DEF InvTokens
<1> QED BY <1>1, <1>2, <1>3, SendErrorInv DEF ErrorStep

(* The task takes the token but finds no local address: it answers with a    *)
(* 500.                                                                      *)
LEMMA TaskBindFailInv == ASSUME IInv, NEW c \in Clients, TaskBindFail(c) PROVE IInv'
<1>i. /\ TypeOK /\ InvSockets /\ InvTasks /\ InvServers /\ InvProgs /\ InvQueues /\ InvLeases
      /\ InvInbox /\ InvRest /\ InvBuffer /\ InvRoutes /\ InvPlaces
      /\ InvVerdicts /\ InvTokens
  BY DEF IInv
<1>1. /\ Whole(dsin[c]) /\ task[c].pc = "read" /\ SendError(c)
      /\ UNCHANGED <<msg_sock_map, sock_map_wait_list, fib_upstream, fib_downstream,
                     dsprog, dsverdict, usprog, usverdict, client, conn, peer, inbox, server, lost>>
      /\ utrn_wait_list' = [utrn_wait_list EXCEPT ![TokenKey(c)] = NoAddr]
  BY DEF TaskBindFail, HasRequest, dsrun, usrun
<1>2. conn' \in [Locals -> {"free", "bound", "est", "open", "closed"}]
  BY <1>1, <1>i DEF TypeOK
<1>3. /\ utrn_wait_list' \in [HostKeys \cup UsKeys -> Upstreams \cup Locals \cup {NoAddr}]
      /\ \A k \in HostKeys : utrn_wait_list'[k] \in Upstreams \cup {NoAddr}
      /\ InvTokens'
  BY <1>1, TokenTaken
<1> QED BY <1>1, <1>2, <1>3, SendErrorInv DEF ErrorStep

(* The connect fails: the task answers with a 500 and the local address is   *)
(* free again.                                                               *)
LEMMA TaskConnectFailInv == ASSUME IInv, NEW c \in Clients, TaskConnectFail(c) PROVE IInv'
<1>i. /\ TypeOK /\ InvSockets /\ InvTasks /\ InvServers /\ InvProgs /\ InvQueues /\ InvLeases
      /\ InvInbox /\ InvRest /\ InvBuffer /\ InvRoutes /\ InvPlaces
      /\ InvVerdicts /\ InvTokens
  BY DEF IInv
<1>1. /\ task[c].pc = "connect" /\ SendError(c)
      /\ UNCHANGED <<msg_sock_map, sock_map_wait_list, fib_upstream, fib_downstream, utrn_wait_list,
                     dsprog, dsverdict, usprog, usverdict, client, peer, inbox, server, lost>>
      /\ conn' = [conn EXCEPT ![task[c].l] = "free"]
  BY DEF TaskConnectFail, maps, dsrun, usrun
<1>b. Busy(c) BY <1>1 DEF Busy
<1>2. Whole(dsin[c]) /\ task[c].l \in Locals
  BY <1>b, <1>i DEF InvTasks, TaskInv
<1>3. conn \in [Locals -> {"free", "bound", "est", "open", "closed"}]
  BY <1>i DEF TypeOK
<1>4. conn' \in [Locals -> {"free", "bound", "est", "open", "closed"}]
  BY <1>1, <1>3
<1>5. \A l \in Locals : conn'[l] = conn[l] \/ (task[c].pc = "connect" /\ Opens(c, l) /\ conn'[l] = "free")
  BY <1>1, <1>3, <1>b DEF Opens
<1>6. /\ utrn_wait_list' \in [HostKeys \cup UsKeys -> Upstreams \cup Locals \cup {NoAddr}]
      /\ \A k \in HostKeys : utrn_wait_list'[k] \in Upstreams \cup {NoAddr}
  BY <1>1, <1>i DEF TypeOK
<1>7. InvTokens'
  BY <1>1, <1>i DEF InvTokens
<1>8. UNCHANGED <<msg_sock_map, sock_map_wait_list, fib_upstream, fib_downstream, dsprog, dsverdict,
                  usprog, usverdict, client, peer, inbox, server, lost>>
      /\ task[c].pc \in {"read", "connect", "write"} /\ SendError(c)
  BY <1>1
<1> QED BY <1>2, <1>4, <1>5, <1>6, <1>7, <1>8, SendErrorInv DEF ErrorStep

(* The write fails: the task answers with a 500.                             *)
LEMMA TaskWriteFailInv == ASSUME IInv, NEW c \in Clients, TaskWriteFail(c) PROVE IInv'
<1>i. /\ TypeOK /\ InvSockets /\ InvTasks /\ InvServers /\ InvProgs /\ InvQueues /\ InvLeases
      /\ InvInbox /\ InvRest /\ InvBuffer /\ InvRoutes /\ InvPlaces
      /\ InvVerdicts /\ InvTokens
  BY DEF IInv
<1>1. /\ task[c].pc = "write" /\ SendError(c)
      /\ UNCHANGED <<msg_sock_map, sock_map_wait_list, fib_upstream, fib_downstream, utrn_wait_list,
                     dsprog, dsverdict, usprog, usverdict, client, conn, peer, inbox, server, lost>>
  BY DEF TaskWriteFail, maps, dsrun, usrun
<1>b. Busy(c) BY <1>1 DEF Busy
<1>2. Whole(dsin[c])
  BY <1>b, <1>i DEF InvTasks, TaskInv
<1>3. /\ conn' \in [Locals -> {"free", "bound", "est", "open", "closed"}]
      /\ utrn_wait_list' \in [HostKeys \cup UsKeys -> Upstreams \cup Locals \cup {NoAddr}]
      /\ \A k \in HostKeys : utrn_wait_list'[k] \in Upstreams \cup {NoAddr}
  BY <1>1, <1>i DEF TypeOK
<1>4. InvTokens'
  BY <1>1, <1>i DEF InvTokens
<1> QED BY <1>1, <1>2, <1>3, <1>4, SendErrorInv DEF ErrorStep

(* The task binds a free local address: no queue, program, task or server    *)
(* has a connection on it.                                                   *)
LEMMA TaskBindInv == ASSUME IInv, NEW c \in Clients, NEW s \in Locals, TaskBind(c, s) PROVE IInv'
<1>i. /\ TypeOK /\ InvSockets /\ InvTasks /\ InvServers /\ InvProgs /\ InvQueues /\ InvLeases
      /\ InvInbox /\ InvRest /\ InvBuffer /\ InvRoutes /\ InvPlaces
      /\ InvVerdicts /\ InvTokens
  BY DEF IInv
<1>f. /\ UNCHANGED <<msg_sock_map, fib_upstream, fib_downstream, dsprog, dsverdict, usprog, usverdict,
                     client, crx, dsin, inbox, server, lost>>
      /\ HasRequest(c)
      /\ TokenDest(c) # NoAddr
      /\ conn[s] = "free"
      /\ utrn_wait_list' = [utrn_wait_list EXCEPT ![TokenKey(c)] = NoAddr]
      /\ sock_map_wait_list' = sock_map_wait_list \cup {<<TokenDest(c), s>>}
      /\ conn' = [conn EXCEPT ![s] = "bound"]
      /\ peer' = [peer EXCEPT ![s] = TokenDest(c)]
      /\ task' = [task EXCEPT ![c] = [pc |-> "connect", l |-> s, dest |-> TokenDest(c),
                                      key |-> TokenKey(c)]]
  BY DEF TaskBind, dsrun, usrun
<1>u. UNCHANGED <<msg_sock_map, fib_upstream, fib_downstream, dsprog, dsverdict, usprog, usverdict,
                  client, crx, dsin, inbox, server, lost>>
  BY <1>f
<1>h. task[c].pc = "read" /\ Whole(dsin[c]) /\ dsverdict[c].left = 0
  BY <1>f, WholeSent DEF HasRequest
<1>k. TokenKey(c) = DsKey(c) /\ TokenDest(c) \in Upstreams
  BY <1>f, TokenFacts
<1>w. PICK u \in Upstreams : u = TokenDest(c)
  BY <1>k
<1>c. /\ conn'[s] = "bound" /\ peer'[s] = u
      /\ \A l \in Locals \ {s} : conn'[l] = conn[l] /\ peer'[l] = peer[l] /\ UsKey(l)' = UsKey(l)
      /\ UsKey(s)' = <<u, s>>
      /\ sock_map_wait_list' = sock_map_wait_list \cup {<<u, s>>}
  BY <1>f, <1>w, <1>i DEF TypeOK, UsKey
<1>d. /\ task'[c].pc = "connect" /\ task'[c].l = s /\ task'[c].key = DsKey(c)
      /\ \A d \in Clients \ {c} : task'[d] = task[d]
  BY <1>f, <1>w, <1>k, <1>i DEF TypeOK
<1>e. \A d \in Clients : Busy(d)' <=> Busy(d) \/ d = c
  BY <1>d DEF Busy
<1>q. \A l \in Locals : Queued(l)' <=> Queued(l)
  BY <1>u DEF Queued
<1>g. ASSUME NEW d \in Clients
      PROVE  /\ ~Holds(d, s) /\ ~Holds(d, s)'
             /\ ~Opens(d, s)
             /\ \A l \in Locals \ {s} : Holds(d, l)' <=> Holds(d, l)
  <2>1. ProgInv(d) /\ TaskInv(d) BY <1>i DEF InvProgs, InvTasks
  <2>2. ~Opens(d, s) BY <2>1, <1>f DEF TaskInv, Opens, Busy
  <2>3. \A l \in Locals \ {s} : Holds(d, l)' <=> Holds(d, l) BY <1>c, <1>u DEF Holds
  <2>4. ASSUME dsprog[d].pc \in {"post", "redirect"} PROVE dsprog[d].ekey # UsKey(s) /\ dsprog[d].ekey # <<u, s>>
    <3>1. CASE dsprog[d].ekey = NullKey
      <4>1. s # NoAddr BY AddrAssumption
      <4> QED BY <3>1, <4>1, SMTT(60) DEF NullKey, UsKey
    <3>2. CASE dsprog[d].ekey # NullKey
      <4>1. PICK l \in Locals : dsprog[d].ekey = UsKey(l) /\ conn[l] \in {"open", "closed"}
        BY <3>2, <2>1, <2>4 DEF ProgInv, Holds
      <4>2. l # s BY <4>1, <1>f
      <4> QED BY <4>1, <4>2, SMTT(60) DEF UsKey
    <3> QED BY <3>1, <3>2
  <2> QED BY <2>2, <2>3, <2>4, <1>c, <1>u DEF Holds
<1>a. ASSUME NEW d \in Clients, NEW l \in Locals
      PROVE  Opens(d, l)' <=> Opens(d, l) \/ (d = c /\ l = s)
  <2>1. ~Busy(c) BY <1>h DEF Busy
  <2> QED BY <2>1, <1>d, <1>e DEF Opens
<1>n. ~Queued(s) /\ inbox[s] = <<>> /\ server[s] = NoRequest
  <2>1. ServerInv(s) BY <1>i DEF InvServers
  <2>2. ASSUME NEW v \in Upstreams, NEW i \in 1..Len(fib_upstream[v]), fib_upstream[v][i][2] = s PROVE FALSE
    <3>1. QueueInv(v) BY <1>i DEF InvQueues
    <3>2. PICK l \in Locals : fib_upstream[v][i] = <<v, l>> /\ conn[l] \in {"open", "closed"}
      BY <3>1 DEF QueueInv
    <3>3. conn[s] \notin {"open", "closed"} /\ l = s BY <2>2, <3>2, <1>f, SMTT(60)
    <3> QED BY <3>2, <3>3
  <2> QED BY <2>1, <2>2, <1>f DEF ServerInv, Queued
<1>o. /\ \A l \in Locals : conn[l] \in {"open", "closed"} => l # s /\ conn'[l] \in {"open", "closed"}
      /\ \A l \in Locals : conn'[l] = "open" => conn[l] = "open"
  BY <1>c, <1>f
<1>1. TypeOK'
  <2>1. conn' \in [Locals -> {"free", "bound", "est", "open", "closed"}] BY <1>f, <1>i DEF TypeOK
  <2>2. peer' \in [Locals -> Upstreams \cup {NoAddr}] BY <1>f, <1>w, <1>i DEF TypeOK
  <2>3. sock_map_wait_list' \subseteq UsKeys
    <3>1. sock_map_wait_list \subseteq UsKeys /\ <<u, s>> \in UsKeys BY <1>i DEF TypeOK, UsKeys
    <3>2. sock_map_wait_list' = sock_map_wait_list \cup {<<u, s>>} BY <1>c
    <3> QED BY <3>1, <3>2
  <2>4. DsKey(c) \in HostKeys BY DEF DsKey, HostKeys, Hosts
  <2>5. task' \in [Clients -> TaskState]
    <3>1. [pc |-> "connect", l |-> s, dest |-> u, key |-> DsKey(c)] \in TaskState BY <2>4 DEF TaskState
    <3> QED BY <3>1, <1>f, <1>w, <1>k, <1>i DEF TypeOK
  <2>6. /\ utrn_wait_list' \in [HostKeys \cup UsKeys -> Upstreams \cup Locals \cup {NoAddr}]
        /\ \A k \in HostKeys : utrn_wait_list'[k] \in Upstreams \cup {NoAddr}
    BY <1>f, TokenTaken
  <2> QED BY <2>1, <2>2, <2>3, <2>5, <2>6, <1>u, <1>i DEF TypeOK
<1>2. InvSockets'
  <2>1. ASSUME NEW d \in Clients PROVE ClientSocket(d)'
    <3>1. ClientSocket(d) BY <1>i DEF InvSockets
    <3> QED BY <3>1, <1>u DEF ClientSocket, DsKey
  <2>2. ASSUME NEW l \in Locals PROVE ServerSocket(l)'
    <3>1. ServerSocket(l) BY <1>i DEF InvSockets
    <3>2. CASE l = s
      <4>1. \A v \in Upstreams : <<v, s>> \notin msg_sock_map' BY <3>1, <3>2, <1>f DEF ServerSocket
      <4> QED BY <3>2, <4>1, <1>c DEF ServerSocket
    <3>3. CASE l # s
      BY <3>1, <3>3, <1>c, <1>u DEF ServerSocket
    <3> QED BY <3>2, <3>3
  <2> QED BY <2>1, <2>2 DEF InvSockets
<1>3. InvTasks'
  <2>1. ASSUME NEW d \in Clients PROVE TaskInv(d)'
    <3>1. TaskInv(d) BY <1>i DEF InvTasks
    <3>2. /\ DsKey(d)' = DsKey(d) /\ dsverdict' = dsverdict
          /\ Whole(dsin[d])' <=> Whole(dsin[d])
      BY <1>u DEF DsKey, Whole
    <3>3. CASE d = c
      <4>1. Whole(dsin[c])' /\ dsverdict'[c].left = 0 /\ DsKey(c)' = DsKey(c) BY <3>2, <3>3, <1>h
      <4>2. task'[c].pc = "connect" /\ task'[c].l = s /\ task'[c].key = DsKey(c) /\ conn'[s] = "bound"
        BY <1>d, <1>c
      <4> QED BY <3>3, <4>1, <4>2 DEF TaskInv
    <3>4. CASE d # c
      <4>1. task'[d] = task[d] /\ (Busy(d)' <=> Busy(d)) BY <3>4, <1>d, <1>e
      <4>2. Busy(d) => task[d].l \in Locals \ {s}
        <5>1. Busy(d) => task[d].l \in Locals /\ Opens(d, task[d].l) BY <3>1 DEF TaskInv, Opens
        <5> QED BY <5>1, <1>g
      <4>3. Busy(d) => conn'[task[d].l] = conn[task[d].l] BY <4>2, <1>c
      <4> QED BY <3>1, <3>2, <4>1, <4>3 DEF TaskInv, Busy
    <3> QED BY <3>3, <3>4
  <2> QED BY <2>1, <1>a, <1>g, <1>i, SMTT(60) DEF InvTasks
<1>4. InvServers'
  <2> SUFFICES ASSUME NEW l \in Locals PROVE ServerInv(l)'
    BY DEF InvServers
  <2>1. ServerInv(l) BY <1>i DEF InvServers
  <2> QED BY <2>1, <1>c, <1>f, <1>u DEF ServerInv
<1>5. InvProgs'
  <2> SUFFICES ASSUME NEW d \in Clients PROVE ProgInv(d)' /\ ClientInv(d)'
    BY DEF InvProgs
  <2>1. ProgInv(d) /\ ClientInv(d) BY <1>i DEF InvProgs
  <2>2. dsin[c] # <<>> BY <1>h DEF Whole
  <2>3. ClientInv(d)' BY <2>1, <2>2, <1>e, <1>u DEF ClientInv
  <2>4. ASSUME NEW l \in Locals, Holds(d, l), conn[l] \in {"open", "closed"}
        PROVE  Holds(d, l)' /\ conn'[l] \in {"open", "closed"}
    BY <2>4, <1>g, <1>o
  <2>5. ProgInv(d)' BY <2>1, <2>4, <1>u DEF ProgInv
  <2> QED BY <2>3, <2>5
<1>6. InvQueues'
  <2> SUFFICES ASSUME NEW v \in Upstreams PROVE QueueInv(v)'
    BY DEF InvQueues
  <2>1. QueueInv(v) BY <1>i DEF InvQueues
  <2>2. \A l \in Locals : conn[l] \in {"open", "closed"} => peer'[l] = peer[l] /\ conn'[l] \in {"open", "closed"}
    BY <1>o, <1>c
  <2>3. fib_upstream' = fib_upstream BY <1>u
  <2>4. ASSUME NEW i \in 1..Len(fib_upstream[v])
        PROVE  \E l \in Locals : fib_upstream[v][i] = <<v, l>> /\ peer'[l] = v /\ conn'[l] \in {"open", "closed"}
    BY <2>1, <2>2 DEF QueueInv
  <2> QED BY <2>1, <2>3, <2>4 DEF QueueInv
<1>7. InvLeases'
  <2> SUFFICES ASSUME NEW l \in Locals PROVE LeaseInv(l)'
    BY DEF InvLeases
  <2>1. LeaseInv(l) BY <1>i DEF InvLeases
  <2>2. Unanswered(l)' <=> Unanswered(l)
    BY <1>u DEF Unanswered
  <2>3. CASE l = s
    BY <2>3, <1>g, <1>n, <1>q, <1>u DEF LeaseInv
  <2>4. CASE l # s
    <3>1. \A d \in Clients : (Holds(d, l)' <=> Holds(d, l)) /\ (Opens(d, l)' <=> Opens(d, l))
      BY <2>4, <1>g, <1>a
    <3> QED BY <2>1, <2>2, <3>1, <1>q, <1>u DEF LeaseInv
  <2> QED BY <2>3, <2>4
<1>8. InvRest'
  <2> SUFFICES ASSUME NEW d \in Clients, dsverdict[d].left > 0
               PROVE  /\ \A l \in Locals : dsverdict[d].to = l /\ conn'[l] = "open" => RestAt(d, l)'
                      /\ dsverdict[d].to = Proxy => RestInBuffer(d)'
    BY <1>u DEF InvRest
  <2>1. /\ \A l \in Locals : dsverdict[d].to = l /\ conn[l] = "open" => RestAt(d, l)
        /\ dsverdict[d].to = Proxy => RestInBuffer(d)
    BY <1>i DEF InvRest
  <2>2. \A l \in Locals : RestAt(d, l) => RestAt(d, l)' BY <1>u, SameRest
  <2>3. RestInBuffer(d) => RestInBuffer(d)' BY <1>u, SameBuffer
  <2> QED BY <2>1, <2>2, <2>3, <1>o
<1>10. InvRoutes'
  <2>1. ASSUME NEW l \in Locals PROVE AnswerInv(l)'
    <3>1. AnswerInv(l) BY <1>i DEF InvRoutes
    <3> QED BY <3>1, <1>u DEF AnswerInv
  <2>2. ASSUME NEW l \in Locals, NEW d \in Clients PROVE RouteInv(d, l)'
    <3>1. RouteInv(d, l) /\ DsKey(d)' = DsKey(d) BY <1>i DEF InvRoutes, DsKey
    <3>2. /\ Route(l, d)' <=> Route(l, d)
          /\ Has(d, l)' <=> Has(d, l)
          /\ Holds(d, l)' => Holds(d, l)
      BY <1>u, <1>g DEF Route, DsKey, Has
    <3>3. task'[d].pc = "write" => task'[d] = task[d] BY <1>d
    <3> QED BY <3>1, <3>2, <3>3, <1>u DEF RouteInv
  <2> QED BY <2>1, <2>2 DEF InvRoutes
<1>12. InvVerdicts'
  <2>1. InvVerdicts BY <1>i
  <2> QED BY <2>1, <1>o, <1>u DEF InvVerdicts
<1>13. InvTokens'
  BY <1>f, TokenTaken
<1> QED
  BY <1>1, <1>2, <1>3, <1>4, <1>5, <1>6, <1>7, <1>8, <1>10, <1>12, <1>13, <1>u, <1>i,
     FrameInbox, FrameBuffer, FramePlaces DEF IInv

(* The connect returns: the connection is still the task's alone.            *)
LEMMA TaskConnectedInv == ASSUME IInv, NEW c \in Clients, TaskConnected(c) PROVE IInv'
<1>i. /\ TypeOK /\ InvSockets /\ InvTasks /\ InvServers /\ InvProgs /\ InvQueues /\ InvLeases
      /\ InvInbox /\ InvRest /\ InvBuffer /\ InvRoutes /\ InvPlaces
      /\ InvVerdicts /\ InvTokens
  BY DEF IInv
<1>f. /\ UNCHANGED <<msg_sock_map, sock_map_wait_list, fib_upstream, fib_downstream, utrn_wait_list,
                     dsprog, dsverdict, usprog, usverdict, client, crx, dsin, peer, inbox, server, lost>>
      /\ task[c].pc = "connect"
      /\ conn' = [conn EXCEPT ![task[c].l] = "est"]
      /\ task' = [task EXCEPT ![c].pc = "fib"]
  BY DEF TaskConnected, maps, dsrun, usrun
<1>u. UNCHANGED <<msg_sock_map, sock_map_wait_list, fib_upstream, fib_downstream, utrn_wait_list,
                  dsprog, dsverdict, usprog, usverdict, client, crx, dsin, peer, inbox, server, lost>>
  BY <1>f
<1>t. TaskInv(c) BY <1>i DEF InvTasks
<1>o. Busy(c) BY <1>f DEF Busy
<1>s. PICK s \in Locals : s = task[c].l
  BY <1>t, <1>o DEF TaskInv
<1>b. conn[s] = "bound" /\ Opens(c, s)
  BY <1>s, <1>t, <1>f, <1>o DEF TaskInv, Opens
<1>c. conn'[s] = "est" /\ \A l \in Locals \ {s} : conn'[l] = conn[l]
  BY <1>f, <1>s, <1>i DEF TypeOK
<1>p. task \in [Clients -> TaskState] /\ task[c] \in TaskState
  BY <1>i DEF TypeOK
<1>d. /\ task'[c].pc = "fib" /\ task'[c].l = task[c].l /\ task'[c].key = task[c].key
      /\ \A d \in Clients \ {c} : task'[d] = task[d]
  BY <1>f, <1>p DEF TaskState
<1>a. ASSUME NEW d \in Clients, NEW l \in Locals
      PROVE  /\ Busy(d)' <=> Busy(d)
             /\ Opens(d, l)' <=> Opens(d, l)
  BY <1>d, <1>o DEF Opens, Busy
<1>e. \A d \in Clients : Busy(d)' <=> Busy(d)
  BY <1>d, <1>o DEF Busy
<1>1. TypeOK'
  <2>1. conn' \in [Locals -> {"free", "bound", "est", "open", "closed"}] BY <1>f, <1>i DEF TypeOK
  <2>2. task' \in [Clients -> TaskState] BY <1>f, <1>p DEF TaskState
  <2> QED BY <2>1, <2>2, <1>u, <1>i DEF TypeOK
<1>2. InvSockets'
  <2>1. ASSUME NEW d \in Clients PROVE ClientSocket(d)'
    <3>1. ClientSocket(d) BY <1>i DEF InvSockets
    <3> QED BY <3>1, <1>u DEF ClientSocket, DsKey
  <2>2. ASSUME NEW l \in Locals PROVE ServerSocket(l)'
    <3>1. ServerSocket(l) BY <1>i DEF InvSockets
    <3>2. UsKey(l)' = UsKey(l) BY <1>u DEF UsKey
    <3> QED BY <3>1, <3>2, <1>b, <1>c, <1>u DEF ServerSocket
  <2> QED BY <2>1, <2>2 DEF InvSockets
<1>3. InvTasks'
  <2>1. ASSUME NEW d \in Clients PROVE TaskInv(d)'
    <3>1. TaskInv(d) BY <1>i DEF InvTasks
    <3>2. /\ DsKey(d)' = DsKey(d) /\ dsverdict' = dsverdict
          /\ Whole(dsin[d])' <=> Whole(dsin[d])
      BY <1>u DEF DsKey, Whole
    <3>3. CASE d = c
      BY <3>1, <3>2, <3>3, <1>e, <1>o, <1>d, <1>s, <1>c DEF TaskInv
    <3>4. CASE d # c
      <4>1. Busy(d) => task[d].l \in Locals \ {s}
        <5>1. Busy(d) => task[d].l \in Locals /\ Opens(d, task[d].l) BY <3>1 DEF TaskInv, Opens
        <5> QED BY <5>1, <3>4, <1>b, <1>i DEF InvTasks
      <4>2. task'[d] = task[d] BY <3>4, <1>d
      <4>3. Busy(d) => conn'[task[d].l] = conn[task[d].l] BY <4>1, <1>c
      <4> QED BY <3>1, <3>2, <4>2, <4>3, <1>e DEF TaskInv, Busy
    <3> QED BY <3>3, <3>4
  <2> QED BY <2>1, <1>a, <1>i DEF InvTasks
<1>4. InvServers'
  <2> SUFFICES ASSUME NEW l \in Locals PROVE ServerInv(l)'
    BY DEF InvServers
  <2>1. ServerInv(l) BY <1>i DEF InvServers
  <2> QED BY <2>1, <1>b, <1>c, <1>u DEF ServerInv
<1>5. InvProgs'
  <2> SUFFICES ASSUME NEW d \in Clients PROVE ProgInv(d)' /\ ClientInv(d)'
    BY DEF InvProgs
  <2>1. ProgInv(d) /\ ClientInv(d) BY <1>i DEF InvProgs
  <2>2. ClientInv(d)' BY <2>1, <1>e, <1>u DEF ClientInv
  <2>3. \A l \in Locals : conn[l] \in {"open", "closed"} => conn'[l] \in {"open", "closed"} BY <1>b, <1>c
  <2>4. \A l \in Locals : Holds(d, l)' <=> Holds(d, l) BY <1>u DEF Holds, UsKey
  <2>5. ProgInv(d)' BY <2>1, <2>3, <2>4, <1>u DEF ProgInv
  <2> QED BY <2>2, <2>5
<1>6. InvQueues'
  <2> SUFFICES ASSUME NEW u \in Upstreams PROVE QueueInv(u)'
    BY DEF InvQueues
  <2>1. QueueInv(u) BY <1>i DEF InvQueues
  <2>2. \A l \in Locals : conn[l] \in {"open", "closed"} => conn'[l] \in {"open", "closed"} BY <1>b, <1>c
  <2> QED BY <2>1, <2>2, <1>u DEF QueueInv
<1>7. InvLeases'
  <2> SUFFICES ASSUME NEW l \in Locals PROVE LeaseInv(l)'
    BY DEF InvLeases
  <2>1. LeaseInv(l) BY <1>i DEF InvLeases
  <2>2. /\ Queued(l)' <=> Queued(l)
        /\ Unanswered(l)' <=> Unanswered(l)
        /\ \A d \in Clients : Holds(d, l)' <=> Holds(d, l)
    BY <1>u DEF Queued, Unanswered, Holds, UsKey
  <2> QED BY <2>1, <2>2, <1>a, <1>u DEF LeaseInv
<1>8. InvRest'
  <2> SUFFICES ASSUME NEW d \in Clients, dsverdict[d].left > 0
               PROVE  /\ \A l \in Locals : dsverdict[d].to = l /\ conn'[l] = "open" => RestAt(d, l)'
                      /\ dsverdict[d].to = Proxy => RestInBuffer(d)'
    BY <1>u DEF InvRest
  <2>1. /\ \A l \in Locals : dsverdict[d].to = l /\ conn[l] = "open" => RestAt(d, l)
        /\ dsverdict[d].to = Proxy => RestInBuffer(d)
    BY <1>i DEF InvRest
  <2>3. \A l \in Locals : conn'[l] = "open" => conn[l] = "open"
    BY <1>c
  <2>4. \A l \in Locals : RestAt(d, l) => RestAt(d, l)' BY <1>u, SameRest
  <2>5. RestInBuffer(d) => RestInBuffer(d)' BY <1>u, SameBuffer
  <2> QED BY <2>1, <2>3, <2>4, <2>5
<1>10. InvRoutes'
  <2>1. ASSUME NEW l \in Locals PROVE AnswerInv(l)'
    <3>1. AnswerInv(l) BY <1>i DEF InvRoutes
    <3> QED BY <3>1, <1>u DEF AnswerInv
  <2>2. ASSUME NEW l \in Locals, NEW d \in Clients PROVE RouteInv(d, l)'
    <3>1. RouteInv(d, l) /\ DsKey(d)' = DsKey(d) BY <1>i DEF InvRoutes, DsKey
    <3>2. task'[d].pc = "write" => task'[d] = task[d] BY <1>d
    <3>3. /\ Route(l, d)' <=> Route(l, d)
          /\ Has(d, l)' <=> Has(d, l)
          /\ Holds(d, l)' <=> Holds(d, l)
      BY <1>u DEF Route, DsKey, Has, Holds, UsKey
    <3> QED BY <3>1, <3>2, <3>3, <1>u DEF RouteInv
  <2> QED BY <2>1, <2>2 DEF InvRoutes
<1>12. InvVerdicts'
  <2>1. \A l \in Locals : conn[l] \in {"open", "closed"} => conn'[l] \in {"open", "closed"} BY <1>b, <1>c
  <2>2. InvVerdicts BY <1>i
  <2> QED BY <2>1, <2>2, <1>u DEF InvVerdicts
<1> QED
  BY <1>1, <1>2, <1>3, <1>4, <1>5, <1>6, <1>7, <1>8, <1>10, <1>12, <1>u, <1>i, FrameInbox, FrameBuffer,
     FramePlaces, FrameTokens DEF IInv

(* The task routes the answer to its client: nobody else waits on the new    *)
(* connection.                                                               *)
LEMMA TaskFibInv == ASSUME IInv, NEW c \in Clients, TaskFib(c) PROVE IInv'
<1>i. /\ TypeOK /\ InvSockets /\ InvTasks /\ InvServers /\ InvProgs /\ InvQueues /\ InvLeases
      /\ InvInbox /\ InvRest /\ InvBuffer /\ InvRoutes /\ InvPlaces
      /\ InvVerdicts /\ InvTokens
  BY DEF IInv
<1>f. /\ UNCHANGED <<msg_sock_map, sock_map_wait_list, fib_upstream, utrn_wait_list, dsprog, dsverdict,
                     usprog, usverdict, client, crx, dsin, conn, peer, inbox, server, lost>>
      /\ task[c].pc = "fib"
      /\ fib_downstream' \in LruPut(fib_downstream, task[c].l, task[c].key, NullKey, FibCap)
      /\ task' = [task EXCEPT ![c].pc = "write"]
  BY DEF TaskFib, dsrun, usrun
<1>u. UNCHANGED <<msg_sock_map, sock_map_wait_list, fib_upstream, utrn_wait_list, dsprog, dsverdict,
                  usprog, usverdict, client, crx, dsin, conn, peer, inbox, server, lost>>
  BY <1>f
<1>t. TaskInv(c) BY <1>i DEF InvTasks
<1>o. Busy(c) BY <1>f DEF Busy
<1>s. PICK s \in Locals : s = task[c].l
  BY <1>t, <1>o DEF TaskInv
<1>b. Opens(c, s) /\ task[c].key = DsKey(c)
  BY <1>s, <1>t, <1>o DEF TaskInv, Opens
<1>p. task \in [Clients -> TaskState] /\ task[c] \in TaskState
  BY <1>i DEF TypeOK
<1>d. /\ task'[c].pc = "write" /\ task'[c].l = task[c].l /\ task'[c].key = task[c].key
      /\ \A d \in Clients \ {c} : task'[d] = task[d]
  BY <1>f, <1>p DEF TaskState
<1>e. \A d \in Clients : Busy(d)' <=> Busy(d)
  BY <1>d, <1>o DEF Busy
<1>a. ASSUME NEW d \in Clients, NEW l \in Locals PROVE Opens(d, l)' <=> Opens(d, l)
  BY <1>d, <1>e DEF Opens
<1>r. /\ fib_downstream' \in [Locals -> HostKeys \cup {NullKey}]
      /\ fib_downstream'[s] = DsKey(c)
      /\ \A l \in Locals \ {s} : fib_downstream'[l] \in {fib_downstream[l], NullKey}
  <2>1. fib_downstream' \in LruPut(fib_downstream, s, DsKey(c), NullKey, FibCap)
    BY <1>f, <1>s, <1>b
  <2>2. DsKey(c) \in HostKeys \cup {NullKey} /\ NullKey \in HostKeys \cup {NullKey}
    BY DEF DsKey, HostKeys, Hosts
  <2>3. fib_downstream \in [Locals -> HostKeys \cup {NullKey}]
    BY <1>i DEF TypeOK
  <2> QED BY AddrAssumption, <2>1, <2>2, <2>3, LruPutFacts
<1>1. TypeOK'
  <2>2. task' \in [Clients -> TaskState] BY <1>f, <1>p DEF TaskState
  <2> QED BY <2>2, <1>r, <1>u, <1>i DEF TypeOK
<1>3. InvTasks'
  <2>1. ASSUME NEW d \in Clients PROVE TaskInv(d)'
    <3>1. TaskInv(d) BY <1>i DEF InvTasks
    <3>2. /\ DsKey(d)' = DsKey(d) /\ dsverdict' = dsverdict /\ conn' = conn
          /\ Whole(dsin[d])' <=> Whole(dsin[d])
      BY <1>u DEF DsKey, Whole
    <3>3. CASE d = c
      BY <3>1, <3>2, <3>3, <1>e, <1>o, <1>d, <1>f DEF TaskInv
    <3>4. CASE d # c
      <4>1. task'[d] = task[d] BY <3>4, <1>d
      <4> QED BY <3>1, <3>2, <4>1, <1>e DEF TaskInv
    <3> QED BY <3>3, <3>4
  <2> QED BY <2>1, <1>a, <1>i DEF InvTasks
<1>5. InvProgs'
  <2> SUFFICES ASSUME NEW d \in Clients PROVE ProgInv(d)' /\ ClientInv(d)'
    BY DEF InvProgs
  <2>1. ProgInv(d) /\ ClientInv(d) BY <1>i DEF InvProgs
  <2>2. ClientInv(d)' BY <2>1, <1>e, <1>u DEF ClientInv
  <2>3. \A l \in Locals : Holds(d, l)' <=> Holds(d, l) BY <1>u DEF Holds, UsKey
  <2>4. ProgInv(d)' BY <2>1, <2>3, <1>u DEF ProgInv
  <2> QED BY <2>2, <2>4
<1>7. InvLeases'
  <2> SUFFICES ASSUME NEW l \in Locals PROVE LeaseInv(l)'
    BY DEF InvLeases
  <2>1. LeaseInv(l) BY <1>i DEF InvLeases
  <2>2. /\ Queued(l)' <=> Queued(l)
        /\ Unanswered(l)' <=> Unanswered(l)
        /\ \A d \in Clients : Holds(d, l)' <=> Holds(d, l)
    BY <1>u DEF Queued, Unanswered, Holds, UsKey
  <2> QED BY <2>1, <2>2, <1>a, <1>u DEF LeaseInv
<1>10. InvRoutes'
  <2>1. ASSUME NEW l \in Locals PROVE AnswerInv(l)'
    <3>1. AnswerInv(l) BY <1>i DEF InvRoutes
    <3> QED BY <3>1, <1>u DEF AnswerInv
  <2>2. ASSUME NEW l \in Locals, NEW d \in Clients PROVE RouteInv(d, l)'
    <3>1. RouteInv(d, l) /\ DsKey(d)' = DsKey(d) BY <1>i DEF InvRoutes, DsKey
    <3>2. /\ Has(d, l)' <=> Has(d, l)
          /\ Holds(d, l)' <=> Holds(d, l)
      BY <1>u DEF Has, Holds, UsKey
    <3>3. CASE l = s
      <4>1. LeaseInv(s) BY <1>i DEF InvLeases
      <4>2. ~Holds(d, s) /\ inbox[s] = <<>> /\ server[s] = NoRequest
        BY <4>1, <1>b DEF LeaseInv
      <4>3. ~Has(d, s) /\ server[s].st = "idle"
        BY <4>2, SMTT(60) DEF Has, NoRequest
      <4>4. ASSUME task'[d].pc = "write", task'[d].l = s PROVE Route(s, d)'
        <5>1. Opens(d, s)' BY <4>4 DEF Opens, Busy
        <5>2. d = c BY <5>1, <1>a, <1>b, <1>i DEF InvTasks
        <5> QED BY <5>2, <1>r, <3>1 DEF Route
      <4> QED BY <3>2, <3>3, <4>2, <4>3, <4>4, <1>u DEF RouteInv
    <3>4. CASE l # s
      <4>1. Route(l, d) => Route(l, d)' BY <3>4, <3>1, <1>r DEF Route
      <4>2. task'[d].pc = "write" /\ task'[d].l = l => task[d].pc = "write" /\ task[d].l = l
        BY <3>4, <1>d, <1>s
      <4> QED BY <3>1, <3>2, <4>1, <4>2, <1>u DEF RouteInv
    <3> QED BY <3>3, <3>4
  <2> QED BY <2>1, <2>2 DEF InvRoutes
<1> QED
  BY <1>1, <1>3, <1>5, <1>7, <1>10, <1>u, <1>i, FrameSockets, FrameServers, FrameQueues,
     FrameInbox, FrameRest, FrameBuffer, FramePlaces, FrameVerdicts, FrameTokens DEF IInv

(* The task writes the whole buffered request into the empty receive queue   *)
(* of the new connection.                                                    *)
LEMMA TaskWriteInv == ASSUME IInv, NEW c \in Clients, TaskWrite(c) PROVE IInv'
<1>i. /\ TypeOK /\ InvSockets /\ InvTasks /\ InvServers /\ InvProgs /\ InvQueues /\ InvLeases
      /\ InvInbox /\ InvRest /\ InvBuffer /\ InvRoutes /\ InvPlaces
      /\ InvVerdicts /\ InvTokens
  BY DEF IInv
<1>u. UNCHANGED <<msg_sock_map, sock_map_wait_list, fib_upstream, fib_downstream, utrn_wait_list,
                  dsprog, dsverdict, usprog, usverdict, client, crx, conn, peer, server>>
  BY DEF TaskWrite, maps, dsrun, usrun
<1>f. /\ task[c].pc = "write"
      /\ inbox' = IF conn[task[c].l] \in {"est", "open"}
                  THEN [inbox EXCEPT ![task[c].l] = @ \o dsin[c]] ELSE inbox
      /\ lost' = IF conn[task[c].l] = "closed" THEN lost \cup {c} ELSE lost
      /\ dsin' = [dsin EXCEPT ![c] = <<>>]
      /\ task' = [task EXCEPT ![c] = Reading]
  BY DEF TaskWrite
<1>t. TaskInv(c) BY <1>i DEF InvTasks
<1>o. Busy(c) BY <1>f DEF Busy
<1>s. PICK s \in Locals : s = task[c].l
  BY <1>t, <1>o DEF TaskInv
<1>q. PICK q \in Seq(Parts) : q = dsin[c]
  BY <1>i DEF TypeOK
<1>b. Opens(c, s) /\ Whole(q) /\ conn[s] \in {"est", "open", "closed"}
  BY <1>s, <1>t, <1>o, <1>q, <1>f DEF TaskInv, Opens
<1>v. dsverdict[c].left = 0
  BY <1>b, <1>q, WholeSent
<1>e. /\ inbox[s] = <<>> /\ server[s] = NoRequest /\ ~Queued(s)
      /\ \A d \in Clients : ~Holds(d, s)
  <2>1. LeaseInv(s) BY <1>i DEF InvLeases
  <2> QED BY <2>1, <1>b DEF LeaseInv
<1>n. server[s].st = "idle" /\ ~Unanswered(s)
  BY <1>e, SMTT(60) DEF NoRequest, Unanswered
<1> DEFINE sent == conn[s] \in {"est", "open"}
<1>w1. ASSUME sent PROVE inbox'[s] = q
  <2>1. inbox'[s] = <<>> \o q
    BY <1>w1, <1>f, <1>s, <1>q, <1>e, <1>i DEF TypeOK
  <2> QED BY <2>1, <1>q, SMTT(60)
<1>w2. ASSUME ~sent PROVE inbox' = inbox
  BY <1>w2, <1>f, <1>s
<1>l. \A l \in Locals \ {s} : inbox'[l] = inbox[l]
  BY <1>f, <1>s, <1>i DEF TypeOK
<1>c. dsin'[c] = <<>> /\ task'[c].pc = "read"
  BY <1>f, <1>i DEF TypeOK, Reading
<1>d. \A d \in Clients \ {c} : dsin'[d] = dsin[d] /\ task'[d] = task[d]
  BY <1>f, <1>i DEF TypeOK
<1>a. \A d \in Clients : Busy(d)' <=> Busy(d) /\ d # c
  BY <1>c, <1>d DEF Busy
<1>a1. ASSUME NEW d \in Clients, NEW l \in Locals PROVE Opens(d, l)' <=> Opens(d, l) /\ d # c
  BY <1>a, <1>d DEF Opens
<1>g. /\ Len(q) \in Nat /\ Len(q) > 0 /\ q # <<>> /\ Len(q) = q[1].len + 1
      /\ \A i \in 1..Len(q) : q[i].c = c /\ q[i].n = q[1].n /\ q[i].len = q[1].len /\ q[i].k = i - 1
      /\ q[1].len \in Nat
  <2>1. BufferInv(c) BY <1>i DEF InvBuffer
  <2>2. q # <<>> /\ Len(q) = q[1].len + 1 BY <1>b DEF Whole
  <2>3. Len(q) \in Nat /\ Len(q) > 0 /\ q[1] \in Parts BY <2>2, <1>q, TailFacts, EmptyFacts
  <2>4. q[1].len \in Nat BY <2>3, SMTT(60) DEF Parts
  <2> QED BY <2>1, <2>2, <2>3, <2>4, <1>q DEF BufferInv
<1>h. ASSUME NEW d \in Clients
      PROVE  /\ ~Has(d, s)
             /\ Has(d, s)' => d = c /\ sent
             /\ \A l \in Locals \ {s} : Has(d, l)' <=> Has(d, l)
             /\ \A l \in Locals : Serves(l, d)' <=> Serves(l, d)
             /\ ~Serves(s, d)
  <2>1. ~Has(d, s) BY <1>e, SMTT(60) DEF Has
  <2>2. CASE sent
    <3>1. inbox'[s] = q BY <2>2, <1>w1
    <3>2. Has(d, s)' => d = c BY <3>1, <1>g DEF Has
    <3> QED BY <2>1, <2>2, <3>2, <1>l, <1>n, <1>u DEF Has, Serves
  <2>3. CASE ~sent
    <3>1. inbox' = inbox BY <2>3, <1>w2
    <3> QED BY <2>1, <3>1, <1>n, <1>u DEF Has, Serves
  <2> QED BY <2>2, <2>3
<1> HIDE DEF sent
<1>1. TypeOK'
  <2>1. inbox' \in [Locals -> Seq(Parts)]
    <3>1. inbox \in [Locals -> Seq(Parts)] BY <1>i DEF TypeOK
    <3>2. inbox[s] \o dsin[c] \in Seq(Parts) BY <3>1, <1>q, SMTT(60)
    <3> QED BY <3>1, <3>2, <1>f, <1>s
  <2>2. dsin' \in [Clients -> Seq(Parts)] BY <1>f, <1>i, SMTT(60) DEF TypeOK
  <2>3. task' \in [Clients -> TaskState] BY <1>f, <1>i DEF TypeOK, TaskState, Reading
  <2>4. lost' \subseteq Clients BY <1>f, <1>i DEF TypeOK
  <2> QED BY <2>1, <2>2, <2>3, <2>4, <1>u, <1>i DEF TypeOK
<1>3. InvTasks'
  <2>1. ASSUME NEW d \in Clients PROVE TaskInv(d)'
    <3>1. TaskInv(d) BY <1>i DEF InvTasks
    <3>2. CASE d = c
      BY <3>2, <1>a, <1>c DEF TaskInv
    <3>3. CASE d # c
      <4>1. /\ task'[d] = task[d] /\ DsKey(d)' = DsKey(d) /\ dsverdict' = dsverdict /\ conn' = conn
            /\ Whole(dsin[d])' <=> Whole(dsin[d])
        BY <3>3, <1>d, <1>u DEF DsKey, Whole
      <4> QED BY <3>1, <3>3, <4>1, <1>a DEF TaskInv
    <3> QED BY <3>2, <3>3
  <2> QED BY <2>1, <1>a1, <1>i DEF InvTasks
<1>4. InvServers'
  <2> SUFFICES ASSUME NEW l \in Locals PROVE ServerInv(l)'
    BY DEF InvServers
  <2>1. ServerInv(l) BY <1>i DEF InvServers
  <2>2. conn[l] \notin {"est", "open"} => inbox'[l] = inbox[l]
    BY <1>l, <1>w2 DEF sent
  <2> QED BY <2>1, <2>2, <1>u DEF ServerInv
<1>5. InvProgs'
  <2> SUFFICES ASSUME NEW d \in Clients PROVE ProgInv(d)' /\ ClientInv(d)'
    BY DEF InvProgs
  <2>1. ProgInv(d) /\ ClientInv(d) BY <1>i DEF InvProgs
  <2>2. dsin[d] = <<>> => dsin'[d] = <<>> BY <1>c, <1>d
  <2>3. ClientInv(d)' BY <2>1, <2>2, <1>a, <1>u DEF ClientInv
  <2>4. \A l \in Locals : Holds(d, l)' <=> Holds(d, l) BY <1>u DEF Holds, UsKey
  <2>5. ProgInv(d)' BY <2>1, <2>2, <2>4, <1>u DEF ProgInv
  <2> QED BY <2>3, <2>5
<1>7. InvLeases'
  <2> SUFFICES ASSUME NEW l \in Locals PROVE LeaseInv(l)'
    BY DEF InvLeases
  <2>1. LeaseInv(l) BY <1>i DEF InvLeases
  <2>2. /\ Queued(l)' <=> Queued(l)
        /\ Unanswered(l)' <=> Unanswered(l)
        /\ \A d \in Clients : Holds(d, l)' <=> Holds(d, l)
    BY <1>u DEF Queued, Unanswered, Holds, UsKey
  <2>3. CASE l = s
    <3>1. \A d \in Clients : ~Opens(d, s)' BY <1>a1, <1>b, <1>i DEF InvTasks
    <3> QED BY <2>2, <2>3, <3>1, <1>e DEF LeaseInv
  <2>4. CASE l # s
    <3>1. inbox'[l] = inbox[l] /\ server' = server BY <2>4, <1>l, <1>u
    <3>2. \A d \in Clients : Opens(d, l)' => Opens(d, l) BY <1>a1
    <3> QED BY <2>1, <2>2, <3>1, <3>2 DEF LeaseInv
  <2> QED BY <2>3, <2>4
<1>6. InvInbox'
  <2> SUFFICES ASSUME NEW l \in Locals PROVE InboxInv(l)'
    BY DEF InvInbox
  <2>1. InboxInv(l) BY <1>i DEF InvInbox
  <2>2. Unanswered(l)' <=> Unanswered(l) BY <1>u DEF Unanswered
  <2>3. CASE inbox'[l] = inbox[l]
    BY <2>1, <2>2, <2>3, <1>u DEF InboxInv
  <2>4. CASE l = s /\ inbox'[s] = q
    <3>1. q[1].k = 0 /\ q[1].c = c
      <4>1. 1 \in 1..Len(q) BY <1>g, SMTT(60)
      <4> QED BY <4>1, <1>g, SMTT(60)
    <3>2. \A i \in 1..Len(q) : q[i].k = q[1].k + i - 1
      BY <3>1, <1>g, SMTT(60)
    <3>3. q[1].k + Len(q) <= q[1].len + 1
      <4>1. Len(q) = q[1].len + 1 /\ q[1].len \in Nat BY <1>g
      <4> QED BY <3>1, <4>1, SMTT(60)
    <3>4. server'[s].st = "idle" /\ ~Unanswered(s)' BY <2>2, <2>4, <1>n, <1>u
    <3>5. \A i \in 1..Len(q) : q[i].c = q[1].c /\ q[i].n = q[1].n /\ q[i].len = q[1].len
      BY <3>1, <1>g
    <3> QED BY <2>4, <3>1, <3>2, <3>3, <3>4, <3>5 DEF InboxInv
  <2> QED BY <2>3, <2>4, <1>l, <1>w1, <1>w2
<1>8. InvRest'
  <2> SUFFICES ASSUME NEW d \in Clients, dsverdict[d].left > 0
               PROVE  /\ \A l \in Locals : dsverdict[d].to = l /\ conn[l] = "open" => RestAt(d, l)'
                      /\ dsverdict[d].to = Proxy => RestInBuffer(d)'
    BY <1>u DEF InvRest
  <2>1. /\ \A l \in Locals : dsverdict[d].to = l /\ conn[l] = "open" => RestAt(d, l)
        /\ dsverdict[d].to = Proxy => RestInBuffer(d)
    BY <1>i DEF InvRest
  <2>2. d # c
    <3>1. 0 > 0 <=> FALSE BY SMTT(60)
    <3> QED BY <3>1, <1>v
  <2>3. dsin'[d] = dsin[d] BY <2>2, <1>d
  <2>4. ~RestAt(d, s) BY <1>e, <1>n DEF RestAt
  <2>5. \A l \in Locals \ {s} : RestAt(d, l) => RestAt(d, l)' BY <1>u, <1>l, SameRest
  <2>6. RestInBuffer(d) => RestInBuffer(d)' BY <2>3, <1>u, SameBuffer
  <2> QED BY <2>1, <2>4, <2>5, <2>6
<1>9. InvBuffer'
  <2> SUFFICES ASSUME NEW d \in Clients PROVE BufferInv(d)'
    BY DEF InvBuffer
  <2>1. BufferInv(d) BY <1>i DEF InvBuffer
  <2>2. CASE d = c
    <3>1. dsin'[d] = <<>> /\ Len(<<>>) = 0 /\ 1..0 = {} BY <2>2, <1>c, SMTT(60)
    <3> QED BY <3>1 DEF BufferInv
  <2>3. CASE d # c
    <3>1. dsin'[d] = dsin[d] BY <2>3, <1>d
    <3> QED BY <2>1, <3>1 DEF BufferInv
  <2> QED BY <2>2, <2>3
<1>10. InvRoutes'
  <2>1. ASSUME NEW l \in Locals PROVE AnswerInv(l)'
    <3>1. AnswerInv(l) BY <1>i DEF InvRoutes
    <3> QED BY <3>1, <1>u DEF AnswerInv
  <2>2. ASSUME NEW l \in Locals, NEW d \in Clients PROVE RouteInv(d, l)'
    <3>1. RouteInv(d, l) /\ DsKey(d)' = DsKey(d) BY <1>i DEF InvRoutes, DsKey
    <3>2. /\ Route(l, d)' <=> Route(l, d)
          /\ Holds(d, l)' <=> Holds(d, l)
      BY <1>u DEF Route, DsKey, Holds, UsKey
    <3>3. task'[d].pc = "write" => task'[d] = task[d] BY <1>c, <1>d
    <3>4. Has(d, l)' => Has(d, l) \/ (d = c /\ l = s) BY <1>h
    <3>5. Has(d, l)' => Route(l, d) BY <3>1, <3>4, <1>f, <1>s DEF RouteInv
    <3> QED BY <3>1, <3>2, <3>3, <3>5, <1>u DEF RouteInv
  <2> QED BY <2>1, <2>2 DEF InvRoutes
<1>11. InvPlaces'
  <2> SUFFICES ASSUME NEW d \in Clients, client[d].st # "closed" PROVE PlaceInv(d)'
    BY <1>u DEF InvPlaces
  <2>p. PlaceInv(d) BY <1>i DEF InvPlaces
  <2>1. CASE d = c
    <3>1. /\ client[c].st = "waiting" /\ crx[c] = <<>> /\ q[1].n = client[c].n
          /\ \A l \in Locals : ~At(c, l)
      BY <2>p, <2>1, <1>q, <1>g DEF PlaceInv, PlaceElse, PlaceAt
    <3>2. dsprog[c] = Idle
      <4>1. ProgInv(c) BY <1>i DEF InvProgs
      <4> QED BY <4>1, <1>q, <1>g DEF ProgInv
    <3>3. /\ client'[c].st = "waiting" /\ crx'[c] = <<>> /\ q[1].n = client'[c].n
          /\ dsprog'[c] = Idle /\ dsprog'[c].pc = "idle" /\ dsin'[c] = <<>> /\ dsverdict'[c].left = 0
      BY <3>1, <3>2, <1>c, <1>v, <1>u, SMTT(60) DEF Idle
    <3>4. \A l \in Locals : At(c, l)' => l = s /\ sent
      BY <3>1, <1>h DEF At
    <3>5. PlaceAt(c, s)'
      <4> SUFFICES ASSUME At(c, s)' PROVE PlaceAt(c, s)'
        BY DEF PlaceAt
      <4>1. inbox'[s] = q BY <3>4, <1>w1
      <4>2. \A i \in 1..Len(inbox'[s]) : inbox'[s][i].n = client'[c].n
        BY <4>1, <3>3, <1>g
      <4>3. ~Serves(s, c)' BY <1>h
      <4> QED BY <3>3, <4>2, <4>3, SMTT(60) DEF PlaceAt
    <3>6. \A l \in Locals : PlaceAt(c, l)' BY <3>4, <3>5 DEF PlaceAt
    <3>7. PlaceElse(c)' BY <3>3 DEF PlaceElse
    <3>8. Received(c)'
      <4>1. Len(<<>>) = 0 /\ 1..0 = {} BY SMTT(60)
      <4> QED BY <3>3, <4>1 DEF Received
    <3> QED BY <2>1, <3>4, <3>6, <3>7, <3>8 DEF PlaceInv
  <2>2. CASE d # c
    <3>1. /\ client'[d] = client[d] /\ dsprog'[d] = dsprog[d] /\ dsin'[d] = dsin[d] /\ crx'[d] = crx[d]
          /\ dsverdict'[d] = dsverdict[d]
      BY <2>2, <1>d, <1>u
    <3>2. ~At(d, s) /\ ~At(d, s)' BY <2>2, <1>h DEF At
    <3>3. \A l \in Locals : PlaceAt(d, l) BY <2>p DEF PlaceInv
    <3>4. \A l \in Locals \ {s} : PlaceAt(d, l)' /\ (At(d, l)' <=> At(d, l))
      BY <3>1, <3>3, <1>l, <1>u, SamePlaceAt
    <3>5. PlaceAt(d, s)' BY <3>2 DEF PlaceAt
    <3>6. \A j, l \in Locals : At(d, j)' /\ At(d, l)' => j = l
      BY <3>2, <3>4, <2>p DEF PlaceInv
    <3>7. PlaceElse(d)' BY <2>p, <3>1 DEF PlaceInv, PlaceElse
    <3>8. Received(d)' BY <2>p, <3>1 DEF PlaceInv, Received
    <3> QED BY <3>4, <3>5, <3>6, <3>7, <3>8 DEF PlaceInv
  <2> QED BY <2>1, <2>2
<1> QED
  BY <1>1, <1>3, <1>4, <1>5, <1>6, <1>7, <1>8, <1>9, <1>10, <1>11, <1>u, <1>i,
     FrameSockets, FrameQueues, FrameVerdicts, FrameTokens DEF IInv

(* The task of a closed client ends and drops its buffer.                    *)
LEMMA TaskEndInv == ASSUME IInv, NEW c \in Clients, TaskEnd(c) PROVE IInv'
<1>i. /\ TypeOK /\ InvSockets /\ InvTasks /\ InvServers /\ InvProgs /\ InvQueues /\ InvLeases
      /\ InvInbox /\ InvRest /\ InvBuffer /\ InvRoutes /\ InvPlaces
      /\ InvVerdicts /\ InvTokens
  BY DEF IInv
<1>f. /\ UNCHANGED <<msg_sock_map, sock_map_wait_list, fib_upstream, fib_downstream, utrn_wait_list,
                     dsprog, dsverdict, usprog, usverdict, client, crx, conn, peer, inbox, server, lost>>
      /\ task[c].pc = "read"
      /\ client[c].st = "closed"
      /\ task' = [task EXCEPT ![c].pc = "done"]
      /\ dsin' = [dsin EXCEPT ![c] = <<>>]
  BY DEF TaskEnd, maps, dsrun, usrun
<1>u. UNCHANGED <<msg_sock_map, sock_map_wait_list, fib_upstream, fib_downstream, utrn_wait_list,
                  dsprog, dsverdict, usprog, usverdict, client, crx, conn, peer, inbox, server, lost>>
  BY <1>f
<1>p. task \in [Clients -> TaskState] /\ task[c] \in TaskState /\ dsin \in [Clients -> Seq(Parts)]
  BY <1>i DEF TypeOK
<1>c. task'[c].pc = "done" /\ dsin'[c] = <<>>
  BY <1>f, <1>p DEF TaskState
<1>d. \A d \in Clients \ {c} : task'[d] = task[d] /\ dsin'[d] = dsin[d]
  BY <1>f, <1>p
<1>e. \A d \in Clients : Busy(d)' <=> Busy(d)
  BY <1>c, <1>d, <1>f DEF Busy
<1>a. ASSUME NEW d \in Clients, NEW l \in Locals PROVE Opens(d, l)' <=> Opens(d, l)
  <2>1. Busy(d) => task'[d] = task[d] BY <1>d, <1>f DEF Busy
  <2> QED BY <2>1, <1>e DEF Opens
<1>1. TypeOK'
  <2>1. dsin' \in [Clients -> Seq(Parts)] BY <1>f, <1>p, SMTT(60)
  <2>2. task' \in [Clients -> TaskState] BY <1>f, <1>p DEF TaskState
  <2> QED BY <2>1, <2>2, <1>u, <1>i DEF TypeOK
<1>3. InvTasks'
  <2>1. ASSUME NEW d \in Clients PROVE TaskInv(d)'
    <3>1. TaskInv(d) BY <1>i DEF InvTasks
    <3>2. CASE d = c
      BY <3>2, <1>c DEF TaskInv, Busy
    <3>3. CASE d # c
      <4>1. /\ task'[d] = task[d] /\ DsKey(d)' = DsKey(d) /\ dsverdict' = dsverdict /\ conn' = conn
            /\ Whole(dsin[d])' <=> Whole(dsin[d])
        BY <3>3, <1>d, <1>u DEF DsKey, Whole
      <4> QED BY <3>1, <4>1, <1>e DEF TaskInv
    <3> QED BY <3>2, <3>3
  <2> QED BY <2>1, <1>a, <1>i DEF InvTasks
<1>5. InvProgs'
  <2> SUFFICES ASSUME NEW d \in Clients PROVE ProgInv(d)' /\ ClientInv(d)'
    BY DEF InvProgs
  <2>1. ProgInv(d) /\ ClientInv(d) BY <1>i DEF InvProgs
  <2>2. dsin[d] = <<>> => dsin'[d] = <<>> BY <1>c, <1>d
  <2>3. ClientInv(d)' BY <2>1, <2>2, <1>e, <1>u DEF ClientInv
  <2>4. \A l \in Locals : Holds(d, l)' <=> Holds(d, l) BY <1>u DEF Holds, UsKey
  <2>5. ProgInv(d)' BY <2>1, <2>2, <2>4, <1>u DEF ProgInv
  <2> QED BY <2>3, <2>5
<1>7. InvLeases'
  <2> SUFFICES ASSUME NEW l \in Locals PROVE LeaseInv(l)'
    BY DEF InvLeases
  <2>1. LeaseInv(l) BY <1>i DEF InvLeases
  <2>2. /\ Queued(l)' <=> Queued(l)
        /\ Unanswered(l)' <=> Unanswered(l)
        /\ \A d \in Clients : Holds(d, l)' <=> Holds(d, l)
    BY <1>u DEF Queued, Unanswered, Holds, UsKey
  <2> QED BY <2>1, <2>2, <1>a, <1>u DEF LeaseInv
<1>8. InvRest'
  <2> SUFFICES ASSUME NEW d \in Clients, dsverdict[d].left > 0
               PROVE  /\ \A l \in Locals : dsverdict[d].to = l /\ conn[l] = "open" => RestAt(d, l)'
                      /\ dsverdict[d].to = Proxy => RestInBuffer(d)'
    BY <1>u DEF InvRest
  <2>1. /\ \A l \in Locals : dsverdict[d].to = l /\ conn[l] = "open" => RestAt(d, l)
        /\ dsverdict[d].to = Proxy => RestInBuffer(d)
    BY <1>i DEF InvRest
  <2>2. ClientInv(d) BY <1>i DEF InvProgs
  <2>3. d # c BY <2>2, <1>f DEF ClientInv
  <2>4. dsin'[d] = dsin[d] BY <2>3, <1>d
  <2>5. \A l \in Locals : RestAt(d, l) => RestAt(d, l)' BY <1>u, SameRest
  <2>6. RestInBuffer(d) => RestInBuffer(d)' BY <2>4, <1>u, SameBuffer
  <2> QED BY <2>1, <2>5, <2>6
<1>9. InvBuffer'
  <2> SUFFICES ASSUME NEW d \in Clients PROVE BufferInv(d)'
    BY DEF InvBuffer
  <2>1. BufferInv(d) BY <1>i DEF InvBuffer
  <2>2. CASE d = c
    <3>1. dsin'[d] = <<>> /\ Len(<<>>) = 0 /\ 1..0 = {} BY <2>2, <1>c, SMTT(60)
    <3> QED BY <3>1 DEF BufferInv
  <2>3. CASE d # c
    <3>1. dsin'[d] = dsin[d] BY <2>3, <1>d
    <3> QED BY <2>1, <3>1 DEF BufferInv
  <2> QED BY <2>2, <2>3
<1>10. InvRoutes'
  <2>1. ASSUME NEW l \in Locals PROVE AnswerInv(l)'
    <3>1. AnswerInv(l) BY <1>i DEF InvRoutes
    <3> QED BY <3>1, <1>u DEF AnswerInv
  <2>2. ASSUME NEW l \in Locals, NEW d \in Clients PROVE RouteInv(d, l)'
    <3>1. RouteInv(d, l) /\ DsKey(d)' = DsKey(d) BY <1>i DEF InvRoutes, DsKey
    <3>2. task'[d].pc = "write" => task'[d] = task[d] BY <1>c, <1>d
    <3>3. /\ Route(l, d)' <=> Route(l, d)
          /\ Has(d, l)' <=> Has(d, l)
          /\ Holds(d, l)' <=> Holds(d, l)
      BY <1>u DEF Route, DsKey, Has, Holds, UsKey
    <3> QED BY <3>1, <3>2, <3>3, <1>u DEF RouteInv
  <2> QED BY <2>1, <2>2 DEF InvRoutes
<1>11. InvPlaces'
  <2> SUFFICES ASSUME NEW d \in Clients, client[d].st # "closed" PROVE PlaceInv(d)'
    BY <1>u DEF InvPlaces
  <2>1. PlaceInv(d) BY <1>i DEF InvPlaces
  <2>2. d # c BY <1>f
  <2>3. dsin'[d] = dsin[d] BY <2>2, <1>d
  <2> QED BY <2>1, <2>3, <1>u, SamePlace
<1> QED
  BY <1>1, <1>3, <1>5, <1>7, <1>8, <1>9, <1>10, <1>11, <1>u, <1>i, FrameSockets, FrameServers, FrameQueues,
     FrameInbox, FrameVerdicts, FrameTokens DEF IInv
=============================================================================

------------------------ MODULE H1ProxyClient_proof -------------------------
(***************************************************************************)
(* The first part has the lemmas that the proofs about H1Proxy share: what *)
(* the map operations do, that the initial state satisfies IInv, that IInv *)
(* implies the safety properties of H1Proxy, and for each part of IInv the *)
(* variables it depends on.  The second part shows that IInv is preserved  *)
(* by the steps of the clients and of process_msg for their requests.      *)
(***************************************************************************)
EXTENDS H1ProxyInv, TLAPS


(* What an update of an LRU hash map may do: the new entry is there, any     *)
(* other one is what it was or gone.                                         *)
LEMMA LruPutFacts ==
  ASSUME NEW D, NEW V, NEW m \in [D -> V], NEW k \in D, NEW v \in V, NEW none \in V,
         NEW cap, NEW r \in LruPut(m, k, v, none, cap)
  PROVE  /\ r \in [D -> V]
         /\ r[k] = v
         /\ \A x \in D \ {k} : r[x] \in {m[x], none}
BY DEF LruPut

(* An update of utrn_wait_list keeps its type: a token for a client's socket *)
(* names an instance.                                                        *)
LEMMA UtrnPutFacts ==
  ASSUME NEW m \in [HostKeys \cup UsKeys -> Upstreams \cup Locals \cup {NoAddr}],
         NEW k \in HostKeys \cup UsKeys, NEW v \in Upstreams \cup Locals \cup {NoAddr},
         \A x \in HostKeys : m[x] \in Upstreams \cup {NoAddr},
         k \in HostKeys => v \in Upstreams,
         NEW r \in LruPut(m, k, v, NoAddr, UtrnCap)
  PROVE  /\ r \in [HostKeys \cup UsKeys -> Upstreams \cup Locals \cup {NoAddr}]
         /\ \A x \in HostKeys : r[x] \in Upstreams \cup {NoAddr}
         /\ \A x \in HostKeys \ {k} : r[x] \in {m[x], NoAddr}
<1> DEFINE D == HostKeys \cup UsKeys
           V == Upstreams \cup Locals \cup {NoAddr}
<1>1. m \in [D -> V] /\ k \in D /\ v \in V /\ NoAddr \in V
  OBVIOUS
<1>2. HostKeys \subseteq D
  OBVIOUS
<1> HIDE DEF D, V
<1>3. /\ r \in [D -> V]
      /\ r[k] = v
      /\ \A x \in D \ {k} : r[x] \in {m[x], NoAddr}
  BY <1>1, LruPutFacts, ZenonT(20)
<1> QED BY <1>2, <1>3 DEF D, V

(* Taking the head off a queue. *)
LEMMA TailFacts ==
  ASSUME NEW S, NEW q \in Seq(S), q # <<>>
  PROVE  /\ Len(q) > 0
         /\ Head(q) = q[1]
         /\ q[1] \in S
         /\ Tail(q) \in Seq(S)
         /\ Len(Tail(q)) = Len(q) - 1
         /\ \A i \in 1..Len(q) - 1 : Tail(q)[i] = q[i + 1]
OBVIOUS

(* Adding a part at the end of a receive queue. *)
LEMMA AppendFacts ==
  ASSUME NEW S, NEW q \in Seq(S), NEW x \in S
  PROVE  /\ Append(q, x) \in Seq(S)
         /\ Append(q, x) # <<>>
         /\ Len(Append(q, x)) = Len(q) + 1
         /\ Append(q, x)[Len(q) + 1] = x
         /\ \A i \in 1..Len(q) : Append(q, x)[i] = q[i]
         /\ \A i \in 1..Len(Append(q, x)) : i \in 1..Len(q) \/ i = Len(q) + 1
OBVIOUS

(* The empty sequence and its length. *)
LEMMA EmptyFacts ==
  ASSUME NEW S, NEW q \in Seq(S)
  PROVE  /\ Len(q) \in Nat
         /\ q = <<>> <=> Len(q) = 0
         /\ \A i \in 1..Len(q) : q[i] \in S
OBVIOUS

(* Small facts about numbers and sequences, for steps deep inside the proofs. *)
LEMMA OnePart == ASSUME NEW q, Len(q) = 1 PROVE \A i \in 1..Len(q) : i = 1
OBVIOUS
LEMMA NoPart == Len(<<>>) = 0 /\ (\A i \in 1..Len(<<>>) : FALSE) /\ ~(0 > 0) /\ 0 + 1 = 1 /\ 1 - 1 = 0
OBVIOUS
LEMMA FirstPart == ASSUME NEW n \in Nat, n > 0 PROVE 1 \in 1..n
OBVIOUS
LEMMA LastPart == ASSUME NEW n \in Nat, NEW i \in 1..n + 1 PROVE i \in 1..n \/ i = n + 1
OBVIOUS
LEMMA SameNext == ASSUME NEW m \in Nat, NEW i \in 1..m, NEW j \in 1..m, i + 1 = j + 1 PROVE i = j
OBVIOUS
LEMMA AndBack == ASSUME NEW a \in Nat, NEW b \in Nat PROVE a + b = a + (b + 1) - 1 /\ b = (b + 1) - 1
OBVIOUS
LEMMA ZeroPlus == ASSUME NEW n \in Nat PROVE 0 + n = n
OBVIOUS
LEMMA NextNumber == ASSUME NEW n \in Nat PROVE n + 1 > 0
OBVIOUS
LEMMA NumberFacts == ASSUME NEW n \in 1..MaxReqs PROVE n > 0
OBVIOUS
LEMMA LenFacts ==
  ASSUME NEW n \in 0..MaxBody PROVE n \in Nat /\ 0 <= n /\ n <= n /\ 1 <= n + 1 /\ 1 + n = n + 1
OBVIOUS

(* The part of a body that comes when left of its len parts are to come, and *)
(* m parts are there, from the one with number k on.                         *)
LEMMA RestFacts ==
  ASSUME NEW len \in 0..MaxBody, NEW left \in 1..len
  PROVE  /\ left \in Nat /\ len \in Nat /\ 0 + left = left /\ left - 1 <= len
         /\ len - left + 1 = (len - left + 1) + 1 - 1
         /\ (len - left + 1) + 1 <= len + 1 /\ (len - left + 1) + left = len + 1
OBVIOUS
LEMMA RestPlace ==
  ASSUME NEW len \in Nat, NEW left \in Nat, NEW m \in Nat, NEW k \in Nat, k + (m + left) = len + 1
  PROVE  len - left + 1 = k + m
OBVIOUS
LEMMA RestAtStart ==
  ASSUME NEW len \in Nat, NEW left \in Nat, NEW m \in Nat, m + left = len + 1
  PROVE  len - left + 1 = m
OBVIOUS
LEMMA RestRoom ==
  ASSUME NEW len \in 0..MaxBody, NEW left \in 1..len, NEW m \in Nat, NEW k \in Nat
  PROVE  /\ len - left + 1 = k + m => k + (m + 1) <= len + 1
         /\ m + left = len + 1 => m + 1 <= len + 1
OBVIOUS

(* What a part and a server count.                                           *)
LEMMA PartFacts == ASSUME NEW p \in Parts PROVE p.k \in Nat /\ p.len \in Nat
BY BoundAssumption DEF Parts
LEMMA ServerLeft == ASSUME NEW r \in Server PROVE r.left \in Nat
BY BoundAssumption DEF Server

(* A client inside process_msg has nothing at a server and nothing to read. *)
LEMMA InProgram ==
  ASSUME NEW c \in Clients, PlaceInv(c), dsprog[c].pc # "idle"
  PROVE  crx[c] = <<>> /\ dsprog[c] # Idle /\ \A l \in Locals : ~At(c, l)
<1>1. dsprog[c] # Idle
  BY DEF Idle
<1>2. \A l \in Locals : ~At(c, l)
  BY <1>1 DEF PlaceInv, PlaceAt
<1>3. crx[c] = <<>>
  BY DEF PlaceInv, PlaceElse
<1> QED BY <1>1, <1>2, <1>3
-----------------------------------------------------------------------------
(* The parts of IInv that a step leaves alone. *)
LEMMA FrameSockets ==
  ASSUME InvSockets, UNCHANGED <<msg_sock_map, sock_map_wait_list, client, conn, peer>>
  PROVE  InvSockets'
BY DEF InvSockets, ClientSocket, ServerSocket, DsKey, UsKey

(* InvTasks depends on the tasks, their buffers and their connections.       *)
LEMMA FrameTasks ==
  ASSUME InvTasks, UNCHANGED <<task, dsin, dsverdict, conn>>
  PROVE  InvTasks'
BY DEF InvTasks, TaskInv, Opens, Busy, DsKey, Whole

(* InvServers depends on the servers and their programs.                     *)
LEMMA FrameServers ==
  ASSUME InvServers, UNCHANGED <<conn, server, inbox, usprog, usverdict>>
  PROVE  InvServers'
BY DEF InvServers, ServerInv

(* InvProgs depends on the programs of the clients and on who has what.      *)
LEMMA FrameProgs ==
  ASSUME InvProgs, UNCHANGED <<dsprog, client, dsin, dsverdict, task, conn, peer>>
  PROVE  InvProgs'
BY DEF InvProgs, ProgInv, ClientInv, Holds, UsKey, Busy

(* InvQueues depends on the queues and on the connections in them.           *)
LEMMA FrameQueues ==
  ASSUME InvQueues, UNCHANGED <<fib_upstream, peer, conn>>
  PROVE  InvQueues'
BY DEF InvQueues, QueueInv

(* InvLeases depends on the places a connection can be in.                   *)
LEMMA FrameLeases ==
  ASSUME InvLeases, UNCHANGED <<dsprog, peer, fib_upstream, inbox, server, usprog, task>>
  PROVE  InvLeases'
BY DEF InvLeases, LeaseInv, Holds, Opens, Busy, Queued, Unanswered, UsKey

(* InvInbox depends on the servers and their receive queues.                 *)
LEMMA FrameInbox ==
  ASSUME InvInbox, UNCHANGED <<inbox, server, usprog>>
  PROVE  InvInbox'
BY DEF InvInbox, InboxInv, Unanswered

(* InvRest depends on the verdicts and on where they send the rest.          *)
LEMMA FrameRest ==
  ASSUME InvRest, UNCHANGED <<dsverdict, conn, inbox, server, client, dsin>>
  PROVE  InvRest'
BY DEF InvRest, RestAt, RestInBuffer

(* InvBuffer depends on the buffers alone.                                   *)
LEMMA FrameBuffer ==
  ASSUME InvBuffer, UNCHANGED dsin
  PROVE  InvBuffer'
BY DEF InvBuffer, BufferInv

(* InvRoutes depends on fib_downstream and on who waits for an answer.       *)
LEMMA FrameRoutes ==
  ASSUME InvRoutes, UNCHANGED <<fib_downstream, dsprog, peer, task, inbox, server, usprog,
                                usverdict, client>>
  PROVE  InvRoutes'
BY DEF InvRoutes, RouteInv, AnswerInv, Route, Holds, Has, DsKey, UsKey

(* InvPlaces depends on the places a request can be in.                      *)
LEMMA FramePlaces ==
  ASSUME InvPlaces, UNCHANGED <<client, inbox, server, dsprog, dsin, crx, usverdict, dsverdict>>
  PROVE  InvPlaces'
BY DEF InvPlaces, PlaceInv, PlaceAt, PlaceElse, Received, At, Has, Serves

(* InvVerdicts depends on the verdicts and the connections.                  *)
LEMMA FrameVerdicts == ASSUME InvVerdicts, UNCHANGED <<dsverdict, conn>> PROVE InvVerdicts'
BY DEF InvVerdicts

(* InvTokens depends on utrn_wait_list alone.                                *)
LEMMA FrameTokens == ASSUME InvTokens, UNCHANGED utrn_wait_list PROVE InvTokens'
BY DEF InvTokens

(* The same for what the invariant says of one client or one connection. *)
LEMMA SameRest ==
  ASSUME NEW c \in Clients, NEW l \in Locals, RestAt(c, l),
         client'[c].n = client[c].n, client'[c].len = client[c].len,
         dsverdict'[c].left = dsverdict[c].left,
         inbox'[l] = inbox[l], server'[l] = server[l]
  PROVE  RestAt(c, l)'
BY DEF RestAt

(* RestInBuffer of one client depends on these alone.                        *)
LEMMA SameBuffer ==
  ASSUME NEW c \in Clients, RestInBuffer(c),
         client'[c].n = client[c].n, client'[c].len = client[c].len,
         dsverdict'[c].left = dsverdict[c].left, dsin'[c] = dsin[c]
  PROVE  RestInBuffer(c)'
BY DEF RestInBuffer

(* PlaceAt of one client and one connection depends on these alone.          *)
LEMMA SamePlaceAt ==
  ASSUME NEW c \in Clients, NEW l \in Locals, PlaceAt(c, l),
         client'[c] = client[c], dsprog'[c] = dsprog[c], dsin'[c] = dsin[c], crx'[c] = crx[c],
         dsverdict'[c] = dsverdict[c],
         inbox'[l] = inbox[l], server'[l] = server[l], usverdict'[l] = usverdict[l]
  PROVE  PlaceAt(c, l)' /\ (At(c, l)' <=> At(c, l))
<1>1. /\ At(c, l)' <=> At(c, l)
      /\ Has(c, l)' <=> Has(c, l)
      /\ Serves(l, c)' <=> Serves(l, c)
  BY DEF At, Has, Serves
<1> QED BY <1>1 DEF PlaceAt

(* PlaceInv of one client depends on its own state and on the servers.       *)
LEMMA SamePlace ==
  ASSUME NEW c \in Clients, PlaceInv(c),
         client'[c] = client[c], dsprog'[c] = dsprog[c], dsin'[c] = dsin[c], crx'[c] = crx[c],
         dsverdict'[c] = dsverdict[c], UNCHANGED <<inbox, server, usverdict>>
  PROVE  PlaceInv(c)'
<1>1. \A l \in Locals : PlaceAt(c, l)' /\ (At(c, l)' <=> At(c, l))
  BY SamePlaceAt DEF PlaceInv
<1>2. PlaceElse(c)'
  BY DEF PlaceInv, PlaceElse
<1>3. Received(c)'
  BY DEF PlaceInv, Received
<1> QED BY <1>1, <1>2, <1>3 DEF PlaceInv
-----------------------------------------------------------------------------
(* The initial state satisfies the inductive invariant. *)
LEMMA InitInv == Init => IInv
<1> SUFFICES ASSUME Init PROVE IInv
  OBVIOUS
<1> USE BoundAssumption DEF Init
<1>1. TypeOK
  BY DEF TypeOK, DsProg, UsProg, DsVerdict, UsVerdict, Client, TaskState, Server, Pcs, Idle,
         NoVerdict, NoRequest, Reading, HostKeys, UsKeys
<1>2. InvSockets /\ InvTasks
  BY DEF InvSockets, ClientSocket, ServerSocket, InvTasks, TaskInv, Opens, Busy, Reading
<1>3. InvServers /\ InvProgs
  BY DEF InvServers, ServerInv, InvProgs, ProgInv, ClientInv, Busy, NoRequest, Reading, NoVerdict, Idle
<1>4. InvQueues /\ InvInbox /\ InvRest /\ InvBuffer
  BY DEF InvQueues, QueueInv, InvInbox, InboxInv, InvRest, InvBuffer, BufferInv, NoVerdict
<1>5. InvLeases
  BY DEF InvLeases, LeaseInv, Holds, Opens, Busy, Queued, Unanswered, Reading, NoRequest, Idle
<1>6. InvRoutes
  BY DEF InvRoutes, RouteInv, AnswerInv, Holds, Has, Reading, NoRequest, Idle
<1>7. InvPlaces
  BY DEF InvPlaces, PlaceInv, PlaceAt, PlaceElse, Received, At, Has, Serves, NoRequest, NoVerdict, Idle
<1>8. InvVerdicts /\ InvTokens
  BY DEF InvVerdicts, InvTokens, NoVerdict
<1> QED
  BY <1>1, <1>2, <1>3, <1>4, <1>5, <1>6, <1>7, <1>8 DEF IInv
-----------------------------------------------------------------------------
(* The inductive invariant implies the safety properties. *)
LEMMA InvNoCrossDelivery == IInv => NoCrossDelivery
<1> SUFFICES ASSUME IInv, NEW c \in Clients, client[c].st # "closed", NEW i \in 1..Len(crx[c])
             PROVE  /\ crx[c][i].c = c
                    /\ crx[c][i].n = client[c].n
                    /\ crx[c][i].k = i - 1
                    /\ client[c].st = "waiting"
  BY DEF NoCrossDelivery
<1>1. Received(c) /\ crx[c] \in Seq(Parts)
  BY DEF IInv, TypeOK, InvPlaces, PlaceInv
<1> QED BY <1>1, EmptyFacts DEF Received

(* IInv implies that process_msg runs for the open server sockets.           *)
LEMMA InvServersMonitored == IInv => ServersMonitored
BY ZenonT(20) DEF IInv, InvSockets, ServerSocket, ServersMonitored

(* IInv implies that requests do not mix in a server's socket.               *)
LEMMA InvWellFramed == IInv => WellFramed
<1> SUFFICES ASSUME IInv, NEW l \in Locals, inbox[l] # <<>>
    PROVE  /\ server[l].st = "idle" => Head(inbox[l]).k = 0
           /\ server[l].st = "reading" =>
                /\ Head(inbox[l]).c = server[l].c
                /\ Head(inbox[l]).n = server[l].n
                /\ Head(inbox[l]).k = Head(inbox[l]).len - server[l].left + 1
  BY DEF WellFramed
<1>1. InboxInv(l) /\ inbox[l] \in Seq(Parts) /\ server[l] \in Server
  BY DEF IInv, TypeOK, InvInbox
<1>2. Head(inbox[l]) = inbox[l][1] /\ inbox[l][1] \in Parts
  BY <1>1, TailFacts
<1>3. inbox[l][1].k \in Nat /\ inbox[l][1].len \in Nat
  BY <1>2, BoundAssumption DEF Parts
<1>4. server[l].left \in Nat
  BY <1>1, BoundAssumption DEF Server
<1>5. CASE server[l].st = "idle"
  BY <1>1, <1>2, <1>5 DEF InboxInv
<1>6. CASE server[l].st = "reading"
  <2>1. /\ inbox[l][1].c = server[l].c /\ inbox[l][1].n = server[l].n
        /\ inbox[l][1].k + server[l].left = inbox[l][1].len + 1
    BY <1>1, <1>6 DEF InboxInv
  <2> QED BY <1>2, <1>3, <1>4, <1>6, <2>1
<1> QED
  BY <1>5, <1>6

(* IInv implies that a connection serves one request at a time.              *)
LEMMA InvExclusiveConn == IInv => ExclusiveConn
<1> SUFFICES ASSUME IInv PROVE ExclusiveConn
  OBVIOUS
<1>1. /\ InvLeases /\ InvTasks /\ InvInbox /\ InvQueues
      /\ server \in [Locals -> Server]
      /\ inbox \in [Locals -> Seq(Parts)]
  BY DEF IInv, TypeOK
<1>2. ASSUME NEW l \in Locals, NEW c \in Leased(l)
      PROVE  /\ c \in Clients
             /\ \/ Holds(c, l)
                \/ Opens(c, l)
                \/ inbox[l] # <<>> /\ Has(c, l)
                \/ Unanswered(l) /\ server[l].c = c
  BY <1>1, EmptyFacts DEF Leased, Holds, Opens, Busy, Has, Unanswered
<1>3. ASSUME NEW l \in Locals, NEW c \in Leased(l), NEW d \in Leased(l)
      PROVE  c = d
  <2>1. LeaseInv(l) /\ InboxInv(l)
    BY <1>1 DEF InvLeases, InvInbox
  <2>2. inbox[l] # <<>> /\ Unanswered(l) =>
          server[l].st = "reading" /\ \A i \in 1..Len(inbox[l]) : inbox[l][i].c = server[l].c
    BY <2>1 DEF InboxInv, Unanswered
  <2>3. \A e, f \in Clients : inbox[l] # <<>> /\ Has(e, l) /\ Has(f, l) => e = f
    BY <2>1 DEF InboxInv, Has
  <2>4. Opens(c, l) \/ Opens(d, l) => ~Unanswered(l)
    BY <1>2, <2>1 DEF LeaseInv, Unanswered, NoRequest
  <2>5. CASE Holds(c, l) \/ Holds(d, l)
    BY <1>2, <2>1, <2>5 DEF LeaseInv
  <2>6. CASE Opens(c, l) \/ Opens(d, l)
    BY <1>1, <1>2, <2>1, <2>4, <2>6 DEF LeaseInv, InvTasks
  <2>7. CASE ~Holds(c, l) /\ ~Holds(d, l) /\ ~Opens(c, l) /\ ~Opens(d, l)
    BY <1>2, <2>2, <2>3, <2>7 DEF Has
  <2> QED BY <2>5, <2>6, <2>7
<1>4. ASSUME NEW l \in Locals, Queued(l)
      PROVE  Leased(l) = {}
  BY <1>1, <1>2, <1>4 DEF InvLeases, LeaseInv
<1>5. ASSUME NEW u \in Upstreams, NEW i \in 1..Len(fib_upstream[u]), NEW j \in 1..Len(fib_upstream[u])
      PROVE  /\ fib_upstream[u][i][1] = u
             /\ fib_upstream[u][i] = fib_upstream[u][j] => i = j
  BY <1>1 DEF InvQueues, QueueInv
<1> QED
  BY <1>3, <1>4, <1>5 DEF ExclusiveConn

-----------------------------------------------------------------------------
(* Most steps are first-order: Zenon, unless a step asks for the SMT solver.  *)
USE ZenonT(20)

(* A client connects: monitor_sockets puts its socket into the map, and      *)
(* nothing else knows it yet.                                                *)
LEMMA ConnectInv == ASSUME IInv, NEW c \in Clients, Connect(c) PROVE IInv'
<1>i. /\ TypeOK /\ InvSockets /\ InvTasks /\ InvServers /\ InvProgs /\ InvQueues /\ InvLeases
      /\ InvInbox /\ InvRest /\ InvBuffer /\ InvRoutes /\ InvPlaces
      /\ InvVerdicts /\ InvTokens
  BY DEF IInv
<1>f. /\ UNCHANGED <<fib_upstream, fib_downstream, utrn_wait_list, dsprog, dsverdict, usprog,
                     usverdict, crx, dsin, conn, peer, inbox, server, lost>>
      /\ client' = [client EXCEPT ![c].st = "idle"]
      /\ task' = [task EXCEPT ![c] = Reading]
      /\ msg_sock_map' = msg_sock_map \cup {DsKey(c)}
      /\ sock_map_wait_list' = sock_map_wait_list \ {DsKey(c)}
      /\ client[c].st = "new"
  BY DEF Connect, monitor_sockets, DsKey, dsrun, usrun
<1>t. client[c] \in Client /\ client'[c] = [client[c] EXCEPT !.st = "idle"] /\ task'[c] = Reading
  BY <1>i, <1>f DEF TypeOK
<1>d. \A d \in Clients \ {c} : client'[d] = client[d] /\ task'[d] = task[d]
  BY <1>i, <1>f DEF TypeOK
<1>c. client'[c].n = client[c].n /\ client'[c].len = client[c].len /\ client'[c].st = "idle"
  BY <1>t DEF Client
<1>a. \A d \in Clients : Busy(d)' <=> Busy(d) /\ d # c
  BY <1>t, <1>d, SMTT(60) DEF Busy, Reading
<1>1. TypeOK'
  <2>1. client' \in [Clients -> Client]
    <3>1. client[c] \in Client BY <1>i DEF TypeOK
    <3>2. [client[c] EXCEPT !.st = "idle"] \in Client BY <3>1, <1>f DEF Client
    <3> QED BY <1>i, <1>f, <3>2 DEF TypeOK
  <2>2. task' \in [Clients -> TaskState] BY <1>i, <1>f DEF TypeOK, TaskState, Reading
  <2> QED BY <1>i, <1>f, <2>1, <2>2, SMTT(60) DEF TypeOK, DsKey, DsKeys
<1>2. InvSockets'
  BY AddrAssumption, <1>i, <1>f, <1>c, <1>d, SMTT(60) DEF TypeOK, InvSockets, ClientSocket, ServerSocket, DsKey, UsKey
<1>3. InvTasks'
  BY <1>i, <1>f, <1>a, <1>d, <1>t, SMTT(60) DEF InvTasks, TaskInv, Opens, DsKey, Whole, Reading
<1>4. InvProgs'
  <2> SUFFICES ASSUME NEW d \in Clients PROVE ProgInv(d)' /\ ClientInv(d)'
    BY DEF InvProgs
  <2>p. ProgInv(d) /\ ClientInv(d) BY <1>i DEF InvProgs
  <2>h. \A l \in Locals : Holds(d, l)' <=> Holds(d, l)
    BY <1>f DEF Holds, UsKey
  <2>1. CASE d = c
    <3>1. ProgInv(c)' BY <2>p, <2>h, <2>1, <1>f, <1>c DEF ProgInv
    <3>2. ClientInv(c)' BY <2>p, <2>1, <1>f, <1>c, <1>a DEF ClientInv
    <3> QED BY <3>1, <3>2, <2>1
  <2>2. CASE d # c
    <3>1. ProgInv(d)' BY <2>p, <2>h, <2>2, <1>f, <1>d DEF ProgInv
    <3>2. ClientInv(d)' BY <2>p, <2>2, <1>f, <1>d, <1>a DEF ClientInv
    <3> QED BY <3>1, <3>2
  <2> QED BY <2>1, <2>2
<1>5. InvLeases'
  <2> SUFFICES ASSUME NEW l \in Locals PROVE LeaseInv(l)'
    BY DEF InvLeases
  <2>1. LeaseInv(l) BY <1>i DEF InvLeases
  <2>2. /\ Unanswered(l)' <=> Unanswered(l)
        /\ Queued(l)' <=> Queued(l)
        /\ \A d \in Clients : (Holds(d, l)' <=> Holds(d, l)) /\ (Opens(d, l)' => Opens(d, l))
    BY <1>f, <1>a, <1>d DEF Holds, UsKey, Opens, Queued, Unanswered
  <2>3. inbox' = inbox /\ server' = server BY <1>f
  <2> QED BY <2>1, <2>2, <2>3 DEF LeaseInv
<1>6. InvRest'
  <2>r. InvRest BY <1>i
  <2>1. ASSUME NEW d \in Clients, NEW l \in Locals, RestAt(d, l),
               client'[d].n = client[d].n, client'[d].len = client[d].len, dsverdict'[d] = dsverdict[d]
        PROVE  RestAt(d, l)'
    BY <2>1, <1>f DEF RestAt
  <2>2. ASSUME NEW d \in Clients, RestInBuffer(d),
               client'[d].n = client[d].n, client'[d].len = client[d].len, dsverdict'[d] = dsverdict[d]
        PROVE  RestInBuffer(d)'
    BY <2>2, <1>f DEF RestInBuffer
  <2> QED BY <2>r, <2>1, <2>2, <1>f, <1>c, <1>d DEF InvRest
<1>7. InvRoutes'
  <2>1. ASSUME NEW l \in Locals PROVE AnswerInv(l)'
    <3>1. AnswerInv(l) /\ ServerInv(l) BY <1>i DEF InvRoutes, InvServers
    <3> QED BY <3>1, <1>f, <1>c, <1>d DEF AnswerInv, ServerInv
  <2>2. ASSUME NEW l \in Locals, NEW d \in Clients PROVE RouteInv(d, l)'
    <3>1. RouteInv(d, l) BY <1>i DEF InvRoutes
    <3>2. /\ Holds(d, l)' <=> Holds(d, l)
          /\ Has(d, l)' <=> Has(d, l)
          /\ Route(l, d)' <=> Route(l, d)
          /\ DsKey(d)' = DsKey(d)
      BY <1>f DEF Holds, UsKey, Has, Route, DsKey
    <3>3. task'[d].pc = "write" => task'[d] = task[d] BY <1>t, <1>d, SMTT(60) DEF Reading
    <3> QED BY <3>1, <3>2, <3>3, <1>f DEF RouteInv
  <2> QED BY <2>1, <2>2 DEF InvRoutes
<1>8. InvPlaces'
  <2> SUFFICES ASSUME NEW d \in Clients, client'[d].st # "closed" PROVE PlaceInv(d)'
    BY DEF InvPlaces
  <2>a. \A l \in Locals : /\ At(d, l)' <=> At(d, l)
                          /\ Has(d, l)' <=> Has(d, l)
                          /\ Serves(l, d)' <=> Serves(l, d)
    BY <1>f DEF At, Has, Serves
  <2>p. PlaceInv(d) BY <1>c, <1>d, <1>f, <1>i DEF InvPlaces
  <2>1. CASE d = c
    <3>1. /\ crx[c] = <<>> /\ dsin[c] = <<>> /\ dsprog[c].pc = "idle" /\ ~(dsverdict[c].left > 0)
          /\ \A l \in Locals : ~At(c, l)
      BY <2>p, <2>1, <1>f, <1>i DEF PlaceInv, PlaceAt, PlaceElse, Received, InvProgs, ProgInv, ClientInv
    <3> QED BY <2>1, <3>1, <2>a, <1>f, SMTT(60) DEF PlaceInv, PlaceAt, PlaceElse, Received
  <2>2. CASE d # c
    <3>1. client'[d] = client[d] /\ dsverdict'[d] = dsverdict[d] BY <2>2, <1>d, <1>f
    <3>2. ASSUME NEW l \in Locals PROVE PlaceAt(d, l)'
      <4>1. PlaceAt(d, l) BY <2>p DEF PlaceInv
      <4> QED BY <4>1, <3>1, <2>a, <1>f DEF PlaceAt
    <3> QED BY <2>p, <2>a, <3>1, <3>2, <1>f DEF PlaceInv, PlaceElse, Received
  <2> QED BY <2>1, <2>2
<1> QED
  BY <1>i, <1>f, <1>1, <1>2, <1>3, <1>4, <1>5, <1>6, <1>7, <1>8, FrameServers, FrameQueues,
     FrameInbox, FrameBuffer, FrameVerdicts, FrameTokens DEF IInv

(* A client closes its connection: its socket leaves the map, what it sent   *)
(* stays where it is.                                                        *)
LEMMA GiveUpInv == ASSUME IInv, NEW c \in Clients, GiveUp(c) PROVE IInv'
<1>i. /\ TypeOK /\ InvSockets /\ InvTasks /\ InvServers /\ InvProgs /\ InvQueues /\ InvLeases
      /\ InvInbox /\ InvRest /\ InvBuffer /\ InvRoutes /\ InvPlaces
      /\ InvVerdicts /\ InvTokens
  BY DEF IInv
<1>f. /\ UNCHANGED <<sock_map_wait_list, fib_upstream, fib_downstream, utrn_wait_list, dsprog, usprog,
                     usverdict, crx, dsin, task, conn, peer, inbox, server, lost>>
      /\ client' = [client EXCEPT ![c].st = "closed"]
      /\ dsverdict' = [dsverdict EXCEPT ![c] = NoVerdict]
      /\ msg_sock_map' = msg_sock_map \ {DsKey(c)}
      /\ client[c].st \in {"idle", "waiting"} /\ dsprog[c] = Idle
  BY DEF GiveUp, DsKey, usrun
<1>c. /\ client'[c].n = client[c].n /\ client'[c].len = client[c].len /\ client'[c].st = "closed"
      /\ dsverdict'[c].left = 0 /\ dsprog[c].pc = "idle" /\ client[c] \in Client
  BY <1>i, <1>f, SMTT(60) DEF TypeOK, Client, NoVerdict, Idle
<1>d. \A d \in Clients \ {c} : client'[d] = client[d] /\ dsverdict'[d] = dsverdict[d]
  BY <1>i, <1>f DEF TypeOK
<1>1. TypeOK'
  <2>1. client' \in [Clients -> Client]
    <3>1. client[c] \in Client BY <1>i DEF TypeOK
    <3>2. [client[c] EXCEPT !.st = "closed"] \in Client BY <3>1, <1>f DEF Client
    <3> QED BY <1>i, <1>f, <3>2 DEF TypeOK
  <2>2. dsverdict' \in [Clients -> DsVerdict] BY BoundAssumption, <1>i, <1>f, SMTT(60) DEF TypeOK, DsVerdict, NoVerdict
  <2> QED BY <1>i, <1>f, <2>1, <2>2 DEF TypeOK
<1>2. InvSockets'
  BY AddrAssumption, <1>i, <1>f, <1>c, <1>d, SMTT(60) DEF TypeOK, InvSockets, ClientSocket, ServerSocket, DsKey, UsKey
<1>3. InvTasks'
  BY <1>i, <1>f, <1>c, <1>d, SMTT(60) DEF InvTasks, TaskInv, Opens, Busy, DsKey, Whole
<1>4. InvProgs'
  <2> SUFFICES ASSUME NEW d \in Clients PROVE ProgInv(d)' /\ ClientInv(d)'
    BY DEF InvProgs
  <2>p. ProgInv(d) /\ ClientInv(d) BY <1>i DEF InvProgs
  <2>h. \A l \in Locals : Holds(d, l)' <=> Holds(d, l)
    BY <1>f DEF Holds, UsKey
  <2>1. CASE d = c
    <3>1. ProgInv(c)' BY <2>p, <2>h, <2>1, <1>f, <1>c DEF ProgInv
    <3>2. ClientInv(c)' BY <1>c, SMTT(60) DEF ClientInv, Client
    <3> QED BY <3>1, <3>2, <2>1
  <2>2. CASE d # c
    <3>1. ProgInv(d)' BY <2>p, <2>h, <2>2, <1>f, <1>d DEF ProgInv
    <3>2. ClientInv(d)' BY <2>p, <2>2, <1>f, <1>d DEF ClientInv, Busy
    <3> QED BY <3>1, <3>2
  <2> QED BY <2>1, <2>2
<1>6. InvRest'
  <2>r. InvRest BY <1>i
  <2>1. ASSUME NEW d \in Clients, NEW l \in Locals, RestAt(d, l),
               client'[d].n = client[d].n, client'[d].len = client[d].len, dsverdict'[d] = dsverdict[d]
        PROVE  RestAt(d, l)'
    BY <2>1, <1>f DEF RestAt
  <2>2. ASSUME NEW d \in Clients, RestInBuffer(d),
               client'[d].n = client[d].n, client'[d].len = client[d].len, dsverdict'[d] = dsverdict[d]
        PROVE  RestInBuffer(d)'
    BY <2>2, <1>f DEF RestInBuffer
  <2> QED BY <2>r, <2>1, <2>2, <1>f, <1>c, <1>d, SMTT(60) DEF InvRest
<1>7. InvRoutes'
  <2>1. ASSUME NEW l \in Locals PROVE AnswerInv(l)'
    <3>1. AnswerInv(l) /\ ServerInv(l) BY <1>i DEF InvRoutes, InvServers
    <3> QED BY <3>1, <1>f, <1>c, <1>d, SMTT(60) DEF AnswerInv, ServerInv
  <2>2. ASSUME NEW l \in Locals, NEW d \in Clients PROVE RouteInv(d, l)'
    <3>1. RouteInv(d, l) BY <1>i DEF InvRoutes
    <3>2. /\ Holds(d, l)' <=> Holds(d, l)
          /\ Has(d, l)' <=> Has(d, l)
          /\ Route(l, d)' <=> Route(l, d)
          /\ DsKey(d)' = DsKey(d)
      BY <1>f DEF Holds, UsKey, Has, Route, DsKey
    <3> QED BY <3>1, <3>2, <1>f DEF RouteInv
  <2> QED BY <2>1, <2>2 DEF InvRoutes
<1>8. InvPlaces'
  <2> SUFFICES ASSUME NEW d \in Clients, client'[d].st # "closed" PROVE PlaceInv(d)'
    BY DEF InvPlaces
  <2>a. \A l \in Locals : /\ At(d, l)' <=> At(d, l)
                          /\ Has(d, l)' <=> Has(d, l)
                          /\ Serves(l, d)' <=> Serves(l, d)
    BY <1>f DEF At, Has, Serves
  <2>p. PlaceInv(d) BY <1>c, <1>d, <1>f, <1>i DEF InvPlaces
  <2>1. CASE d = c
    BY <2>1, <1>c
  <2>2. CASE d # c
    <3>1. client'[d] = client[d] /\ dsverdict'[d] = dsverdict[d] BY <2>2, <1>d, <1>f
    <3>2. ASSUME NEW l \in Locals PROVE PlaceAt(d, l)'
      <4>1. PlaceAt(d, l) BY <2>p DEF PlaceInv
      <4> QED BY <4>1, <3>1, <2>a, <1>f DEF PlaceAt
    <3> QED BY <2>p, <2>a, <3>1, <3>2, <1>f DEF PlaceInv, PlaceElse, Received
  <2> QED BY <2>1, <2>2
<1>v. InvVerdicts'
  BY AddrAssumption, <1>i, <1>f DEF InvVerdicts, TypeOK, NoVerdict
<1> QED
  BY <1>i, <1>f, <1>1, <1>2, <1>3, <1>4, <1>6, <1>7, <1>8, FrameServers, FrameQueues,
     FrameInbox, FrameBuffer, FrameLeases, <1>v, FrameTokens DEF IInv

(* A client has read its answer: it was the whole of it, so nothing of the   *)
(* request is anywhere.                                                      *)
LEMMA FinishInv == ASSUME IInv, NEW c \in Clients, Finish(c) PROVE IInv'
<1>i. /\ TypeOK /\ InvSockets /\ InvTasks /\ InvServers /\ InvProgs /\ InvQueues /\ InvLeases
      /\ InvInbox /\ InvRest /\ InvBuffer /\ InvRoutes /\ InvPlaces
      /\ InvVerdicts /\ InvTokens
  BY DEF IInv
<1>f. /\ UNCHANGED <<msg_sock_map, sock_map_wait_list, fib_upstream, fib_downstream, utrn_wait_list,
                     dsprog, dsverdict, usprog, usverdict, dsin, task, conn, peer, inbox, server, lost>>
      /\ client' = [client EXCEPT ![c].st = "idle"]
      /\ crx' = [crx EXCEPT ![c] = <<>>]
      /\ client[c].st = "waiting" /\ dsprog[c] = Idle /\ Whole(crx[c])
  BY DEF Finish, maps, dsrun, usrun
<1>t. client[c] \in Client /\ crx[c] \in Seq(Parts) /\ dsverdict[c] \in DsVerdict /\ dsverdict[c].left \in Nat
  BY <1>i, SMTT(60) DEF TypeOK, DsVerdict
<1>c. /\ client'[c].n = client[c].n /\ client'[c].len = client[c].len /\ client'[c].st = "idle"
      /\ dsprog[c].pc = "idle" /\ crx'[c] = <<>>
  BY <1>i, <1>f, SMTT(60) DEF TypeOK, Client, Idle
<1>d. \A d \in Clients \ {c} : client'[d] = client[d] /\ crx'[d] = crx[d]
  BY <1>i, <1>f DEF TypeOK
<1>p. PlaceInv(c)
  BY <1>i, <1>f DEF InvPlaces
<1>e. dsverdict[c].left = 0 /\ dsin[c] = <<>> /\ ~Busy(c)
  BY <1>i, <1>p, <1>f, <1>t, SMTT(60) DEF PlaceInv, PlaceElse, Whole, InvTasks, TaskInv
<1>g. ASSUME NEW l \in Locals PROVE ~At(c, l)
  <2> SUFFICES ASSUME At(c, l) PROVE FALSE
    OBVIOUS
  <2>1. Serves(l, c) /\ server[l].st = "sending" /\ Len(crx[c]) + usverdict[l].left = crx[c][1].len + 1
    <3>1. PlaceAt(c, l)
      BY <1>p DEF PlaceInv
    <3>2. crx[c] # <<>>
      BY <1>f DEF Whole
    <3>3. Serves(l, c) /\ server[l].st = "sending"
      BY <3>1, <3>2 DEF PlaceAt
    <3> QED BY <3>1, <3>3 DEF PlaceAt
  <2>2. usverdict[l].left > 0 /\ usverdict[l].left \in Nat
    BY <1>i, <2>1, SMTT(60) DEF InvServers, ServerInv, TypeOK, UsVerdict
  <2>3. Len(crx[c]) \in Nat /\ crx[c][1].len \in Nat
    <3>1. Len(crx[c]) \in Nat /\ crx[c][1] \in Parts BY <1>t, <1>f, EmptyFacts, TailFacts DEF Whole
    <3> QED BY <3>1, SMTT(60) DEF Parts
  <2> QED
    BY <1>f, <2>1, <2>2, <2>3, SMTT(60) DEF Whole
<1>1. TypeOK'
  <2>1. client' \in [Clients -> Client]
    <3>1. client[c] \in Client BY <1>i DEF TypeOK
    <3>2. [client[c] EXCEPT !.st = "idle"] \in Client BY <3>1, <1>f DEF Client
    <3> QED BY <1>i, <1>f, <3>2 DEF TypeOK
  <2>2. crx' \in [Clients -> Seq(Parts)] BY <1>i, <1>f, SMTT(60) DEF TypeOK
  <2> QED BY <1>i, <1>f, <2>1, <2>2 DEF TypeOK
<1>2. InvSockets'
  BY <1>i, <1>f, <1>c, <1>d, SMTT(60) DEF TypeOK, InvSockets, ClientSocket, ServerSocket, DsKey, UsKey
<1>4. InvProgs'
  <2> SUFFICES ASSUME NEW d \in Clients PROVE ProgInv(d)' /\ ClientInv(d)'
    BY DEF InvProgs
  <2>p. ProgInv(d) /\ ClientInv(d) BY <1>i DEF InvProgs
  <2>h. \A l \in Locals : Holds(d, l)' <=> Holds(d, l)
    BY <1>f DEF Holds, UsKey
  <2>1. CASE d = c
    <3>1. ProgInv(c)' BY <2>p, <2>h, <2>1, <1>f, <1>c DEF ProgInv
    <3>2. ClientInv(c)' BY <2>p, <2>1, <1>f, <1>c, <1>e, SMTT(60) DEF ClientInv, Busy
    <3> QED BY <3>1, <3>2, <2>1
  <2>2. CASE d # c
    <3>1. ProgInv(d)' BY <2>p, <2>h, <2>2, <1>f, <1>d DEF ProgInv
    <3>2. ClientInv(d)' BY <2>p, <2>2, <1>f, <1>d, <1>e DEF ClientInv, Busy
    <3> QED BY <3>1, <3>2
  <2> QED BY <2>1, <2>2
<1>6. InvRest'
  <2>r. InvRest BY <1>i
  <2>1. ASSUME NEW d \in Clients, NEW l \in Locals, RestAt(d, l),
               client'[d].n = client[d].n, client'[d].len = client[d].len, dsverdict'[d] = dsverdict[d]
        PROVE  RestAt(d, l)'
    BY <2>1, <1>f DEF RestAt
  <2>2. ASSUME NEW d \in Clients, RestInBuffer(d),
               client'[d].n = client[d].n, client'[d].len = client[d].len, dsverdict'[d] = dsverdict[d]
        PROVE  RestInBuffer(d)'
    BY <2>2, <1>f DEF RestInBuffer
  <2> QED BY <2>r, <2>1, <2>2, <1>f, <1>c, <1>d, <1>e DEF InvRest
<1>7. InvRoutes'
  <2>1. ASSUME NEW l \in Locals PROVE AnswerInv(l)'
    <3>1. AnswerInv(l) /\ ServerInv(l) BY <1>i DEF InvRoutes, InvServers
    <3> QED BY <3>1, <1>f, <1>c, <1>d, SMTT(60) DEF AnswerInv, ServerInv
  <2>2. ASSUME NEW l \in Locals, NEW d \in Clients PROVE RouteInv(d, l)'
    <3>1. RouteInv(d, l) BY <1>i DEF InvRoutes
    <3>2. /\ Holds(d, l)' <=> Holds(d, l)
          /\ Has(d, l)' <=> Has(d, l)
          /\ Route(l, d)' <=> Route(l, d)
          /\ DsKey(d)' = DsKey(d)
      BY <1>f DEF Holds, UsKey, Has, Route, DsKey
    <3> QED BY <3>1, <3>2, <1>f DEF RouteInv
  <2> QED BY <2>1, <2>2 DEF InvRoutes
<1>8. InvPlaces'
  <2> SUFFICES ASSUME NEW d \in Clients, client'[d].st # "closed" PROVE PlaceInv(d)'
    BY DEF InvPlaces
  <2>a. \A l \in Locals : At(d, l)' <=> At(d, l)
    BY <1>f DEF At, Has, Serves
  <2>1. CASE d = c
    <3>1. \A l \in Locals : ~At(c, l)'
      BY <2>1, <2>a, <1>g
    <3>2. crx'[c] = <<>> /\ dsin'[c] = <<>> /\ dsverdict'[c].left = 0
      BY <1>c, <1>e, <1>f
    <3>3. PlaceElse(c)'
      BY <3>2, NoPart DEF PlaceElse
    <3>4. Received(c)'
      BY <3>2, NoPart DEF Received
    <3> QED BY <2>1, <3>1, <3>3, <3>4 DEF PlaceInv, PlaceAt
  <2>2. CASE d # c
    <3>1. PlaceInv(d) BY <2>2, <1>d, <1>i DEF InvPlaces
    <3> QED BY <3>1, <2>2, <2>a, <1>f, <1>d, SMTT(60) DEF PlaceInv, PlaceAt, PlaceElse, Received, Has, Serves
  <2> QED BY <2>1, <2>2
<1> QED
  BY <1>i, <1>f, <1>1, <1>2, <1>4, <1>6, <1>7, <1>8, FrameTasks, FrameServers, FrameQueues,
     FrameInbox, FrameBuffer, FrameLeases, FrameVerdicts, FrameTokens DEF IInv

(* process_msg drops a request: the client is idle before and after.         *)
LEMMA DsDropInv == ASSUME IInv, NEW c \in Clients, DsDrop(c) PROVE IInv'
<1>i. /\ TypeOK /\ InvSockets /\ InvTasks /\ InvServers /\ InvProgs /\ InvQueues /\ InvLeases
      /\ InvInbox /\ InvRest /\ InvBuffer /\ InvRoutes /\ InvPlaces
      /\ InvVerdicts /\ InvTokens
  BY DEF IInv
<1>f. /\ UNCHANGED <<msg_sock_map, sock_map_wait_list, fib_upstream, fib_downstream, utrn_wait_list,
                     dsprog, dsverdict, usprog, usverdict, crx, dsin, task, conn, peer, inbox, server>>
      /\ client' = [client EXCEPT ![c].n = client[c].n + 1]
      /\ lost' = lost \ {c}
      /\ client[c].st = "idle" /\ client[c].n < MaxReqs
  BY DEF DsDrop, CanSend, maps, dsrun, usrun
<1>t. client[c] \in Client
  BY <1>i DEF TypeOK
<1>c. /\ client'[c].n = client[c].n + 1 /\ client'[c].len = client[c].len /\ client'[c].st = client[c].st
  BY <1>i, <1>f DEF TypeOK, Client
<1>d. \A d \in Clients \ {c} : client'[d] = client[d]
  BY <1>i, <1>f DEF TypeOK
<1>1. TypeOK'
  <2>1. client' \in [Clients -> Client]
    <3>1. client[c] \in Client BY <1>i DEF TypeOK
    <3>2. [client[c] EXCEPT !.n = client[c].n + 1] \in Client BY BoundAssumption, <3>1, <1>f, SMTT(60) DEF Client
    <3> QED BY <1>i, <1>f, <3>2 DEF TypeOK
  <2> QED BY <1>i, <1>f, <2>1 DEF TypeOK
<1>2. InvSockets'
  BY <1>i, <1>f, <1>c, <1>d, SMTT(60) DEF TypeOK, InvSockets, ClientSocket, ServerSocket, DsKey, UsKey
<1>4. InvProgs'
  <2> SUFFICES ASSUME NEW d \in Clients PROVE ProgInv(d)' /\ ClientInv(d)'
    BY DEF InvProgs
  <2>p. ProgInv(d) /\ ClientInv(d) BY <1>i DEF InvProgs
  <2>h. \A l \in Locals : Holds(d, l)' <=> Holds(d, l)
    BY <1>f DEF Holds, UsKey
  <2>1. CASE d = c
    <3>1. ProgInv(c)' BY <2>p, <2>h, <2>1, <1>f, <1>c DEF ProgInv
    <3>2. ClientInv(c)' BY <2>p, <2>1, <1>f, <1>c, <1>t DEF ClientInv, Busy, Client
    <3> QED BY <3>1, <3>2, <2>1
  <2>2. CASE d # c
    <3>1. ProgInv(d)' BY <2>p, <2>h, <2>2, <1>f, <1>d DEF ProgInv
    <3>2. ClientInv(d)' BY <2>p, <2>2, <1>f, <1>d, <1>t DEF ClientInv, Busy, Client
    <3> QED BY <3>1, <3>2
  <2> QED BY <2>1, <2>2
<1>6. InvRest'
  <2>r. InvRest BY <1>i
  <2>1. ASSUME NEW d \in Clients, NEW l \in Locals, RestAt(d, l),
               client'[d].n = client[d].n, client'[d].len = client[d].len, dsverdict'[d] = dsverdict[d]
        PROVE  RestAt(d, l)'
    BY <2>1, <1>f DEF RestAt
  <2>2. ASSUME NEW d \in Clients, RestInBuffer(d),
               client'[d].n = client[d].n, client'[d].len = client[d].len, dsverdict'[d] = dsverdict[d]
        PROVE  RestInBuffer(d)'
    BY <2>2, <1>f DEF RestInBuffer
  <2>3. ~(dsverdict[c].left > 0) BY <1>i, <1>f DEF InvProgs, ClientInv
  <2> QED BY <2>r, <2>1, <2>2, <1>f, <1>c, <1>d, <2>3 DEF InvRest
<1>7. InvRoutes'
  <2>1. ASSUME NEW l \in Locals PROVE AnswerInv(l)'
    <3>1. AnswerInv(l) /\ ServerInv(l) BY <1>i DEF InvRoutes, InvServers
    <3> QED BY <3>1, <1>f, <1>c, <1>d DEF AnswerInv, ServerInv
  <2>2. ASSUME NEW l \in Locals, NEW d \in Clients PROVE RouteInv(d, l)'
    <3>1. RouteInv(d, l) BY <1>i DEF InvRoutes
    <3>2. /\ Holds(d, l)' <=> Holds(d, l)
          /\ Has(d, l)' <=> Has(d, l)
          /\ Route(l, d)' <=> Route(l, d)
          /\ DsKey(d)' = DsKey(d)
      BY <1>f DEF Holds, UsKey, Has, Route, DsKey
    <3> QED BY <3>1, <3>2, <1>f DEF RouteInv
  <2> QED BY <2>1, <2>2 DEF InvRoutes
<1>8. InvPlaces'
  <2> SUFFICES ASSUME NEW d \in Clients, client'[d].st # "closed" PROVE PlaceInv(d)'
    BY DEF InvPlaces
  <2>a. \A l \in Locals : At(d, l)' <=> At(d, l)
    BY <1>f DEF At, Has, Serves
  <2>p. PlaceInv(d) BY <1>c, <1>d, <1>f, <1>i DEF InvPlaces
  <2>1. CASE d = c
    <3>1. crx[c] = <<>> /\ dsin[c] = <<>> /\ dsprog[c].pc = "idle" /\ ~(dsverdict[c].left > 0) /\ \A l \in Locals : ~At(c, l)
      BY <2>p, <2>1, <1>f, <1>i DEF PlaceInv, PlaceAt, PlaceElse, Received, InvProgs, ProgInv, ClientInv
    <3> QED BY <2>1, <3>1, <2>a, <1>f, SMTT(60) DEF PlaceInv, PlaceAt, PlaceElse, Received
  <2>2. CASE d # c
    BY <2>p, <2>2, <2>a, <1>f, <1>d, SMTT(60) DEF PlaceInv, PlaceAt, PlaceElse, Received, Has, Serves
  <2> QED BY <2>1, <2>2
<1> QED
  BY <1>i, <1>f, <1>1, <1>2, <1>4, <1>6, <1>7, <1>8, FrameTasks, FrameServers, FrameQueues,
     FrameInbox, FrameBuffer, FrameLeases, FrameVerdicts, FrameTokens DEF IInv

(* process_msg pops an idle connection: the connection moves from the queue, *)
(* where it was once, into the program, and nobody else has it.              *)
LEMMA DsQueryInv == ASSUME IInv, NEW c \in Clients, DsQuery(c) PROVE IInv'
<1>i. /\ TypeOK /\ InvSockets /\ InvTasks /\ InvServers /\ InvProgs /\ InvQueues /\ InvLeases
      /\ InvInbox /\ InvRest /\ InvBuffer /\ InvRoutes /\ InvPlaces
      /\ InvVerdicts /\ InvTokens
  BY DEF IInv
<1>u. PICK u \in Upstreams, len \in 0..MaxBody :
        LET q == fib_upstream[u] IN
        /\ client' = [client EXCEPT ![c] = [st |-> "waiting", n |-> @.n + 1, len |-> len]]
        /\ dsprog' = [dsprog EXCEPT ![c] =
                       [pc |-> "post", dest |-> u, len |-> len,
                        ekey |-> IF q = <<>> THEN NullKey ELSE Head(q)]]
        /\ fib_upstream' = [fib_upstream EXCEPT ![u] = IF q = <<>> THEN q ELSE Tail(q)]
  BY DEF DsQuery
<1>f. /\ UNCHANGED <<msg_sock_map, sock_map_wait_list, fib_downstream, utrn_wait_list,
                     dsverdict, usprog, usverdict, crx, dsin, task, conn, peer, inbox, server>>
      /\ lost' = lost \ {c}
      /\ client[c].st = "idle" /\ client[c].n < MaxReqs
  BY DEF DsQuery, usrun, CanSend
<1> DEFINE q == fib_upstream[u]
<1>t. q \in Seq(UsKeys) /\ client[c] \in Client /\ dsverdict[c] \in DsVerdict
  BY <1>i DEF TypeOK
<1>h. q # <<>> => \E l \in Locals : q[1] = <<u, l>> /\ peer[l] = u /\ conn[l] \in {"open", "closed"}
  BY <1>t, <1>i, TailFacts, SMTT(60) DEF InvQueues, QueueInv
<1>c. /\ client'[c] = [st |-> "waiting", n |-> client[c].n + 1, len |-> len]
      /\ dsprog'[c].pc = "post" /\ dsprog'[c].dest = u /\ dsprog'[c].len = len
      /\ dsprog'[c].ekey = IF q = <<>> THEN NullKey ELSE q[1]
  BY <1>i, <1>u, <1>t, TailFacts DEF TypeOK
<1>n. client'[c].st = "waiting" /\ client'[c].n = client[c].n + 1 /\ client'[c].len = len
  BY <1>c, SMTT(60)
<1>d. \A d \in Clients \ {c} : dsprog'[d] = dsprog[d] /\ client'[d] = client[d]
  BY <1>i, <1>u DEF TypeOK
<1>v. /\ \A v \in Upstreams \ {u} : fib_upstream'[v] = fib_upstream[v]
      /\ fib_upstream'[u] = IF q = <<>> THEN q ELSE Tail(q)
  BY <1>i, <1>u DEF TypeOK
<1>a1. \A d \in Clients : Busy(d)' <=> Busy(d)
  BY <1>f DEF Busy
<1>a2. \A d \in Clients, l \in Locals :
         Holds(d, l)' <=> IF d = c THEN q # <<>> /\ q[1] = UsKey(l) ELSE Holds(d, l)
  BY AddrAssumption, <1>c, <1>d, <1>f, SMTT(60) DEF Holds, UsKey, NullKey
<1>a3. \A l \in Locals : Queued(l)' => Queued(l)
  <2> SUFFICES ASSUME NEW l \in Locals, NEW v \in Upstreams, NEW j \in 1..Len(fib_upstream'[v]),
                      fib_upstream'[v][j][2] = l
               PROVE  Queued(l)
    BY DEF Queued
  <2>1. CASE v = u /\ q # <<>>
    <3>1. Len(Tail(q)) = Len(q) - 1 /\ Tail(q)[j] = q[j + 1] /\ j + 1 \in 1..Len(q)
      BY <2>1, <1>v, <1>t, TailFacts, SMTT(60)
    <3> QED BY <3>1, <2>1, <1>v DEF Queued
  <2> QED BY <2>1, <1>v DEF Queued
<1>a4. \A l \in Locals : q # <<>> /\ q[1] = UsKey(l) => Queued(l) /\ ~Queued(l)'
  <2> SUFFICES ASSUME NEW l \in Locals, q # <<>>, q[1] = UsKey(l) PROVE Queued(l) /\ ~Queued(l)'
    OBVIOUS
  <2>1. peer[l] = u /\ q[1] = <<u, l>>
    BY <1>h, SMTT(60) DEF UsKey
  <2>2. Len(q) > 0 /\ Len(Tail(q)) = Len(q) - 1 /\ \A i \in 1..Len(q) - 1 : Tail(q)[i] = q[i + 1]
    BY <1>t, TailFacts
  <2>3. Queued(l)
    BY <2>1, <2>2, SMTT(60) DEF Queued
  <2>4. ASSUME NEW v \in Upstreams, NEW j \in 1..Len(fib_upstream'[v]), fib_upstream'[v][j][2] = l PROVE FALSE
    <3>1. CASE v = u
      <4>1. Tail(q)[j] = q[j + 1] /\ j + 1 \in 1..Len(q) /\ 1 \in 1..Len(q) /\ j + 1 # 1
        BY <3>1, <2>2, <2>4, <1>v, <1>t, SMTT(60)
      <4>2. q[j + 1][2] = l
        BY <4>1, <3>1, <2>4, <1>v
      <4>3. q[j + 1] = <<u, l>>
        BY <4>1, <4>2, <1>i, SMTT(60) DEF InvQueues, QueueInv
      <4> QED BY <4>1, <4>3, <2>1, <1>i, SMTT(60) DEF InvQueues, QueueInv
    <3>2. CASE v # u
      BY <3>2, <2>1, <2>4, <1>v, <1>i, SMTT(60) DEF InvQueues, QueueInv
    <3> QED BY <3>1, <3>2
  <2> QED BY <2>3, <2>4 DEF Queued
<1>1. TypeOK'
  <2>1. client' \in [Clients -> Client] BY BoundAssumption, <1>i, <1>u, <1>f, <1>t, SMTT(60) DEF TypeOK, Client
  <2>2. fib_upstream' \in [Upstreams -> Seq(UsKeys)]
    <3>1. (IF q = <<>> THEN q ELSE Tail(q)) \in Seq(UsKeys) /\ fib_upstream \in [Upstreams -> Seq(UsKeys)]
      BY <1>i, <1>t, TailFacts DEF TypeOK
    <3> QED BY <3>1, <1>u
  <2>3. dsprog' \in [Clients -> DsProg]
    <3>1. (IF q = <<>> THEN NullKey ELSE Head(q)) \in UsKeys \cup {NullKey} /\ dsprog \in [Clients -> DsProg]
      BY <1>i, <1>t, TailFacts DEF TypeOK
    <3>2. PICK e \in UsKeys \cup {NullKey} : e = IF q = <<>> THEN NullKey ELSE Head(q)
      BY <3>1
    <3>3. [pc |-> "post", dest |-> u, len |-> len, ekey |-> e] \in DsProg
      BY DEF DsProg, Pcs
    <3> QED BY <3>1, <3>2, <3>3, <1>u
  <2> QED BY <1>i, <1>f, <2>1, <2>2, <2>3 DEF TypeOK
<1>2. InvSockets'
  BY <1>i, <1>f, <1>c, <1>d, SMTT(60) DEF InvSockets, ClientSocket, ServerSocket, DsKey, UsKey
<1>3. InvProgs'
  <2> SUFFICES ASSUME NEW d \in Clients PROVE ProgInv(d)' /\ ClientInv(d)'
    BY DEF InvProgs
  <2>p. ProgInv(d) /\ ClientInv(d) BY <1>i DEF InvProgs
  <2>1. CASE d = c
    <3>0. dsin[c] = <<>> /\ dsverdict[c].left = 0
      <4>1. dsverdict[c].left \in Nat BY <1>t, SMTT(60) DEF DsVerdict
      <4> QED BY <4>1, <2>p, <2>1, <1>f, SMTT(60) DEF ClientInv
    <3>1. ClientInv(c)'
      <4>1. client'[c].n > 0 /\ client'[c].st = "waiting" /\ dsverdict'[c].left <= client'[c].len
        <5>1. /\ dsverdict'[c].left = 0 /\ client'[c].st = "waiting"
              /\ client'[c].n = client[c].n + 1 /\ client'[c].len = len
          <6>1. dsverdict' = dsverdict BY <1>f
          <6> QED BY <6>1, <3>0, <1>n
        <5>2. client[c].n \in Nat
          BY <1>t, SMTT(60) DEF Client
        <5> QED BY <5>1, <5>2, NextNumber, LenFacts
      <4> QED BY <4>1 DEF ClientInv
    <3>2. ProgInv(c)'
      <4>1. /\ client'[c].st = "waiting" /\ dsprog'[c].len = client'[c].len
            /\ dsin'[c] = <<>> /\ dsverdict'[c].left = 0
        <5>1. dsin' = dsin /\ dsverdict' = dsverdict BY <1>f
        <5> QED BY <5>1, <3>0, <1>c, <1>n
      <4>2. dsprog'[c].ekey # NullKey =>
              \E l \in Locals : Holds(c, l)' /\ conn'[l] \in {"open", "closed"}
        BY <1>c, <1>h, <1>f, <1>a2 DEF UsKey
      <4> QED BY <4>1, <4>2, <1>c DEF ProgInv
    <3> QED BY <2>1, <3>1, <3>2
  <2>2. CASE d # c
    <3>1. \A l \in Locals : Holds(d, l)' <=> Holds(d, l) BY <2>2, <1>a2
    <3>2. dsprog'[d] = dsprog[d] /\ client'[d] = client[d] BY <2>2, <1>d
    <3>3. ProgInv(d)' BY <2>p, <3>1, <3>2, <1>f DEF ProgInv
    <3>4. ClientInv(d)' BY <2>p, <3>2, <1>a1, <1>f DEF ClientInv
    <3> QED BY <3>3, <3>4
  <2> QED BY <2>1, <2>2
<1>4. InvQueues'
  <2> SUFFICES ASSUME NEW v \in Upstreams PROVE QueueInv(v)'
    BY DEF InvQueues
  <2>1. CASE v = u /\ q # <<>>
    <3>1. Len(Tail(q)) = Len(q) - 1 /\ \A i \in 1..Len(q) - 1 : Tail(q)[i] = q[i + 1]
      BY <2>1, <1>t, TailFacts
    <3>2. \A i \in 1..Len(Tail(q)) : i + 1 \in 1..Len(q)
      BY <3>1, <1>t, SMTT(60)
    <3>3. QueueInv(u) BY <1>i DEF InvQueues
    <3>4. PICK n \in Nat : n = Len(q) BY <1>t, EmptyFacts
    <3>5. fib_upstream'[v] = Tail(q) /\ peer' = peer /\ conn' = conn /\ q = fib_upstream[u]
      BY <2>1, <1>v, <1>f
    <3>6. \A i \in 1..Len(fib_upstream'[v]) : i + 1 \in 1..n /\ fib_upstream'[v][i] = q[i + 1]
      BY <3>1, <3>2, <3>4, <3>5
    <3>7. \A i \in 1..Len(fib_upstream'[v]) :
            \E l \in Locals : /\ fib_upstream'[v][i] = <<v, l>> /\ peer'[l] = v
                              /\ conn'[l] \in {"open", "closed"}
      BY <2>1, <3>3, <3>4, <3>5, <3>6, SMTT(60) DEF QueueInv
    <3>8. ASSUME NEW i \in 1..Len(fib_upstream'[v]), NEW j \in 1..Len(fib_upstream'[v]),
                 fib_upstream'[v][i] = fib_upstream'[v][j]
          PROVE  i = j
      <4>1. i + 1 = j + 1
        <5>1. \A g, h \in 1..n : q[g] = q[h] => g = h BY <3>3, <3>4, <3>5 DEF QueueInv
        <5> QED BY <5>1, <3>6, <3>8
      <4>2. Len(fib_upstream'[v]) \in Nat BY <3>5, <2>1, <1>t, TailFacts, EmptyFacts
      <4> QED BY <4>1, <4>2, SameNext
    <3> QED BY <3>7, <3>8 DEF QueueInv
  <2>2. CASE ~(v = u /\ q # <<>>)
    <3>1. fib_upstream'[v] = fib_upstream[v] /\ peer' = peer /\ conn' = conn BY <2>2, <1>v, <1>f
    <3> QED BY <3>1, <1>i, SMTT(60) DEF InvQueues, QueueInv
  <2> QED BY <2>1, <2>2
<1>5. InvLeases'
  <2> SUFFICES ASSUME NEW l \in Locals PROVE LeaseInv(l)'
    BY DEF InvLeases
  <2>1. LeaseInv(l) BY <1>i DEF InvLeases
  <2>2. /\ Unanswered(l)' <=> Unanswered(l)
        /\ \A d \in Clients : Opens(d, l)' <=> Opens(d, l)
    BY <1>f DEF Unanswered, Opens, Busy
  <2>3. inbox' = inbox /\ server' = server BY <1>f
  <2>4. CASE q # <<>> /\ q[1] = UsKey(l)
    <3>1. Queued(l) /\ ~Queued(l)' BY <2>4, <1>a4
    <3>2. \A d \in Clients : ~Holds(d, l) /\ ~Opens(d, l) BY <2>1, <3>1 DEF LeaseInv
    <3>3. \A d \in Clients : Holds(d, l)' => d = c BY <3>2, <1>a2
    <3> QED BY <2>1, <2>2, <2>3, <3>1, <3>2, <3>3 DEF LeaseInv
  <2>5. CASE ~(q # <<>> /\ q[1] = UsKey(l))
    <3>1. \A d \in Clients : Holds(d, l)' => Holds(d, l) BY <2>5, <1>a2
    <3> QED BY <2>1, <2>2, <2>3, <3>1, <1>a3 DEF LeaseInv
  <2> QED BY <2>4, <2>5
<1>6. InvRest'
  <2>1. ~(dsverdict[c].left > 0) BY <1>i, <1>f DEF InvProgs, ClientInv
  <2>2. dsverdict' = dsverdict /\ conn' = conn /\ dsin' = dsin /\ inbox' = inbox /\ server' = server
    BY <1>f
  <2>3. InvRest BY <1>i
  <2> QED BY <2>1, <2>2, <2>3, <1>d, SameRest, SameBuffer DEF InvRest
<1>7. InvRoutes'
  <2>1. ASSUME NEW l \in Locals PROVE AnswerInv(l)'
    <3>1. AnswerInv(l) /\ ServerInv(l) BY <1>i DEF InvRoutes, InvServers
    <3>2. server[l].c \in Clients /\ client[server[l].c].st = "closed" =>
            client'[server[l].c].st = "closed"
      BY <1>d, <1>f
    <3> QED BY <3>1, <3>2, <1>f DEF AnswerInv, ServerInv
  <2>2. ASSUME NEW l \in Locals, NEW d \in Clients PROVE RouteInv(d, l)'
    <3>1. RouteInv(d, l) BY <1>i DEF InvRoutes
    <3>2. /\ Has(d, l)' <=> Has(d, l)
          /\ Route(l, d)' <=> Route(l, d)
          /\ DsKey(d)' = DsKey(d)
      BY <1>f DEF Has, Route, DsKey
    <3>3. dsprog'[d].pc = "redirect" /\ Holds(d, l)' => dsprog[d].pc = "redirect" /\ Holds(d, l)
      BY <1>c, <1>d, <1>a2
    <3> QED BY <3>1, <3>2, <3>3, <1>f DEF RouteInv
  <2> QED BY <2>1, <2>2 DEF InvRoutes
<1>8. InvPlaces'
  <2> SUFFICES ASSUME NEW d \in Clients, client'[d].st # "closed" PROVE PlaceInv(d)'
    BY DEF InvPlaces
  <2>p. PlaceInv(d) BY <1>c, <1>d, <1>f, <1>i DEF InvPlaces
  <2>1. CASE d = c
    <3>1. ClientInv(c) BY <1>i DEF InvProgs
    <3>2. crx[c] = <<>> /\ \A l \in Locals : ~At(c, l)
      BY <2>p, <2>1, <1>f DEF PlaceInv, PlaceAt, Received
    <3>3. crx'[c] = <<>> /\ dsin'[c] = <<>> /\ ~(dsverdict'[c].left > 0)
      BY <3>1, <3>2, <1>f DEF ClientInv
    <3>4. \A l \in Locals : ~At(c, l)'
      BY <3>2, <1>f DEF At, Has, Serves
    <3>5. PlaceElse(c)' /\ Received(c)' BY <3>3, SMTT(60) DEF PlaceElse, Received
    <3>6. \A l \in Locals : PlaceAt(c, l)' BY <3>4 DEF PlaceAt
    <3> QED BY <2>1, <3>4, <3>5, <3>6 DEF PlaceInv
  <2>2. CASE d # c
    BY <2>p, <2>2, <1>f, <1>d, SamePlace
  <2> QED BY <2>1, <2>2
<1> QED
  BY <1>i, <1>f, <1>1, <1>2, <1>3, <1>4, <1>5, <1>6, <1>7, <1>8, FrameTasks, FrameServers,
     FrameInbox, FrameBuffer, FrameVerdicts, FrameTokens DEF IInv

(* post_forward_ds_conn overwrites the route of a connection that the        *)
(* program holds alone, so no pending answer loses its way.                  *)
LEMMA DsPostInv == ASSUME IInv, NEW c \in Clients, DsPost(c) PROVE IInv'
<1>i. /\ TypeOK /\ InvSockets /\ InvTasks /\ InvServers /\ InvProgs /\ InvQueues /\ InvLeases
      /\ InvInbox /\ InvRest /\ InvBuffer /\ InvRoutes /\ InvPlaces
      /\ InvVerdicts /\ InvTokens
  BY DEF IInv
<1>f. /\ UNCHANGED <<msg_sock_map, sock_map_wait_list, fib_upstream, utrn_wait_list, dsverdict, usprog,
                     usverdict, client, crx, dsin, task, conn, peer, inbox, server, lost>>
      /\ dsprog[c].pc = "post"
  BY DEF DsPost, usrun, ends
<1> DEFINE ekey == dsprog[c].ekey
           pc == IF ekey = NullKey THEN "utrn" ELSE "redirect"
<1>p. dsprog' = [dsprog EXCEPT ![c].pc = pc]
  BY DEF DsPost
<1>t. dsprog[c] \in DsProg /\ fib_downstream \in [Locals -> HostKeys \cup {NullKey}]
  BY <1>i DEF TypeOK
<1>c. /\ dsprog'[c].pc = pc /\ dsprog'[c].ekey = ekey
      /\ dsprog'[c].dest = dsprog[c].dest /\ dsprog'[c].len = dsprog[c].len
  BY <1>i, <1>p DEF TypeOK, DsProg
<1>d. \A d \in Clients \ {c} : dsprog'[d] = dsprog[d]
  BY <1>i, <1>p DEF TypeOK
<1>a. \A d \in Clients, l \in Locals : Holds(d, l)' <=> Holds(d, l) /\ (d = c => ekey # NullKey)
  BY <1>c, <1>d, <1>f DEF Holds, UsKey
<1>r. /\ fib_downstream' \in [Locals -> HostKeys \cup {NullKey}]
      /\ \A l \in Locals : IF Holds(c, l) /\ ekey # NullKey THEN fib_downstream'[l] = DsKey(c)
                           ELSE fib_downstream'[l] \in {fib_downstream[l], NullKey}
  <2>1. CASE ekey = NullKey
    BY <2>1, <1>t DEF DsPost
  <2>2. CASE ekey # NullKey
    <3>1. PICK k \in Locals : Holds(c, k)
      BY <2>2, <1>i, <1>f DEF InvProgs, ProgInv
    <3>2. ekey[2] = k /\ \A l \in Locals : Holds(c, l) => l = k
      BY <3>1, SMTT(60) DEF Holds, UsKey
    <3>3. fib_downstream' \in LruPut(fib_downstream, k, DsKey(c), NullKey, FibCap)
      BY <2>2, <3>2 DEF DsPost
    <3>4. DsKey(c) \in HostKeys \cup {NullKey} /\ NullKey \in HostKeys \cup {NullKey}
      BY DEF DsKey, HostKeys, Hosts
    <3>5. /\ fib_downstream' \in [Locals -> HostKeys \cup {NullKey}]
          /\ fib_downstream'[k] = DsKey(c)
          /\ \A l \in Locals \ {k} : fib_downstream'[l] \in {fib_downstream[l], NullKey}
      BY AddrAssumption, <3>3, <3>4, <1>t, LruPutFacts
    <3> QED BY <2>2, <3>1, <3>2, <3>5
  <2> QED BY <2>1, <2>2
<1>1. TypeOK'
  <2>1. [dsprog[c] EXCEPT !.pc = pc] \in DsProg
    BY <1>t DEF DsProg, Pcs
  <2>2. dsprog' \in [Clients -> DsProg]
    BY <1>i, <1>p, <2>1 DEF TypeOK
  <2> QED BY <1>i, <1>f, <1>r, <2>2 DEF TypeOK
<1>2. InvProgs'
  <2> SUFFICES ASSUME NEW d \in Clients PROVE ProgInv(d)' /\ ClientInv(d)'
    BY DEF InvProgs
  <2>1. ClientInv(d)'
    BY <1>i, <1>f DEF InvProgs, ClientInv, Busy
  <2>2. ProgInv(d)'
    BY <1>i, <1>f, <1>c, <1>d, <1>a, SMTT(60) DEF InvProgs, ProgInv
  <2> QED BY <2>1, <2>2
<1>3. InvLeases'
  <2>1. \A d \in Clients, l \in Locals : Opens(d, l)' <=> Opens(d, l)
    BY <1>f DEF Opens, Busy
  <2>2. \A l \in Locals : (Unanswered(l)' <=> Unanswered(l)) /\ (Queued(l)' <=> Queued(l))
    BY <1>f DEF Unanswered, Queued
  <2> QED BY <2>1, <2>2, <1>a, <1>f, <1>i DEF InvLeases, LeaseInv
<1>4. InvRoutes'
  <2> SUFFICES ASSUME NEW l \in Locals PROVE AnswerInv(l)' /\ \A d \in Clients : RouteInv(d, l)'
    BY DEF InvRoutes
  <2>1. AnswerInv(l)'
    BY <1>i, <1>f DEF InvRoutes, AnswerInv
  <2>2. CASE Holds(c, l) /\ ekey # NullKey
    <3>1. /\ \A d \in Clients : Holds(d, l) => d = c
          /\ \A d \in Clients : ~Opens(d, l)
          /\ inbox[l] = <<>> /\ ~Unanswered(l)
      BY <2>2, <1>i DEF InvLeases, LeaseInv
    <3>2. Route(l, c)'
      BY <2>2, <1>r DEF Route, DsKey
    <3>3. \A d \in Clients : ~Has(d, l)' /\ ~(task'[d].pc = "write" /\ task'[d].l = l)
      <4>1. \A d \in Clients : ~Has(d, l)'
        BY <3>1, <1>f, NoPart DEF Has
      <4>2. \A d \in Clients : ~(task'[d].pc = "write" /\ task'[d].l = l)
        BY <3>1, <1>f DEF Opens, Busy
      <4> QED BY <4>1, <4>2
    <3>4. server'[l].st \notin {"reading", "ready"}
      BY <3>1, <1>f DEF Unanswered
    <3> QED BY <2>1, <3>1, <3>2, <3>3, <3>4, <1>a, <1>i, <1>f DEF InvRoutes, RouteInv, DsKey
  <2>3. CASE ~(Holds(c, l) /\ ekey # NullKey)
    <3>1. \A d \in Clients : Route(l, d) => Route(l, d)'
      BY <2>3, <1>r DEF Route, DsKey
    <3>2. \A d \in Clients : Holds(d, l)' /\ dsprog'[d].pc = "redirect" => Holds(d, l) /\ dsprog[d].pc = "redirect"
      BY <2>3, <1>a, <1>d
    <3>3. \A d \in Clients : Has(d, l)' <=> Has(d, l)
      BY <1>f DEF Has
    <3> QED BY <2>1, <3>1, <3>2, <3>3, <1>i, <1>f DEF InvRoutes, RouteInv, DsKey
  <2> QED BY <2>2, <2>3
<1>5. InvPlaces'
  <2> SUFFICES ASSUME NEW d \in Clients, client'[d].st # "closed" PROVE PlaceInv(d)'
    BY DEF InvPlaces
  <2>a. \A l \in Locals : At(d, l)' <=> At(d, l)
    BY <1>f DEF At, Has, Serves
  <2>p. PlaceInv(d)
    BY <1>f, <1>i DEF InvPlaces
  <2>1. CASE d = c
    <3>1. ASSUME NEW l \in Locals PROVE ~At(c, l)
      <4>1. PlaceAt(c, l) BY <2>p, <2>1 DEF PlaceInv
      <4>2. dsprog[c].pc # "idle" BY <1>f
      <4>3. dsprog[c] # Idle BY <4>2, SMTT(60) DEF Idle
      <4> QED BY <4>1, <4>3 DEF PlaceAt
    <3> QED BY <2>1, <2>p, <3>1, <2>a, <1>f, <1>c DEF PlaceInv, PlaceAt, PlaceElse, Received
  <2>2. CASE d # c
    BY <2>p, <2>2, <2>a, <1>f, <1>d DEF PlaceInv, PlaceAt, PlaceElse, Received, Has, Serves
  <2> QED BY <2>1, <2>2
<1> QED
  BY <1>i, <1>f, <1>1, <1>2, <1>3, <1>4, <1>5, FrameSockets, FrameTasks, FrameServers, FrameQueues,
     FrameInbox, FrameRest, FrameBuffer, FrameVerdicts, FrameTokens DEF IInv

(* The redirect fails because the server closed the socket: the program      *)
(* gives up the connection, which no queue holds any more.                   *)
LEMMA DsRedirectFailInv ==
  ASSUME IInv, NEW c \in Clients, DsRedirect(c), ~Redirectable(dsprog[c].ekey)
  PROVE  IInv'
<1>i. /\ TypeOK /\ InvSockets /\ InvTasks /\ InvServers /\ InvProgs /\ InvQueues /\ InvLeases
      /\ InvInbox /\ InvRest /\ InvBuffer /\ InvRoutes /\ InvPlaces
      /\ InvVerdicts /\ InvTokens
  BY DEF IInv
<1>f. /\ UNCHANGED <<msg_sock_map, sock_map_wait_list, fib_upstream, fib_downstream, utrn_wait_list,
                     dsverdict, usprog, usverdict, client, crx, dsin, task, conn, peer, inbox, server, lost>>
      /\ dsprog[c].pc = "redirect"
      /\ dsprog' = [dsprog EXCEPT ![c].pc = "utrn"]
  BY DEF DsRedirect, maps, usrun
<1>c. dsprog[c] \in DsProg /\ dsprog'[c] = [dsprog[c] EXCEPT !.pc = "utrn"]
  BY <1>i, <1>f DEF TypeOK
<1>d. \A d \in Clients \ {c} : dsprog'[d] = dsprog[d]
  BY <1>i, <1>f DEF TypeOK
<1>a. \A d \in Clients, l \in Locals : Holds(d, l)' <=> Holds(d, l) /\ d # c
  BY <1>c, <1>d, <1>f, SMTT(60) DEF Holds, UsKey, DsProg
<1>1. TypeOK'
  <2>1. dsprog'[c] \in DsProg
    BY <1>c DEF DsProg, Pcs
  <2> QED BY <1>i, <1>f, <1>c, <2>1 DEF TypeOK
<1>2. InvProgs'
  <2> SUFFICES ASSUME NEW d \in Clients PROVE ProgInv(d)' /\ ClientInv(d)'
    BY DEF InvProgs
  <2>1. ClientInv(d)'
    BY <1>i, <1>f DEF InvProgs, ClientInv, Busy
  <2>2. ProgInv(d)'
    BY <1>i, <1>f, <1>c, <1>d, <1>a, SMTT(60) DEF InvProgs, ProgInv, DsProg
  <2> QED BY <2>1, <2>2
<1>3. InvLeases'
  <2>1. \A d \in Clients, l \in Locals : Opens(d, l)' <=> Opens(d, l)
    BY <1>f DEF Opens, Busy
  <2>2. \A l \in Locals : (Unanswered(l)' <=> Unanswered(l)) /\ (Queued(l)' <=> Queued(l))
    BY <1>f DEF Unanswered, Queued
  <2> QED BY <2>1, <2>2, <1>a, <1>f, <1>i DEF InvLeases, LeaseInv
<1>4. InvRoutes'
  BY <1>i, <1>f, <1>a, <1>d, SMTT(60) DEF InvRoutes, RouteInv, AnswerInv, Route, Has, DsKey
<1>5. InvPlaces'
  <2> SUFFICES ASSUME NEW d \in Clients, client'[d].st # "closed" PROVE PlaceInv(d)'
    BY DEF InvPlaces
  <2>a. \A l \in Locals : At(d, l)' <=> At(d, l)
    BY <1>f DEF At, Has, Serves
  <2>p. PlaceInv(d)
    BY <1>f, <1>i DEF InvPlaces
  <2>1. CASE d = c
    <3>1. \A l \in Locals : ~At(c, l)
      BY <2>p, <2>1, <1>f, InProgram
    <3> QED BY <2>1, <2>p, <3>1, <2>a, <1>f, <1>c DEF PlaceInv, PlaceAt, PlaceElse, Received
  <2>2. CASE d # c
    BY <2>p, <2>2, <2>a, <1>f, <1>d DEF PlaceInv, PlaceAt, PlaceElse, Received, Has, Serves
  <2> QED BY <2>1, <2>2
<1> QED
  BY <1>i, <1>f, <1>1, <1>2, <1>3, <1>4, <1>5, FrameSockets, FrameTasks, FrameServers, FrameQueues,
     FrameInbox, FrameRest, FrameBuffer, FrameVerdicts, FrameTokens DEF IInv

LEMMA IdleType == Idle \in DsProg
BY BoundAssumption, SMTT(60) DEF DsProg, Idle, Pcs

(* The redirect moves the head of the request into an empty receive queue of *)
(* a server that awaits a request.                                           *)
LEMMA DsRedirectOkInv ==
  ASSUME IInv, NEW c \in Clients, DsRedirect(c), Redirectable(dsprog[c].ekey)
  PROVE  IInv'
<1>i. /\ TypeOK /\ InvSockets /\ InvTasks /\ InvServers /\ InvProgs /\ InvQueues /\ InvLeases
      /\ InvInbox /\ InvRest /\ InvBuffer /\ InvRoutes /\ InvPlaces
      /\ InvVerdicts /\ InvTokens
  BY DEF IInv
<1>k. PICK k \in Locals : Holds(c, k)
  BY <1>i DEF DsRedirect, InvProgs, ProgInv
<1>o. dsprog[c].ekey = UsKey(k) /\ conn[k] = "open"
  <2>1. dsprog[c].ekey = UsKey(k) /\ UsKey(k) \in msg_sock_map
    BY <1>k DEF Holds, Redirectable
  <2>2. UsKey(k) \in DsKeys \cup UsKeys
    BY <2>1, <1>i DEF TypeOK
  <2>3. peer[k] \in Upstreams
    BY <2>2, AddrAssumption DEF UsKey, DsKeys, UsKeys
  <2> QED BY <2>1, <2>3, <1>i DEF InvSockets, ServerSocket, UsKey
<1> DEFINE head == DsHead(c)
<1>f. /\ UNCHANGED <<msg_sock_map, sock_map_wait_list, fib_upstream, fib_downstream, utrn_wait_list,
                     usprog, usverdict, client, crx, dsin, task, conn, peer, server, lost>>
      /\ dsprog[c].pc = "redirect"
      /\ inbox' = [inbox EXCEPT ![k] = Append(inbox[k], head)]
      /\ dsverdict' = [dsverdict EXCEPT ![c] = [to |-> k, left |-> dsprog[c].len]]
      /\ dsprog' = [dsprog EXCEPT ![c] = Idle]
  BY <1>o, SMTT(60) DEF DsRedirect, maps, usrun, UsKey
<1>g. /\ client[c].st = "waiting" /\ dsprog[c].len = client[c].len /\ dsin[c] = <<>>
      /\ dsverdict[c].left = 0
      /\ client[c].n \in 1..MaxReqs /\ client[c].len \in 0..MaxBody
  <2>1. client[c].st = "waiting" /\ dsprog[c].len = client[c].len /\ dsin[c] = <<>> /\ dsverdict[c].left = 0
    BY <1>i, <1>f DEF InvProgs, ProgInv
  <2>2. client[c].n > 0 /\ client[c] \in Client
    BY <2>1, <1>i DEF InvProgs, ClientInv, TypeOK
  <2>3. client[c].n \in 1..MaxReqs /\ client[c].len \in 0..MaxBody
    BY <2>2, SMTT(60) DEF Client
  <2> QED BY <2>1, <2>3
<1>h. /\ head \in Parts
      /\ head.c = c /\ head.n = client[c].n /\ head.k = 0 /\ head.len = client[c].len
  <2>1. 0 \in 0..MaxBody
    BY BoundAssumption, SMTT(60)
  <2> QED BY <2>1, <1>g DEF DsHead, Part, Parts
<1>l. /\ \A d \in Clients : Holds(d, k) => d = c
      /\ \A d \in Clients : ~Opens(d, k)
      /\ inbox[k] = <<>> /\ ~Unanswered(k) /\ ~Queued(k)
      /\ Route(k, c)
  BY <1>k, <1>f, <1>i DEF InvLeases, LeaseInv, InvRoutes, RouteInv
<1>b. /\ Len(inbox'[k]) = 1 /\ inbox'[k][1] = head /\ inbox'[k] # <<>>
      /\ \A l \in Locals \ {k} : inbox'[l] = inbox[l]
  <2>1. inbox'[k] = Append(inbox[k], head) /\ \A l \in Locals \ {k} : inbox'[l] = inbox[l]
    BY <1>i, <1>f DEF TypeOK
  <2>2. inbox[k] = <<>> BY <1>l
  <2> HIDE DEF head
  <2> QED BY <2>1, <2>2, SMTT(60)
<1>c. /\ dsprog'[c] = Idle /\ dsprog'[c].pc = "idle"
      /\ dsverdict'[c].to = k /\ dsverdict'[c].left = client[c].len
  BY <1>i, <1>f, <1>g DEF TypeOK, Idle
<1>d. \A d \in Clients \ {c} : dsprog'[d] = dsprog[d] /\ dsverdict'[d] = dsverdict[d]
  BY <1>i, <1>f DEF TypeOK
<1>a. \A d \in Clients, l \in Locals :
        /\ Holds(d, l)' <=> Holds(d, l) /\ d # c
        /\ Has(d, l)' <=> IF l = k THEN d = c ELSE Has(d, l)
        /\ Opens(d, l)' <=> Opens(d, l)
        /\ Serves(l, d)' <=> Serves(l, d)
        /\ Unanswered(l)' <=> Unanswered(l)
        /\ Queued(l)' <=> Queued(l)
  <2> SUFFICES ASSUME NEW d \in Clients, NEW l \in Locals
               PROVE  /\ Holds(d, l)' <=> Holds(d, l) /\ d # c
                      /\ Has(d, l)' <=> IF l = k THEN d = c ELSE Has(d, l)
                      /\ Opens(d, l)' <=> Opens(d, l)
                      /\ Serves(l, d)' <=> Serves(l, d)
                      /\ Unanswered(l)' <=> Unanswered(l)
                      /\ Queued(l)' <=> Queued(l)
    OBVIOUS
  <2>1. Holds(d, l)' <=> Holds(d, l) /\ d # c
    BY <1>c, <1>d, <1>f DEF Holds, UsKey
  <2>2. Has(d, l)' <=> IF l = k THEN d = c ELSE Has(d, l)
    <3>1. CASE l = k
      <4>1. \A i : i \in 1..1 <=> i = 1
        BY SMTT(60)
      <4>2. Has(d, k)' <=> inbox'[k][1].c = d
        BY <4>1, <1>b DEF Has
      <4> QED BY <3>1, <4>2, <1>b, <1>h
    <3>2. CASE l # k
      BY <3>2, <1>b DEF Has
    <3> QED BY <3>1, <3>2
  <2>3. /\ Opens(d, l)' <=> Opens(d, l)
        /\ Serves(l, d)' <=> Serves(l, d)
    BY <1>f DEF Opens, Busy, Serves
  <2>4. /\ Unanswered(l)' <=> Unanswered(l)
        /\ Queued(l)' <=> Queued(l)
    BY <1>f DEF Unanswered, Queued
  <2> QED BY <2>1, <2>2, <2>3, <2>4
<1>1. TypeOK'
  <2>1. inbox' \in [Locals -> Seq(Parts)]
    <3>1. inbox \in [Locals -> Seq(Parts)]
      BY <1>i DEF TypeOK
    <3>2. Append(inbox[k], head) \in Seq(Parts)
      <4>1. inbox[k] \in Seq(Parts) BY <3>1
      <4> HIDE DEF head
      <4> QED BY <4>1, <1>h, AppendFacts
    <3> HIDE DEF head
    <3> QED BY <3>1, <3>2, <1>f
  <2>2. dsprog' \in [Clients -> DsProg]
    BY <1>i, <1>f, IdleType DEF TypeOK
  <2>3. dsverdict' \in [Clients -> DsVerdict]
    BY <1>i, <1>f, <1>g DEF TypeOK, DsVerdict
  <2> QED BY <1>i, <1>f, <2>1, <2>2, <2>3 DEF TypeOK
<1>2. InvTasks'
  <2>1. ASSUME NEW d \in Clients PROVE TaskInv(d)'
    <3>1. TaskInv(d) BY <1>i DEF InvTasks
    <3>2. /\ Busy(d)' <=> Busy(d)
          /\ DsKey(d)' = DsKey(d)
          /\ Whole(dsin[d])' <=> Whole(dsin[d])
      BY <1>f DEF Busy, DsKey, Whole
    <3>3. dsverdict'[d] = dsverdict[d] \/ dsverdict'[d].to # Proxy BY AddrAssumption, <1>c, <1>d
    <3> QED BY <3>1, <3>2, <3>3, <1>f DEF TaskInv
  <2>2. \A l \in Locals : \A d, e \in Clients : Opens(d, l)' /\ Opens(e, l)' => d = e
    BY <1>i, <1>a DEF InvTasks
  <2> QED BY <2>1, <2>2 DEF InvTasks
<1>3. InvServers'
  BY <1>i, <1>f, <1>b, <1>o DEF InvServers, ServerInv
<1>4. InvProgs'
  <2> SUFFICES ASSUME NEW d \in Clients PROVE ProgInv(d)' /\ ClientInv(d)'
    BY DEF InvProgs
  <2>p. ProgInv(d) /\ ClientInv(d) BY <1>i DEF InvProgs
  <2>b. Busy(d)' <=> Busy(d) BY <1>f DEF Busy
  <2>1. CASE d = c
    <3>1. ProgInv(c)' BY <1>c DEF ProgInv
    <3>2. ClientInv(c)' BY <2>p, <2>b, <2>1, <1>c, <1>f, <1>g, SMTT(60) DEF ClientInv
    <3> QED BY <3>1, <3>2, <2>1
  <2>2. CASE d # c
    <3>1. \A l \in Locals : Holds(d, l)' <=> Holds(d, l) BY <2>2, <1>a
    <3>2. ProgInv(d)' BY <2>p, <3>1, <2>2, <1>d, <1>f DEF ProgInv
    <3>3. ClientInv(d)' BY <2>p, <2>b, <2>2, <1>d, <1>f DEF ClientInv
    <3> QED BY <3>2, <3>3
  <2> QED BY <2>1, <2>2
<1>5. InvLeases'
  <2> SUFFICES ASSUME NEW l \in Locals PROVE LeaseInv(l)'
    BY DEF InvLeases
  <2>1. LeaseInv(l) BY <1>i DEF InvLeases
  <2>2. CASE l = k
    <3>1. \A d \in Clients : ~Holds(d, k)' /\ ~Opens(d, k)' BY <1>a, <1>l
    <3>2. ~Queued(k)' BY <1>f, <1>l DEF Queued
    <3> QED BY <2>2, <3>1, <3>2 DEF LeaseInv
  <2>3. CASE l # k
    <3>1. inbox'[l] = inbox[l] /\ server' = server BY <2>3, <1>b, <1>f
    <3>2. /\ Unanswered(l)' <=> Unanswered(l)
          /\ Queued(l)' <=> Queued(l)
          /\ \A d \in Clients : (Holds(d, l)' => Holds(d, l)) /\ (Opens(d, l)' <=> Opens(d, l))
      BY <1>a, <1>f DEF Unanswered, Queued
    <3> QED BY <2>1, <3>1, <3>2 DEF LeaseInv
  <2> QED BY <2>2, <2>3
<1>6. InvInbox'
  <2> SUFFICES ASSUME NEW l \in Locals PROVE InboxInv(l)'
    BY DEF InvInbox
  <2>0. InboxInv(l) BY <1>i DEF InvInbox
  <2>1. CASE l = k
    <3>1. PICK n \in 0..MaxBody : n = client[c].len /\ head.len = n BY <1>g, <1>h
    <3>2. \A i \in 1..Len(inbox'[k]) : i = 1 BY <1>b, OnePart
    <3>3. server'[k].st # "reading" /\ ~Unanswered(k)' BY <1>l, <1>f DEF Unanswered
    <3>4. /\ inbox'[k][1].k = 0 /\ inbox'[k][1].len = n
          /\ 0 + Len(inbox'[k]) <= n + 1
      BY <3>1, <1>b, <1>h, SMTT(60)
    <3> HIDE DEF head
    <3>5. ASSUME NEW i \in 1..Len(inbox'[k]) PROVE inbox'[k][i].k = inbox'[k][1].k + i - 1
      <4>1. i = 1 BY <3>2
      <4>2. 0 + 1 - 1 = 0 BY SMTT(60)
      <4> QED BY <4>1, <4>2, <3>4
    <3>6. InboxInv(k)' BY <3>2, <3>3, <3>4, <3>5 DEF InboxInv
    <3> QED BY <2>1, <3>6
  <2>2. CASE l # k
    <3>1. inbox'[l] = inbox[l] /\ server'[l] = server[l] /\ (Unanswered(l)' <=> Unanswered(l))
      BY <2>2, <1>b, <1>f DEF Unanswered
    <3> QED BY <2>0, <3>1 DEF InboxInv
  <2> QED BY <2>1, <2>2
<1>7. InvRest'
  <2> SUFFICES ASSUME NEW d \in Clients, dsverdict'[d].left > 0
               PROVE  /\ \A l \in Locals : dsverdict'[d].to = l /\ conn'[l] = "open" => RestAt(d, l)'
                      /\ dsverdict'[d].to = Proxy => RestInBuffer(d)'
    BY DEF InvRest
  <2>1. CASE d = c
    <3>1. RestAt(c, k)'
      <4>1. /\ \A i \in 1..Len(inbox'[k]) : i = 1
            /\ server'[k].st # "reading"
        BY <1>b, <1>l, <1>f, OnePart DEF Unanswered
      <4>2. Len(inbox'[k]) + dsverdict'[c].left = client'[c].len + 1
        BY <1>b, <1>c, <1>f, <1>g, LenFacts
      <4>3. /\ inbox'[k][1].c = c /\ inbox'[k][1].n = client'[c].n
            /\ inbox'[k][1].len = client'[c].len
        BY <1>b, <1>h, <1>f
      <4> QED BY <4>1, <4>2, <4>3, <1>b DEF RestAt
    <3> QED BY AddrAssumption, <2>1, <3>1, <1>c
  <2>2. CASE d # c
    <3>1. ASSUME NEW l \in Locals, dsverdict'[d].to = l, conn'[l] = "open" PROVE RestAt(d, l)'
      <4>1. RestAt(d, l)
        BY <3>1, <2>2, <1>d, <1>f, <1>i DEF InvRest
      <4>2. l # k
        BY <4>1, <1>l DEF RestAt, Unanswered
      <4>3. inbox'[l] = inbox[l] /\ dsverdict'[d] = dsverdict[d] /\ server' = server /\ client' = client
        BY <4>2, <2>2, <1>b, <1>d, <1>f
      <4> QED BY <4>1, <4>3, SameRest
    <3> QED BY <2>2, <3>1, <1>d, <1>f, <1>i DEF InvRest, RestInBuffer
  <2> QED BY <2>1, <2>2
<1>8. InvRoutes'
  <2>1. ASSUME NEW l \in Locals PROVE AnswerInv(l)'
    BY <1>i, <1>f DEF InvRoutes, AnswerInv
  <2>2. ASSUME NEW l \in Locals, NEW d \in Clients PROVE RouteInv(d, l)'
    <3>1. (Route(l, d)' <=> Route(l, d)) /\ DsKey(d)' = DsKey(d) BY <1>f DEF Route, DsKey
    <3>2. RouteInv(d, l) BY <1>i DEF InvRoutes
    <3>3. dsprog'[d].pc = "redirect" /\ Holds(d, l)' => dsprog[d].pc = "redirect" /\ Holds(d, l)
      BY <1>a, <1>d
    <3>4. Has(d, l)' => Route(l, d)
      BY <3>2, <1>a, <1>l DEF RouteInv
    <3> QED BY <3>1, <3>2, <3>3, <3>4, <1>f DEF RouteInv
  <2> QED BY <2>1, <2>2 DEF InvRoutes
<1>9. InvPlaces'
  <2> SUFFICES ASSUME NEW d \in Clients, client'[d].st # "closed" PROVE PlaceInv(d)'
    BY DEF InvPlaces
  <2>p. PlaceInv(d)
    BY <1>f, <1>i DEF InvPlaces
  <2>a. \A l \in Locals : At(d, l)' <=> IF d = c /\ l = k THEN TRUE ELSE At(d, l) /\ (l = k => Serves(l, d))
    BY <1>a DEF At
  <2>1. CASE d = c
    <3>1. crx[c] = <<>> /\ \A l \in Locals : ~At(c, l)
      BY <2>p, <2>1, <1>f, InProgram
    <3>2. ~Serves(k, c)'
      BY <3>1, <1>a DEF At
    <3>3. PlaceAt(c, k)'
      <4>0. inbox'[k][1].n = client'[c].n /\ \A i \in 1..Len(inbox'[k]) : i = 1
        BY <1>b, <1>f, <1>h, OnePart
      <4>1. \A i \in 1..Len(inbox'[k]) : inbox'[k][i].n = client'[c].n
        BY <4>0
      <4>2. /\ client'[c].st = "waiting" /\ dsprog'[c] = Idle /\ dsin'[c] = <<>> /\ crx'[c] = <<>>
            /\ dsverdict'[c].to = k
        BY <3>1, <1>c, <1>f, <1>g
      <4> QED BY <3>2, <4>1, <4>2 DEF PlaceAt
    <3>4. \A l \in Locals \ {k} : ~At(c, l)' /\ PlaceAt(c, l)'
      BY <2>1, <3>1, <2>a DEF PlaceAt
    <3>5. crx'[c] = <<>> /\ dsin'[c] = <<>> /\ dsprog'[c].pc = "idle"
      BY <3>1, <1>f, <1>g, <1>c
    <3>6. PlaceElse(c)' BY <3>5 DEF PlaceElse
    <3>7. Received(c)' BY <3>5, NoPart DEF Received
    <3> QED BY <2>1, <3>3, <3>4, <3>6, <3>7 DEF PlaceInv
  <2>2. CASE d # c
    <3>1. ASSUME NEW l \in Locals PROVE PlaceAt(d, l)'
      <4>1. PlaceAt(d, l)
        BY <2>p DEF PlaceInv
      <4>2. \A i \in 1..Len(inbox'[l]) : inbox'[l][i].c = d => inbox'[l] = inbox[l]
        <5>1. inbox'[k][1].c = c /\ \A i \in 1..Len(inbox'[k]) : i = 1 BY <1>b, <1>h, OnePart
        <5> QED BY <5>1, <2>2, <1>b
      <4>3. (Has(d, l)' => Has(d, l)) /\ (Serves(l, d)' <=> Serves(l, d)) /\ (At(d, l)' => At(d, l))
        BY <2>2, <1>a, <2>a
      <4>4. dsprog'[d] = dsprog[d] /\ dsverdict'[d] = dsverdict[d] BY <2>2, <1>d
      <4> QED BY <4>1, <4>2, <4>3, <4>4, <1>f DEF PlaceAt
    <3> QED BY <2>p, <2>2, <3>1, <2>a, <1>f, <1>d DEF PlaceInv, PlaceElse, Received
  <2> QED BY <2>1, <2>2
<1>v. InvVerdicts'
  BY <1>i, <1>f, <1>o DEF InvVerdicts, TypeOK
<1> QED
  BY <1>i, <1>f, <1>1, <1>2, <1>3, <1>4, <1>5, <1>6, <1>7, <1>8, <1>9, FrameSockets, FrameQueues,
     FrameBuffer, <1>v, FrameTokens DEF IInv

(* The U-turn leaves a token under the key of the client, and the head in    *)
(* the empty buffer of its task.                                             *)
LEMMA DsUturnInv == ASSUME IInv, NEW c \in Clients, DsUturn(c) PROVE IInv'
<1>i. /\ TypeOK /\ InvSockets /\ InvTasks /\ InvServers /\ InvProgs /\ InvQueues /\ InvLeases
      /\ InvInbox /\ InvRest /\ InvBuffer /\ InvRoutes /\ InvPlaces
      /\ InvVerdicts /\ InvTokens
  BY DEF IInv
<1> DEFINE head == DsHead(c)
<1>f. /\ UNCHANGED <<msg_sock_map, sock_map_wait_list, fib_upstream, fib_downstream,
                     usprog, usverdict, client, crx, task, conn, peer, inbox, server, lost>>
      /\ dsprog[c].pc = "utrn"
      /\ dsin' = [dsin EXCEPT ![c] = Append(dsin[c], head)]
      /\ dsverdict' = [dsverdict EXCEPT ![c] = [to |-> Proxy, left |-> dsprog[c].len]]
      /\ dsprog' = [dsprog EXCEPT ![c] = Idle]
  BY DEF DsUturn, usrun
<1>p. utrn_wait_list' \in LruPut(utrn_wait_list, DsKey(c), dsprog[c].dest, NoAddr, UtrnCap)
  BY DEF DsUturn
<1>g. /\ client[c].st = "waiting" /\ dsprog[c].len = client[c].len /\ dsin[c] = <<>>
      /\ dsverdict[c].left = 0 /\ dsprog[c].dest \in Upstreams
      /\ client[c].n \in 1..MaxReqs /\ client[c].len \in 0..MaxBody
  <2>1. client[c].st = "waiting" /\ dsprog[c].len = client[c].len /\ dsin[c] = <<>> /\ dsverdict[c].left = 0
    BY <1>i, <1>f DEF InvProgs, ProgInv
  <2>2. client[c].n > 0 /\ client[c] \in Client
    BY <2>1, <1>i DEF InvProgs, ClientInv, TypeOK
  <2>3. client[c].n \in 1..MaxReqs /\ client[c].len \in 0..MaxBody
    BY <2>2, SMTT(60) DEF Client
  <2>4. dsprog[c].dest \in Upstreams
    BY <1>i, <1>f DEF InvProgs, ProgInv
  <2> QED BY <2>1, <2>3, <2>4
<1>h. /\ head \in Parts
      /\ head.c = c /\ head.n = client[c].n /\ head.k = 0 /\ head.len = client[c].len
  <2>1. 0 \in 0..MaxBody
    BY BoundAssumption, SMTT(60)
  <2> QED BY <2>1, <1>g DEF DsHead, Part, Parts
<1>b. Len(dsin'[c]) = 1 /\ dsin'[c][1] = head /\ dsin'[c] # <<>>
  <2>1. dsin'[c] = Append(dsin[c], head) /\ dsin[c] = <<>>
    BY <1>i, <1>f, <1>g DEF TypeOK
  <2> HIDE DEF head
  <2> QED BY <2>1, SMTT(60)
<1>c. /\ dsprog'[c] = Idle /\ dsprog'[c].pc = "idle"
      /\ dsverdict'[c].to = Proxy /\ dsverdict'[c].left = client[c].len
  BY <1>i, <1>f, <1>g DEF TypeOK, Idle
<1>d. \A d \in Clients \ {c} :
        dsprog'[d] = dsprog[d] /\ dsverdict'[d] = dsverdict[d] /\ dsin'[d] = dsin[d]
  BY <1>i, <1>f DEF TypeOK
<1>e. ~Busy(c)
  BY <1>i, <1>g DEF InvTasks, TaskInv, Whole
<1>a. \A d \in Clients, l \in Locals :
        /\ Holds(d, l)' <=> Holds(d, l)
        /\ Has(d, l)' <=> Has(d, l)
        /\ Opens(d, l)' <=> Opens(d, l)
        /\ Serves(l, d)' <=> Serves(l, d)
        /\ At(d, l)' <=> At(d, l)
  <2> SUFFICES ASSUME NEW d \in Clients, NEW l \in Locals
               PROVE  /\ Holds(d, l)' <=> Holds(d, l)
                      /\ Has(d, l)' <=> Has(d, l)
                      /\ Opens(d, l)' <=> Opens(d, l)
                      /\ Serves(l, d)' <=> Serves(l, d)
                      /\ At(d, l)' <=> At(d, l)
    OBVIOUS
  <2>1. Holds(d, l)' <=> Holds(d, l)
    BY <1>c, <1>d, <1>f DEF Holds, UsKey
  <2>2. Has(d, l)' <=> Has(d, l)
    BY <1>f DEF Has
  <2>3. (Opens(d, l)' <=> Opens(d, l)) /\ (Serves(l, d)' <=> Serves(l, d))
    BY <1>f DEF Opens, Busy, Serves
  <2> QED BY <2>1, <2>2, <2>3 DEF At
<1>z. /\ utrn_wait_list' \in [HostKeys \cup UsKeys -> Upstreams \cup Locals \cup {NoAddr}]
      /\ \A k \in HostKeys : utrn_wait_list'[k] \in Upstreams \cup {NoAddr}
      /\ \A x \in HostKeys \ {DsKey(c)} : utrn_wait_list'[x] \in {utrn_wait_list[x], NoAddr}
  <2>1. /\ utrn_wait_list \in [HostKeys \cup UsKeys -> Upstreams \cup Locals \cup {NoAddr}]
        /\ \A k \in HostKeys : utrn_wait_list[k] \in Upstreams \cup {NoAddr}
        /\ DsKey(c) \in HostKeys \cup UsKeys
        /\ dsprog[c].dest \in Upstreams \cup Locals \cup {NoAddr}
    BY <1>i, <1>g DEF TypeOK, DsKey, HostKeys, Hosts
  <2> QED BY <2>1, <1>p, <1>g, UtrnPutFacts
<1>u. InvTokens'
  BY <1>z, <1>i, SMTT(60) DEF InvTokens, DsKey, DsKeys
<1>1. TypeOK'
  <2>2. dsprog' \in [Clients -> DsProg]
    BY <1>i, <1>f, IdleType DEF TypeOK
  <2>3. dsverdict' \in [Clients -> DsVerdict]
    BY <1>i, <1>f, <1>g DEF TypeOK, DsVerdict
  <2>4. dsin' \in [Clients -> Seq(Parts)]
    <3>1. dsin \in [Clients -> Seq(Parts)]
      BY <1>i DEF TypeOK
    <3>2. Append(dsin[c], head) \in Seq(Parts)
      <4>1. dsin[c] \in Seq(Parts) BY <3>1
      <4> HIDE DEF head
      <4> QED BY <4>1, <1>h, AppendFacts
    <3> HIDE DEF head
    <3> QED BY <3>1, <3>2, <1>f
  <2> QED BY <1>i, <1>f, <1>z, <2>2, <2>3, <2>4 DEF TypeOK
<1>2. InvTasks'
  <2>1. TaskInv(c)'
    BY <1>e, <1>f, <1>i DEF TaskInv, Busy
  <2>2. ASSUME NEW d \in Clients \ {c} PROVE TaskInv(d)'
    <3>1. TaskInv(d)
      BY <1>i DEF InvTasks
    <3> QED BY <3>1, <1>d, <1>f DEF TaskInv, Busy, DsKey
  <2>3. ASSUME NEW l \in Locals, NEW d \in Clients, NEW e \in Clients, Opens(d, l)', Opens(e, l)'
        PROVE  d = e
    BY <2>3, <1>a, <1>i DEF InvTasks
  <2> QED BY <2>1, <2>2, <2>3 DEF InvTasks
<1>4. InvProgs'
  <2> SUFFICES ASSUME NEW d \in Clients PROVE ProgInv(d)' /\ ClientInv(d)'
    BY DEF InvProgs
  <2>1. CASE d = c
    <3>1. ProgInv(c)'
      BY <1>c, AddrAssumption DEF ProgInv, Idle
    <3>2. ClientInv(c)'
      <4>1. /\ client'[c].st = "waiting" /\ client'[c].n > 0
            /\ dsverdict'[c].left <= client'[c].len
        <5>1. client[c].len <= client[c].len /\ client[c].n > 0
          BY <1>g, LenFacts, NumberFacts
        <5> QED BY <5>1, <1>c, <1>f, <1>g
      <4> QED BY <4>1 DEF ClientInv
    <3> QED BY <2>1, <3>1, <3>2
  <2>2. CASE d # c
    <3>1. ProgInv(d) /\ ClientInv(d)
      BY <1>i DEF InvProgs
    <3>2. /\ dsprog'[d] = dsprog[d] /\ dsverdict'[d] = dsverdict[d] /\ dsin'[d] = dsin[d]
          /\ client'[d] = client[d] /\ conn' = conn /\ (Busy(d)' <=> Busy(d))
          /\ \A l \in Locals : Holds(d, l)' <=> Holds(d, l)
      BY <2>2, <1>a, <1>d, <1>f DEF Busy
    <3>3. ProgInv(d)'
      BY <3>1, <3>2 DEF ProgInv
    <3>4. ClientInv(d)'
      BY <3>1, <3>2 DEF ClientInv
    <3> QED BY <3>3, <3>4
  <2> QED BY <2>1, <2>2
<1>5. InvLeases'
  <2>1. \A l \in Locals : (Unanswered(l)' <=> Unanswered(l)) /\ (Queued(l)' <=> Queued(l))
    BY <1>f DEF Unanswered, Queued
  <2> QED BY <2>1, <1>a, <1>f, <1>i DEF InvLeases, LeaseInv
<1>7. InvRest'
  <2> SUFFICES ASSUME NEW d \in Clients, dsverdict'[d].left > 0
               PROVE  /\ \A l \in Locals : dsverdict'[d].to = l /\ conn'[l] = "open" => RestAt(d, l)'
                      /\ dsverdict'[d].to = Proxy => RestInBuffer(d)'
    BY DEF InvRest
  <2>1. CASE d = c
    <3>1. /\ dsverdict'[d].to = Proxy /\ dsin'[d] # <<>> /\ dsin'[d][1] = head
          /\ client' = client /\ head.len = client[d].len /\ head.n = client[d].n
      BY <2>1, <1>b, <1>c, <1>f, <1>h
    <3>2. Len(dsin'[d]) = 1 /\ dsverdict'[d].left = client[d].len /\ client[d].len \in Nat
      BY <2>1, <1>b, <1>c, <1>g, LenFacts
    <3>3. Len(dsin'[d]) + dsverdict'[d].left = client[d].len + 1
      BY <3>2, SMTT(60)
    <3>4. \A l \in Locals : l # Proxy
      BY AddrAssumption
    <3> HIDE DEF head
    <3> QED BY <3>1, <3>3, <3>4 DEF RestInBuffer
  <2>2. CASE d # c
    <3>1. /\ dsverdict'[d] = dsverdict[d] /\ dsin'[d] = dsin[d]
          /\ client' = client /\ inbox' = inbox /\ server' = server /\ conn' = conn
      BY <2>2, <1>d, <1>f
    <3>2. /\ RestInBuffer(d)' <=> RestInBuffer(d)
          /\ \A l \in Locals : RestAt(d, l)' <=> RestAt(d, l)
      BY <3>1 DEF RestInBuffer, RestAt
    <3> QED BY <3>1, <3>2, <1>i DEF InvRest
  <2> QED BY <2>1, <2>2
<1>8. InvBuffer'
  <2>1. BufferInv(c)'
    <3>1. client[c].len \in Nat /\ head.c = c /\ head.k = 0 /\ head.len = client[c].len
      BY <1>h, <1>g, LenFacts
    <3> HIDE DEF head
    <3>2. Len(dsin'[c]) <= head.len + 1
      BY <3>1, <1>b, <1>g, LenFacts
    <3>3. \A i \in 1..Len(dsin'[c]) : i = 1 /\ head.k = i - 1
      BY <3>1, <1>b, OnePart, NoPart
    <3> QED BY <3>1, <3>2, <3>3, <1>b DEF BufferInv
  <2>2. ASSUME NEW d \in Clients \ {c} PROVE BufferInv(d)'
    <3>1. BufferInv(d) /\ dsin'[d] = dsin[d]
      BY <1>i, <1>d DEF InvBuffer
    <3> QED BY <3>1 DEF BufferInv
  <2> QED BY <2>1, <2>2 DEF InvBuffer
<1>9. InvRoutes'
  <2>1. ASSUME NEW l \in Locals PROVE AnswerInv(l)'
    BY <1>i, <1>f DEF InvRoutes, AnswerInv
  <2>2. ASSUME NEW l \in Locals, NEW d \in Clients PROVE RouteInv(d, l)'
    <3>1. (Route(l, d)' <=> Route(l, d)) /\ DsKey(d)' = DsKey(d)
      BY <1>f DEF Route, DsKey
    <3>2. RouteInv(d, l)
      BY <1>i DEF InvRoutes
    <3>3. dsprog'[d].pc = "redirect" => dsprog[d].pc = "redirect"
      BY <1>c, <1>d
    <3> QED BY <3>1, <3>2, <3>3, <1>a, <1>f DEF RouteInv
  <2> QED BY <2>1, <2>2 DEF InvRoutes
<1>10. InvPlaces'
  <2> SUFFICES ASSUME NEW d \in Clients, client'[d].st # "closed" PROVE PlaceInv(d)'
    BY DEF InvPlaces
  <2>p. PlaceInv(d)
    BY <1>f, <1>i DEF InvPlaces
  <2>1. CASE d = c
    <3>1. crx[c] = <<>> /\ \A l \in Locals : ~At(c, l)
      BY <2>p, <2>1, <1>f, InProgram
    <3>2. \A l \in Locals : ~At(c, l)' /\ PlaceAt(c, l)'
      BY <3>1, <1>a DEF PlaceAt
    <3>3. PlaceElse(c)' /\ Received(c)'
      <4>1. /\ crx'[c] = <<>> /\ client'[c].st = "waiting" /\ dsverdict'[c].to = Proxy
            /\ dsprog'[c].pc = "idle" /\ dsin'[c][1].n = client'[c].n
        BY <3>1, <1>b, <1>c, <1>f, <1>g, <1>h
      <4>2. \A i \in 1..Len(crx'[c]) : FALSE
        BY <4>1, SMTT(60)
      <4> QED BY <4>1, <4>2 DEF PlaceElse, Received
    <3> QED BY <2>1, <3>2, <3>3 DEF PlaceInv
  <2>2. CASE d # c
    <3>1. ASSUME NEW l \in Locals PROVE PlaceAt(d, l)'
      <4>1. PlaceAt(d, l)
        BY <2>p DEF PlaceInv
      <4> QED BY <4>1, <2>2, <1>a, <1>d, <1>f DEF PlaceAt
    <3> QED BY <2>p, <2>2, <3>1, <1>a, <1>f, <1>d DEF PlaceInv, PlaceElse, Received
  <2> QED BY <2>1, <2>2
<1>v. InvVerdicts'
  <2>1. Proxy \notin Locals BY AddrAssumption
  <2>2. ASSUME NEW d \in Clients, NEW l \in Locals, dsverdict'[d].left > 0, dsverdict'[d].to = l
        PROVE  conn'[l] \in {"open", "closed"}
    <3>1. d # c
      BY <2>1, <2>2, <1>c
    <3>2. dsverdict'[d] = dsverdict[d] /\ conn' = conn
      BY <3>1, <1>d, <1>f
    <3> QED BY <2>2, <3>2, <1>i DEF InvVerdicts
  <2> QED BY <2>2 DEF InvVerdicts
<1> QED
  BY <1>i, <1>f, <1>1, <1>2, <1>4, <1>5, <1>7, <1>8, <1>9, <1>10, FrameSockets, FrameServers,
     FrameQueues, FrameInbox, <1>v, <1>u DEF IInv

(* The rest of a request under apply_bytes continues what is in the server's *)
(* socket or in the task's buffer.                                           *)
LEMMA DsBodyInv == ASSUME IInv, NEW c \in Clients, DsBody(c) PROVE IInv'
<1>i. /\ TypeOK /\ InvSockets /\ InvTasks /\ InvServers /\ InvProgs /\ InvQueues /\ InvLeases
      /\ InvInbox /\ InvRest /\ InvBuffer /\ InvRoutes /\ InvPlaces
      /\ InvVerdicts /\ InvTokens
  BY DEF IInv
<1>k. PICK k, left, n, len, part :
        /\ k = dsverdict[c].to /\ left = dsverdict[c].left
        /\ n = client[c].n /\ len = client[c].len
        /\ part = Part(c, n, len - left + 1, len, TRUE)
  OBVIOUS
<1> DEFINE direct == k \in Locals /\ conn[k] = "open"
<1>f. /\ UNCHANGED <<msg_sock_map, sock_map_wait_list, fib_upstream, fib_downstream, utrn_wait_list,
                     dsprog, usprog, usverdict, client, crx, task, conn, peer, server, lost>>
      /\ client[c].st = "waiting" /\ dsprog[c] = Idle /\ left > 0
      /\ inbox' = IF direct THEN [inbox EXCEPT ![k] = Append(inbox[k], part)] ELSE inbox
      /\ dsin' = IF k = Proxy THEN [dsin EXCEPT ![c] = Append(dsin[c], part)] ELSE dsin
      /\ dsverdict' = [dsverdict EXCEPT ![c].left = left - 1]
  BY <1>k DEF DsBody, maps, usrun
<1>n. left \in 1..len /\ len \in 0..MaxBody /\ n \in 1..MaxReqs
  BY <1>k, <1>i, <1>f, SMTT(60) DEF TypeOK, Client, DsVerdict, InvProgs, ClientInv
<1>t. /\ dsverdict[c] \in DsVerdict /\ inbox \in [Locals -> Seq(Parts)] /\ dsin \in [Clients -> Seq(Parts)]
      /\ dsin[c] \in Seq(Parts) /\ (direct => inbox[k] \in Seq(Parts))
  BY <1>i, <1>f DEF TypeOK
<1>h. /\ part \in Parts
      /\ part.c = c /\ part.n = n /\ part.len = len /\ part.k = len - left + 1
  <2>1. part = [c |-> c, n |-> n, k |-> len - left + 1, len |-> len, ok |-> TRUE]
    BY <1>k DEF Part
  <2> QED BY BoundAssumption, <2>1, <1>n, SMTT(60) DEF Parts
<1>r1. ASSUME direct
       PROVE  /\ \A i \in 1..Len(inbox[k]) : /\ inbox[k][i].c = c
                                             /\ inbox[k][i].n = n
                                             /\ inbox[k][i].len = len
              /\ server[k].st = "reading" =>
                   server[k].c = c /\ server[k].n = n /\ server[k].left = Len(inbox[k]) + left
              /\ server[k].st # "reading" => inbox[k] # <<>> /\ Len(inbox[k]) + left = len + 1
  <2>1. RestAt(c, k)
    BY <1>r1, <1>k, <1>i, <1>f DEF InvRest
  <2> QED BY <2>1, <1>k DEF RestAt
<1>r2. ASSUME k = Proxy
       PROVE  /\ dsin[c] # <<>> /\ dsin[c][1].len = len /\ dsin[c][1].n = n
              /\ Len(dsin[c]) + left = len + 1
  BY <1>r2, <1>k, <1>i, <1>f DEF InvRest, RestInBuffer
<1>c. dsverdict'[c].to = k /\ dsverdict'[c].left = left - 1
  BY <1>k, <1>i, <1>f, <1>t DEF TypeOK, DsVerdict
<1>d. \A d \in Clients \ {c} : dsverdict'[d] = dsverdict[d] /\ dsin'[d] = dsin[d]
  BY <1>i, <1>f DEF TypeOK
<1>b. ASSUME direct
      PROVE     /\ Len(inbox'[k]) = Len(inbox[k]) + 1 /\ inbox'[k][Len(inbox[k]) + 1] = part
                /\ \A i \in 1..Len(inbox[k]) : inbox'[k][i] = inbox[k][i]
                /\ \A i \in 1..Len(inbox'[k]) : i \in 1..Len(inbox[k]) \/ i = Len(inbox[k]) + 1
                /\ inbox'[k] # <<>>
                /\ Len(inbox[k]) \in Nat
  <2>1. inbox'[k] = Append(inbox[k], part) /\ inbox[k] \in Seq(Parts)
    BY <1>b, <1>t, <1>f
  <2> QED BY <2>1, <1>h, AppendFacts, EmptyFacts, SMTT(60)
<1>l. \A l \in Locals : inbox'[l] = inbox[l] \/ (direct /\ l = k)
  BY <1>t, <1>f
<1>s. ASSUME k = Proxy
      PROVE        /\ Len(dsin'[c]) = Len(dsin[c]) + 1 /\ dsin'[c][Len(dsin[c]) + 1] = part
                   /\ \A i \in 1..Len(dsin[c]) : dsin'[c][i] = dsin[c][i]
                   /\ dsin'[c] # <<>>
                   /\ Len(dsin[c]) \in Nat
  <2>1. dsin'[c] = Append(dsin[c], part) /\ dsin[c] \in Seq(Parts)
    BY <1>s, <1>t, <1>f
  <2> QED BY <2>1, <1>h, AppendFacts, EmptyFacts, SMTT(60)
<1>m. k # Proxy => dsin'[c] = dsin[c]
  BY <1>f
<1>w. ASSUME direct
      PROVE  /\ \/ inbox[k] # <<>> /\ inbox[k][1].c = c /\ Has(c, k)
                \/ server[k].st = "reading" /\ server[k].c = c
             /\ server[k].st = "reading" => server[k].c = c
             /\ \A d \in Clients : Has(d, k) => d = c
             /\ At(c, k) /\ Route(k, c)
  <2>1. inbox[k] # <<>> => 1 \in 1..Len(inbox[k])
    BY <1>w, <1>b, <1>t, EmptyFacts, SMTT(60)
  <2>2. /\ \/ inbox[k] # <<>> /\ inbox[k][1].c = c /\ Has(c, k)
           \/ server[k].st = "reading" /\ server[k].c = c
        /\ server[k].st = "reading" => server[k].c = c
        /\ \A d \in Clients : Has(d, k) => d = c
    BY <2>1, <1>r1, <1>w DEF Has
  <2>3. At(c, k)
    BY <2>2 DEF At, Serves
  <2>4. Route(k, c)
    BY <2>2, <1>w, <1>i DEF InvRoutes, RouteInv
  <2> QED BY <2>2, <2>3, <2>4
<1>a1. \A d \in Clients, l \in Locals :
         /\ Holds(d, l)' <=> Holds(d, l)
         /\ Opens(d, l)' <=> Opens(d, l)
         /\ Serves(l, d)' <=> Serves(l, d)
         /\ Unanswered(l)' <=> Unanswered(l)
         /\ Queued(l)' <=> Queued(l)
  BY <1>f, SMTT(60) DEF Holds, UsKey, Opens, Busy, Serves, Unanswered, Queued
<1>a2. ASSUME NEW d \in Clients, NEW l \in Locals
       PROVE  Has(d, l)' <=> Has(d, l) \/ (direct /\ l = k /\ d = c)
  <2>1. CASE direct /\ l = k
    <3>1. Has(d, k)' => Has(d, k) \/ d = c
      <4> SUFFICES ASSUME NEW i \in 1..Len(inbox'[k]), inbox'[k][i].c = d PROVE Has(d, k) \/ d = c
        BY DEF Has
      <4>1. CASE i \in 1..Len(inbox[k])
        BY <4>1, <2>1, <1>b DEF Has
      <4>2. CASE i = Len(inbox[k]) + 1
        BY <4>2, <2>1, <1>b, <1>h
      <4> QED BY <4>1, <4>2, <2>1, <1>b
    <3>2. Has(d, k) => Has(d, k)'
      <4> SUFFICES ASSUME NEW i \in 1..Len(inbox[k]), inbox[k][i].c = d PROVE Has(d, k)'
        BY DEF Has
      <4>1. inbox'[k][i].c = d /\ i \in 1..Len(inbox'[k])
        BY <2>1, <1>b, SMTT(60)
      <4> QED BY <4>1 DEF Has
    <3>3. Has(c, k)'
      <4>1. Len(inbox[k]) + 1 \in 1..Len(inbox'[k])
        BY <2>1, <1>b, SMTT(60)
      <4> QED BY <4>1, <2>1, <1>b, <1>h DEF Has
    <3> QED BY <2>1, <3>1, <3>2, <3>3
  <2>2. CASE ~(direct /\ l = k)
    BY <2>2, <1>l DEF Has
  <2> QED BY <2>1, <2>2
<1>a3. \A d \in Clients, l \in Locals : At(d, l)' <=> At(d, l)
  BY <1>a1, <1>a2, <1>w DEF At
<1>1. TypeOK'
  <2>1. inbox' \in [Locals -> Seq(Parts)]
    BY <1>t, <1>f, <1>h, SMTT(60)
  <2>2. dsin' \in [Clients -> Seq(Parts)]
    BY <1>t, <1>f, <1>h, SMTT(60)
  <2>3. [dsverdict[c] EXCEPT !.left = left - 1] \in DsVerdict
    <3>1. left - 1 \in 0..MaxBody BY BoundAssumption, <1>n, SMTT(60)
    <3> QED BY <3>1, <1>t DEF DsVerdict
  <2>4. dsverdict' \in [Clients -> DsVerdict]
    BY <1>i, <1>f, <2>3 DEF TypeOK
  <2> QED BY <1>i, <1>f, <2>1, <2>2, <2>4 DEF TypeOK
<1>2. InvTasks'
  <2>1. ASSUME NEW d \in Clients PROVE TaskInv(d)'
    <3>1. TaskInv(d) /\ (Busy(d)' <=> Busy(d)) BY <1>i, <1>f DEF InvTasks, Busy
    <3>2. CASE d = c
      <4>1. Busy(c) => k # Proxy BY <3>1, <3>2, <1>k, <1>f, SMTT(60) DEF TaskInv
      <4> QED BY <4>1, <3>1, <3>2, <1>c, <1>m, <1>f DEF TaskInv, DsKey, Whole
    <3>3. CASE d # c
      BY <3>1, <3>3, <1>d, <1>f DEF TaskInv, DsKey, Whole
    <3> QED BY <3>2, <3>3
  <2> QED BY <2>1, <1>a1, <1>i DEF InvTasks
<1>3. InvServers'
  BY <1>i, <1>f, <1>l DEF InvServers, ServerInv
<1>4. InvProgs'
  <2> SUFFICES ASSUME NEW d \in Clients PROVE ProgInv(d)' /\ ClientInv(d)'
    BY DEF InvProgs
  <2>1. CASE d = c
    <3>1. ProgInv(c) /\ ClientInv(c) /\ dsprog[c].pc = "idle" BY <1>i, <1>f, SMTT(60) DEF InvProgs, Idle
    <3>2. left - 1 <= len /\ client[c].n > 0 BY <1>n, <1>k, RestFacts, NumberFacts
    <3> QED BY <2>1, <3>1, <3>2, <1>k, <1>f, <1>c DEF ProgInv, ClientInv, Busy
  <2>2. CASE d # c
    BY <2>2, <1>i, <1>f, <1>d, <1>a1 DEF InvProgs, ProgInv, ClientInv, Busy
  <2> QED BY <2>1, <2>2
<1>5. InvLeases'
  <2> SUFFICES ASSUME NEW l \in Locals PROVE LeaseInv(l)'
    BY DEF InvLeases
  <2>1. LeaseInv(l)
    BY <1>i DEF InvLeases
  <2>2. CASE direct /\ l = k
    <3>1. Unanswered(l) \/ inbox[l] # <<>>
      BY <2>2, <1>w DEF Unanswered
    <3>2. \A d \in Clients : ~Opens(d, l)
      <4>1. NoRequest.st = "idle" BY SMTT(60) DEF NoRequest
      <4> QED BY <4>1, <2>1, <3>1 DEF LeaseInv, Unanswered
    <3> QED BY <3>1, <3>2, <2>1, <1>a1 DEF LeaseInv
  <2>3. CASE ~(direct /\ l = k)
    BY <2>1, <2>3, <1>a1, <1>l, <1>f DEF LeaseInv
  <2> QED BY <2>2, <2>3
<1>6. InvInbox'
  <2> SUFFICES ASSUME NEW l \in Locals PROVE InboxInv(l)'
    BY DEF InvInbox
  <2>i. InboxInv(l) /\ inbox[l] \in Seq(Parts) /\ server[l] \in Server
    BY <1>i DEF InvInbox, TypeOK
  <2>1. CASE direct /\ l = k /\ inbox[l] = <<>>
    <3>1. Len(inbox[l]) = 0 /\ Len(inbox'[l]) = 1 /\ inbox'[l][1] = part /\ server[l].left \in Nat
      <4>1. Len(inbox[l]) = 0
        BY <2>1, NoPart
      <4>2. Len(inbox'[l]) = Len(inbox[l]) + 1 /\ inbox'[l][Len(inbox[l]) + 1] = part
        BY <2>1, <1>b
      <4> QED BY <4>1, <4>2, <2>i, NoPart, ServerLeft
    <3>2. server[l].st = "reading" /\ server[l].c = c /\ server[l].n = n /\ server[l].left = left
      BY <2>1, <3>1, <1>r1, <1>n, RestFacts
    <3>3. part.k + Len(inbox'[l]) <= part.len + 1 /\ part.k + server[l].left = part.len + 1
      <4>1. (len - left + 1) + 1 <= len + 1 /\ (len - left + 1) + left = len + 1
        BY <1>n, RestFacts
      <4> QED BY <4>1, <3>1, <3>2, <1>h
    <3>4. \A i \in 1..Len(inbox'[l]) : inbox'[l][i] = part /\ part.k = part.k + i - 1
      <4>1. part.k = part.k + 1 - 1
        <5>1. len - left + 1 = (len - left + 1) + 1 - 1
          BY <1>n, RestFacts
        <5> QED BY <5>1, <1>h
      <4> QED BY <3>1, <4>1, OnePart
    <3> QED BY <3>1, <3>2, <3>3, <3>4, <1>f, <1>h DEF InboxInv
  <2>2. CASE direct /\ l = k /\ inbox[l] # <<>>
    <3>1. /\ Len(inbox[l]) > 0 /\ inbox[l][1] \in Parts /\ server[l].left \in Nat /\ Len(inbox[l]) \in Nat
          /\ inbox'[l][1] = inbox[l][1] /\ 1 \in 1..Len(inbox[l])
      <4>1. Len(inbox[l]) > 0 /\ inbox[l][1] \in Parts /\ Len(inbox[l]) \in Nat
        BY <2>2, <2>i, TailFacts, EmptyFacts
      <4>2. 1 \in 1..Len(inbox[l])
        BY <4>1, FirstPart
      <4> QED BY <4>1, <4>2, <2>2, <2>i, <1>b, ServerLeft
    <3>2. inbox[l][1].k \in Nat /\ inbox[l][1].len \in Nat
      BY <3>1, PartFacts
    <3>3. inbox[l][1].c = c /\ inbox[l][1].n = n /\ inbox[l][1].len = len
      BY <2>2, <3>1, <1>r1
    <3>4. part.k = inbox[l][1].k + Len(inbox[l])
      <4>1. CASE server[l].st = "reading"
        <5>1. inbox[l][1].k + server[l].left = inbox[l][1].len + 1
          BY <4>1, <2>2, <2>i DEF InboxInv
        <5>2. server[l].left = Len(inbox[l]) + left
          BY <4>1, <2>2, <1>r1
        <5>3. left \in Nat /\ len \in Nat /\ Len(inbox[l]) \in Nat /\ part.k = len - left + 1
          BY <3>1, <1>h, <1>n, RestFacts
        <5>4. inbox[l][1].k + (Len(inbox[l]) + left) = len + 1
          BY <5>1, <5>2, <3>3
        <5>5. len - left + 1 = inbox[l][1].k + Len(inbox[l])
          <6>1. left \in Nat /\ len \in Nat /\ Len(inbox[l]) \in Nat /\ inbox[l][1].k \in Nat
            BY <5>3, <3>2
          <6>2. \A m, j \in Nat : j + (m + left) = len + 1 => len - left + 1 = j + m
            BY <6>1, RestPlace
          <6> QED BY <6>1, <6>2, <5>4
        <5> QED BY <5>3, <5>5
      <4>2. CASE server[l].st # "reading"
        <5>1. inbox[l][1].k = 0
          BY <4>2, <2>2, <2>i DEF InboxInv
        <5>2. Len(inbox[l]) + left = len + 1
          BY <4>2, <2>2, <1>r1
        <5>3. left \in Nat /\ len \in Nat
          BY <1>n, RestFacts
        <5>4. len - left + 1 = Len(inbox[l]) /\ 0 + Len(inbox[l]) = Len(inbox[l])
          <6>1. Len(inbox[l]) \in Nat
            BY <3>1
          <6>2. \A m \in Nat : m + left = len + 1 => len - left + 1 = m
            BY <5>3, RestAtStart
          <6> QED BY <6>1, <6>2, <5>2, ZeroPlus
        <5> QED BY <5>1, <5>4, <1>h
      <4> QED BY <4>1, <4>2
    <3>5. /\ \A i \in 1..Len(inbox'[l]) : /\ inbox'[l][i].c = c
                                          /\ inbox'[l][i].n = n
                                          /\ inbox'[l][i].len = len
                                          /\ inbox'[l][i].k = inbox[l][1].k + i - 1
      <4> SUFFICES ASSUME NEW i \in 1..Len(inbox'[l])
                   PROVE  /\ inbox'[l][i].c = c
                          /\ inbox'[l][i].n = n
                          /\ inbox'[l][i].len = len
                          /\ inbox'[l][i].k = inbox[l][1].k + i - 1
        OBVIOUS
      <4>1. CASE i = Len(inbox[l]) + 1
        <5>1. inbox'[l][i] = part
          BY <4>1, <2>2, <1>b
        <5>2. part.k = inbox[l][1].k + (Len(inbox[l]) + 1) - 1
          BY <3>1, <3>2, <3>4, AndBack
        <5> QED BY <4>1, <5>1, <5>2, <1>h
      <4>2. CASE i \in 1..Len(inbox[l])
        BY <4>2, <3>3, <2>2, <2>i, <1>b DEF InboxInv
      <4> QED BY <4>1, <4>2, <2>2, <3>1, <1>b
    <3>6. inbox'[l][1].k + Len(inbox'[l]) <= len + 1
      <4>1. len - left + 1 = inbox[l][1].k + Len(inbox[l]) => inbox[l][1].k + (Len(inbox[l]) + 1) <= len + 1
        BY <3>1, <3>2, <1>n, RestRoom
      <4>2. Len(inbox'[l]) = Len(inbox[l]) + 1
        BY <2>2, <1>b
      <4> QED BY <4>1, <4>2, <3>1, <3>4, <1>h
    <3>7. IF server[l].st = "reading"
          THEN inbox[l][1].c = server[l].c /\ inbox[l][1].n = server[l].n
               /\ inbox[l][1].k + server[l].left = inbox[l][1].len + 1
          ELSE inbox[l][1].k = 0 /\ ~Unanswered(l)
      BY <2>2, <2>i DEF InboxInv
    <3>8. server'[l] = server[l] /\ (Unanswered(l)' <=> Unanswered(l))
      BY <1>f, <1>a1
    <3> QED BY <3>1, <3>3, <3>5, <3>6, <3>7, <3>8 DEF InboxInv
  <2>3. CASE ~(direct /\ l = k)
    BY <2>i, <2>3, <1>l, <1>a1, <1>f DEF InboxInv
  <2> QED BY <2>1, <2>2, <2>3
<1>7. InvRest'
  <2> SUFFICES ASSUME NEW d \in Clients, dsverdict'[d].left > 0
               PROVE  /\ \A l \in Locals : dsverdict'[d].to = l /\ conn'[l] = "open" => RestAt(d, l)'
                      /\ dsverdict'[d].to = Proxy => RestInBuffer(d)'
    BY DEF InvRest
  <2>1. CASE d = c
    <3>1. direct => RestAt(c, k)'
      <4> SUFFICES ASSUME direct PROVE RestAt(c, k)'
        OBVIOUS
      <4>1. \A i \in 1..Len(inbox'[k]) : /\ inbox'[k][i].c = c
                                         /\ inbox'[k][i].n = n
                                         /\ inbox'[k][i].len = len
        BY <1>b, <1>r1, <1>h
      <4>2. Len(inbox'[k]) + dsverdict'[c].left = Len(inbox[k]) + left
        <5>1. Len(inbox'[k]) = Len(inbox[k]) + 1 /\ Len(inbox[k]) \in Nat
          BY <1>b
        <5> QED BY <5>1, <1>c, <1>n, SMTT(60)
      <4>3. UNCHANGED <<server, client>> /\ client[c].n = n /\ client[c].len = len /\ inbox'[k] # <<>>
        BY <1>b, <1>f, <1>k
      <4>4. IF server[k].st = "reading"
            THEN server[k].c = c /\ server[k].n = n /\ server[k].left = Len(inbox[k]) + left
            ELSE Len(inbox[k]) + left = len + 1
        BY <1>r1
      <4> QED BY <4>1, <4>2, <4>3, <4>4, Zenon DEF RestAt
    <3>2. k = Proxy => RestInBuffer(c)'
      <4> SUFFICES ASSUME k = Proxy PROVE RestInBuffer(c)'
        OBVIOUS
      <4>1. dsin[c] # <<>> => Len(dsin[c]) > 0
        BY <1>t, TailFacts
      <4>2. Len(dsin'[c]) + dsverdict'[c].left = Len(dsin[c]) + left
        <5>1. Len(dsin'[c]) = Len(dsin[c]) + 1 /\ Len(dsin[c]) \in Nat
          BY <1>s
        <5> QED BY <5>1, <1>c, <1>n, SMTT(60)
      <4>3. dsin'[c][1] = dsin[c][1] /\ dsin'[c] # <<>>
        BY <4>1, <1>r2, <1>s, SMTT(60)
      <4> QED BY <4>2, <4>3, <1>r2, <1>f, <1>k DEF RestInBuffer
    <3> QED BY <2>1, <3>1, <3>2, <1>c, <1>f
  <2>2. CASE d # c
    <3>1. ASSUME NEW l \in Locals, dsverdict'[d].to = l, conn'[l] = "open" PROVE RestAt(d, l)'
      <4>1. RestAt(d, l)
        BY <3>1, <2>2, <1>d, <1>f, <1>i DEF InvRest
      <4>2. ~(direct /\ l = k)
        <5> SUFFICES ASSUME direct, l = k PROVE FALSE
          OBVIOUS
        <5>1. inbox[l] # <<>> => 1 \in 1..Len(inbox[l])
          BY <1>b, <1>t, EmptyFacts, SMTT(60)
        <5> QED BY <5>1, <4>1, <2>2, <1>w, SMTT(60) DEF RestAt
      <4> QED BY <4>1, <4>2, <2>2, <1>l, <1>d, <1>f, SMTT(60) DEF RestAt
    <3> QED BY <2>2, <3>1, <1>d, <1>f, <1>i DEF InvRest, RestInBuffer
  <2> QED BY <2>1, <2>2
<1>8. InvBuffer'
  <2>1. BufferInv(c)'
    <3>1. BufferInv(c) BY <1>i DEF InvBuffer
    <3>2. CASE k = Proxy
      <4>1. /\ Len(dsin[c]) > 0 /\ Len(dsin[c]) + left = len + 1
            /\ dsin[c][1].n = n /\ dsin[c][1].len = len
            /\ dsin'[c][1] = dsin[c][1]
        <5>1. Len(dsin[c]) > 0
          BY <3>2, <1>r2, <1>t, TailFacts
        <5>2. 1 \in 1..Len(dsin[c])
          BY <5>1, <3>2, <1>s, FirstPart
        <5> QED BY <5>1, <5>2, <3>2, <1>r2, <1>s
      <4>2. part.k = Len(dsin[c])
        <5>1. left \in Nat /\ len \in Nat
          BY <1>n, RestFacts
        <5> QED BY <5>1, <4>1, <3>2, <1>h, <1>s, RestAtStart
      <4>3. ASSUME NEW i \in 1..Len(dsin'[c])
            PROVE  /\ dsin'[c][i].c = c
                   /\ dsin'[c][i].n = n
                   /\ dsin'[c][i].len = len
                   /\ dsin'[c][i].k = i - 1
        <5>1. CASE i = Len(dsin[c]) + 1
          BY <5>1, <4>2, <3>2, <1>s, <1>h, AndBack
        <5>2. CASE i \in 1..Len(dsin[c])
          BY <5>2, <4>1, <3>1, <3>2, <1>s DEF BufferInv
        <5> QED BY <5>1, <5>2, <3>2, <1>s, LastPart
      <4>4. Len(dsin'[c]) <= len + 1
        BY <4>1, <3>2, <1>s, <1>n, RestRoom
      <4> QED BY <4>1, <4>3, <4>4 DEF BufferInv
    <3>3. CASE k # Proxy
      BY <3>1, <3>3, <1>m DEF BufferInv
    <3> QED BY <3>2, <3>3
  <2>2. \A d \in Clients \ {c} : BufferInv(d)'
    BY <1>i, <1>d, SMTT(60) DEF InvBuffer, BufferInv
  <2> QED BY <2>1, <2>2 DEF InvBuffer
<1>9. InvRoutes'
  <2>1. ASSUME NEW l \in Locals PROVE AnswerInv(l)'
    BY <1>i, <1>f DEF InvRoutes, AnswerInv
  <2>2. ASSUME NEW l \in Locals, NEW d \in Clients PROVE RouteInv(d, l)'
    <3>1. (Route(l, d)' <=> Route(l, d)) /\ DsKey(d)' = DsKey(d)
      BY <1>f, SMTT(60) DEF Route, DsKey
    <3>2. RouteInv(d, l)
      BY <1>i DEF InvRoutes
    <3>3. Has(d, l)' => Route(l, d)
      BY <3>2, <1>a2, <1>w DEF RouteInv
    <3> QED BY <3>1, <3>2, <3>3, <1>a1, <1>f DEF RouteInv
  <2> QED BY <2>1, <2>2 DEF InvRoutes
<1>10. InvPlaces'
  <2> SUFFICES ASSUME NEW d \in Clients, client'[d].st # "closed" PROVE PlaceInv(d)'
    BY DEF InvPlaces
  <2>p. PlaceInv(d)
    BY <1>f, <1>i DEF InvPlaces
  <2>1. CASE d = c
    <3>1. ASSUME NEW l \in Locals PROVE PlaceAt(c, l)'
      <4> SUFFICES ASSUME At(c, l) PROVE PlaceAt(c, l)'
        BY <1>a3 DEF PlaceAt
      <4>1. PlaceAt(c, l) /\ PlaceElse(c)
        BY <2>1, <2>p DEF PlaceInv
      <4>2. /\ dsprog[c] = Idle /\ dsin[c] = <<>> /\ crx[c] = <<>> /\ k = l
            /\ ~(Serves(l, c) /\ server[l].st = "sending")
            /\ Serves(l, c) => server[l].n = n
            /\ Serves(l, c) /\ server[l].st # "reading" => ~Has(c, l)
            /\ \A i \in 1..Len(inbox[l]) : inbox[l][i].c = c => inbox[l][i].n = n
        BY <4>1, <1>f, <1>k DEF PlaceAt, PlaceElse
      <4>3. k # Proxy /\ dsin'[c] = <<>>
        BY AddrAssumption, <4>2, <1>m
      <4>4. Serves(l, c)' /\ server'[l].st # "reading" => ~Has(c, l)'
        BY <4>2, <1>a1, <1>a2, <1>w, <1>f
      <4>5. \A i \in 1..Len(inbox'[l]) : inbox'[l][i].c = c => inbox'[l][i].n = n
        <5>1. CASE direct
          <6>1. \A i \in 1..Len(inbox'[l]) : inbox'[l][i] = part \/ (i \in 1..Len(inbox[l]) /\ inbox'[l][i] = inbox[l][i])
            BY <5>1, <4>2, <1>b
          <6> QED BY <6>1, <4>2, <1>h
        <5>2. CASE ~direct
          BY <5>2, <4>2, <1>l
        <5> QED BY <5>1, <5>2
      <4> QED BY <4>2, <4>3, <4>4, <4>5, <1>a1, <1>c, <1>f, <1>k DEF PlaceAt
    <3>2. PlaceElse(c)' /\ Received(c)'
      <4>1. PlaceElse(c) /\ Received(c)
        BY <2>1, <2>p DEF PlaceInv
      <4>2. Received(c)'
        BY <4>1, <1>f DEF Received
      <4>3. crx[c] = <<>> /\ (dsin'[c] # <<>> => k = Proxy)
        BY <4>1, <1>f, <1>k, <1>m DEF PlaceElse
      <4>4. k = Proxy => dsin'[c][1].n = n
        <5> SUFFICES ASSUME k = Proxy PROVE dsin'[c][1].n = n
          OBVIOUS
        <5>1. Len(dsin[c]) > 0
          BY <1>r2, <1>t, TailFacts
        <5>2. 1 \in 1..Len(dsin[c])
          BY <5>1, <1>s, FirstPart
        <5> QED BY <5>2, <1>r2, <1>s
      <4> QED BY <4>2, <4>3, <4>4, <1>c, <1>f, <1>k DEF PlaceElse
    <3>3. \A j, l \in Locals : At(c, j)' /\ At(c, l)' => j = l
      BY <2>1, <2>p, <1>a3 DEF PlaceInv
    <3> QED BY <2>1, <3>1, <3>2, <3>3 DEF PlaceInv
  <2>2. CASE d # c
    <3>1. ASSUME NEW l \in Locals PROVE PlaceAt(d, l)'
      <4>1. PlaceAt(d, l)
        BY <2>p DEF PlaceInv
      <4>2. \A i \in 1..Len(inbox'[l]) : inbox'[l][i].c = d => i \in 1..Len(inbox[l]) /\ inbox'[l][i] = inbox[l][i]
        BY <2>2, <1>l, <1>b, <1>h
      <4> QED BY <4>1, <4>2, <2>2, <1>a1, <1>a2, <1>a3, <1>d, <1>f, SMTT(60) DEF PlaceAt
    <3> QED BY <2>p, <2>2, <3>1, <1>a3, <1>f, <1>d DEF PlaceInv, PlaceElse, Received
  <2> QED BY <2>1, <2>2
<1>v. InvVerdicts'
  <2> SUFFICES ASSUME NEW d \in Clients, NEW l \in Locals, dsverdict'[d].left > 0, dsverdict'[d].to = l
               PROVE  conn[l] \in {"open", "closed"}
    BY <1>f DEF InvVerdicts
  <2>1. dsverdict[d].left > 0 /\ dsverdict[d].to = l
    <3>1. CASE d = c
      BY <3>1, <1>c, <1>f, <1>k
    <3>2. CASE d # c
      BY <3>2, <1>d
    <3> QED BY <3>1, <3>2
  <2> QED BY <2>1, <1>i DEF InvVerdicts
<1> QED
  BY <1>i, <1>f, <1>1, <1>2, <1>3, <1>4, <1>5, <1>6, <1>7, <1>8, <1>9, <1>10, FrameSockets,
     FrameQueues, <1>v, FrameTokens DEF IInv
=============================================================================

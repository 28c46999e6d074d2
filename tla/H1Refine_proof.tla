--------------------------- MODULE H1Refine_proof ---------------------------
(***************************************************************************)
(* The first part shows that H1Proxy implements RequestReply, for every    *)
(* value of the constants.  The initial states map to the initial state;   *)
(* every step of a program, a task, a client or a server is, seen by the   *)
(* clients, a step of one exchange or none.  Besides IInv this needs that  *)
(* nothing is left of a lost request.                                      *)
(* The second part shows what H1Proxy keeps where its maps never run out   *)
(* of room: the token of a request that made a U-turn (TokensHaveRoom),    *)
(* and the upstream connections (ConnsHaveRoom).  Both invariants are      *)
(* preserved by every step from a state with IInv.                         *)
(***************************************************************************)
EXTENDS H1ProxyClient_proof, H1Refine

(* Most steps are first-order: Zenon, unless a step asks for the SMT solver.  *)
USE ZenonT(20)

(* A step, seen by the clients, with the invariant it needs in the next one. *)
Refines == LostIsNowhere' /\ [R!Next]_Exchanges

(* A waiting client's request is in one place.                               *)
LEMMA WaitingPlace ==
  ASSUME IInv, NEW c \in Clients, client[c].st = "waiting" PROVE PlaceInv(c)
BY DEF IInv, InvPlaces

(* What the exchange of a client shows of it.                                *)
LEMMA View ==
  ASSUME NEW c \in Clients
  PROVE  /\ Exchanges[c] = ExchangeOf(c)
         /\ ExchangeOf(c).st = client[c].st
         /\ ExchangeOf(c).n = client[c].n
         /\ ExchangeOf(c).phase = Phase(c)
         /\ ExchangeOf(c).len = AnswerLen(c)
         /\ ExchangeOf(c).got = AnswerGot(c)
BY DEF Exchanges, ExchangeOf

(* A client that keeps its connection, its answer and the place of its       *)
(* request keeps its exchange.                                               *)
LEMMA SameExchange ==
  ASSUME NEW d \in Clients, client'[d] = client[d],
         client[d].st = "waiting" =>
           /\ crx'[d] = crx[d]
           /\ crx[d] = <<>> =>
                /\ Served(d)' <=> Served(d)
                /\ ~Served(d) => (d \in lost' <=> d \in lost)
  PROVE  ExchangeOf(d)' = ExchangeOf(d)
<1>1. Phase(d)' = Phase(d)
  BY DEF Phase
<1>2. AnswerLen(d)' = AnswerLen(d) /\ AnswerGot(d)' = AnswerGot(d)
  <2>1. Phase(d) = "replied" => client[d].st = "waiting"
    BY DEF Phase
  <2> QED BY <1>1, <2>1 DEF AnswerLen, AnswerGot
<1> QED BY <1>1, <1>2 DEF ExchangeOf

(* No exchange changes.                                                      *)
LEMMA NoneChanges ==
  ASSUME \A d \in Clients : ExchangeOf(d)' = ExchangeOf(d)
  PROVE  [R!Next]_Exchanges
BY DEF Exchanges

(* The exchange of one client changes.                                       *)
LEMMA OneChanges ==
  ASSUME NEW c \in Clients, NEW e, ExchangeOf(c)' = e,
         \A d \in Clients \ {c} : ExchangeOf(d)' = ExchangeOf(d)
  PROVE  Exchanges' = [Exchanges EXCEPT ![c] = e]
BY Zenon DEF Exchanges

(* Steps that clients and servers do not notice.                             *)
LEMMA Unnoticed ==
  ASSUME UNCHANGED <<client, crx, server, lost>> PROVE [R!Next]_Exchanges
<1>1. ASSUME NEW d \in Clients PROVE ExchangeOf(d)' = ExchangeOf(d)
  <2>1. Served(d)' <=> Served(d)
    BY DEF Served, ServedAt
  <2> QED BY <2>1, SameExchange
<1> QED BY <1>1, NoneChanges

(* A step at one server leaves the others' requests served or not.           *)
LEMMA ServedElse ==
  ASSUME NEW d \in Clients, NEW s \in Locals, client'[d] = client[d],
         \A l \in Locals \ {s} : server'[l] = server[l],
         ServedAt(d, s)' <=> ServedAt(d, s)
  PROVE  Served(d)' <=> Served(d)
<1>1. \A l \in Locals : ServedAt(d, l)' <=> ServedAt(d, l)
  BY DEF ServedAt
<1> QED BY <1>1 DEF Served

(* Lost requests stay out of the way when nothing of them comes back.        *)
LEMMA StaysLost ==
  ASSUME LostIsNowhere,
         \A d \in Clients : d \in lost' /\ client'[d].st = "waiting" =>
           /\ d \in lost /\ client[d].st = "waiting"
           /\ dsprog'[d] = dsprog[d] /\ dsin'[d] = dsin[d]
           /\ \A l \in Locals : At(d, l)' => At(d, l)
  PROVE  LostIsNowhere'
BY DEF LostIsNowhere, Nowhere

(* A client is at a socket where it was if that socket has the same content. *)
LEMMA SameAt ==
  ASSUME NEW d \in Clients, NEW l \in Locals, inbox'[l] = inbox[l], server'[l] = server[l]
  PROVE  At(d, l)' <=> At(d, l)
BY DEF At, Has, Serves
-----------------------------------------------------------------------------
(* The initial states map to the initial state.                              *)
LEMMA InitRefines == Init => R!Init /\ LostIsNowhere
<1> SUFFICES ASSUME Init PROVE R!Init /\ LostIsNowhere
  OBVIOUS
<1>1. LostIsNowhere
  BY DEF Init, LostIsNowhere
<1>2. ASSUME NEW c \in Clients PROVE ExchangeOf(c) = R!Exchange("new", 0, "none", 0, 0)
  <2>1. client[c] = [st |-> "new", n |-> 0, len |-> 0]
    BY DEF Init
  <2>2. Phase(c) = "none"
    BY <2>1, SMTT(60) DEF Phase
  <2> QED BY <2>1, <2>2, SMTT(60) DEF ExchangeOf, AnswerLen, AnswerGot, R!Exchange
<1> QED BY <1>1, <1>2 DEF R!Init, Exchanges
-----------------------------------------------------------------------------
(* A client connects.                                                        *)
LEMMA ConnectRefines == ASSUME IInv, LostIsNowhere, NEW c \in Clients, Connect(c) PROVE Refines
<1>f. /\ client[c].st = "new"
      /\ client' = [client EXCEPT ![c].st = "idle"]
      /\ UNCHANGED <<dsprog, crx, dsin, inbox, server, lost>>
  BY DEF Connect, dsrun
<1>t. client \in [Clients -> Client]
  BY DEF IInv, TypeOK
<1>c. /\ client'[c].st = "idle" /\ client'[c].n = client[c].n
      /\ \A d \in Clients \ {c} : client'[d] = client[d]
  BY <1>f, <1>t DEF Client
<1>1. LostIsNowhere'
  BY <1>f, <1>c, SameAt, StaysLost
<1>2. ASSUME NEW d \in Clients \ {c} PROVE ExchangeOf(d)' = ExchangeOf(d)
  <2>1. Served(d)' <=> Served(d)
    BY <1>f, <1>c DEF Served, ServedAt
  <2> QED BY <1>f, <1>c, <2>1, SameExchange
<1>3. ExchangeOf(c)' = R!Exchange("idle", client[c].n, "none", 0, 0)
  <2>1. Phase(c)' = "none"
    BY <1>c DEF Phase
  <2> QED BY <1>c, <2>1 DEF ExchangeOf, AnswerLen, AnswerGot, R!Exchange
<1>4. R!Connect(c)
  BY <1>2, <1>3, <1>f, View, OneChanges DEF R!Connect
<1> QED BY <1>1, <1>4 DEF Refines, R!Next

(* A client closes its connection.                                           *)
LEMMA GiveUpRefines == ASSUME IInv, LostIsNowhere, NEW c \in Clients, GiveUp(c) PROVE Refines
<1>f. /\ client[c].st \in {"idle", "waiting"}
      /\ client' = [client EXCEPT ![c].st = "closed"]
      /\ UNCHANGED <<dsprog, crx, dsin, inbox, server, lost>>
  BY DEF GiveUp
<1>t. client \in [Clients -> Client]
  BY DEF IInv, TypeOK
<1>c. /\ client'[c].st = "closed" /\ client'[c].n = client[c].n
      /\ \A d \in Clients \ {c} : client'[d] = client[d]
  BY <1>f, <1>t DEF Client
<1>1. LostIsNowhere'
  BY <1>f, <1>c, SameAt, StaysLost
<1>2. ASSUME NEW d \in Clients \ {c} PROVE ExchangeOf(d)' = ExchangeOf(d)
  <2>1. Served(d)' <=> Served(d)
    BY <1>f, <1>c DEF Served, ServedAt
  <2> QED BY <1>f, <1>c, <2>1, SameExchange
<1>3. ExchangeOf(c)' = R!Exchange("closed", client[c].n, "none", 0, 0)
  <2>1. Phase(c)' = "none"
    BY <1>c DEF Phase
  <2> QED BY <1>c, <2>1 DEF ExchangeOf, AnswerLen, AnswerGot, R!Exchange
<1>4. R!Close(c)
  BY <1>2, <1>3, <1>f, View, OneChanges DEF R!Close
<1> QED BY <1>1, <1>4 DEF Refines, R!Next

(* A client has read the whole answer.                                       *)
LEMMA FinishRefines == ASSUME IInv, LostIsNowhere, NEW c \in Clients, Finish(c) PROVE Refines
<1>f. /\ client[c].st = "waiting" /\ Whole(crx[c])
      /\ client' = [client EXCEPT ![c].st = "idle"]
      /\ crx' = [crx EXCEPT ![c] = <<>>]
      /\ UNCHANGED <<dsprog, dsin, inbox, server, lost>>
  BY DEF Finish, dsrun
<1>t. client \in [Clients -> Client] /\ crx \in [Clients -> Seq(Parts)]
  BY DEF IInv, TypeOK
<1>c. /\ client'[c].st = "idle" /\ client'[c].n = client[c].n
      /\ \A d \in Clients \ {c} : client'[d] = client[d] /\ crx'[d] = crx[d]
  BY <1>f, <1>t DEF Client
<1>1. LostIsNowhere'
  BY <1>f, <1>c, SameAt, StaysLost
<1>2. ASSUME NEW d \in Clients \ {c} PROVE ExchangeOf(d)' = ExchangeOf(d)
  <2>1. Served(d)' <=> Served(d)
    BY <1>f, <1>c DEF Served, ServedAt
  <2> QED BY <1>f, <1>c, <2>1, SameExchange
<1>3. ExchangeOf(c)' = R!Exchange("idle", client[c].n, "none", 0, 0)
  <2>1. Phase(c)' = "none"
    BY <1>c DEF Phase
  <2> QED BY <1>c, <2>1 DEF ExchangeOf, AnswerLen, AnswerGot, R!Exchange
<1>4. Phase(c) = "replied" /\ AnswerGot(c) = AnswerLen(c) + 1
  BY <1>f DEF Phase, AnswerLen, AnswerGot, Whole
<1>5. R!Finish(c)
  BY <1>2, <1>3, <1>4, View, OneChanges DEF R!Finish
<1> QED BY <1>1, <1>5 DEF Refines, R!Next

(* The policy refuses a request.                                             *)
LEMMA DsDropRefines == ASSUME IInv, LostIsNowhere, NEW c \in Clients, DsDrop(c) PROVE Refines
<1>f. /\ client[c].st = "idle" /\ client[c].n < MaxReqs
      /\ client' = [client EXCEPT ![c].n = @ + 1]
      /\ lost' = lost \ {c}
      /\ UNCHANGED <<dsprog, crx, dsin, inbox, server>>
  BY DEF DsDrop, CanSend, dsrun
<1>t. client \in [Clients -> Client]
  BY DEF IInv, TypeOK
<1>c. /\ client'[c].st = "idle" /\ client'[c].n = client[c].n + 1
      /\ \A d \in Clients \ {c} : client'[d] = client[d]
  BY <1>f, <1>t DEF Client
<1>1. LostIsNowhere'
  BY <1>f, <1>c, SameAt, StaysLost
<1>2. ASSUME NEW d \in Clients \ {c} PROVE ExchangeOf(d)' = ExchangeOf(d)
  <2>1. Served(d)' <=> Served(d)
    BY <1>f, <1>c DEF Served, ServedAt
  <2> QED BY <1>f, <1>c, <2>1, SameExchange
<1>3. ExchangeOf(c)' = R!Exchange("idle", client[c].n + 1, "none", 0, 0)
  <2>1. Phase(c)' = "none"
    BY <1>c DEF Phase
  <2> QED BY <1>c, <2>1 DEF ExchangeOf, AnswerLen, AnswerGot, R!Exchange
<1>4. R!Refuse(c)
  BY <1>2, <1>3, <1>f, View, OneChanges DEF R!Refuse
<1> QED BY <1>1, <1>4 DEF Refines, R!Next

(* A client sends a request: nothing of an earlier one is left.              *)
LEMMA DsQueryRefines == ASSUME IInv, LostIsNowhere, NEW c \in Clients, DsQuery(c) PROVE Refines
<1>f. /\ client[c].st = "idle" /\ client[c].n < MaxReqs
      /\ lost' = lost \ {c}
      /\ UNCHANGED <<crx, dsin, inbox, server>>
  BY DEF DsQuery, CanSend
<1>t. /\ client \in [Clients -> Client] /\ dsprog \in [Clients -> DsProg]
      /\ server \in [Locals -> Server]
  BY DEF IInv, TypeOK
<1>c. /\ client'[c].st = "waiting" /\ client'[c].n = client[c].n + 1
      /\ \A d \in Clients \ {c} : client'[d] = client[d] /\ dsprog'[d] = dsprog[d]
  BY <1>t, SMTT(60) DEF DsQuery
<1>1. LostIsNowhere'
  BY <1>f, <1>c, SameAt, StaysLost
<1>2. ASSUME NEW d \in Clients \ {c} PROVE ExchangeOf(d)' = ExchangeOf(d)
  <2>1. Served(d)' <=> Served(d)
    BY <1>f, <1>c DEF Served, ServedAt
  <2> QED BY <1>f, <1>c, <2>1, SameExchange
<1>3. PlaceInv(c)
  BY <1>f DEF IInv, InvPlaces
<1>4. crx[c] = <<>> /\ \A l \in Locals : ~At(c, l)
  BY <1>3, <1>f DEF PlaceInv, PlaceAt, Received
<1>5. ~Served(c)'
  BY <1>4, <1>f DEF Served, ServedAt, At, Serves
<1>6. ExchangeOf(c)' = R!Exchange("waiting", client[c].n + 1, "asked", 0, 0)
  <2>1. Phase(c)' = "asked"
    BY <1>c, <1>f, <1>4, <1>5 DEF Phase
  <2> QED BY <1>c, <2>1 DEF ExchangeOf, AnswerLen, AnswerGot, R!Exchange
<1>7. R!Ask(c)
  BY <1>2, <1>6, <1>f, View, OneChanges DEF R!Ask
<1> QED BY <1>1, <1>7 DEF Refines, R!Next
-----------------------------------------------------------------------------
(* process_msg of a request runs while the request is nowhere else, and none *)
(* of its steps but the last can be seen.                                    *)
LEMMA ProcessRequestRefines ==
  ASSUME IInv, LostIsNowhere, NEW c \in Clients, ProcessRequest(c) PROVE Refines
<1>f. /\ dsprog[c].pc # "idle"
      /\ UNCHANGED <<client, crx, server, lost>>
  BY DEF ProcessRequest, DsPost, DsRedirect, DsUturn, ends
<1>t. /\ dsprog \in [Clients -> DsProg] /\ dsin \in [Clients -> Seq(Parts)]
      /\ inbox \in [Locals -> Seq(Parts)]
  BY DEF IInv, TypeOK
<1>d. \A d \in Clients \ {c} : dsprog'[d] = dsprog[d] /\ dsin'[d] = dsin[d]
  BY <1>t DEF ProcessRequest, DsPost, DsRedirect, DsUturn, ends
<1>h. DsHead(c).c = c
  BY DEF DsHead, Part
<1>i. \A l \in Locals : inbox'[l] = inbox[l] \/ inbox'[l] = Append(inbox[l], DsHead(c))
  <2>1. CASE DsPost(c) \/ DsUturn(c)
    BY <2>1 DEF DsPost, DsUturn, ends
  <2>2. CASE DsRedirect(c)
    BY <2>2, <1>t DEF DsRedirect
  <2> QED BY <2>1, <2>2 DEF ProcessRequest
<1>a. ASSUME NEW d \in Clients \ {c}, NEW l \in Locals, At(d, l)' PROVE At(d, l)
  <2> DEFINE head == DsHead(c)
  <2>1. CASE inbox'[l] = inbox[l]
    BY <2>1, <1>a, <1>f, SameAt
  <2>2. CASE inbox'[l] = Append(inbox[l], head)
    <3>1. Serves(l, d)' <=> Serves(l, d)
      BY <1>f DEF Serves
    <3>2. inbox[l] \in Seq(Parts) /\ head.c # d
      BY <1>t, <1>h
    <3> HIDE DEF head
    <3>3. Has(d, l)' => Has(d, l)
      BY <2>2, <3>2, SMTT(60) DEF Has
    <3> QED BY <3>1, <3>3, <1>a DEF At
  <2> QED BY <1>i, <2>1, <2>2
<1>l. ~(c \in lost /\ client[c].st = "waiting")
  BY <1>f, SMTT(60) DEF LostIsNowhere, Nowhere, Idle
<1>1. LostIsNowhere'
  BY <1>f, <1>d, <1>a, <1>l, StaysLost
<1> QED BY <1>1, <1>f, Unnoticed, SMTT(60) DEF Refines

(* The rest of a request follows its head; that of a lost one goes nowhere.  *)
LEMMA DsBodyRefines == ASSUME IInv, LostIsNowhere, NEW c \in Clients, DsBody(c) PROVE Refines
<1> DEFINE to == dsverdict[c].to
           part == Part(c, client[c].n, client[c].len - dsverdict[c].left + 1, client[c].len, TRUE)
<1>f. /\ client[c].st = "waiting" /\ dsverdict[c].left > 0
      /\ inbox' = IF to \in Locals /\ conn[to] = "open"
                  THEN [inbox EXCEPT ![to] = Append(@, part)] ELSE inbox
      /\ dsin' = IF to = Proxy THEN [dsin EXCEPT ![c] = Append(@, part)] ELSE dsin
      /\ UNCHANGED <<dsprog, client, crx, server, lost>>
  BY DEF DsBody
<1>t. dsin \in [Clients -> Seq(Parts)] /\ inbox \in [Locals -> Seq(Parts)]
  BY DEF IInv, TypeOK
<1>h. part.c = c
  BY DEF Part
<1> HIDE DEF part
<1>d. \A d \in Clients \ {c} : dsin'[d] = dsin[d]
  BY <1>f, <1>t
<1>i. \A l \in Locals : inbox'[l] = inbox[l] \/ inbox'[l] = Append(inbox[l], part)
  BY <1>f, <1>t
<1>a. ASSUME NEW d \in Clients \ {c}, NEW l \in Locals, At(d, l)' PROVE At(d, l)
  <2>1. CASE inbox'[l] = inbox[l]
    BY <2>1, <1>a, <1>f, SameAt
  <2>2. CASE inbox'[l] = Append(inbox[l], part)
    <3>1. Serves(l, d)' <=> Serves(l, d)
      BY <1>f DEF Serves
    <3>2. inbox[l] \in Seq(Parts) /\ part.c # d
      BY <1>t, <1>h
    <3>3. Has(d, l)' => Has(d, l)
      BY <2>2, <3>2, SMTT(60) DEF Has
    <3> QED BY <3>1, <3>3, <1>a DEF At
  <2> QED BY <1>i, <2>1, <2>2
<1>l. ~(c \in lost /\ client[c].st = "waiting") \/ UNCHANGED <<dsin, inbox>>
  <2> SUFFICES ASSUME c \in lost PROVE UNCHANGED <<dsin, inbox>>
    OBVIOUS
  <2>1. dsin[c] = <<>> /\ \A l \in Locals : ~At(c, l)
    BY <1>f DEF LostIsNowhere, Nowhere
  <2>2. to # Proxy
    BY <2>1, <1>f DEF IInv, InvRest, RestInBuffer
  <2>3. ASSUME to \in Locals, conn[to] = "open" PROVE FALSE
    <3>1. RestAt(c, to)
      BY <2>3, <1>f DEF IInv, InvRest
    <3>2. inbox[to] \in Seq(Parts)
      BY <2>3, <1>t
    <3>3. CASE server[to].st = "reading"
      BY <3>1, <3>3, <2>1, <2>3 DEF RestAt, At, Serves
    <3>4. CASE server[to].st # "reading"
      <4>1. inbox[to] # <<>> /\ \A i \in 1..Len(inbox[to]) : inbox[to][i].c = c
        BY <3>1, <3>4 DEF RestAt
      <4>2. Len(inbox[to]) \in Nat /\ Len(inbox[to]) # 0
        BY <4>1, <3>2, EmptyFacts
      <4>3. 1 \in 1..Len(inbox[to])
        BY <4>2, SMTT(60)
      <4>4. Has(c, to)
        BY <4>1, <4>3, SMTT(60) DEF Has
      <4> QED BY <4>4, <2>1, <2>3, SMTT(60) DEF At
    <3> QED BY <3>3, <3>4
  <2> QED BY <2>2, <2>3, <1>f
<1>1. LostIsNowhere'
  BY <1>f, <1>d, <1>a, <1>l, SameAt, StaysLost
<1> QED BY <1>1, <1>f, Unnoticed DEF Refines
-----------------------------------------------------------------------------
(* A server reads a part of a request; with the last one the request is      *)
(* served, for the first time.                                               *)
LEMMA ServerReadRefines == ASSUME IInv, LostIsNowhere, NEW s \in Locals, ServerRead(s) PROVE Refines
<1>t. /\ inbox \in [Locals -> Seq(Parts)] /\ server \in [Locals -> Server]
  BY DEF IInv, TypeOK
<1>e. inbox[s] \in Seq(Parts) /\ inbox[s] # <<>>
  BY <1>t DEF ServerRead
<1>m. PICK m \in Parts : m = Head(inbox[s]) /\ m = inbox[s][1] /\ m.c \in Clients
  <2>1. Head(inbox[s]) = inbox[s][1] /\ inbox[s][1] \in Parts
    BY <1>e, TailFacts
  <2>2. \A x \in Parts : x.c \in Clients
    BY DEF Parts
  <2> QED BY <2>1, <2>2
<1>f. /\ \/ /\ server[s].st = "idle" /\ m.k = 0
            /\ server' = [server EXCEPT ![s] =
                            [st |-> IF m.len = 0 THEN "ready" ELSE "reading",
                             c |-> m.c, n |-> m.n, left |-> m.len]]
         \/ /\ server[s].st = "reading"
            /\ server' = [server EXCEPT ![s].st = IF server[s].left = 1 THEN "ready" ELSE "reading",
                                        ![s].left = @ - 1]
      /\ inbox' = [inbox EXCEPT ![s] = Tail(@)]
      /\ UNCHANGED <<dsprog, client, crx, dsin, lost>>
  BY <1>m DEF ServerRead, dsrun
<1>h. Has(m.c, s)
  BY <1>m, <1>e, TailFacts, SMTT(60) DEF Has
<1>b. PICK b \in Clients :
        /\ server'[s].c = b /\ At(b, s)
        /\ server[s].st \in {"idle", "reading"} /\ server'[s].st \in {"reading", "ready"}
        /\ client[b].st = "waiting" => server'[s].n = client[b].n
  <2>1. CASE server[s].st = "idle"
    <3>1. server'[s].c = m.c /\ server'[s].n = m.n /\ server'[s].st \in {"reading", "ready"}
      BY <2>1, <1>f, <1>t, SMTT(60)
    <3>2. client[m.c].st = "waiting" => m.n = client[m.c].n
      BY <1>h, <1>m, <1>e, TailFacts, WaitingPlace, SMTT(60) DEF PlaceInv, PlaceAt, At
    <3> QED BY <3>1, <3>2, <2>1, <1>h, <1>m DEF At
  <2>2. CASE server[s].st = "reading"
    <3>1. /\ server'[s].c = server[s].c /\ server'[s].n = server[s].n
          /\ server'[s].st \in {"reading", "ready"}
      BY <2>2, <1>f, <1>t, SMTT(60) DEF Server
    <3>2. server[s].c \in Clients
      BY <2>2 DEF IInv, InvServers, ServerInv
    <3>3. Serves(s, server[s].c)
      BY <2>2 DEF Serves
    <3>4. client[server[s].c].st = "waiting" => server[s].n = client[server[s].c].n
      BY <3>2, <3>3, WaitingPlace, SMTT(60) DEF PlaceInv, PlaceAt, At
    <3> QED BY <3>1, <3>2, <3>3, <3>4, <2>2 DEF At
  <2> QED BY <2>1, <2>2, <1>f
<1>l. \A l \in Locals \ {s} : server'[l] = server[l] /\ inbox'[l] = inbox[l]
  BY <1>f, <1>t
<1>i. inbox'[s] = Tail(inbox[s])
  BY <1>f, <1>t
<1>a. ASSUME NEW d \in Clients, NEW l \in Locals, At(d, l)' PROVE At(d, l)
  <2>1. CASE l # s
    BY <2>1, <1>a, <1>l, SameAt
  <2>2. CASE l = s
    <3>1. Has(d, s)' => Has(d, s)
      BY <1>i, <1>e, TailFacts, SMTT(60) DEF Has
    <3>2. Serves(s, d)' => d = b
      BY <1>b DEF Serves
    <3> QED BY <2>2, <3>1, <3>2, <1>a, <1>b DEF At
  <2> QED BY <2>1, <2>2
<1>1. LostIsNowhere'
  BY <1>f, <1>a, StaysLost
<1>2. ASSUME NEW d \in Clients, d # b \/ server'[s].st = "reading" \/ client[d].st # "waiting"
      PROVE  ExchangeOf(d)' = ExchangeOf(d)
  <2>1. CASE client[d].st # "waiting"
    BY <2>1, <1>f, SameExchange
  <2>2. CASE d # b \/ server'[s].st = "reading"
    <3>1. ~ServedAt(d, s) /\ ~ServedAt(d, s)'
      BY <2>2, <1>b DEF ServedAt
    <3>2. Served(d)' <=> Served(d)
      BY <3>1, <1>f, <1>l, ServedElse
    <3> QED BY <3>2, <1>f, SameExchange
  <2> QED BY <2>1, <2>2, <1>2
<1>3. CASE server'[s].st = "reading" \/ client[b].st # "waiting"
  BY <1>1, <1>2, <1>3, NoneChanges DEF Refines
<1>4. CASE server'[s].st = "ready" /\ client[b].st = "waiting"
  <2>1. PlaceInv(b)
    BY <1>4, WaitingPlace, SMTT(60)
  <2>2. crx[b] = <<>>
    BY <2>1, <1>b DEF PlaceInv, PlaceAt
  <2>3. ~Served(b)
    <3>1. ASSUME NEW l \in Locals, ServedAt(b, l) PROVE FALSE
      <4>1. At(b, l)
        BY <3>1 DEF ServedAt, At, Serves
      <4>2. l = s
        BY <4>1, <2>1, <1>b DEF PlaceInv
      <4> QED BY <4>2, <3>1, <1>b DEF ServedAt
    <3> QED BY <3>1 DEF Served
  <2>4. b \notin lost
    BY <1>4, <1>b DEF LostIsNowhere, Nowhere
  <2>5. Served(b)'
    BY <1>4, <1>b, <1>f DEF Served, ServedAt
  <2>6. Phase(b) = "asked" /\ Phase(b)' = "served"
    BY <1>4, <1>f, <2>2, <2>3, <2>4, <2>5 DEF Phase
  <2>7. ExchangeOf(b)' = R!Exchange("waiting", client[b].n, "served", 0, 0)
    BY <1>4, <1>f, <2>6 DEF ExchangeOf, AnswerLen, AnswerGot, R!Exchange
  <2>8. R!Serve(b)
    BY <1>2, <2>6, <2>7, View, OneChanges DEF R!Serve
  <2> QED BY <1>1, <2>8 DEF Refines, R!Next
<1> QED BY <1>3, <1>4, <1>b

(* A server starts to answer.                                                *)
LEMMA UsQueryRefines == ASSUME IInv, LostIsNowhere, NEW s \in Locals, UsQuery(s) PROVE Refines
<1>t. server \in [Locals -> Server]
  BY DEF IInv, TypeOK
<1>f. /\ server[s].st = "ready"
      /\ server' = [server EXCEPT ![s].st = "answer"]
      /\ UNCHANGED <<dsprog, client, crx, dsin, inbox, lost>>
  BY DEF UsQuery, dsrun
<1>c. /\ server'[s].st = "answer" /\ server'[s].c = server[s].c /\ server'[s].n = server[s].n
      /\ \A l \in Locals \ {s} : server'[l] = server[l]
  BY <1>f, <1>t DEF Server
<1>1. ASSUME NEW d \in Clients, NEW l \in Locals
      PROVE  (At(d, l)' => At(d, l)) /\ (ServedAt(d, l)' <=> ServedAt(d, l))
  BY <1>f, <1>c DEF At, Has, Serves, ServedAt
<1>2. LostIsNowhere'
  BY <1>f, <1>1, StaysLost
<1>3. \A d \in Clients : Served(d)' <=> Served(d)
  BY <1>1 DEF Served
<1>4. \A d \in Clients : ExchangeOf(d)' = ExchangeOf(d)
  BY <1>3, <1>f, SameExchange
<1> QED BY <1>2, <1>4, NoneChanges DEF Refines

(* The route back is taken; an answer that has none is lost.                 *)
LEMMA UsPostRefines == ASSUME IInv, LostIsNowhere, NEW s \in Locals, UsPost(s) PROVE Refines
<1>t. server \in [Locals -> Server] /\ usprog[s] \in UsProg
  BY DEF IInv, TypeOK
<1>p. usprog[s].pc = "post"
  BY DEF UsPost
<1>s. server[s].st = "answer"
  BY <1>p DEF IInv, InvServers, ServerInv
<1>b. PICK b \in Clients : b = server[s].c
  BY <1>s DEF IInv, InvServers, ServerInv
<1>1. CASE usprog[s].ekey # NullKey
  <2>1. UNCHANGED <<server, lost, dsprog, client, crx, dsin, inbox>>
    BY <1>1 DEF UsPost, dsrun
  <2> QED BY <2>1, SameAt, StaysLost, Unnoticed DEF Refines
<1>2. CASE usprog[s].ekey = NullKey
  <2>f. /\ lost' = lost \cup {b}
        /\ server' = [server EXCEPT ![s] = NoRequest]
        /\ UNCHANGED <<dsprog, client, crx, dsin, inbox>>
    BY <1>2, <1>b DEF UsPost, dsrun
  <2>c. /\ server'[s].st = "idle"
        /\ \A l \in Locals \ {s} : server'[l] = server[l]
    BY <2>f, <1>t DEF NoRequest
  <2>a. ASSUME NEW d \in Clients, NEW l \in Locals PROVE At(d, l)' => At(d, l)
    BY <2>f, <2>c DEF At, Has, Serves
  <2>w. ASSUME client[b].st = "waiting"
        PROVE  /\ dsprog[b] = Idle /\ dsin[b] = <<>> /\ crx[b] = <<>>
               /\ \A l \in Locals : ~At(b, l)'
               /\ server[s].n = client[b].n
    <3>1. PlaceInv(b) /\ At(b, s) /\ Serves(s, b)
      BY <2>w, <1>s, <1>b, WaitingPlace DEF At, Serves
    <3>2. dsprog[b] = Idle /\ dsin[b] = <<>> /\ crx[b] = <<>> /\ ~Has(b, s) /\ server[s].n = client[b].n
      BY <3>1, <1>s DEF PlaceInv, PlaceAt
    <3>3. \A l \in Locals \ {s} : ~At(b, l)'
      BY <3>1, <2>a DEF PlaceInv
    <3>4. ~At(b, s)'
      BY <3>2, <2>f, <2>c DEF At, Has, Serves
    <3> QED BY <3>2, <3>3, <3>4
  <2>1. LostIsNowhere'
    <3> SUFFICES ASSUME NEW d \in Clients, d \in lost', client'[d].st = "waiting" PROVE Nowhere(d)'
      BY DEF LostIsNowhere
    <3>1. CASE d = b
      BY <3>1, <2>w, <2>f DEF Nowhere
    <3>2. CASE d # b
      BY <3>2, <2>a, <2>f DEF LostIsNowhere, Nowhere
    <3> QED BY <3>1, <3>2
  <2>2. ASSUME NEW d \in Clients, d # b \/ client[d].st # "waiting" PROVE ExchangeOf(d)' = ExchangeOf(d)
    <3>1. CASE client[d].st # "waiting"
      BY <3>1, <2>f, SameExchange
    <3>2. CASE d # b
      <4>1. ~ServedAt(d, s) /\ ~ServedAt(d, s)'
        BY <3>2, <1>b, <2>c DEF ServedAt
      <4>2. Served(d)' <=> Served(d)
        BY <4>1, <2>f, <2>c, ServedElse
      <4> QED BY <3>2, <4>2, <2>f, SameExchange
    <3> QED BY <2>2, <3>1, <3>2
  <2>3. CASE client[b].st # "waiting"
    BY <2>1, <2>2, <2>3, NoneChanges DEF Refines
  <2>4. CASE client[b].st = "waiting"
    <3>1. Served(b)
      BY <2>4, <2>w, <1>s, <1>b DEF Served, ServedAt
    <3>2. ~Served(b)'
      BY <2>4, <2>w DEF Served, ServedAt, At, Serves
    <3>3. Phase(b) = "served" /\ Phase(b)' = "lost"
      BY <2>4, <2>w, <2>f, <3>1, <3>2 DEF Phase
    <3>4. ExchangeOf(b)' = R!Exchange("waiting", client[b].n, "lost", 0, 0)
      BY <2>4, <2>f, <3>3 DEF ExchangeOf, AnswerLen, AnswerGot, R!Exchange
    <3>5. R!Lose(b)
      BY <2>2, <3>3, <3>4, View, OneChanges DEF R!Lose
    <3> QED BY <2>1, <3>5 DEF Refines, R!Next
  <2> QED BY <2>3, <2>4
<1> QED BY <1>1, <1>2

(* The server of an answer in progress, after a part that went to no one but *)
(* its client.                                                               *)
LEMMA AnswerAt ==
  ASSUME NEW s \in Locals, server \in [Locals -> Server], NEW x,
         server' = [server EXCEPT ![s] = x], x.st = "idle" \/ x.c = server[s].c,
         server[s].st # "idle", UNCHANGED inbox
  PROVE  /\ \A d \in Clients, l \in Locals : At(d, l)' => At(d, l)
         /\ \A l \in Locals \ {s} : server'[l] = server[l]
         /\ server'[s] = x
BY DEF At, Has, Serves

(* The server after the head of an answer: idle, or busy with the same       *)
(* request.                                                                  *)
LEMMA AnsweringServer ==
  ASSUME IInv, NEW s \in Locals, NEW to, Answering(s, to), server[s].st = "answer", UNCHANGED inbox
  PROVE  /\ \A d \in Clients, l \in Locals : At(d, l)' => At(d, l)
         /\ \A l \in Locals \ {s} : server'[l] = server[l]
         /\ server'[s].st = "idle" \/ server'[s].c = server[s].c
<1> DEFINE x == IF usprog[s].len = 0 THEN NoRequest
                ELSE [server[s] EXCEPT !.st = "sending", !.left = usprog[s].len]
<1>t. server \in [Locals -> Server]
  BY DEF IInv, TypeOK
<1>1. server' = [server EXCEPT ![s] = x]
  BY DEF Answering
<1>2. x.st = "idle" \/ x.c = server[s].c
  BY <1>t DEF NoRequest, Server
<1> HIDE DEF x
<1> QED BY <1>t, <1>1, <1>2, AnswerAt, Zenon

(* The head of an answer reaches the client that asked, or the answer makes  *)
(* a U-turn.                                                                 *)
LEMMA UsRedirectRefines == ASSUME IInv, LostIsNowhere, NEW s \in Locals, UsRedirect(s) PROVE Refines
<1>t. crx \in [Clients -> Seq(Parts)] /\ usprog[s] \in UsProg
  BY DEF IInv, TypeOK
<1>p. usprog[s].pc = "redirect"
  BY DEF UsRedirect
<1>s. server[s].st = "answer"
  BY <1>p DEF IInv, InvServers, ServerInv
<1>b. PICK b \in Clients : b = server[s].c
  BY <1>s DEF IInv, InvServers, ServerInv
<1>k. usprog[s].ekey = DsKey(b)
  <2>1. AnswerInv(s) /\ RouteInv(b, s)
    BY DEF IInv, InvRoutes
  <2> QED BY <2>1, <1>p, <1>s, <1>b DEF AnswerInv, RouteInv
<1>1. CASE ~Redirectable(DsKey(b))
  <2>1. UNCHANGED <<server, lost, dsprog, client, crx, dsin, inbox>>
    BY <1>1, <1>k DEF UsRedirect, dsrun
  <2> QED BY <2>1, SameAt, StaysLost, Unnoticed DEF Refines
<1>2. CASE Redirectable(DsKey(b))
  <2> DEFINE part == Part(server[s].c, server[s].n, 0, usprog[s].len, TRUE)
  <2>f. /\ crx' = [crx EXCEPT ![b] = Append(@, part)]
        /\ Answering(s, b)
        /\ UNCHANGED <<dsprog, client, dsin, inbox, lost>>
    <3>1. Redirectable(usprog[s].ekey) /\ usprog[s].ekey[1] = b
      BY <1>2, <1>k, SMTT(60) DEF DsKey
    <3> QED BY <3>1, Zenon DEF UsRedirect, dsrun
  <2>l. part.len = usprog[s].len /\ usprog[s].len \in 0..MaxBody
    BY <1>t DEF Part, UsProg
  <2> HIDE DEF part
  <2>a. /\ \A d \in Clients, l \in Locals : At(d, l)' => At(d, l)
        /\ \A l \in Locals \ {s} : server'[l] = server[l]
        /\ server'[s].st = "idle" \/ server'[s].c = server[s].c
    BY <2>f, <1>s, AnsweringServer, SMTT(60)
  <2>w. client[b].st = "waiting" /\ server[s].n = client[b].n /\ crx[b] = <<>> /\ At(b, s)
    <3>1. client[b].st \in {"idle", "waiting"}
      BY <1>2 DEF IInv, InvSockets, ClientSocket, Redirectable
    <3>2. PlaceInv(b) /\ At(b, s) /\ Serves(s, b)
      BY <3>1, <1>s, <1>b DEF IInv, InvPlaces, At, Serves
    <3> QED BY <3>2, <1>s, SMTT(60) DEF PlaceInv, PlaceAt
  <2>c. /\ crx'[b] = Append(<<>>, part)
        /\ \A d \in Clients \ {b} : crx'[d] = crx[d]
    BY <2>f, <2>w, <1>t
  <2>1. LostIsNowhere'
    BY <2>f, <2>a, StaysLost
  <2>2. ASSUME NEW d \in Clients \ {b} PROVE ExchangeOf(d)' = ExchangeOf(d)
    <3>1. ~ServedAt(d, s) /\ ~ServedAt(d, s)'
      BY <1>b, <2>a DEF ServedAt
    <3>2. Served(d)' <=> Served(d)
      BY <3>1, <2>f, <2>a, ServedElse
    <3> QED BY <3>2, <2>f, <2>c, SameExchange
  <2>3. Phase(b) = "served"
    <3>1. Served(b)
      BY <2>w, <1>s, <1>b DEF Served, ServedAt
    <3> QED BY <3>1, <2>w DEF Phase
  <2>4. crx'[b] # <<>> /\ Len(crx'[b]) = 1 /\ crx'[b][1] = part
    BY <2>c, SMTT(60)
  <2>5. ExchangeOf(b)' = R!Exchange("waiting", client[b].n, "replied", usprog[s].len, 1)
    <3>1. Phase(b)' = "replied"
      BY <2>4, <2>w, <2>f DEF Phase
    <3> QED BY <3>1, <2>4, <2>l, <2>w, <2>f DEF ExchangeOf, AnswerLen, AnswerGot, R!Exchange
  <2>6. R!Reply(b)
    BY <2>2, <2>3, <2>5, <2>l, View, OneChanges, SMTT(60) DEF R!Reply
  <2> QED BY <2>1, <2>6 DEF Refines, R!Next
<1> QED BY <1>1, <1>2

(* An answer makes a U-turn only when its client is gone.                    *)
LEMMA UsUturnRefines == ASSUME IInv, LostIsNowhere, NEW s \in Locals, UsUturn(s) PROVE Refines
<1>p. usprog[s].pc = "utrn"
  BY DEF UsUturn
<1>s. server[s].st = "answer"
  BY <1>p DEF IInv, InvServers, ServerInv
<1>b. PICK b \in Clients : b = server[s].c /\ client[b].st = "closed"
  BY <1>p, <1>s, SMTT(60) DEF IInv, InvServers, ServerInv, InvRoutes, AnswerInv
<1>f. /\ Answering(s, Proxy)
      /\ UNCHANGED <<dsprog, client, crx, dsin, inbox, lost>>
  BY DEF UsUturn, dsrun
<1>a. /\ \A d \in Clients, l \in Locals : At(d, l)' => At(d, l)
      /\ \A l \in Locals \ {s} : server'[l] = server[l]
      /\ server'[s].st = "idle" \/ server'[s].c = server[s].c
  BY <1>f, <1>s, AnsweringServer
<1>1. LostIsNowhere'
  BY <1>f, <1>a, StaysLost
<1>2. ASSUME NEW d \in Clients PROVE ExchangeOf(d)' = ExchangeOf(d)
  <2>1. CASE d = b
    BY <2>1, <1>b, <1>f, SameExchange
  <2>2. CASE d # b
    <3>1. ~ServedAt(d, s) /\ ~ServedAt(d, s)'
      BY <2>2, <1>b, <1>a, SMTT(60) DEF ServedAt
    <3>2. Served(d)' <=> Served(d)
      BY <3>1, <1>f, <1>a, ServedElse
    <3> QED BY <3>2, <1>f, SameExchange
  <2> QED BY <2>1, <2>2
<1> QED BY <1>1, <1>2, NoneChanges DEF Refines

(* The next part of an answer follows the parts before it.                   *)
LEMMA UsBodyRefines == ASSUME IInv, LostIsNowhere, NEW s \in Locals, UsBody(s) PROVE Refines
<1>t. /\ server \in [Locals -> Server] /\ crx \in [Clients -> Seq(Parts)]
      /\ usverdict[s] \in UsVerdict
  BY DEF IInv, TypeOK
<1>s. server[s].st = "sending"
  BY DEF UsBody
<1>b. PICK b \in Clients : b = server[s].c
  BY <1>s DEF IInv, InvServers, ServerInv
<1> DEFINE to == usverdict[s].to
           part == Part(server[s].c, server[s].n, server[s].left - usverdict[s].left + 1,
                        server[s].left, TRUE)
           x == IF usverdict[s].left = 1 THEN NoRequest ELSE server[s]
<1>f. /\ crx' = IF to \in Clients /\ client[to].st # "closed"
                THEN [crx EXCEPT ![to] = Append(@, part)] ELSE crx
      /\ server' = [server EXCEPT ![s] = x]
      /\ UNCHANGED <<dsprog, client, dsin, inbox, lost>>
  BY DEF UsBody, dsrun
<1>x. x.st = "idle" \/ x.c = server[s].c
  BY DEF NoRequest
<1> HIDE DEF part, x
<1>a. /\ \A d \in Clients, l \in Locals : At(d, l)' => At(d, l)
      /\ \A l \in Locals \ {s} : server'[l] = server[l]
      /\ server'[s] = x
  BY <1>f, <1>x, <1>t, <1>s, AnswerAt, Zenon
<1>o. to = b \/ (to = Proxy /\ client[b].st = "closed")
  <2>1. AnswerInv(s)
    BY DEF IInv, InvRoutes
  <2> QED BY <2>1, <1>s, <1>b DEF AnswerInv
<1>c. \A d \in Clients \ {b} : crx'[d] = crx[d]
  <2>1. Proxy \notin Clients
    BY AddrAssumption DEF Hosts
  <2> QED BY <2>1, <1>f, <1>o, <1>t
<1>1. LostIsNowhere'
  BY <1>f, <1>a, StaysLost
<1>2. ASSUME NEW d \in Clients, d # b \/ client[d].st # "waiting" PROVE ExchangeOf(d)' = ExchangeOf(d)
  <2>1. CASE client[d].st # "waiting"
    BY <2>1, <1>f, SameExchange
  <2>2. CASE d # b
    <3>1. ~ServedAt(d, s) /\ ~ServedAt(d, s)'
      BY <2>2, <1>b, <1>x, <1>a DEF ServedAt
    <3>2. Served(d)' <=> Served(d)
      BY <3>1, <1>f, <1>a, ServedElse, Zenon
    <3> QED BY <2>2, <3>2, <1>f, <1>c, SameExchange
  <2> QED BY <1>2, <2>1, <2>2
<1>3. CASE client[b].st # "waiting"
  BY <1>1, <1>2, <1>3, NoneChanges DEF Refines
<1>4. CASE client[b].st = "waiting"
  <2>1. PlaceInv(b) /\ At(b, s) /\ Serves(s, b)
    BY <1>4, <1>s, <1>b, WaitingPlace, SMTT(60) DEF At, Serves
  <2>2. /\ crx[b] # <<>> /\ crx[b][1].len = server[s].left
        /\ Len(crx[b]) + usverdict[s].left = server[s].left + 1
    BY <2>1, <1>s DEF PlaceInv, PlaceAt
  <2>3. usverdict[s].left > 0 /\ usverdict[s].left \in Nat /\ server[s].left \in Nat
    BY <1>s, <1>t, SMTT(60) DEF IInv, InvServers, ServerInv, UsVerdict, Server
  <2>4. crx'[b] = Append(crx[b], part) /\ crx[b] \in Seq(Parts)
    BY <1>f, <1>o, <1>4, <1>t
  <2>5. /\ crx'[b] # <<>> /\ Len(crx'[b]) = Len(crx[b]) + 1 /\ crx'[b][1] = crx[b][1]
        /\ Len(crx[b]) \in Nat
    BY <2>2, <2>4, SMTT(60)
  <2>6. Phase(b) = "replied" /\ Phase(b)' = "replied"
    BY <1>4, <1>f, <2>2, <2>5 DEF Phase
  <2>7. AnswerGot(b) <= AnswerLen(b)
    BY <2>2, <2>3, <2>5, <2>6, SMTT(60) DEF AnswerGot, AnswerLen
  <2>8. ExchangeOf(b)' = R!Exchange("waiting", client[b].n, "replied", AnswerLen(b), AnswerGot(b) + 1)
    <3>1. AnswerLen(b)' = AnswerLen(b)
      BY <2>5, <2>6 DEF AnswerLen
    <3>2. AnswerGot(b)' = AnswerGot(b) + 1
      BY <2>5, <2>6 DEF AnswerGot
    <3>3. client'[b].st = "waiting" /\ client'[b].n = client[b].n
      BY <1>4, <1>f
    <3> QED BY <2>6, <3>1, <3>2, <3>3 DEF ExchangeOf, R!Exchange
  <2>9. R!More(b)
    <3>1. Exchanges' = [Exchanges EXCEPT ![b] =
                          R!Exchange("waiting", client[b].n, "replied", AnswerLen(b), AnswerGot(b) + 1)]
      BY <1>2, <2>8, OneChanges, Zenon
    <3> QED BY <3>1, <2>6, <2>7, View, Zenon DEF R!More
  <2> QED BY <1>1, <2>9 DEF Refines, R!Next
<1> QED BY <1>3, <1>4

(* A server closes a connection: at most one request whose client has no     *)
(* part of an answer gets lost with it.                                      *)
LEMMA ServerCloseRefines == ASSUME IInv, LostIsNowhere, NEW s \in Locals, ServerClose(s) PROVE Refines
<1>t. /\ server \in [Locals -> Server] /\ inbox \in [Locals -> Seq(Parts)]
  BY DEF IInv, TypeOK
<1>f. /\ usprog[s] = Idle
      /\ lost' = lost \cup Carried(s)
      /\ inbox' = [inbox EXCEPT ![s] = <<>>]
      /\ server' = [server EXCEPT ![s] = NoRequest]
      /\ UNCHANGED <<dsprog, client, crx, dsin>>
  BY DEF ServerClose, dsrun
<1>c. /\ server'[s].st = "idle" /\ inbox'[s] = <<>>
      /\ \A l \in Locals \ {s} : server'[l] = server[l] /\ inbox'[l] = inbox[l]
  BY <1>f, <1>t DEF NoRequest
<1>a. ASSUME NEW d \in Clients, NEW l \in Locals
      PROVE  (At(d, l)' => At(d, l)) /\ ~At(d, s)'
  BY <1>c, SMTT(60) DEF At, Has, Serves
<1>k. \A d \in Clients : d \in Carried(s) <=> At(d, s)
  BY DEF Carried, At, Has, Serves
<1>n. server[s].st # "answer"
  BY <1>f, SMTT(60) DEF IInv, InvServers, ServerInv, Idle
<1>1. LostIsNowhere'
  <2> SUFFICES ASSUME NEW d \in Clients, d \in lost', client[d].st = "waiting" PROVE Nowhere(d)'
    BY <1>f DEF LostIsNowhere
  <2>1. CASE At(d, s)
    <3>1. PlaceInv(d)
      BY WaitingPlace
    <3>2. dsprog[d] = Idle /\ dsin[d] = <<>>
      BY <3>1, <2>1 DEF PlaceInv, PlaceAt
    <3>3. \A l \in Locals : ~At(d, l)'
      BY <3>1, <2>1, <1>a, SMTT(60) DEF PlaceInv
    <3> QED BY <3>2, <3>3, <1>f DEF Nowhere
  <2>2. CASE ~At(d, s)
    BY <2>2, <1>f, <1>k, <1>a DEF LostIsNowhere, Nowhere
  <2> QED BY <2>1, <2>2
<1> DEFINE loses(d) == client[d].st = "waiting" /\ At(d, s) /\ crx[d] = <<>>
<1>2. ASSUME NEW d \in Clients, ~loses(d) PROVE ExchangeOf(d)' = ExchangeOf(d)
  <2>1. CASE client[d].st # "waiting" \/ crx[d] # <<>>
    BY <2>1, <1>f, SameExchange
  <2>2. CASE ~At(d, s)
    <3>1. ~ServedAt(d, s) /\ ~ServedAt(d, s)'
      BY <2>2, <1>c DEF ServedAt, At, Serves
    <3>2. Served(d)' <=> Served(d)
      BY <3>1, <1>f, <1>c, ServedElse
    <3> QED BY <2>2, <3>2, <1>f, <1>k, SameExchange
  <2> QED BY <1>2, <2>1, <2>2
<1>3. ASSUME NEW b \in Clients, loses(b), NEW d \in Clients, loses(d) PROVE b = d
  <2>1. /\ PlaceAt(b, s) /\ PlaceAt(d, s) /\ At(b, s) /\ At(d, s)
    BY <1>3, WaitingPlace DEF PlaceInv
  <2>2. /\ Serves(s, b) => server[s].st \in {"reading", "ready"}
        /\ Serves(s, d) => server[s].st \in {"reading", "ready"}
    <3>1. server[s].st \in {"idle", "reading", "ready", "answer", "sending"}
      BY <1>t DEF Server
    <3> QED BY <3>1, <2>1, <1>3, <1>n, Zenon DEF PlaceAt, Serves
  <2>3. InboxInv(s)
    BY DEF IInv, InvInbox
  <2>4. ASSUME NEW e \in Clients, Has(e, s) PROVE inbox[s] # <<>> /\ e = inbox[s][1].c
    <3>1. PICK i \in 1..Len(inbox[s]) : inbox[s][i].c = e
      BY <2>4 DEF Has
    <3>2. inbox[s] # <<>>
      BY <3>1, <1>t, SMTT(60)
    <3> QED BY <3>1, <3>2, <2>3 DEF InboxInv
  <2>5. ASSUME NEW e \in Clients, Has(e, s), server[s].st \in {"reading", "ready"}
        PROVE  e = server[s].c
    BY <2>5, <2>4, <2>3, SMTT(60) DEF InboxInv, Unanswered
  <2> QED BY <2>1, <2>2, <2>4, <2>5, SMTT(60) DEF At, Serves
<1>4. CASE \A d \in Clients : ~loses(d)
  BY <1>1, <1>2, <1>4, NoneChanges DEF Refines
<1>5. CASE \E d \in Clients : loses(d)
  <2>1. PICK b \in Clients : loses(b)
    BY <1>5
  <2>2. \A d \in Clients \ {b} : ExchangeOf(d)' = ExchangeOf(d)
    BY <2>1, <1>2, <1>3
  <2>3. b \in lost' /\ b \notin lost
    BY <2>1, <1>f, <1>k DEF LostIsNowhere, Nowhere
  <2>4. ~Served(b)'
    <3>1. \A l \in Locals : ~At(b, l)'
      BY <2>1, <1>a, WaitingPlace DEF PlaceInv
    <3> QED BY <3>1, SMTT(60) DEF Served, ServedAt, At, Serves
  <2>5. Phase(b) \in {"asked", "served"} /\ Phase(b)' = "lost"
    BY <2>1, <2>3, <2>4, <1>f DEF Phase
  <2>6. ExchangeOf(b)' = R!Exchange("waiting", client[b].n, "lost", 0, 0)
    BY <2>1, <1>f, <2>5 DEF ExchangeOf, AnswerLen, AnswerGot, R!Exchange
  <2>7. R!Lose(b)
    <3>1. Exchanges' = [Exchanges EXCEPT ![b] = R!Exchange("waiting", client[b].n, "lost", 0, 0)]
      BY <2>2, <2>6, OneChanges, Zenon
    <3> QED BY <3>1, <2>5, View, Zenon DEF R!Lose
  <2> QED BY <1>1, <2>7, SMTT(60) DEF Refines, R!Next
<1> QED BY <1>4, <1>5

(* A server's end of a connection is established.                            *)
LEMMA EstablishedRefines == ASSUME IInv, LostIsNowhere, NEW s \in Locals, Established(s) PROVE Refines
<1>f. UNCHANGED <<dsprog, client, crx, dsin, inbox, server, lost>>
  BY DEF Established, dsrun
<1> QED BY <1>f, SameAt, StaysLost, Unnoticed, Zenon DEF Refines
-----------------------------------------------------------------------------
(* A request that is in the buffer of its task is with no server, not lost   *)
(* and not answered.                                                         *)
LEMMA InBuffer ==
  ASSUME IInv, LostIsNowhere, NEW c \in Clients, Whole(dsin[c]), client[c].st # "closed"
  PROVE  client[c].st = "waiting" /\ crx[c] = <<>> /\ Phase(c) = "asked" /\ c \notin lost
<1>1. dsin[c] # <<>>
  BY SMTT(60) DEF Whole
<1>2. client[c].st = "waiting" /\ crx[c] = <<>>
  BY <1>1, SMTT(60) DEF IInv, InvPlaces, PlaceInv, PlaceElse
<1>3. \A l \in Locals : ~At(c, l)
  BY <1>1, <1>2, WaitingPlace DEF PlaceInv, PlaceAt
<1>4. ~Served(c)
  BY <1>3 DEF Served, ServedAt, At, Serves
<1>5. c \notin lost
  BY <1>1, <1>2 DEF LostIsNowhere, Nowhere
<1> QED BY <1>2, <1>4, <1>5 DEF Phase

(* send_error: the client learns that no server has its request.             *)
LEMMA SendErrorRefines ==
  ASSUME IInv, LostIsNowhere, NEW c \in Clients, SendError(c), Whole(dsin[c]),
         UNCHANGED <<dsprog, client, inbox, server, lost>>
  PROVE  Refines
<1> DEFINE part == Part(c, dsin[c][1].n, 0, 0, FALSE)
<1>t. crx \in [Clients -> Seq(Parts)] /\ dsin \in [Clients -> Seq(Parts)]
  BY DEF IInv, TypeOK
<1>f. /\ crx' = IF client[c].st = "closed" THEN crx ELSE [crx EXCEPT ![c] = Append(@, part)]
      /\ dsin' = [dsin EXCEPT ![c] = <<>>]
  BY DEF SendError
<1>p. part.len = 0
  BY DEF Part
<1> HIDE DEF part
<1>c. \A d \in Clients \ {c} : crx'[d] = crx[d] /\ dsin'[d] = dsin[d]
  BY <1>f, <1>t
<1>e. client[c].st # "closed" => client[c].st = "waiting" /\ crx[c] = <<>> /\ Phase(c) = "asked" /\ c \notin lost
  BY InBuffer
<1>1. LostIsNowhere'
  <2>1. client[c].st = "waiting" => c \notin lost
    BY <1>e
  <2> QED BY <2>1, <1>c, SameAt, StaysLost
<1>s. \A d \in Clients : Served(d)' <=> Served(d)
  BY DEF Served, ServedAt
<1>2. ASSUME NEW d \in Clients, d # c \/ client[c].st = "closed" PROVE ExchangeOf(d)' = ExchangeOf(d)
  BY <1>2, <1>c, <1>f, <1>s, SameExchange, SMTT(60)
<1>3. CASE client[c].st = "closed"
  BY <1>1, <1>2, <1>3, NoneChanges DEF Refines
<1>4. CASE client[c].st # "closed"
  <2>1. crx'[c] = Append(<<>>, part)
    BY <1>4, <1>e, <1>f, <1>t
  <2>2. crx'[c] # <<>> /\ Len(crx'[c]) = 1 /\ crx'[c][1] = part
    BY <2>1, SMTT(60)
  <2>3. Phase(c)' = "replied"
    BY <2>2, <1>4, <1>e, SMTT(60) DEF Phase
  <2>4. ExchangeOf(c)' = R!Exchange("waiting", client[c].n, "replied", 0, 1)
    BY <2>2, <2>3, <1>4, <1>e, <1>p DEF ExchangeOf, AnswerLen, AnswerGot, R!Exchange
  <2>5. R!Fail(c)
    <3>1. Exchanges' = [Exchanges EXCEPT ![c] = R!Exchange("waiting", client[c].n, "replied", 0, 1)]
      BY <1>2, <2>4, OneChanges, Zenon
    <3> QED BY <3>1, <1>4, <1>e, View, Zenon DEF R!Fail
  <2> QED BY <1>1, <2>5 DEF Refines, R!Next
<1> QED BY <1>3, <1>4

(* What is in the concatenation of two sequences.                            *)
LEMMA ConcatFacts ==
  ASSUME NEW S, NEW p \in Seq(S), NEW q \in Seq(S), NEW i \in 1..Len(p \o q)
  PROVE  (i \in 1..Len(p) /\ (p \o q)[i] = p[i]) \/ \E j \in 1..Len(q) : (p \o q)[i] = q[j]
<1>1. Len(p) \in Nat /\ Len(q) \in Nat /\ Len(p \o q) = Len(p) + Len(q) /\ i \in Nat /\ i > 0
  BY SMTT(60)
<1>2. CASE i <= Len(p)
  BY <1>1, <1>2, SMTT(60)
<1>3. CASE i > Len(p)
  <2>1. i - Len(p) \in 1..Len(q)
    BY <1>1, <1>3, SMTT(60)
  <2>2. (p \o q)[i] = q[i - Len(p)]
    BY <1>1, <1>3, SMTT(60)
  <2> QED BY <2>1, <2>2, SMTT(60)
<1> QED BY <1>1, <1>2, <1>3, SMTT(60)

(* The request is written to its server, or lost in a closed connection.     *)
LEMMA TaskWriteRefines == ASSUME IInv, LostIsNowhere, NEW c \in Clients, TaskWrite(c) PROVE Refines
<1>t. dsin \in [Clients -> Seq(Parts)] /\ inbox \in [Locals -> Seq(Parts)]
  BY DEF IInv, TypeOK
<1>w. Busy(c)
  BY SMTT(60) DEF TaskWrite, Busy
<1>k. PICK k \in Locals : k = task[c].l /\ Whole(dsin[c])
  BY <1>w, SMTT(60) DEF IInv, InvTasks, TaskInv
<1>f. /\ inbox' = IF conn[k] \in {"est", "open"} THEN [inbox EXCEPT ![k] = @ \o dsin[c]] ELSE inbox
      /\ lost' = IF conn[k] = "closed" THEN lost \cup {c} ELSE lost
      /\ dsin' = [dsin EXCEPT ![c] = <<>>]
      /\ UNCHANGED <<dsprog, client, crx, server>>
  BY <1>k, SMTT(60) DEF TaskWrite, dsrun
<1>c. dsin'[c] = <<>> /\ \A d \in Clients \ {c} : dsin'[d] = dsin[d]
  BY <1>f, <1>t, SMTT(60)
<1>e. client[c].st # "closed" => client[c].st = "waiting" /\ crx[c] = <<>> /\ Phase(c) = "asked" /\ c \notin lost
  BY <1>k, InBuffer
<1>o. \A i \in 1..Len(dsin[c]) : dsin[c][i].c = c
  BY DEF IInv, InvBuffer, BufferInv
<1>a. ASSUME NEW d \in Clients \ {c}, NEW l \in Locals, At(d, l)' PROVE At(d, l)
  <2>1. CASE inbox'[l] = inbox[l]
    BY <2>1, <1>a, <1>f, SameAt
  <2>2. CASE inbox'[l] = inbox[l] \o dsin[c]
    <3>1. inbox[l] \in Seq(Parts) /\ dsin[c] \in Seq(Parts)
      BY <1>t
    <3>2. ASSUME Has(d, l)' PROVE Has(d, l)
      <4>1. PICK i \in 1..Len(inbox[l] \o dsin[c]) : (inbox[l] \o dsin[c])[i].c = d
        BY <3>2, <2>2, Zenon DEF Has
      <4>2. \/ i \in 1..Len(inbox[l]) /\ (inbox[l] \o dsin[c])[i] = inbox[l][i]
            \/ \E j \in 1..Len(dsin[c]) : (inbox[l] \o dsin[c])[i] = dsin[c][j]
        <5> DEFINE p == inbox[l]
                   q == dsin[c]
        <5>1. p \in Seq(Parts) /\ q \in Seq(Parts) /\ i \in 1..Len(p \o q)
          BY <3>1, Zenon
        <5> HIDE DEF p, q
        <5>2. (i \in 1..Len(p) /\ (p \o q)[i] = p[i]) \/ \E j \in 1..Len(q) : (p \o q)[i] = q[j]
          BY <5>1, ConcatFacts, SMTT(60)
        <5> QED BY <5>2 DEF p, q
      <4> QED BY <4>1, <4>2, <1>o, Zenon DEF Has
    <3>3. Serves(l, d)' <=> Serves(l, d)
      BY <1>f DEF Serves
    <3> QED BY <3>2, <3>3, <1>a DEF At
  <2> QED BY <2>1, <2>2, <1>f, <1>t, SMTT(60)
<1>1. LostIsNowhere'
  <2> SUFFICES ASSUME NEW d \in Clients, d \in lost', client[d].st = "waiting" PROVE Nowhere(d)'
    BY <1>f, SMTT(60) DEF LostIsNowhere
  <2>1. CASE d # c
    BY <2>1, <1>f, <1>c, <1>a, SMTT(60) DEF LostIsNowhere, Nowhere
  <2>2. CASE d = c
    <3>1. UNCHANGED inbox
      BY <2>2, <1>e, <1>f, Zenon
    <3>2. dsin[c] # <<>>
      BY <1>k DEF Whole
    <3>3. \A l \in Locals : ~At(c, l)
      BY <2>2, <3>2, WaitingPlace, Zenon DEF PlaceInv, PlaceAt
    <3>4. dsprog[c] = Idle
      BY <3>2, Zenon DEF IInv, InvProgs, ProgInv
    <3> QED BY <2>2, <3>1, <3>3, <3>4, <1>f, <1>c, SameAt DEF Nowhere
  <2> QED BY <2>1, <2>2, SMTT(60)
<1>s. \A d \in Clients : Served(d)' <=> Served(d)
  BY <1>f, Zenon DEF Served, ServedAt
<1>2. ASSUME NEW d \in Clients, d # c \/ client[c].st # "waiting" \/ conn[k] # "closed"
      PROVE  ExchangeOf(d)' = ExchangeOf(d)
  BY <1>2, <1>f, <1>s, SameExchange, Zenon
<1>3. CASE client[c].st # "waiting" \/ conn[k] # "closed"
  BY <1>1, <1>2, <1>3, NoneChanges DEF Refines
<1>4. CASE client[c].st = "waiting" /\ conn[k] = "closed"
  <2>1. ~Served(c)'
    BY <1>4, <1>e, <1>s DEF Phase
  <2>2. Phase(c)' = "lost"
    BY <1>4, <1>e, <1>f, <2>1 DEF Phase
  <2>3. ExchangeOf(c)' = R!Exchange("waiting", client[c].n, "lost", 0, 0)
    BY <1>4, <1>f, <2>2, Zenon DEF ExchangeOf, AnswerLen, AnswerGot, R!Exchange
  <2>x. Exchanges' = [Exchanges EXCEPT ![c] = R!Exchange("waiting", client[c].n, "lost", 0, 0)]
    BY <1>2, <2>3, OneChanges, Zenon
  <2>4. R!Lose(c)
    BY <2>x, <1>4, <1>e, View, Zenon DEF R!Lose
  <2> QED BY <1>1, <2>4 DEF Refines, R!Next
<1> QED BY <1>3, <1>4, SMTT(60)

(* The control plane's tasks.                                                *)
LEMMA TaskRefines == ASSUME IInv, LostIsNowhere, NEW c \in Clients, Task(c) PROVE Refines
<1>b. task[c].pc \in {"connect", "write"} => Whole(dsin[c])
  BY DEF IInv, InvTasks, TaskInv, Busy
<1>1. CASE TaskNoToken(c) \/ TaskBindFail(c) \/ TaskConnectFail(c) \/ TaskWriteFail(c)
  <2>1. /\ SendError(c) /\ Whole(dsin[c])
        /\ UNCHANGED <<dsprog, client, inbox, server, lost>>
    BY <1>1, <1>b, SMTT(60) DEF TaskNoToken, TaskBindFail, TaskConnectFail, TaskWriteFail, HasRequest, dsrun
  <2> QED BY <2>1, SendErrorRefines, SMTT(60)
<1>2. CASE (\E l \in Locals : TaskBind(c, l)) \/ TaskConnected(c) \/ TaskFib(c)
  <2>1. UNCHANGED <<dsprog, client, crx, dsin, inbox, server, lost>>
    BY <1>2, SMTT(60) DEF TaskBind, TaskConnected, TaskFib, dsrun
  <2> QED BY <2>1, SameAt, StaysLost, Unnoticed DEF Refines
<1>3. CASE TaskEnd(c)
  <2>1. /\ client[c].st = "closed" /\ dsin' = [dsin EXCEPT ![c] = <<>>]
        /\ UNCHANGED <<dsprog, client, crx, inbox, server, lost>>
    BY <1>3 DEF TaskEnd, dsrun
  <2>2. \A d \in Clients \ {c} : dsin'[d] = dsin[d]
    BY <2>1 DEF IInv, TypeOK
  <2> QED BY <2>1, <2>2, SameAt, StaysLost, Unnoticed DEF Refines
<1> QED BY <1>1, <1>2, <1>3, TaskWriteRefines, SMTT(60) DEF Task

(* Every step maps to a step of one exchange, or to none.                    *)
LEMMA NextRefines == IInv /\ LostIsNowhere /\ [Next]_vars => Refines
<1> SUFFICES ASSUME IInv, LostIsNowhere, [Next]_vars PROVE Refines
  OBVIOUS
<1>1. ASSUME NEW c \in Clients,
             Connect(c) \/ GiveUp(c) \/ Finish(c) \/ DsDrop(c) \/ DsQuery(c) \/ DsBody(c)
      PROVE  Refines
  BY <1>1, ConnectRefines, GiveUpRefines, FinishRefines, DsDropRefines, DsQueryRefines, DsBodyRefines
<1>2. ASSUME NEW c \in Clients, ProcessRequest(c) \/ Task(c) PROVE Refines
  BY <1>2, ProcessRequestRefines, TaskRefines
<1>3. ASSUME NEW l \in Locals, Established(l) \/ ServerRead(l) \/ UsBody(l) \/ ServerClose(l)
      PROVE  Refines
  BY <1>3, EstablishedRefines, ServerReadRefines, UsBodyRefines, ServerCloseRefines
<1>4. ASSUME NEW l \in Locals, ProcessAnswer(l) PROVE Refines
  BY <1>4, UsQueryRefines, UsPostRefines, UsRedirectRefines, UsUturnRefines DEF ProcessAnswer
<1>5. CASE UNCHANGED vars
  <2>1. UNCHANGED <<dsprog, client, crx, dsin, inbox, server, lost>>
    BY <1>5 DEF vars, dsrun, ends
  <2> QED BY <2>1, SameAt, StaysLost, Unnoticed DEF Refines
<1> QED BY <1>1, <1>2, <1>3, <1>4, <1>5 DEF Next

-----------------------------------------------------------------------------
(* utrn_wait_list has room for one more key of a socket than it holds, and a *)
(* queue of fib_upstream for a connection it lacks: f lists what it holds.   *)
TokensHaveRoom ==
  \A S \in SUBSET (DsKeys \cup UsKeys), k \in DsKeys \cup UsKeys : k \notin S => Cardinality(S) < UtrnCap
ConnsHaveRoom ==
  \A l \in Locals : \A n \in Nat : \A f \in [1..n -> Locals \ {l}] :
    (\A i, j \in 1..n : f[i] = f[j] => i = j) => n < QueueCap

(* What lacks one of b things, and what fits into one less than b, is less.  *)
LEMMA LessThanAll ==
  ASSUME NEW a \in Nat, NEW b \in Nat, NEW cap \in Nat, b <= cap, a + 1 <= b \/ a <= b - 1 PROVE a < cap
BY SMTT(60)

(* An update of an LRU hash map with room for a new key evicts nothing.      *)
LEMMA LruPutRoom ==
  ASSUME NEW m, NEW k, NEW v, NEW none, NEW cap,
         k \in {x \in DOMAIN m : m[x] # none} \/ Cardinality({x \in DOMAIN m : m[x] # none}) < cap,
         NEW r \in LruPut(m, k, v, none, cap)
  PROVE  r = [m EXCEPT ![k] = v]
BY DEF LruPut

(* So an update of utrn_wait_list changes one entry: the other entries are   *)
(* those of clients and of upstream connections.                             *)
LEMMA UtrnPutRoom ==
  ASSUME TokensHaveRoom, TypeOK, InvTokens, NEW k \in DsKeys \cup UsKeys, NEW v,
         utrn_wait_list' \in LruPut(utrn_wait_list, k, v, NoAddr, UtrnCap)
  PROVE  utrn_wait_list' = [utrn_wait_list EXCEPT ![k] = v]
<1> DEFINE used == {x \in DOMAIN utrn_wait_list : utrn_wait_list[x] # NoAddr}
<1>1. used \in SUBSET (DsKeys \cup UsKeys)
  BY DEF TypeOK, InvTokens
<1>2. k \in used \/ Cardinality(used) < UtrnCap
  <2> HIDE DEF used
  <2> QED BY <1>1 DEF TokensHaveRoom
<1> QED BY <1>2, LruPutRoom
-----------------------------------------------------------------------------
(* A step keeps InvTokensHeld if a task that has a part of a request after   *)
(* it either had one before and its token was left alone, or has its token.  *)
LEMMA TokensKept ==
  ASSUME InvTokensHeld,
         ASSUME NEW d \in Clients, task'[d].pc = "read", dsin'[d] # <<>>
         PROVE  \/ /\ task[d].pc = "read" /\ dsin[d] # <<>>
                   /\ utrn_wait_list'[DsKey(d)] = utrn_wait_list[DsKey(d)]
                \/ utrn_wait_list'[DsKey(d)] # NoAddr
  PROVE  InvTokensHeld'
<1> SUFFICES ASSUME NEW d \in Clients, task'[d].pc = "read", dsin'[d] # <<>>
             PROVE  utrn_wait_list'[DsKey(d)] # NoAddr
  BY DEF InvTokensHeld, TokenHeld, DsKey
<1>1. TokenHeld(d)
  BY DEF InvTokensHeld
<1> QED BY <1>1 DEF TokenHeld

(* InvTokensHeld depends on the tasks, their buffers and the tokens.         *)
LEMMA FrameTokensHeld ==
  ASSUME InvTokensHeld, UNCHANGED <<task, dsin, utrn_wait_list>>
  PROVE  InvTokensHeld'
BY DEF InvTokensHeld, TokenHeld, DsKey

(* The key under which a task finds its token is no other client's: the      *)
(* control plane sees a client under its own address or under one that no    *)
(* client has, and so for the gateway's.                                     *)
LEMMA TokenKeyOwn ==
  ASSUME NEW c \in Clients
  PROVE  /\ TokenKey(c) \in HostKeys
         /\ \A d \in Clients : d # c => TokenKey(c) # DsKey(d)
<1>1. /\ Seen[c] \in Hosts /\ Gw[c] \in Hosts
      /\ Seen[c] = c \/ Seen[c] \in NatAddrs
      /\ Gw[c] = c \/ Gw[c] \in NatAddrs
  BY NatAssumption
<1>2. \A d \in Clients : d \notin NatAddrs
  BY AddrAssumption
<1>3. TokenKey(c) = <<Seen[c], Proxy>> \/ TokenKey(c) = <<Gw[c], Proxy>>
  BY DEF TokenKey
<1> QED BY <1>1, <1>2, <1>3, SMTT(60) DEF HostKeys, DsKey

(* The keys of clients are keys of utrn_wait_list.                           *)
LEMMA DsKeyType == ASSUME NEW c \in Clients PROVE DsKey(c) \in DsKeys /\ DsKey(c) \in HostKeys
BY DEF DsKey, DsKeys, HostKeys, Hosts

(* A step of c's task that ends with an empty buffer or with a token taken   *)
(* touches no other client's token.                                          *)
LEMMA TaskTokens ==
  ASSUME TypeOK, InvTokensHeld, NEW c \in Clients,
         \A d \in Clients \ {c} : task'[d] = task[d] /\ dsin'[d] = dsin[d],
         dsin'[c] = <<>> \/ task'[c].pc # "read",
         \/ UNCHANGED utrn_wait_list
         \/ utrn_wait_list' = [utrn_wait_list EXCEPT ![TokenKey(c)] = NoAddr]
  PROVE  InvTokensHeld'
<1> SUFFICES ASSUME NEW d \in Clients, task'[d].pc = "read", dsin'[d] # <<>>
             PROVE  /\ task[d].pc = "read" /\ dsin[d] # <<>>
                    /\ utrn_wait_list'[DsKey(d)] = utrn_wait_list[DsKey(d)]
  BY TokensKept
<1>1. d # c
  OBVIOUS
<1>2. TokenKey(c) # DsKey(d)
  BY <1>1, TokenKeyOwn
<1>3. DsKey(d) \in DOMAIN utrn_wait_list
  BY DsKeyType DEF TypeOK
<1> QED BY <1>1, <1>2, <1>3

(* SendError leaves the task of c without a request and the others alone.    *)
LEMMA SendErrorTask ==
  ASSUME TypeOK, NEW c \in Clients, SendError(c)
  PROVE  /\ \A d \in Clients \ {c} : task'[d] = task[d] /\ dsin'[d] = dsin[d]
         /\ dsin'[c] = <<>> /\ task'[c] = Reading
BY DEF TypeOK, SendError

(* A U-turn leaves the token that the task will look for.                    *)
LEMMA UturnTokens ==
  ASSUME TokensHaveRoom, IInv, InvTokensHeld, NEW c \in Clients, DsUturn(c) PROVE InvTokensHeld'
<1> SUFFICES ASSUME NEW d \in Clients, task'[d].pc = "read", dsin'[d] # <<>>
             PROVE  \/ /\ task[d].pc = "read" /\ dsin[d] # <<>>
                       /\ utrn_wait_list'[DsKey(d)] = utrn_wait_list[DsKey(d)]
                    \/ utrn_wait_list'[DsKey(d)] # NoAddr
  BY TokensKept
<1>1. utrn_wait_list' = [utrn_wait_list EXCEPT ![DsKey(c)] = dsprog[c].dest]
  BY UtrnPutRoom, DsKeyType DEF DsUturn, IInv
<1>2. dsprog[c].dest \in Upstreams
  BY DEF IInv, InvProgs, ProgInv, DsUturn
<1>3. dsprog[c].dest # NoAddr
  BY <1>2, AddrAssumption
<1>4. DsKey(d) \in DOMAIN utrn_wait_list
  BY DsKeyType DEF IInv, TypeOK
<1>5. CASE d = c
  BY <1>1, <1>3, <1>4, <1>5
<1>6. CASE d # c
  <2>1. dsin'[d] = dsin[d] /\ task' = task
    BY <1>6 DEF DsUturn, IInv, TypeOK
  <2>2. DsKey(d) # DsKey(c)
    BY <1>6 DEF DsKey
  <2> QED BY <1>1, <1>4, <2>1, <2>2
<1> QED BY <1>5, <1>6

(* The token an answer leaves takes no request's token away.                 *)
LEMMA AnswerTokens ==
  ASSUME TokensHaveRoom, IInv, InvTokensHeld, NEW l \in Locals, UsUturn(l) PROVE InvTokensHeld'
<1>1. conn[l] = "open"
  BY SMTT(60) DEF IInv, InvServers, ServerInv, UsUturn, NoRequest
<1>2. UsKey(l) \in UsKeys
  BY <1>1 DEF IInv, InvSockets, ServerSocket, UsKey, UsKeys
<1>3. utrn_wait_list' = [utrn_wait_list EXCEPT ![UsKey(l)] = usprog[l].dest]
  BY <1>2, UtrnPutRoom DEF UsUturn, IInv
<1>4. \A d \in Clients : DsKey(d) # UsKey(l)
  BY <1>2, AddrAssumption, SMTT(60) DEF UsKeys, DsKey
<1>5. UNCHANGED <<task, dsin>>
  BY DEF UsUturn
<1>6. \A d \in Clients : utrn_wait_list'[DsKey(d)] = utrn_wait_list[DsKey(d)]
  BY <1>3, <1>4, DsKeyType DEF IInv, TypeOK
<1> QED BY <1>5, <1>6, TokensKept

(* Every step keeps the tokens of the requests the control plane has.        *)
LEMMA TokensStep ==
  ASSUME TokensHaveRoom, IInv, InvTokensHeld, [Next]_vars PROVE InvTokensHeld'
<1>t. TypeOK
  BY DEF IInv
<1>1. ASSUME NEW c \in Clients, Connect(c) PROVE InvTokensHeld'
  <2>1. dsin[c] = <<>>
    BY <1>1 DEF IInv, InvProgs, ClientInv, Connect
  <2> QED BY <1>1, <1>t, <2>1, TaskTokens DEF Connect, TypeOK
<1>2. ASSUME NEW c \in Clients, GiveUp(c) \/ Finish(c) \/ DsDrop(c) \/ DsQuery(c) \/ DsPost(c) \/ DsRedirect(c)
      PROVE  InvTokensHeld'
  BY <1>2, FrameTokensHeld DEF GiveUp, Finish, DsDrop, DsQuery, DsPost, DsRedirect, maps, ends
<1>3. ASSUME NEW c \in Clients, DsBody(c) PROVE InvTokensHeld'
  <2> SUFFICES ASSUME NEW d \in Clients, dsin'[d] # <<>> PROVE dsin[d] # <<>>
    BY <1>3, TokensKept DEF DsBody, maps
  <2>1. CASE d = c /\ dsverdict[c].to = Proxy
    BY <1>3, <2>1 DEF IInv, InvRest, RestInBuffer, DsBody
  <2>2. CASE ~(d = c /\ dsverdict[c].to = Proxy)
    BY <1>3, <1>t, <2>2 DEF DsBody, TypeOK
  <2> QED BY <2>1, <2>2
<1>4. ASSUME NEW c \in Clients, TaskNoToken(c) \/ TaskBindFail(c) \/ TaskConnectFail(c) \/ TaskWriteFail(c)
      PROVE  InvTokensHeld'
  <2>1. SendError(c)
    BY <1>4 DEF TaskNoToken, TaskBindFail, TaskConnectFail, TaskWriteFail
  <2>2. \/ UNCHANGED utrn_wait_list
        \/ utrn_wait_list' = [utrn_wait_list EXCEPT ![TokenKey(c)] = NoAddr]
    BY <1>4 DEF TaskNoToken, TaskBindFail, TaskConnectFail, TaskWriteFail, maps
  <2> QED BY <1>t, <2>1, <2>2, SendErrorTask, TaskTokens
<1>5. ASSUME NEW c \in Clients, NEW l \in Locals, TaskBind(c, l) PROVE InvTokensHeld'
  <2>1. task'[c].pc # "read" /\ \A d \in Clients \ {c} : task'[d] = task[d] /\ dsin'[d] = dsin[d]
    BY <1>5, <1>t DEF TaskBind, TypeOK
  <2>2. utrn_wait_list' = [utrn_wait_list EXCEPT ![TokenKey(c)] = NoAddr]
    BY <1>5 DEF TaskBind
  <2> QED BY <1>t, <2>1, <2>2, TaskTokens
<1>6. ASSUME NEW c \in Clients, TaskConnected(c) \/ TaskFib(c) \/ TaskWrite(c) \/ TaskEnd(c)
      PROVE  InvTokensHeld'
  <2>1. UNCHANGED utrn_wait_list
    BY <1>6 DEF TaskConnected, TaskFib, TaskWrite, TaskEnd, maps
  <2>2. dsin'[c] = <<>> \/ task'[c].pc # "read"
    BY <1>6, <1>t, SMTT(60) DEF TaskConnected, TaskFib, TaskWrite, TaskEnd, TypeOK, TaskState
  <2>3. \A d \in Clients \ {c} : task'[d] = task[d] /\ dsin'[d] = dsin[d]
    BY <1>6, <1>t DEF TaskConnected, TaskFib, TaskWrite, TaskEnd, TypeOK
  <2> QED BY <1>t, <2>1, <2>2, <2>3, TaskTokens
<1>7. ASSUME NEW l \in Locals,
             \/ Established(l) \/ ServerRead(l) \/ UsBody(l) \/ ServerClose(l)
             \/ UsQuery(l) \/ UsPost(l) \/ UsRedirect(l)
      PROVE  InvTokensHeld'
  BY <1>7, FrameTokensHeld
     DEF Established, ServerRead, UsBody, ServerClose, UsQuery, UsPost, UsRedirect, maps
<1>8. CASE UNCHANGED vars
  BY <1>8, FrameTokensHeld DEF vars, maps, ends
<1> QED BY <1>1, <1>2, <1>3, <1>4, <1>5, <1>6, <1>7, <1>8, UturnTokens, AnswerTokens
        DEF Next, ProcessRequest, ProcessAnswer, Task

(* The token of a request is found under one of the two keys the task tries. *)
LEMMA TokensFound == IInv /\ InvTokensHeld => UturnHasToken
<1> SUFFICES ASSUME IInv, InvTokensHeld, NEW c \in Clients, HasRequest(c) PROVE TokenDest(c) # NoAddr
  BY DEF UturnHasToken
<1>1. utrn_wait_list[DsKey(c)] # NoAddr
  BY DEF InvTokensHeld, TokenHeld, HasRequest, Whole
<1>2. Seen[c] = c \/ Gw[c] = c
  BY NatAssumption
<1> QED BY <1>1, <1>2, SMTT(60) DEF TokenDest, TokenKey, DsKey
-----------------------------------------------------------------------------
(* A connection that is not queued finds room: the queue holds other         *)
(* connections, each at most once.                                           *)
LEMMA QueueRoom ==
  ASSUME ConnsHaveRoom, TypeOK, NEW u \in Upstreams, QueueInv(u), NEW l \in Locals, ~Queued(l)
  PROVE  Len(fib_upstream[u]) < QueueCap
<1> DEFINE q == fib_upstream[u]
           f == [i \in 1..Len(q) |-> q[i][2]]
<1>1. Len(q) \in Nat
  BY SMTT(60) DEF TypeOK
<1>2. \A i \in 1..Len(q) : q[i] = <<u, q[i][2]>> /\ q[i][2] \in Locals \ {l}
  BY SMTT(60) DEF QueueInv, Queued
<1>3. \A i, j \in 1..Len(q) : q[i] = q[j] => i = j
  BY DEF QueueInv
<1>4. f \in [1..Len(q) -> Locals \ {l}]
  BY <1>2
<1>5. \A i, j \in 1..Len(q) : f[i] = f[j] => i = j
  BY <1>2, <1>3
<1> HIDE DEF f
<1> QED BY <1>1, <1>4, <1>5 DEF ConnsHaveRoom

(* A step keeps InvConnsKept if whatever kept a connection still does, or    *)
(* something else does, or the connection is given up.                       *)
LEMMA ConnsKept ==
  ASSUME InvConnsKept,
         ASSUME NEW l \in Locals, conn'[l] \in {"est", "open"}
         PROVE  \/ conn[l] \in {"est", "open"} /\ (Kept(l) => Kept(l)')
                \/ Kept(l)'
  PROVE  InvConnsKept'
BY DEF InvConnsKept

(* Kept depends on the queues, the programs, the tasks and the servers.      *)
LEMMA FrameKept ==
  ASSUME NEW l \in Locals, peer'[l] = peer[l], inbox'[l] = inbox[l],
         UNCHANGED <<fib_upstream, dsprog, task>>, Unanswered(l) => Unanswered(l)', Kept(l)
  PROVE  Kept(l)'
BY DEF Kept, Queued, Holds, Opens, Busy, UsKey

(* A step that leaves all of these alone keeps InvConnsKept.                 *)
LEMMA FrameConnsKept ==
  ASSUME InvConnsKept, UNCHANGED <<conn, peer, inbox, fib_upstream, dsprog, task, server, usprog>>
  PROVE  InvConnsKept'
<1>1. \A l \in Locals : Unanswered(l)' <=> Unanswered(l)
  BY DEF Unanswered
<1> QED BY <1>1, FrameKept DEF InvConnsKept

(* process_msg takes a connection from a queue, and then it is in its hands. *)
LEMMA QueryKeeps ==
  ASSUME IInv, InvConnsKept, NEW c \in Clients, DsQuery(c) PROVE InvConnsKept'
<1>1. PICK u \in Upstreams, len \in 0..MaxBody :
        /\ dsprog' = [dsprog EXCEPT ![c] =
              [pc |-> "post", dest |-> u, len |-> len,
               ekey |-> IF fib_upstream[u] = <<>> THEN NullKey ELSE Head(fib_upstream[u])]]
        /\ fib_upstream' = [fib_upstream EXCEPT ![u] =
              IF fib_upstream[u] = <<>> THEN fib_upstream[u] ELSE Tail(fib_upstream[u])]
  BY DEF DsQuery
<1>2. dsprog[c].pc = "idle"
  BY DEF IInv, InvProgs, ProgInv, DsQuery, CanSend
<1>3. UNCHANGED <<conn, peer, inbox, server, usprog, task>>
  BY DEF DsQuery, usrun
<1>4. TypeOK /\ QueueInv(u)
  BY DEF IInv, InvQueues
<1> SUFFICES ASSUME NEW l \in Locals, Kept(l) PROVE Kept(l)'
  BY <1>3, ConnsKept
<1>5. CASE Queued(l)
  <2>0. PICK v \in Upstreams : \E i \in 1..Len(fib_upstream[v]) : fib_upstream[v][i][2] = l
    BY <1>5 DEF Queued
  <2>1. PICK i \in 1..Len(fib_upstream[v]) : fib_upstream[v][i][2] = l
    BY <2>0
  <2>2. CASE v # u
    <3>1. fib_upstream'[v] = fib_upstream[v]
      BY <1>1, <1>4, <2>2 DEF TypeOK
    <3> QED BY <2>1, <3>1 DEF Kept, Queued
  <2>3. CASE v = u
    <3>1. /\ fib_upstream[u] \in Seq(UsKeys) /\ fib_upstream[u] # <<>>
          /\ fib_upstream'[u] = Tail(fib_upstream[u])
      BY <1>1, <1>4, <2>1, <2>3, SMTT(60) DEF TypeOK
    <3>2. CASE i = 1
      <4>1. Head(fib_upstream[u]) = UsKey(l)
        BY <1>4, <2>1, <2>3, <3>1, <3>2, TailFacts, SMTT(60) DEF QueueInv, UsKey
      <4>2. dsprog'[c].pc = "post" /\ dsprog'[c].ekey = UsKey(l)
        BY <1>1, <1>4, <3>1, <4>1 DEF TypeOK
      <4>3. UsKey(l)' = UsKey(l)
        BY <1>3 DEF UsKey
      <4>4. Holds(c, l)'
        BY <4>2, <4>3 DEF Holds
      <4> QED BY <4>4 DEF Kept
    <3>3. CASE i # 1
      <4>1. i - 1 \in 1..Len(Tail(fib_upstream[u])) /\ Tail(fib_upstream[u])[i - 1] = fib_upstream[u][i]
        BY <2>1, <2>3, <3>1, <3>3, TailFacts, SMTT(60)
      <4>2. Queued(l)'
        BY <2>1, <2>3, <3>1, <4>1 DEF Queued
      <4> QED BY <4>2 DEF Kept
    <3> QED BY <3>2, <3>3
  <2> QED BY <2>2, <2>3
<1>6. CASE \E d \in Clients : Holds(d, l) \/ Opens(d, l)
  <2>1. PICK d \in Clients : Holds(d, l) \/ Opens(d, l)
    BY <1>6
  <2>2. Holds(d, l) => d # c
    BY <1>2 DEF Holds
  <2>3. d # c => dsprog'[d] = dsprog[d]
    BY <1>1, <1>4 DEF TypeOK
  <2>4. Holds(d, l)' \/ Opens(d, l)'
    BY <1>3, <2>1, <2>2, <2>3 DEF Holds, Opens, Busy, UsKey
  <2> QED BY <2>4 DEF Kept
<1>7. CASE inbox[l] # <<>> \/ Unanswered(l)
  BY <1>3, <1>7 DEF Kept, Unanswered
<1> QED BY <1>5, <1>6, <1>7 DEF Kept

(* process_msg moves the request into the server's socket; a connection it   *)
(* cannot move it to has been closed.                                        *)
LEMMA RedirectKeeps ==
  ASSUME IInv, InvConnsKept, NEW c \in Clients, DsRedirect(c) PROVE InvConnsKept'
<1>1. UNCHANGED <<conn, peer, fib_upstream, server, usprog, task>>
  BY DEF DsRedirect, maps, usrun
<1>2. TypeOK /\ \A d \in Clients \ {c} : dsprog'[d] = dsprog[d]
  BY DEF DsRedirect, IInv, TypeOK
<1> SUFFICES ASSUME NEW l \in Locals, conn[l] \in {"est", "open"}, Kept(l) PROVE Kept(l)'
  BY <1>1, ConnsKept
<1>3. inbox'[l] # inbox[l] => inbox'[l] # <<>>
  <2> DEFINE k == dsprog[c].ekey[2]
             m == DsHead(c)
  <2>1. inbox' = inbox \/ inbox' = [inbox EXCEPT ![k] = Append(@, m)]
    BY DEF DsRedirect
  <2> HIDE DEF k, m
  <2>2. inbox[l] \in Seq(Parts) /\ inbox \in [Locals -> Seq(Parts)]
    BY <1>2 DEF TypeOK
  <2>3. Append(inbox[l], m) # <<>>
    BY <2>2, SMTT(60)
  <2> QED BY <2>1, <2>2, <2>3
<1>4. CASE Holds(c, l)
  <2>1. dsprog[c].ekey = UsKey(l) /\ dsprog[c].pc = "redirect" /\ UsKey(l)[2] = l
    BY <1>4 DEF Holds, DsRedirect, UsKey
  <2>2. conn[l] = "open"
    <3>1. dsprog[c].ekey # NullKey
      BY <2>1, AddrAssumption, SMTT(60) DEF UsKey, NullKey
    <3>2. PICK k \in Locals : Holds(c, k) /\ conn[k] \in {"open", "closed"}
      BY <3>1, <1>4 DEF IInv, InvProgs, ProgInv, Holds
    <3>3. k = l
      BY <1>4, <3>2, SMTT(60) DEF Holds, UsKey
    <3> QED BY <3>2, <3>3
  <2>3. Redirectable(UsKey(l))
    BY <2>2 DEF IInv, InvSockets, ServerSocket, Redirectable, UsKey
  <2>4. inbox' = [inbox EXCEPT ![l] = Append(@, DsHead(c))]
    BY <2>1, <2>3 DEF DsRedirect
  <2>5. inbox'[l] # <<>>
    BY <1>2, <2>4, SMTT(60) DEF TypeOK
  <2> QED BY <2>5 DEF Kept
<1>5. CASE ~Holds(c, l)
  <2>1. \A d \in Clients : Holds(d, l) => Holds(d, l)'
    BY <1>1, <1>2, <1>5 DEF Holds, UsKey
  <2>2. Queued(l)' <=> Queued(l)
    BY <1>1 DEF Queued
  <2>3. Unanswered(l)' <=> Unanswered(l)
    BY <1>1 DEF Unanswered
  <2>4. \A d \in Clients : Opens(d, l) => Opens(d, l)'
    BY <1>1 DEF Opens, Busy
  <2> QED BY <1>3, <2>1, <2>2, <2>3, <2>4 DEF Kept
<1> QED BY <1>4, <1>5

(* The other steps of process_msg for a request leave every connection where *)
(* it is; the rest of a request only adds to a socket.                       *)
LEMMA RequestKeeps ==
  ASSUME IInv, InvConnsKept, NEW c \in Clients, DsPost(c) \/ DsUturn(c) \/ DsBody(c)
  PROVE  InvConnsKept'
<1>1. UNCHANGED <<conn, peer, fib_upstream, server, usprog, task>>
  BY DEF DsPost, DsUturn, DsBody, maps, usrun, ends
<1>2. TypeOK
  BY DEF IInv
<1>3. ASSUME NEW l \in Locals, NEW d \in Clients, Holds(d, l) PROVE Holds(d, l)'
  <2>1. dsprog[d].ekey # NullKey
    BY <1>3, AddrAssumption, SMTT(60) DEF Holds, UsKey, NullKey
  <2>2. dsprog'[d] = dsprog[d] \/ (dsprog'[d].pc = "redirect" /\ dsprog'[d].ekey = dsprog[d].ekey)
    <3>1. dsprog \in [Clients -> DsProg]
      BY <1>2 DEF TypeOK
    <3>2. CASE DsPost(c)
      BY <2>1, <3>1, <3>2, SMTT(60) DEF DsPost, DsProg
    <3>3. CASE DsUturn(c)
      BY <1>3, <3>1, <3>3 DEF DsUturn, Holds
    <3>4. CASE DsBody(c)
      BY <3>4 DEF DsBody
    <3> QED BY <3>2, <3>3, <3>4
  <2> QED BY <1>1, <1>3, <2>2 DEF Holds, UsKey
<1>4. ASSUME NEW l \in Locals, inbox[l] # <<>> PROVE inbox'[l] # <<>>
  <2>1. inbox[l] \in Seq(Parts) /\ inbox \in [Locals -> Seq(Parts)]
    BY <1>2 DEF TypeOK
  <2>2. CASE DsPost(c) \/ DsUturn(c)
    BY <1>4, <2>2 DEF DsPost, DsUturn, ends
  <2>3. CASE DsBody(c)
    <3> DEFINE to == dsverdict[c].to
               part == Part(c, client[c].n, client[c].len - dsverdict[c].left + 1, client[c].len, TRUE)
    <3>1. inbox' = inbox \/ inbox' = [inbox EXCEPT ![to] = Append(@, part)]
      BY <2>3 DEF DsBody
    <3> HIDE DEF to, part
    <3>2. Append(inbox[l], part) # <<>>
      BY <2>1, SMTT(60)
    <3> QED BY <1>4, <2>1, <3>1, <3>2
  <2> QED BY <2>2, <2>3
<1>5. \A l \in Locals : Kept(l) => Kept(l)'
  BY <1>1, <1>3, <1>4 DEF Kept, Queued, Opens, Busy, Unanswered
<1> QED BY <1>1, <1>5, ConnsKept

(* A step of the control plane of c: whoever else has a connection keeps it. *)
LEMMA TaskKeeps ==
  ASSUME IInv, InvConnsKept, NEW c \in Clients, Task(c) PROVE InvConnsKept'
<1>1. TypeOK /\ TaskInv(c)
  BY DEF IInv, InvTasks
<1>2. UNCHANGED <<fib_upstream, dsprog, server, usprog>>
  BY DEF Task, TaskNoToken, TaskBindFail, TaskBind, TaskConnected, TaskConnectFail, TaskFib,
         TaskWrite, TaskWriteFail, TaskEnd, maps, dsrun, usrun
<1>3. \A d \in Clients \ {c} : task'[d] = task[d]
  BY <1>1 DEF Task, TaskNoToken, TaskBindFail, TaskBind, TaskConnected, TaskConnectFail, TaskFib,
         TaskWrite, TaskWriteFail, TaskEnd, SendError, TypeOK
<1>4. ASSUME NEW l \in Locals, peer'[l] = peer[l], inbox'[l] = inbox[l], Kept(l),
             ~Opens(c, l) \/ Opens(c, l)'
      PROVE  Kept(l)'
  <2>1. \A d \in Clients : Opens(d, l) => Opens(d, l)'
    BY <1>3, <1>4 DEF Opens, Busy
  <2>2. \A d \in Clients : Holds(d, l) => Holds(d, l)'
    BY <1>2, <1>4 DEF Holds, UsKey
  <2> QED BY <1>2, <1>4, <2>1, <2>2 DEF Kept, Queued, Unanswered
<1>5. ASSUME TaskNoToken(c) \/ TaskBindFail(c) \/ TaskEnd(c) PROVE InvConnsKept'
  <2>1. UNCHANGED <<conn, peer, inbox>> /\ ~Busy(c)
    BY <1>5 DEF TaskNoToken, TaskBindFail, TaskEnd, HasRequest, Busy
  <2> QED BY <1>4, <2>1, ConnsKept DEF Opens
<1>6. ASSUME NEW k \in Locals, TaskBind(c, k) PROVE InvConnsKept'
  <2>1. ~Busy(c) /\ UNCHANGED inbox
    BY <1>6 DEF TaskBind, HasRequest, Busy
  <2>2. conn'[k] = "bound" /\ \A l \in Locals \ {k} : conn'[l] = conn[l] /\ peer'[l] = peer[l]
    BY <1>1, <1>6 DEF TaskBind, TypeOK
  <2> QED BY <1>4, <2>1, <2>2, ConnsKept DEF Opens
<1>7. ASSUME TaskConnected(c) \/ TaskFib(c) PROVE InvConnsKept'
  <2>1. UNCHANGED <<peer, inbox>>
    BY <1>7 DEF TaskConnected, TaskFib
  <2>2. task'[c].l = task[c].l /\ Busy(c)'
    BY <1>1, <1>7, SMTT(60) DEF TaskConnected, TaskFib, TypeOK, TaskState, Busy
  <2>3. \A l \in Locals : conn'[l] = conn[l] \/ l = task[c].l
    BY <1>1, <1>7 DEF TaskConnected, TaskFib, TypeOK
  <2>4. \A l \in Locals : (Opens(c, l) => Opens(c, l)') /\ (l = task[c].l => Kept(l)')
    BY <2>2 DEF Opens, Kept
  <2> QED BY <1>4, <2>1, <2>3, <2>4, ConnsKept
<1>8. ASSUME TaskConnectFail(c) \/ TaskWriteFail(c) PROVE InvConnsKept'
  <2>1. UNCHANGED <<peer, inbox>>
    BY <1>8 DEF TaskConnectFail, TaskWriteFail
  <2>2. task[c].l \in Locals /\ conn'[task[c].l] \in {"free", "closed"}
    BY <1>1, <1>8 DEF TaskConnectFail, TaskWriteFail, TaskInv, Busy, TypeOK
  <2>3. \A l \in Locals \ {task[c].l} : conn'[l] = conn[l] /\ ~Opens(c, l)
    BY <1>1, <1>8 DEF TaskConnectFail, TaskWriteFail, TypeOK, Opens
  <2> QED BY <1>4, <2>1, <2>2, <2>3, ConnsKept
<1>9. ASSUME TaskWrite(c) PROVE InvConnsKept'
  <2>0. PICK k \in Locals : k = task[c].l
    BY <1>1, <1>9 DEF TaskWrite, TaskInv, Busy
  <2>1. UNCHANGED <<conn, peer>> /\ dsin[c] # <<>>
    BY <1>1, <1>9 DEF TaskWrite, TaskInv, Busy, Whole
  <2>2. \A l \in Locals \ {k} : inbox'[l] = inbox[l] /\ ~Opens(c, l)
    BY <1>1, <1>9, <2>0 DEF TaskWrite, TypeOK, Opens
  <2>3. conn[k] \in {"est", "open"} => inbox'[k] # <<>>
    <3>1. dsin[c] \in Seq(Parts) /\ inbox[k] \in Seq(Parts)
      BY <1>1 DEF TypeOK
    <3>2. inbox[k] \o dsin[c] # <<>>
      BY <2>1, <3>1, SMTT(60)
    <3> QED BY <1>1, <1>9, <2>0, <3>2 DEF TaskWrite, TypeOK
  <2>4. conn[k] \in {"est", "open"} => Kept(k)'
    BY <2>3 DEF Kept
  <2> QED BY <1>4, <2>1, <2>2, <2>4, ConnsKept
<1> QED BY <1>5, <1>6, <1>7, <1>8, <1>9 DEF Task

(* An answer puts the connection back into the queue of its instance, which  *)
(* has room for it.                                                          *)
LEMMA PostKeeps ==
  ASSUME ConnsHaveRoom, IInv, InvConnsKept, NEW k \in Locals, UsPost(k) PROVE InvConnsKept'
<1>1. TypeOK
  BY DEF IInv
<1>2. UNCHANGED <<conn, peer, inbox, dsprog, task>>
  BY DEF UsPost, dsrun
<1>3. server[k].st = "answer" /\ Unanswered(k)
  BY DEF IInv, InvServers, ServerInv, UsPost, Unanswered
<1>4. ~Queued(k)
  BY <1>3 DEF IInv, InvLeases, LeaseInv
<1>5. PICK u \in Upstreams : u = peer[k]
  BY <1>3, SMTT(60) DEF IInv, InvServers, ServerInv, NoRequest, InvSockets, ServerSocket
<1>6. Len(fib_upstream[u]) < QueueCap
  BY <1>1, <1>4, QueueRoom DEF IInv, InvQueues
<1>7. fib_upstream[u] \in Seq(UsKeys) /\ UsKey(k) = <<u, k>> /\ UsKey(k) \in UsKeys
  BY <1>1, <1>5 DEF TypeOK, UsKey, UsKeys
<1>8. fib_upstream' = [fib_upstream EXCEPT ![u] = Append(fib_upstream[u], UsKey(k))]
  BY <1>5, <1>6 DEF UsPost, PushExist
<1>9. /\ fib_upstream'[u] = Append(fib_upstream[u], UsKey(k))
      /\ \A v \in Upstreams \ {u} : fib_upstream'[v] = fib_upstream[v]
  BY <1>1, <1>8 DEF TypeOK
<1>a. /\ Len(fib_upstream'[u]) = Len(fib_upstream[u]) + 1
      /\ fib_upstream'[u][Len(fib_upstream[u]) + 1] = UsKey(k)
      /\ \A i \in 1..Len(fib_upstream[u]) : fib_upstream'[u][i] = fib_upstream[u][i]
  <2> DEFINE q == fib_upstream[u]
             x == UsKey(k)
  <2>1. /\ Len(Append(q, x)) = Len(q) + 1
        /\ Append(q, x)[Len(q) + 1] = x
        /\ \A i \in 1..Len(q) : Append(q, x)[i] = q[i]
    <3>1. q \in Seq(UsKeys) /\ x \in UsKeys
      BY <1>7
    <3> HIDE DEF q, x
    <3> QED BY <3>1, AppendFacts, SMTT(60)
  <2> QED BY <1>9, <2>1
<1>b. Len(fib_upstream[u]) \in Nat
  BY <1>7, SMTT(60)
<1>10. Queued(k)'
  <2>1. /\ Len(fib_upstream'[u]) \in 1..Len(fib_upstream'[u])
        /\ fib_upstream'[u][Len(fib_upstream'[u])] = <<u, k>>
    BY <1>7, <1>a, <1>b, SMTT(60)
  <2>2. fib_upstream'[u][Len(fib_upstream'[u])][2] = k
    BY <2>1, SMTT(60)
  <2> QED BY <2>1, <2>2 DEF Queued
<1>11. ASSUME NEW l \in Locals, Queued(l) PROVE Queued(l)'
  <2>1. PICK v \in Upstreams : \E i \in 1..Len(fib_upstream[v]) : fib_upstream[v][i][2] = l
    BY <1>11 DEF Queued
  <2>2. PICK i \in 1..Len(fib_upstream[v]) : fib_upstream[v][i][2] = l
    BY <2>1
  <2>3. i \in 1..Len(fib_upstream'[v]) /\ fib_upstream'[v][i] = fib_upstream[v][i]
    <3>1. CASE v = u
      BY <3>1, <1>a, <1>b, <2>2, SMTT(60)
    <3>2. CASE v # u
      BY <3>2, <1>9, <2>2
    <3> QED BY <3>1, <3>2
  <2> QED BY <2>2, <2>3 DEF Queued
<1>12. ASSUME NEW l \in Locals, l # k, Unanswered(l) PROVE Unanswered(l)'
  <2>1. server'[l] = server[l] /\ usprog'[l] = usprog[l]
    BY <1>1, <1>12 DEF UsPost, TypeOK
  <2> QED BY <1>12, <2>1 DEF Unanswered
<1>13. ASSUME NEW l \in Locals, Kept(l) PROVE Kept(l)'
  <2>1. \A d \in Clients : (Holds(d, l) => Holds(d, l)') /\ (Opens(d, l) => Opens(d, l)')
    BY <1>2 DEF Holds, Opens, Busy, UsKey
  <2> QED BY <1>2, <1>10, <1>11, <1>12, <1>13, <2>1 DEF Kept
<1> QED BY <1>2, <1>13, ConnsKept

(* The other steps of a server and of its program: a request that is read    *)
(* has still to be answered, one that is being answered gave the connection  *)
(* back before, and a connection that is closed is nobody's any more.        *)
LEMMA ServerKeeps ==
  ASSUME IInv, InvConnsKept, NEW k \in Locals,
         \/ Established(k) \/ ServerRead(k) \/ UsBody(k) \/ ServerClose(k)
         \/ UsQuery(k) \/ UsRedirect(k) \/ UsUturn(k)
  PROVE  InvConnsKept'
<1>1. TypeOK /\ ServerInv(k)
  BY DEF IInv, InvServers
<1>2. UNCHANGED <<peer, dsprog, task, fib_upstream>>
  BY DEF Established, ServerRead, UsBody, ServerClose, UsQuery, UsRedirect, UsUturn, maps, dsrun
<1>3. ASSUME NEW l \in Locals, l # k
      PROVE  /\ conn'[l] = conn[l] /\ inbox'[l] = inbox[l]
             /\ server'[l] = server[l] /\ usprog'[l] = usprog[l]
  BY <1>1, <1>3 DEF Established, ServerRead, UsBody, ServerClose, UsQuery, UsRedirect, UsUturn, Answering,
                    TypeOK, usrun
<1>4. ASSUME NEW l \in Locals, l # k, Kept(l) PROVE Kept(l)'
  <2>1. Unanswered(l) => Unanswered(l)'
    BY <1>3, <1>4 DEF Unanswered
  <2> QED BY <1>2, <1>3, <1>4, <2>1, FrameKept
<1>5. CASE Established(k)
  <2>1. UNCHANGED <<inbox, server, usprog>> /\ conn[k] = "est"
    BY <1>5 DEF Established, usrun
  <2>2. Kept(k) => Kept(k)'
    BY <1>2, <2>1, FrameKept DEF Unanswered
  <2> QED BY <1>3, <1>4, <2>1, <2>2, ConnsKept
<1>6. CASE ServerClose(k)
  <2>1. conn'[k] = "closed"
    BY <1>1, <1>6 DEF ServerClose, TypeOK
  <2> QED BY <1>3, <1>4, <2>1, ConnsKept
<1>7. CASE ServerRead(k) \/ UsQuery(k)
  <2>1. UNCHANGED conn
    BY <1>7 DEF ServerRead, UsQuery
  <2>2. Unanswered(k)'
    <3>1. CASE ServerRead(k)
      <4>1. server'[k].st \in {"reading", "ready"}
        BY <1>1, <3>1, SMTT(60) DEF ServerRead, TypeOK, Server
      <4> QED BY <4>1 DEF Unanswered
    <3>2. CASE UsQuery(k)
      <4>1. server'[k].st = "answer" /\ usprog'[k].pc = "post"
        BY <1>1, <3>2, SMTT(60) DEF UsQuery, TypeOK, Server
      <4> QED BY <4>1 DEF Unanswered
    <3> QED BY <1>7, <3>1, <3>2
  <2> QED BY <1>4, <2>1, <2>2, ConnsKept DEF Kept
<1>8. CASE UsBody(k) \/ UsRedirect(k) \/ UsUturn(k)
  <2>1. UNCHANGED <<conn, inbox>>
    BY <1>8 DEF UsBody, UsRedirect, UsUturn
  <2>2. ~Unanswered(k)
    BY <1>1, <1>8 DEF ServerInv, UsBody, UsRedirect, UsUturn, Unanswered
  <2>3. Kept(k) => Kept(k)'
    BY <1>2, <2>1, <2>2, FrameKept
  <2> QED BY <1>4, <2>1, <2>3, ConnsKept
<1> QED BY <1>5, <1>6, <1>7, <1>8

(* Every step keeps the upstream connections that both ends still have.      *)
LEMMA ConnsStep ==
  ASSUME ConnsHaveRoom, IInv, InvConnsKept, [Next]_vars PROVE InvConnsKept'
<1>1. ASSUME NEW c \in Clients, Connect(c) PROVE InvConnsKept'
  <2>1. ~Busy(c) /\ \A d \in Clients \ {c} : task'[d] = task[d]
    BY <1>1 DEF IInv, TypeOK, InvProgs, ClientInv, Connect
  <2>2. UNCHANGED <<conn, peer, inbox, fib_upstream, dsprog, server, usprog>>
    BY <1>1 DEF Connect, dsrun, usrun
  <2>3. ASSUME NEW l \in Locals, NEW d \in Clients
        PROVE  (Opens(d, l) => Opens(d, l)') /\ (Holds(d, l) => Holds(d, l)')
    BY <2>1, <2>2 DEF Opens, Busy, Holds, UsKey
  <2>4. \A l \in Locals : Kept(l) => Kept(l)'
    BY <2>2, <2>3 DEF Kept, Queued, Unanswered
  <2> QED BY <2>2, <2>4, ConnsKept
<1>2. ASSUME NEW c \in Clients, GiveUp(c) \/ Finish(c) \/ DsDrop(c) PROVE InvConnsKept'
  BY <1>2, FrameConnsKept DEF GiveUp, Finish, DsDrop, maps, dsrun, usrun
<1>3. CASE UNCHANGED vars
  BY <1>3, FrameConnsKept DEF vars, maps, dsrun, usrun, ends
<1> QED BY <1>1, <1>2, <1>3, QueryKeeps, RedirectKeeps, RequestKeeps, TaskKeeps, PostKeeps, ServerKeeps
        DEF Next, ProcessRequest, ProcessAnswer

(* A connection that is kept is in a queue or leased to some client.         *)
LEMMA ConnsFound == IInv /\ InvConnsKept => ConnNotLeaked
<1> SUFFICES ASSUME IInv, InvConnsKept, NEW l \in Locals, conn[l] = "open", ~Queued(l)
             PROVE  \E c \in Clients : c \in Leased(l)
  BY DEF ConnNotLeaked
<1>1. Kept(l) /\ TypeOK
  BY DEF InvConnsKept, IInv
<1>2. CASE \E c \in Clients : Holds(c, l) \/ Opens(c, l)
  BY <1>2 DEF Holds, Opens, Busy, Leased
<1>3. CASE inbox[l] # <<>>
  <2>1. 1 \in 1..Len(inbox[l]) /\ inbox[l][1] \in Parts
    BY <1>1, <1>3, TailFacts, SMTT(60) DEF TypeOK
  <2> QED BY <2>1 DEF Parts, Leased
<1>4. CASE Unanswered(l)
  <2>1. server[l].c \in Clients
    BY <1>4 DEF IInv, InvServers, ServerInv, Unanswered
  <2> QED BY <1>4, <2>1 DEF Unanswered, Leased
<1> QED BY <1>1, <1>2, <1>3, <1>4 DEF Kept

(* At the start there is no request and no upstream connection.              *)
LEMMA InitRoom == Init => InvTokensHeld /\ InvConnsKept
BY DEF Init, InvTokensHeld, TokenHeld, Reading, InvConnsKept
=============================================================================

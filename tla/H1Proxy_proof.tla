--------------------------- MODULE H1Proxy_proof ----------------------------
(***************************************************************************)
(* IInv is an inductive invariant of H1Proxy, so the safety properties of  *)
(* H1Proxy hold for every value of its constants.                          *)
(***************************************************************************)
EXTENDS H1ProxyServer_proof, H1Refine_proof, FiniteSetTheorems

(* Most steps are first-order: Zenon, unless a step asks for the SMT solver.  *)
USE ZenonT(20)

(* Every step of the system preserves the inductive invariant. *)
LEMMA NextInv == IInv /\ [Next]_vars => IInv'
<1> SUFFICES ASSUME IInv, [Next]_vars PROVE IInv'
  OBVIOUS
<1>1. ASSUME NEW c \in Clients,
             Connect(c) \/ GiveUp(c) \/ Finish(c) \/ DsDrop(c) \/ DsQuery(c) \/ DsBody(c)
      PROVE  IInv'
  BY <1>1, ConnectInv, GiveUpInv, FinishInv, DsDropInv, DsQueryInv, DsBodyInv
<1>2. ASSUME NEW c \in Clients, ProcessRequest(c) PROVE IInv'
  BY <1>2, DsPostInv, DsRedirectOkInv, DsRedirectFailInv, DsUturnInv DEF ProcessRequest
<1>3. ASSUME NEW c \in Clients, Task(c) PROVE IInv'
  BY <1>3, TaskNoTokenInv, TaskBindFailInv, TaskBindInv, TaskConnectedInv, TaskConnectFailInv,
     TaskFibInv, TaskWriteInv, TaskWriteFailInv, TaskEndInv DEF Task
<1>4. ASSUME NEW l \in Locals, Established(l) \/ ServerRead(l) \/ UsBody(l) \/ ServerClose(l)
      PROVE  IInv'
  BY <1>4, EstablishedInv, ServerReadInv, UsBodyInv, ServerCloseInv
<1>5. ASSUME NEW l \in Locals, ProcessAnswer(l) PROVE IInv'
  BY <1>5, UsQueryInv, UsPostInv, UsRedirectOkInv, UsRedirectFailInv, UsUturnInv DEF ProcessAnswer
<1>6. ASSUME UNCHANGED vars PROVE IInv'
  <2>1. UNCHANGED <<msg_sock_map, sock_map_wait_list, fib_upstream, fib_downstream, utrn_wait_list,
                    dsprog, dsverdict, usprog, usverdict, client, crx, dsin, task, conn, peer, inbox,
                    server, lost>>
    BY <1>6 DEF vars, maps, dsrun, usrun, ends
  <2>2. TypeOK'
    BY <2>1 DEF IInv, TypeOK
  <2> QED BY <2>1, <2>2, FrameSockets, FrameTasks, FrameServers, FrameProgs, FrameQueues, FrameLeases,
             FrameInbox, FrameRest, FrameBuffer, FrameRoutes, FramePlaces, FrameVerdicts, FrameTokens
          DEF IInv
<1> QED BY <1>1, <1>2, <1>3, <1>4, <1>5, <1>6 DEF Next

(* IInv holds in every reachable state, whatever the number of clients,      *)
(* instances and connections, the capacities of the maps and the sizes of    *)
(* the messages.                                                             *)
THEOREM Inductive == Spec => []IInv
BY InitInv, NextInv, PTL DEF Spec

(* The state of the maps, programs, tasks and sockets is well typed.         *)
THEOREM TypeCorrect == Spec => []TypeOK
<1>1. IInv => TypeOK
  BY DEF IInv
<1> QED BY <1>1, Inductive, PTL

(* What process_msg and the control plane deliver to a client is the answer  *)
(* to the request it waits for, in order, also when maps evict entries and   *)
(* peers close connections at any time.                                      *)
THEOREM AnswersReachTheirClients == Spec => []NoCrossDelivery
BY Inductive, InvNoCrossDelivery, PTL

(* _fib_query and post_forward_us_conn together give an upstream connection  *)
(* to one unanswered request at a time.                                      *)
THEOREM ConnectionsAreExclusive == Spec => []ExclusiveConn
BY Inductive, InvExclusiveConn, PTL

(* The bytes of two requests never mix in the socket of a server.            *)
THEOREM RequestsAreWellFramed == Spec => []WellFramed
BY Inductive, InvWellFramed, PTL

(* process_msg runs for exactly the open server sockets: the announcement in *)
(* sock_map_wait_list is there whenever monitor_sockets looks for it.        *)
THEOREM OpenServersAreMonitored == Spec => []ServersMonitored
BY Inductive, InvServersMonitored, PTL

(* Nothing of a lost request is left in process_msg, in the control plane's  *)
(* buffer, in a socket or in a server.                                       *)
THEOREM LostRequestsAreGone == Spec => []LostIsNowhere
<1>1. IInv /\ LostIsNowhere /\ [Next]_vars => LostIsNowhere'
  BY NextRefines DEF Refines
<1> QED BY <1>1, InitRefines, Inductive, PTL DEF Spec

(* The data plane and the control plane together give every client the       *)
(* exchanges of RequestReply: a request is handed to a server at most once,  *)
(* its answer is that server's, and a 500 says that no server has it.        *)
THEOREM Implementation == Spec => ImplementsRequestReply
<1>1. IInv /\ LostIsNowhere /\ [Next]_vars => [R!Next]_Exchanges
  BY NextRefines DEF Refines
<1> QED BY <1>1, InitRefines, Inductive, LostRequestsAreGone, PTL DEF Spec, ImplementsRequestReply, R!Spec

(* Room for the keys of all sockets, or for all connections, is room for one *)
(* more than a map holds that lacks one of them.                             *)
LEMMA TokensHaveTheirRoom == TokensFit => TokensHaveRoom
<1> SUFFICES ASSUME TokensFit, NEW S \in SUBSET (DsKeys \cup UsKeys),
                    NEW k \in DsKeys \cup UsKeys, k \notin S
             PROVE  Cardinality(S) < UtrnCap
  BY DEF TokensHaveRoom
<1> DEFINE K == DsKeys \cup UsKeys
<1>1. IsFiniteSet(K) /\ Cardinality(K) <= UtrnCap /\ UtrnCap \in Nat
  BY BoundAssumption DEF TokensFit
<1> HIDE DEF K
<1>2. S \subseteq K /\ S \cup {k} \in SUBSET K
  BY DEF K
<1>3. IsFiniteSet(S)
  BY <1>1, <1>2, FS_Subset
<1>4. Cardinality(S \cup {k}) = Cardinality(S) + 1
  BY <1>3, FS_AddElement
<1>5. Cardinality(S \cup {k}) <= Cardinality(K)
  BY <1>1, <1>2, FS_Subset
<1>6. Cardinality(K) \in Nat /\ Cardinality(S) \in Nat
  BY <1>1, <1>3, FS_CardinalityType
<1> QED BY <1>1, <1>4, <1>5, <1>6, LessThanAll

LEMMA ConnsHaveTheirRoom == QueuesFit => ConnsHaveRoom
<1> SUFFICES ASSUME QueuesFit, NEW l \in Locals, NEW n \in Nat, NEW f \in [1..n -> Locals \ {l}],
                    \A i, j \in 1..n : f[i] = f[j] => i = j
             PROVE  n < QueueCap
  BY DEF ConnsHaveRoom
<1>1. IsFiniteSet(Locals) /\ Cardinality(Locals) <= QueueCap /\ QueueCap \in Nat
  BY BoundAssumption DEF QueuesFit
<1>2. f \in Injection(1..n, Locals \ {l})
  BY DEF Injection, IsInjective
<1>3. IsFiniteSet(Locals \ {l}) /\ Cardinality(Locals \ {l}) = Cardinality(Locals) - 1
  BY <1>1, FS_RemoveElement
<1>4. Cardinality(1..n) <= Cardinality(Locals \ {l})
  BY <1>2, <1>3, FS_Injection
<1>5. Cardinality(1..n) = n
  BY FS_Interval, SMTT(60)
<1>6. Cardinality(Locals) \in Nat
  BY <1>1, FS_CardinalityType
<1> QED BY <1>1, <1>3, <1>4, <1>5, <1>6, LessThanAll

(* A task that has read a request from its buffer finds the token that       *)
(* process_msg left for it in utrn_wait_list, as long as that map has room   *)
(* for the keys of all sockets, so that no LRU eviction takes a token away.  *)
THEOREM TokensAreFound == TokensFit => (Spec => []UturnHasToken)
<1> SUFFICES ASSUME TokensFit PROVE Spec => []UturnHasToken
  OBVIOUS
<1>1. IInv /\ InvTokensHeld /\ [Next]_vars => InvTokensHeld'
  BY TokensStep, TokensHaveTheirRoom
<1>2. Init => InvTokensHeld
  BY InitRoom
<1>3. IInv /\ InvTokensHeld => UturnHasToken
  BY TokensFound
<1> QED BY <1>1, <1>2, <1>3, Inductive, PTL DEF Spec

(* Every open upstream connection is in an upstream's queue or serves a      *)
(* client, as long as a queue has room for the connections there are: what   *)
(* _fib_query takes out, process_msg, a task or the answer puts back, on     *)
(* every path on which both ends still have the connection.                  *)
THEOREM ConnectionsAreKept == QueuesFit => (Spec => []ConnNotLeaked)
<1> SUFFICES ASSUME QueuesFit PROVE Spec => []ConnNotLeaked
  OBVIOUS
<1>1. IInv /\ InvConnsKept /\ [Next]_vars => InvConnsKept'
  BY ConnsStep, ConnsHaveTheirRoom
<1>2. Init => InvConnsKept
  BY InitRoom
<1>3. IInv /\ InvConnsKept => ConnNotLeaked
  BY ConnsFound
<1> QED BY <1>1, <1>2, <1>3, Inductive, PTL DEF Spec
=============================================================================

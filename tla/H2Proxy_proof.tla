---------------------------- MODULE H2Proxy_proof ----------------------------
(***************************************************************************)
(* With one client the requests on an upstream connection come with        *)
(* growing stream ids, for any number of connections and streams, and also *)
(* when connections are closed at any time.                                *)
(***************************************************************************)
EXTENDS H2ProxyInv, TLAPS

(* Most steps are first-order: Zenon, unless a step asks for the SMT solver.  *)
USE ZenonT(20)

(* A function of two arguments is changed in one place.                      *)
LEMMA Put2 ==
  ASSUME NEW A, NEW B, NEW S, NEW f \in [A -> [B -> S]], NEW a \in A, NEW b \in B, NEW x \in S,
         NEW g, g = [f EXCEPT ![a][b] = x]
  PROVE  /\ g \in [A -> [B -> S]]
         /\ g[a][b] = x
         /\ \A d \in A, e \in B : d # a \/ e # b => g[d][e] = f[d][e]
BY SMTT(60)

(* There is one client, and the ids are the odd numbers up to what it needs. *)
LEMMA OneIs ==
  ASSUME OneClient
  PROVE  /\ \A c, d \in Clients : c = d
         /\ Ids = {i \in 1..LastId : i % 2 = 1} 
         /\ LastId \in Nat /\ LastId >= 1 /\ LastId >= 2 * MaxStreams + 1
         /\ \A i \in Ids : i \in Nat
<1>1. PICK c : Clients = {c}
  BY DEF OneClient
<1>2. PICK n \in Nat \ {0}, m \in Nat \ {0} : n = Cardinality(Clients) /\ m = MaxStreams
  BY H2Assumption
<1>3. LastId \in Nat /\ LastId >= 1 /\ LastId >= 2 * MaxStreams + 1
  <2>1. 2 * m * n + 1 \in Nat /\ 2 * m * n + 1 >= 1 /\ 2 * m * n + 1 >= 2 * m + 1
    BY <1>2, SMTT(60)
  <2> QED BY <1>2, <2>1 DEF LastId
<1>4. Ids = {i \in 1..LastId : i % 2 = 1}
  BY DEF Ids
<1>5. ASSUME NEW i \in Ids PROVE i \in Nat
  BY <1>3, <1>4, SMTT(60)
<1> QED BY <1>1, <1>3, <1>4, <1>5

(* The first stream not used is the one that bounds those that are.          *)
LEMMA FirstUnused ==
  ASSUME OneClient, NEW f, NEW n \in Ids, \A i \in Ids : f[i] # "no" <=> i < n
  PROVE  (CHOOSE i \in Ids : f[i] = "no" /\ \A j \in Ids : j < i => f[j] # "no") = n
<1>1. \A i \in Ids : i \in Nat
  BY OneIs
<1>2. f[n] = "no" /\ \A j \in Ids : j < n => f[j] # "no"
  BY <1>1, SMTT(60)
<1>3. ASSUME NEW i \in Ids, f[i] = "no", \A j \in Ids : j < i => f[j] # "no" PROVE i = n
  BY <1>1, <1>2, <1>3, SMTT(60)
<1> QED BY <1>2, <1>3

(* Odd numbers are two apart.                                                *)
LEMMA OddGap ==
  ASSUME NEW i \in Nat, NEW n \in Nat, i % 2 = 1, n % 2 = 1
  PROVE  i < n + 2 <=> i < n \/ i = n
BY SMTT(60)

(* A client that opens its next stream has opened one more, the first that   *)
(* it had not.                                                               *)
LEMMA OpenStream ==
  ASSUME OneClient, TypeOK, InvSent, NEW c \in Clients, CanOpen(c), NEW x \in {"head", "all"},
         sent' = [sent EXCEPT ![c][NextStream(c)] = x]
  PROVE  /\ InvSent'
         /\ NextStream(c)' = NextStream(c) + 2
         /\ \A d \in Clients : NextStream(d)' >= NextStream(d)
         /\ sent' \in [Clients -> [Ids -> {"no", "head", "all"}]]
         /\ NextStream(c) \in Ids
<1>0. (\A i \in Ids : i \in Nat) /\ \A d \in Clients : d = c
  BY OneIs
<1> DEFINE n == NextStream(c)
<1>1. n \in Ids /\ \A i \in Ids : sent[c][i] # "no" <=> i < n
  BY DEF InvSent
<1>2. sent \in [Clients -> [Ids -> {"no", "head", "all"}]]
  BY DEF TypeOK
<1>3. /\ sent' \in [Clients -> [Ids -> {"no", "head", "all"}]]
      /\ sent'[c][n] = x /\ \A i \in Ids \ {n} : sent'[c][i] = sent[c][i]
  <2> HIDE DEF n
  <2> QED BY <1>1, <1>2, SMTT(60) DEF n
<1>4. n + 2 \in Ids
  <2>1. Ids = {i \in 1..LastId : i % 2 = 1} /\ LastId \in Nat /\ LastId >= 2 * MaxStreams + 1 /\ MaxStreams \in Nat
        /\ n < 2 * MaxStreams
    BY OneIs, H2Assumption DEF CanOpen
  <2>2. n \in 1..LastId /\ n % 2 = 1
    BY <1>1, <2>1
  <2> HIDE DEF n
  <2>3. n + 2 \in 1..LastId
    BY <2>1, <2>2, SMTT(60)
  <2>4. (n + 2) % 2 = 1
    BY <2>2, SMTT(60)
  <2> QED BY <2>1, <2>3, <2>4
<1>5. ASSUME NEW i \in Ids PROVE i < n + 2 <=> i < n \/ i = n
  <2>1. i \in Nat /\ n \in Nat /\ i % 2 = 1 /\ n % 2 = 1
    BY <1>0, <1>1, OneIs
  <2> HIDE DEF n
  <2> QED BY <2>1, OddGap
<1>6. \A i \in Ids : sent'[c][i] # "no" <=> i < n + 2
  BY <1>1, <1>3, <1>5
<1>7. NextStream(c)' = n + 2
  <2> HIDE DEF n
  <2> QED BY <1>4, <1>6, FirstUnused DEF NextStream
<1>8. InvSent'
  <2>1. NextStream(c)' \in Ids /\ \A i \in Ids : sent'[c][i] # "no" <=> i < NextStream(c)'
    BY <1>7, <1>4, <1>6
  <2> QED BY <2>1, <1>0 DEF InvSent
<1>9. NextStream(c)' >= n
  BY <1>0, <1>1, <1>7, SMTT(60)
<1> QED BY <1>0, <1>1, <1>3, <1>7, <1>8, <1>9

-----------------------------------------------------------------------------
(* What a step can leave as it is: the number of streams does not shrink,    *)
(* the HEADERS in the sockets and the streams of the servers are the same.   *)
Grow == \A c \in Clients : NextStream(c)' >= NextStream(c)
SameHeads ==
  \A l \in Locals : Heads(l)' = Heads(l) /\ \A i \in Heads(l) : inbox'[l][i] = inbox[l][i]
SameOpened == \A l \in Locals : Opened(l)' = Opened(l)
SameProg == \A c \in Clients : prog'[c] \in {prog[c], Idle}
StillFresh == \A l \in Locals : Fresh(l) => Fresh(l)'
StillUsed == \A l \in Locals : Used(l) => Used(l)'
ConnKept == \A l \in Locals : conn[l] \in {"est", "open", "closed"} => conn'[l] \in {"est", "open", "closed"}
BoundKept == \A l \in Locals : conn[l] = "bound" => conn'[l] = "bound"

LEMMA Numbers ==
  ASSUME OneClient, TypeOK, InvSent
  PROVE  /\ \A c \in Clients : NextStream(c) \in Nat
         /\ \A l \in Locals : h2_conns[l] \in Nat
         /\ \A l \in Locals : \A i \in 1..Len(inbox[l]) : inbox[l][i] \in Frames /\ inbox[l][i].id \in Nat
<1>1. \A i \in Ids : i \in Nat
  BY OneIs
<1>2. \A c \in Clients : NextStream(c) \in Nat
  BY <1>1 DEF InvSent
<1>3. h2_conns \in [Locals -> Ids \cup {0}] /\ inbox \in [Locals -> Seq(Frames)]
  BY DEF TypeOK
<1>4. ASSUME NEW l \in Locals PROVE h2_conns[l] \in Nat
  <2>1. h2_conns[l] \in Ids \cup {0}
    BY <1>3
  <2> QED BY <2>1, <1>1, SMTT(60)
<1>5. ASSUME NEW l \in Locals, NEW i \in 1..Len(inbox[l]) PROVE inbox[l][i] \in Frames
  BY <1>3, SMTT(60)
<1>6. ASSUME NEW f \in Frames PROVE f.id \in Ids
  BY SMTT(60) DEF Frames
<1> QED BY <1>1, <1>2, <1>4, <1>5, <1>6

LEMMA FrameSent ==
  ASSUME InvSent, UNCHANGED sent
  PROVE  InvSent' /\ \A c \in Clients : NextStream(c)' = NextStream(c)
<1>1. \A c \in Clients : NextStream(c)' = NextStream(c)
  BY DEF NextStream
<1> QED BY <1>1 DEF InvSent

LEMMA FrameGrow ==
  ASSUME OneClient, TypeOK, InvSent, UNCHANGED sent
  PROVE  InvSent' /\ Grow
<1>1. \A c \in Clients : NextStream(c) \in Nat /\ NextStream(c)' = NextStream(c)
  BY Numbers, FrameSent
<1>2. ASSUME NEW c \in Clients PROVE NextStream(c)' >= NextStream(c)
  BY <1>1, SMTT(60)
<1> QED BY <1>2, FrameSent DEF Grow

(* What was below the next stream's id stays below it.                       *)
LEMMA StillBelow ==
  ASSUME OneClient, TypeOK, InvSent, InvSent', Grow, NEW c \in Clients, NEW n \in Nat
  PROVE  /\ n < NextStream(c) => n < NextStream(c)'
         /\ n >= NextStream(c)' => n >= NextStream(c)
<1>1. NextStream(c) \in Nat
  BY Numbers
<1>2. NextStream(c)' \in Nat
  BY OneIs DEF InvSent
<1>3. NextStream(c)' >= NextStream(c)
  BY DEF Grow
<1> QED BY <1>1, <1>2, <1>3, SMTT(60)

LEMMA FrameIds ==
  ASSUME OneClient, TypeOK, InvSent, InvSent', Grow, InvIds, UNCHANGED h2_conns
  PROVE  InvIds'
BY Numbers, StillBelow DEF InvIds

LEMMA FrameStreams ==
  ASSUME OneClient, TypeOK, InvSent, InvSent', Grow, InvStreams, UNCHANGED h2_streams
  PROVE  InvStreams'
BY OneIs, StillBelow DEF InvStreams

LEMMA IdleType ==
  Idle \in ProgState
BY SMTT(60) DEF Idle, ProgState

LEMMA IdleL == \A l \in Locals : Idle.l # l
BY H2AddrAssumption, SMTT(60) DEF Idle

LEMMA FrameFresh ==
  ASSUME UNCHANGED <<h2_conns, fib_upstream>>, SameProg, SameHeads, SameOpened
  PROVE  StillFresh
<1>1. ASSUME NEW l \in Locals, Fresh(l) PROVE Fresh(l)'
  <2>1. Heads(l)' = {} /\ Opened(l)' = {}
    BY <1>1 DEF Fresh, SameHeads, SameOpened
  <2>2. ASSUME NEW c \in Clients PROVE prog'[c].l # l
    BY <1>1, IdleL DEF Fresh, SameProg
  <2> QED BY <1>1, <2>1, <2>2 DEF Fresh
<1> QED BY <1>1 DEF StillFresh

LEMMA FrameTask ==
  ASSUME OneClient, TypeOK, InvSent, InvSent', Grow, NEW c \in Clients, NEW id \in Ids, TaskInv(c, id),
         task'[c][id] = task[c][id], ConnKept,
         Opening(c, id) => /\ Fresh(task[c][id].l)'
                           /\ conn[task[c][id].l] = "bound" => conn'[task[c][id].l] = "bound"
  PROVE  TaskInv(c, id)'
<1>1. id < NextStream(c) => id < NextStream(c)'
  BY OneIs, StillBelow
<1> QED BY <1>1 DEF TaskInv, Opening, ConnKept

LEMMA FrameTasks ==
  ASSUME OneClient, TypeOK, InvSent, InvSent', Grow, InvTasks,
         UNCHANGED task, StillFresh, ConnKept, BoundKept
  PROVE  InvTasks'
<1>1. ASSUME NEW c \in Clients, NEW id \in Ids PROVE TaskInv(c, id)'
  <2>1. TaskInv(c, id)
    BY DEF InvTasks
  <2>2. Opening(c, id) => task[c][id].l \in Locals /\ Fresh(task[c][id].l)
    BY <2>1 DEF TaskInv, Opening
  <2> QED BY <2>1, <2>2, FrameTask DEF StillFresh, BoundKept
<1> QED BY <1>1 DEF InvTasks, Opening

LEMMA FrameProg ==
  ASSUME OneClient, TypeOK, InvSent, InvSent', Grow, InvProg, UNCHANGED fib_upstream, SameProg, StillUsed
  PROVE  InvProg'
<1>1. ASSUME NEW c \in Clients, prog[c] # Idle PROVE prog[c].sid \in Ids /\ prog[c].sid < NextStream(c)'
  BY <1>1, OneIs, StillBelow DEF InvProg
<1>2. fib_upstream \in Seq(Locals)
  BY DEF TypeOK
<1>3. \A i \in 1..Len(fib_upstream) : fib_upstream[i] \in Locals
  BY <1>2, SMTT(60)
<1>4. \A i \in 1..Len(fib_upstream) : Used(fib_upstream[i])'
  BY <1>3 DEF InvProg, StillUsed
<1> QED BY <1>1, <1>4 DEF InvProg, SameProg, StillUsed

LEMMA FrameUsed ==
  ASSUME UNCHANGED h2_conns, \A l \in Locals : conn[l] \in {"open", "closed"} => conn'[l] \in {"open", "closed"}
  PROVE  StillUsed
BY DEF StillUsed, Used

LEMMA FrameConn ==
  ASSUME InvConn, UNCHANGED <<conn, inbox, sstream>>
  PROVE  InvConn'
BY DEF InvConn, ConnInv, Opened

LEMMA FrameBound ==
  ASSUME InvBound, UNCHANGED h2_conns, SameProg, SameHeads, SameOpened
  PROVE  InvBound'
<1>1. ASSUME NEW l \in Locals, NEW n, Below(l, n) PROVE Below(l, n)'
  BY <1>1 DEF Below, Assigning, SameProg
<1>2. ASSUME NEW l \in Locals PROVE BoundInv(l)'
  BY <1>1 DEF InvBound, BoundInv, SameHeads, SameOpened
<1> QED BY <1>2 DEF InvBound

LEMMA FrameOrder ==
  ASSUME InvOrder, SameHeads, SameOpened
  PROVE  InvOrder'
<1>1. ASSUME NEW l \in Locals PROVE OrderInv(l)'
  BY DEF InvOrder, OrderInv, SameHeads, SameOpened
<1> QED BY <1>1 DEF InvOrder

(* Nothing changes.                                                          *)
LEMMA FrameSame ==
  /\ UNCHANGED inbox => SameHeads
  /\ UNCHANGED sstream => SameOpened
  /\ UNCHANGED prog => SameProg
  /\ UNCHANGED conn => ConnKept /\ BoundKept
BY DEF SameHeads, SameOpened, Heads, Opened, SameProg, ConnKept, BoundKept

-----------------------------------------------------------------------------
(* A step that leaves the queue, the ids, the streams, the assignments in    *)
(* progress, and what was opened as they are.                                *)
LEMMA Quiet ==
  ASSUME OneClient, HInv, TypeOK', InvSent', Grow, InvTasks', InvProg', InvConn',
         UNCHANGED <<h2_conns, h2_streams>>, SameProg, SameHeads, SameOpened
  PROVE  HInv'
<1>1. TypeOK /\ InvSent /\ InvIds /\ InvStreams /\ InvBound /\ InvOrder
  BY DEF HInv
<1>2. InvIds' /\ InvStreams'
  BY <1>1, FrameIds, FrameStreams
<1>3. InvBound' /\ InvOrder'
  BY <1>1, FrameBound, FrameOrder
<1> QED BY <1>2, <1>3 DEF HInv

PutTask(c, id, t) == [task EXCEPT ![c][id] = t]
(* One task of a client takes a step.                                        *)
LEMMA TaskStep ==
  ASSUME OneClient, TypeOK, InvTasks, NEW c \in Clients, NEW id \in Ids, NEW t,
         task' = PutTask(c, id, t),
         Opening(c, id)' => \A i \in Ids \ {id} : ~Opening(c, i),
         TaskInv(c, id)', \A i \in Ids \ {id} : TaskInv(c, i)'
  PROVE  InvTasks'
<1>1. \A d \in Clients : d = c
  BY OneIs
<1>2. \A i \in Ids \ {id} : task'[c][i] = task[c][i]
  BY DEF TypeOK, PutTask
<1>3. \A i \in Ids \ {id} : Opening(c, i)' <=> Opening(c, i)
  BY <1>2 DEF Opening
<1>4. \A i, j \in Ids : Opening(c, i) /\ Opening(c, j) => i = j
  BY DEF InvTasks
<1>5. ASSUME NEW i \in Ids, NEW j \in Ids, Opening(c, i)', Opening(c, j)' PROVE i = j
  BY <1>3, <1>4, <1>5
<1>6. \A i \in Ids : TaskInv(c, i)'
  OBVIOUS
<1> QED BY <1>1, <1>5, <1>6 DEF InvTasks

(* What a task's step says of the task.                                      *)
LEMMA TaskIs ==
  ASSUME TypeOK, NEW c \in Clients, NEW id \in Ids
  PROVE  /\ task[c][id] \in TaskState
         /\ task[c] \in [Ids -> TaskState]
         /\ \A p : [task EXCEPT ![c][id].pc = p] = [task EXCEPT ![c][id] = [task[c][id] EXCEPT !.pc = p]]
BY SMTT(60) DEF TypeOK, TaskState

LEMMA TaskPut ==
  ASSUME TypeOK, NEW c \in Clients, NEW id \in Ids, NEW t, task' = PutTask(c, id, t)
  PROVE  task'[c][id] = t /\ \A i \in Ids \ {id} : task'[c][i] = task[c][i]
BY TaskIs, SMTT(60) DEF TypeOK, PutTask

(* A task is no longer about to open a connection; nothing else changes that  *)
(* the tasks depend on.                                                      *)
LEMMA TaskOn ==
  ASSUME OneClient, HInv, InvSent', Grow, NEW c \in Clients, NEW id \in Ids, NEW t,
         task' = PutTask(c, id, t), t.pc \in {"new", "body", "response", "done"},
         id < NextStream(c)', t.src \in Ids, t.pc \in {"body", "response"} => t.l \in Locals,
         t.pc = "body" => conn'[t.l] \in {"est", "open", "closed"},
         StillFresh, ConnKept, BoundKept
  PROVE  InvTasks'
<1>1. TypeOK /\ InvSent /\ InvTasks
  BY DEF HInv
<1>2. task'[c][id] = t /\ \A i \in Ids \ {id} : task'[c][i] = task[c][i]
  BY <1>1, TaskPut
<1>3. ~Opening(c, id)'
  BY <1>2 DEF Opening
<1>4. TaskInv(c, id)'
  BY <1>2 DEF TaskInv
<1>5. ASSUME NEW i \in Ids \ {id} PROVE TaskInv(c, i)'
  <2>1. TaskInv(c, i) /\ task'[c][i] = task[c][i]
    BY <1>1, <1>2 DEF InvTasks
  <2>2. Opening(c, i) => task[c][i].l \in Locals /\ Fresh(task[c][i].l)
    BY <2>1 DEF TaskInv, Opening
  <2> QED BY <1>1, <2>1, <2>2, FrameTask DEF StillFresh, BoundKept
<1> QED BY <1>1, <1>3, <1>4, <1>5, TaskStep

LEMMA FrameConnOf ==
  ASSUME InvConn, UNCHANGED conn, SameOpened,
         \A l \in Locals : conn[l] \in {"free", "bound"} => inbox'[l] = inbox[l],
         \A l \in Locals : \A i \in 1..Len(inbox'[l]) : inbox'[l][i].kind \in {"head", "data", "bare"},
         \A l \in Locals : \A t \in Opened(l) :
           sstream'[l][t].c = sstream[l][t].c /\ sstream'[l][t].s = sstream[l][t].s
  PROVE  InvConn'
<1>1. ASSUME NEW l \in Locals PROVE ConnInv(l)'
  <2>1. ConnInv(l) /\ Opened(l)' = Opened(l)
    BY DEF InvConn, SameOpened
  <2> QED BY <2>1 DEF ConnInv
<1> QED BY <1>1 DEF InvConn

(* A frame that opens no stream is added to a socket, or one that does.      *)
LEMMA AddFrame ==
  ASSUME TypeOK, NEW l \in Locals, NEW f \in Frames, inbox' = [inbox EXCEPT ![l] = Append(@, f)]
  PROVE  /\ inbox' \in [Locals -> Seq(Frames)]
         /\ \A k \in Locals \ {l} : inbox'[k] = inbox[k]
         /\ Len(inbox'[l]) = Len(inbox[l]) + 1 /\ Len(inbox[l]) \in Nat
         /\ inbox'[l][Len(inbox[l]) + 1] = f
         /\ \A i \in 1..Len(inbox[l]) : inbox'[l][i] = inbox[l][i]
<1>1. inbox \in [Locals -> Seq(Frames)]
  BY DEF TypeOK
<1>2. inbox[l] \in Seq(Frames) /\ inbox'[l] = Append(inbox[l], f) /\ \A k \in Locals \ {l} : inbox'[k] = inbox[k]
  BY <1>1
<1>3. \A s \in Seq(Frames) : /\ Append(s, f) \in Seq(Frames) /\ Len(Append(s, f)) = Len(s) + 1 /\ Len(s) \in Nat
                            /\ Append(s, f)[Len(s) + 1] = f
                            /\ \A i \in 1..Len(s) : Append(s, f)[i] = s[i]
  BY SMTT(60)
<1>4. inbox' \in [Locals -> Seq(Frames)]
  BY <1>1, <1>2, <1>3
<1> QED BY <1>2, <1>3, <1>4

LEMMA AddOther ==
  ASSUME TypeOK, NEW l \in Locals, NEW f \in Frames, f.kind \notin {"head", "bare"},
         inbox' = [inbox EXCEPT ![l] = Append(@, f)]
  PROVE  SameHeads
<1> DEFINE n == Len(inbox[l])
<1>1. /\ \A k \in Locals \ {l} : inbox'[k] = inbox[k]
      /\ Len(inbox'[l]) = n + 1 /\ n \in Nat
      /\ inbox'[l][n + 1] = f
      /\ \A i \in 1..n : inbox'[l][i] = inbox[l][i]
  BY AddFrame
<1>2. 1..(n + 1) = (1..n) \cup {n + 1}
  <2> HIDE DEF n
  <2> QED BY <1>1, SMTT(60)
<1>3. Heads(l)' = Heads(l)
  BY <1>1, <1>2 DEF Heads
<1>4. ASSUME NEW k \in Locals, k # l PROVE Heads(k)' = Heads(k)
  BY <1>1, <1>4 DEF Heads
<1>5. ASSUME NEW k \in Locals, NEW i \in Heads(k) PROVE inbox'[k][i] = inbox[k][i]
  BY <1>1 DEF Heads
<1> QED BY <1>3, <1>4, <1>5 DEF SameHeads
(* A step like that which also leaves the queue and the connections.         *)
LEMMA Calm ==
  ASSUME OneClient, HInv, TypeOK', InvSent', Grow, InvTasks', InvConn',
         UNCHANGED <<fib_upstream, h2_conns, h2_streams, conn>>, SameProg, SameHeads, SameOpened
  PROVE  HInv'
<1>1. TypeOK /\ InvSent /\ InvProg
  BY DEF HInv
<1>2. StillUsed
  BY FrameUsed
<1>3. InvProg'
  BY <1>1, <1>2, FrameProg
<1> QED BY <1>3, Quiet

LEMMA CalmTasks ==
  ASSUME UNCHANGED <<fib_upstream, h2_conns, conn>>, SameProg, SameHeads, SameOpened
  PROVE  StillFresh /\ ConnKept /\ BoundKept
BY FrameFresh, FrameSame

(* A step of which only the counts of streams change.                        *)
LEMMA Still ==
  ASSUME OneClient, HInv, TypeOK', InvSent', Grow,
         UNCHANGED <<fib_upstream, h2_conns, h2_streams, prog, task, conn, inbox, sstream>>
  PROVE  HInv'
<1>1. TypeOK /\ InvSent /\ InvTasks /\ InvConn
  BY DEF HInv
<1>2. SameProg /\ SameHeads /\ SameOpened
  BY FrameSame
<1>3. InvTasks'
  BY <1>1, <1>2, CalmTasks, FrameTasks
<1>4. InvConn'
  BY <1>1, FrameConn
<1> QED BY <1>2, <1>3, <1>4, Calm

LEMMA PrefaceInv == ASSUME OneClient, HInv, NEW c \in Clients, Preface(c) \/ GiveUp(c) PROVE HInv'
<1>1. TypeOK /\ InvSent
  BY DEF HInv
<1>2. /\ UNCHANGED <<maps, prog, sent, crx, cp, server>>
      /\ up' \in SUBSET Clients
  BY <1>1 DEF Preface, GiveUp, TypeOK
<1>3. TypeOK'
  BY <1>1, <1>2 DEF TypeOK, maps, cp, server
<1>4. InvSent' /\ Grow
  BY <1>1, <1>2, FrameGrow
<1> QED BY <1>2, <1>3, <1>4, Still DEF maps, cp, server

LEMMA DsDropInv == ASSUME OneClient, HInv, NEW c \in Clients, DsDrop(c) PROVE HInv'
<1>1. TypeOK /\ InvSent
  BY DEF HInv
<1>2. /\ UNCHANGED <<maps, prog, up, crx, cp, server>> /\ CanOpen(c)
      /\ sent' = [sent EXCEPT ![c][NextStream(c)] = "all"]
  BY DEF DsDrop
<1>3. InvSent' /\ Grow /\ sent' \in [Clients -> [Ids -> {"no", "head", "all"}]]
  BY <1>1, <1>2, OpenStream DEF Grow
<1>4. TypeOK'
  BY <1>1, <1>2, <1>3 DEF TypeOK, maps, cp, server
<1> QED BY <1>2, <1>3, <1>4, Still DEF maps, cp, server

(* A stream that is opened now is not in h2_streams.                         *)
LEMMA NewStream ==
  ASSUME OneClient, HInv, NEW c \in Clients
  PROVE  NextStream(c) \in Ids /\ h2_streams[<<c, NextStream(c)>>] = NoStream
<1>1. NextStream(c) \in Ids
  BY DEF HInv, InvSent
<1>2. NextStream(c) >= NextStream(c)
  BY <1>1, OneIs, SMTT(60)
<1> QED BY <1>1, <1>2 DEF HInv, InvStreams

(* The control plane gets HEADERS.                                           *)
LEMMA CpHeadInv ==
  ASSUME OneClient, HInv, InvSent', Grow, NEW c \in Clients, NEW id \in Ids, id < NextStream(c)',
         NEW s \in Ids, NEW ended \in BOOLEAN, CpHead(c, id, s, ended), StillFresh, ConnKept, BoundKept
  PROVE  /\ InvTasks'
         /\ task' \in [Clients -> [Ids -> TaskState]]
         /\ up' \in SUBSET Clients
<1>1. TypeOK /\ InvSent /\ InvTasks
  BY DEF HInv
<1>2. up \in SUBSET Clients
     /\ task \in [Clients -> [Ids -> TaskState]]
  BY <1>1 DEF TypeOK
<1>3. CASE NewAtCp(c, id)
  <2> DEFINE t == [NoTask EXCEPT !.pc = "new", !.src = s, !.ended = ended]
  <2>1. task' = PutTask(c, id, t) /\ up' = up
    BY <1>3 DEF CpHead, PutTask
  <2>2. /\ t.pc = "new" /\ t.src \in Ids
        /\ t \in TaskState
    <3>1. t.pc = "new" /\ t.src \in Ids
      BY DEF NoTask
    <3>2. t \in TaskState
      BY DEF NoTask, TaskState
    <3> QED BY <3>1, <3>2
  <2> HIDE DEF t
  <2>3. InvTasks'
    BY <2>1, <2>2, TaskOn
  <2>4. task' \in [Clients -> [Ids -> TaskState]]
    BY <1>2, <2>1, <2>2, Put2 DEF PutTask
  <2> QED BY <1>2, <2>1, <2>3, <2>4
<1>4. CASE ~NewAtCp(c, id)
  <2>1. task' = task /\ up' = up \ {c}
    BY <1>4 DEF CpHead
  <2>2. InvTasks'
    BY <1>1, <2>1, FrameTasks
  <2> QED BY <1>2, <2>1, <2>2
<1> QED BY <1>3, <1>4

LEMMA DsBareInv == ASSUME OneClient, HInv, NEW c \in Clients, DsBare(c) PROVE HInv'
<1>1. TypeOK /\ InvSent /\ InvConn
  BY DEF HInv
<1>2. /\ UNCHANGED <<maps, prog, crx, body, conn, sstream>> /\ CanOpen(c)
      /\ sent' = [sent EXCEPT ![c][NextStream(c)] = "all"]
  BY DEF DsBare
<1>3. /\ InvSent' /\ Grow /\ sent' \in [Clients -> [Ids -> {"no", "head", "all"}]]
      /\ NextStream(c) \in Ids /\ NextStream(c)' = NextStream(c) + 2
  BY <1>1, <1>2, OpenStream DEF Grow
<1>4. NextStream(c) < NextStream(c)'
  BY <1>3, OneIs, SMTT(60)
<1>5. CpHead(c, NextStream(c), NextStream(c), TRUE) /\ UNCHANGED inbox
  BY NewStream DEF DsBare
<1>6. SameProg /\ SameHeads /\ SameOpened /\ StillFresh /\ ConnKept /\ BoundKept
  BY <1>2, <1>5, FrameSame, CalmTasks DEF maps
<1>7. PICK n \in Ids : n = NextStream(c)
  BY <1>3
<1>8. /\ InvTasks'
      /\ task' \in [Clients -> [Ids -> TaskState]]
      /\ up' \in SUBSET Clients
  BY <1>3, <1>4, <1>5, <1>6, <1>7, CpHeadInv
<1>9. TypeOK'
  BY <1>1, <1>2, <1>3, <1>5, <1>8 DEF TypeOK, maps
<1>10. InvConn'
  BY <1>1, <1>2, <1>5, FrameConn
<1> QED BY <1>2, <1>3, <1>6, <1>8, <1>9, <1>10, Calm DEF maps

(* What process_msg makes a U-turn with is a stream id behind the client's.   *)
LEMMA DsUturnInv == ASSUME OneClient, HInv, NEW c \in Clients, DsUturn(c) PROVE HInv'
<1>1. TypeOK /\ InvSent /\ InvConn /\ InvProg /\ InvIds
  BY DEF HInv
<1>2. /\ UNCHANGED <<fib_upstream, fib_downstream, h2_conns, h2_streams, sent, crx, body, server>>
      /\ prog[c] # Idle /\ prog' = [prog EXCEPT ![c] = Idle]
      /\ utrn_wait_list' = utrn_wait_list \cup {<<c, UturnId(c)>>}
      /\ CpHead(c, UturnId(c), prog[c].s, FALSE)
  BY DEF DsUturn, Uturning
<1>3. InvSent' /\ Grow
  BY <1>1, <1>2, FrameGrow
<1>4. UturnId(c) \in Ids /\ UturnId(c) < NextStream(c)
  <2>1. CASE prog[c].l = NoAddr
    BY <2>1, <1>1, <1>2 DEF UturnId, InvProg
  <2>2. CASE prog[c].l # NoAddr
    <3>1. prog[c].l \in Locals
      BY <2>2, <1>1, SMTT(60) DEF TypeOK, ProgState
    <3>2. h2_conns[prog[c].l] \in Ids
      BY <3>1, <1>1, <1>2 DEF InvProg, Used
    <3> QED BY <2>2, <3>1, <3>2, <1>1 DEF UturnId, NewId, InvIds
  <2> QED BY <2>1, <2>2
<1>5. UturnId(c) < NextStream(c)' /\ prog[c].s \in Ids
  BY <1>1, <1>2, <1>4, FrameSent DEF InvProg
<1>6. SameProg
  BY <1>1, <1>2 DEF SameProg, TypeOK
<1>7. SameHeads /\ SameOpened /\ StillFresh /\ ConnKept /\ BoundKept
  BY <1>2, <1>6, FrameSame, CalmTasks DEF server
<1>8. /\ InvTasks'
      /\ task' \in [Clients -> [Ids -> TaskState]]
      /\ up' \in SUBSET Clients
  BY <1>2, <1>3, <1>4, <1>5, <1>7, CpHeadInv
<1>9. TypeOK'
  <2>1. prog' \in [Clients -> ProgState]
    BY <1>1, <1>2, IdleType DEF TypeOK
  <2>2. utrn_wait_list' \in SUBSET (Hosts \X Ids)
    <3>1. c \in Hosts
      BY DEF Hosts
    <3>2. <<c, UturnId(c)>> \in Hosts \X Ids
      BY <3>1, <1>4
    <3> QED BY <1>1, <1>2, <3>2 DEF TypeOK
  <2> QED BY <1>1, <1>2, <1>8, <2>1, <2>2 DEF TypeOK, server
<1>10. InvConn'
  BY <1>1, <1>2, FrameConn DEF server
<1> QED BY <1>2, <1>3, <1>6, <1>7, <1>8, <1>9, <1>10, Calm DEF server

LEMMA FrameType ==
  ASSUME NEW id \in Ids, NEW c \in Clients, NEW s \in Ids,
         NEW k \in {"head", "data", "bare", "trailers", "error"}, NEW v \in {"data_plane", "control_plane"}
  PROVE  /\ Frame(id, k, c, s, v) \in Frames
         /\ Frame(id, k, c, s, v).id = id /\ Frame(id, k, c, s, v).kind = k
BY DEF Frame, Frames

(* The stream a client's stream is assigned to is one of a server.           *)
LEMMA ToServer ==
  ASSUME HInv, NEW c \in Clients, NEW s \in Ids, h2_streams[<<c, s>>] # NoStream
  PROVE  /\ h2_streams[<<c, s>>][1] \in Locals /\ h2_streams[<<c, s>>][2] \in Ids
         /\ Redirectable(h2_streams[<<c, s>>][1]) => conn[h2_streams[<<c, s>>][1]] = "open"
<1>1. c \in Hosts /\ <<c, s>> \in Streams
  BY DEF Hosts, Streams
<1>2. h2_streams[<<c, s>>] \in Streams
  BY <1>1 DEF HInv, TypeOK
<1>3. h2_streams[<<c, s>>][1] \in Locals
  BY <1>1 DEF HInv, InvStreams
<1>4. h2_streams[<<c, s>>][2] \in Ids
  BY <1>2 DEF Streams
<1>5. up \in SUBSET Clients
  BY DEF HInv, TypeOK
<1>6. \A l \in Locals : l \notin up
  BY <1>5, H2AddrAssumption
<1> QED BY <1>3, <1>4, <1>6 DEF Redirectable

(* A frame that is added to a socket in use.                                 *)
LEMMA AddConn ==
  ASSUME TypeOK, InvConn, UNCHANGED <<conn, sstream>>, NEW l \in Locals, conn[l] \notin {"free", "bound"},
         NEW f \in Frames, f.kind \in {"head", "data", "bare"}, inbox' = [inbox EXCEPT ![l] = Append(@, f)]
  PROVE  InvConn'
<1>1. /\ \A k \in Locals \ {l} : inbox'[k] = inbox[k]
      /\ Len(inbox'[l]) = Len(inbox[l]) + 1 /\ Len(inbox[l]) \in Nat
      /\ inbox'[l][Len(inbox[l]) + 1] = f
      /\ \A i \in 1..Len(inbox[l]) : inbox'[l][i] = inbox[l][i]
  BY AddFrame
<1>2. \A i \in 1..Len(inbox'[l]) : i \in 1..Len(inbox[l]) \/ i = Len(inbox[l]) + 1
  BY <1>1, SMTT(60)
<1>3. \A k \in Locals : \A i \in 1..Len(inbox[k]) : inbox[k][i].kind \in {"head", "data", "bare"}
  BY DEF InvConn, ConnInv
<1>4. ASSUME NEW k \in Locals, NEW i \in 1..Len(inbox'[k]) PROVE inbox'[k][i].kind \in {"head", "data", "bare"}
  BY <1>1, <1>2, <1>3
<1>5. \A k \in Locals : conn[k] \in {"free", "bound"} => inbox'[k] = inbox[k]
  BY <1>1
<1>6. SameOpened
  BY FrameSame
<1> QED BY <1>4, <1>5, <1>6, FrameConnOf

(* The used streams of a client are the same.                                *)
LEMMA SendRest ==
  ASSUME OneClient, TypeOK, InvSent, NEW c \in Clients, NEW s \in Ids, sent[c][s] = "head",
         sent' = [sent EXCEPT ![c][s] = "all"]
  PROVE  InvSent' /\ Grow /\ sent' \in [Clients -> [Ids -> {"no", "head", "all"}]]
<1>1. sent \in [Clients -> [Ids -> {"no", "head", "all"}]]
  BY DEF TypeOK
<1>2. /\ sent' \in [Clients -> [Ids -> {"no", "head", "all"}]]
      /\ sent'[c][s] = "all"
      /\ \A d \in Clients, i \in Ids : d # c \/ i # s => sent'[d][i] = sent[d][i]
  BY <1>1, Put2
<1>3. \A d \in Clients, i \in Ids : sent'[d][i] # "no" <=> sent[d][i] # "no"
  BY <1>2
<1>4. ASSUME NEW d \in Clients PROVE NextStream(d)' = NextStream(d)
  <2>1. {i \in Ids : sent'[d][i] # "no"} = {i \in Ids : sent[d][i] # "no"}
    BY <1>3
  <2> QED BY <2>1 DEF NextStream
<1>5. ASSUME NEW d \in Clients PROVE NextStream(d)' >= NextStream(d)
  BY <1>4, Numbers, SMTT(60)
<1>6. InvSent'
  BY <1>3, <1>4 DEF InvSent
<1> QED BY <1>2, <1>5, <1>6 DEF Grow

LEMMA DsDataInv == ASSUME OneClient, HInv, NEW c \in Clients, NEW s \in Ids, DsData(c, s) PROVE HInv'
<1>1. TypeOK /\ InvSent /\ InvConn /\ InvTasks
  BY DEF HInv
<1>2. /\ UNCHANGED <<maps, prog, crx, task, conn, sstream>>
      /\ sent[c][s] = "head" /\ sent' = [sent EXCEPT ![c][s] = "all"]
  BY DEF DsData
<1>3. InvSent' /\ Grow /\ sent' \in [Clients -> [Ids -> {"no", "head", "all"}]]
  BY <1>1, <1>2, SendRest
<1>4. up \in SUBSET Clients /\ inbox \in [Locals -> Seq(Frames)] /\ body \in [Clients -> [Ids -> Seq(Ids)]]
  BY <1>1 DEF TypeOK
<1>5. /\ up' \in SUBSET Clients /\ inbox' \in [Locals -> Seq(Frames)] /\ body' \in [Clients -> [Ids -> Seq(Ids)]]
      /\ SameHeads /\ InvConn'
  <2>1. PICK m : m = h2_streams[<<c, s>>]
    OBVIOUS
  <2>2. CASE m # NoStream /\ Redirectable(m[1])
    <3>1. m[1] \in Locals /\ m[2] \in Ids /\ conn[m[1]] = "open"
      BY <2>1, <2>2, ToServer
    <3>2. PICK f \in Frames : f = Frame(m[2], "data", c, s, "data_plane") /\ f.kind = "data"
      BY <3>1, FrameType, SMTT(60)
    <3>3. inbox' = [inbox EXCEPT ![m[1]] = Append(@, f)] /\ UNCHANGED <<up, body>>
      BY <2>1, <2>2, <3>2 DEF DsData
    <3>4. inbox' \in [Locals -> Seq(Frames)]
      BY <1>1, <3>1, <3>3, AddFrame
    <3>5. SameHeads
      BY <1>1, <3>1, <3>2, <3>3, AddOther
    <3>6. InvConn'
      BY <1>1, <1>2, <3>1, <3>2, <3>3, AddConn
    <3> QED BY <1>4, <3>3, <3>4, <3>5, <3>6
  <2>3. CASE ~(m # NoStream /\ Redirectable(m[1]))
    <3>1. PICK id : id = IF m = NoStream THEN s ELSE m[2]
      OBVIOUS
    <3>2. id \in Ids
      BY <2>1, <3>1, ToServer
    <3>3. CpData(c, id, s) /\ UNCHANGED inbox
      BY <2>1, <2>3, <3>1 DEF DsData
    <3>4. up' \in SUBSET Clients /\ body' \in [Clients -> [Ids -> Seq(Ids)]]
      <4>1. body[c][id] \in Seq(Ids)
        BY <1>4, <3>2
      <4>2. PICK b : b = Append(body[c][id], s)
        OBVIOUS
      <4>3. b \in Seq(Ids)
        BY <4>1, <4>2, SMTT(60)
      <4>4. CASE NewAtCp(c, id)
        BY <4>4, <1>4, <3>3 DEF CpData
      <4>5. CASE ~NewAtCp(c, id)
        <5>1. body' = [body EXCEPT ![c][id] = b] /\ up' = up
          BY <4>2, <4>5, <3>3 DEF CpData
        <5> QED BY <1>4, <3>2, <4>3, <5>1, Put2
      <4> QED BY <4>4, <4>5
    <3> QED BY <1>1, <1>2, <1>4, <3>3, <3>4, FrameSame, FrameConn
  <2> QED BY <2>2, <2>3
<1>6. TypeOK'
  BY <1>1, <1>2, <1>3, <1>5 DEF TypeOK, maps
<1>7. SameProg /\ SameOpened
  BY <1>2, FrameSame
<1>8. InvTasks'
  BY <1>1, <1>2, <1>3, <1>5, <1>7, CalmTasks, FrameTasks DEF maps
<1> QED BY <1>2, <1>3, <1>5, <1>6, <1>7, <1>8, Calm DEF maps

(* What the data plane sets for the HEADERS of a new stream n.               *)
LEMMA DsHeadersIs ==
  ASSUME OneClient, HInv, NEW c \in Clients, DsHeaders(c)
  PROVE  /\ CanOpen(c) /\ NextStream(c) \in Ids /\ sent' = [sent EXCEPT ![c][NextStream(c)] = "head"]
         /\ UNCHANGED <<fib_upstream, utrn_wait_list, h2_streams, up, crx, cp, server>>
         /\ \/ /\ fib_upstream = <<>> /\ UNCHANGED <<fib_downstream, h2_conns>>
               /\ prog' = [prog EXCEPT ![c] = [s |-> NextStream(c), sid |-> NextStream(c), l |-> NoAddr,
                                               uturn |-> ~Redirectable(NoAddr)]]
            \/ \E l \in Locals :
               /\ fib_upstream # <<>> /\ l = Head(fib_upstream)
               /\ fib_downstream' = [fib_downstream EXCEPT ![l] = c]
               /\ h2_conns' = [h2_conns EXCEPT ![l] = h2_conns[l] + 2]
               /\ prog' = [prog EXCEPT ![c] = [s |-> NextStream(c), sid |-> NextStream(c), l |-> l,
                                               uturn |-> ~Redirectable(l)]]
<1>1. NextStream(c) \in Ids /\ h2_streams[<<c, NextStream(c)>>] = NoStream
  BY NewStream
<1>2. /\ CanOpen(c) /\ sent' = [sent EXCEPT ![c][NextStream(c)] = "head"]
      /\ UNCHANGED <<fib_upstream, utrn_wait_list, h2_streams, up, crx, cp, server>>
  BY DEF DsHeaders
<1>3. CASE fib_upstream = <<>>
  <2>1. /\ UNCHANGED <<fib_downstream, h2_conns>>
        /\ prog' = [prog EXCEPT ![c] = [s |-> NextStream(c), sid |-> NextStream(c), l |-> NoAddr,
                                               uturn |-> ~Redirectable(NoAddr)]]
    BY <1>1, <1>3 DEF DsHeaders
  <2> QED BY <1>1, <1>2, <1>3, <2>1
<1>4. CASE fib_upstream # <<>>
  <2>1. PICK l : l = Head(fib_upstream)
    OBVIOUS
  <2>2. l \in Locals
    <3>1. fib_upstream \in Seq(Locals)
      BY DEF HInv, TypeOK
    <3> QED BY <3>1, <2>1, <1>4, SMTT(60)
  <2>3. l # NoAddr
    BY <2>2, H2AddrAssumption
  <2>4. /\ fib_downstream' = [fib_downstream EXCEPT ![l] = c]
        /\ h2_conns' = [h2_conns EXCEPT ![l] = h2_conns[l] + 2]
        /\ prog' = [prog EXCEPT ![c] = [s |-> NextStream(c), sid |-> NextStream(c), l |-> l,
                                               uturn |-> ~Redirectable(l)]]
    BY <1>1, <1>4, <2>1, <2>3 DEF DsHeaders, NextId
  <2> QED BY <1>1, <1>2, <1>4, <2>1, <2>2, <2>4
<1> QED BY <1>3, <1>4

(* The id of a connection in the queue, increased, stays behind the streams   *)
(* of the client.                                                            *)
LEMMA Increase ==
  ASSUME OneClient, HInv, InvSent', NEW c \in Clients, NEW l \in Locals, h2_conns[l] \in Ids,
         NextStream(c)' = NextStream(c) + 2
  PROVE  h2_conns[l] + 2 \in Ids /\ h2_conns[l] + 2 < NextStream(c)' /\ h2_conns[l] < h2_conns[l] + 2
<1>1. PICK n \in Ids : n = NextStream(c)
  BY DEF HInv, InvSent
<1>2. n + 2 \in Ids /\ h2_conns[l] < n
  BY <1>1 DEF HInv, InvSent, InvIds
<1>3. Ids = {i \in 1..LastId : i % 2 = 1} /\ LastId \in Nat /\ LastId >= 1
  BY OneIs
<1>4. PICK h \in Ids : h = h2_conns[l]
  OBVIOUS
<1>5. h + 2 \in 1..LastId /\ h + 2 < n + 2 /\ h < h + 2
  BY <1>2, <1>3, <1>4, SMTT(60)
<1>6. (h + 2) % 2 = 1
  <2>1. h \in Nat /\ h % 2 = 1
    BY <1>3, SMTT(60)
  <2> QED BY <2>1, SMTT(60)
<1>7. h + 2 \in Ids
  BY <1>3, <1>5, <1>6
<1> QED BY <1>1, <1>4, <1>5, <1>7

LEMMA DsHeadersInv == ASSUME OneClient, HInv, NEW c \in Clients, DsHeaders(c) PROVE HInv'
<1>1. TypeOK /\ InvSent /\ InvIds /\ InvStreams /\ InvTasks /\ InvProg /\ InvConn /\ InvBound /\ InvOrder
  BY DEF HInv
<1>2. /\ CanOpen(c) /\ NextStream(c) \in Ids /\ sent' = [sent EXCEPT ![c][NextStream(c)] = "head"]
      /\ UNCHANGED <<fib_upstream, utrn_wait_list, h2_streams, up, crx, task, body, conn, inbox, sstream>>
  BY DsHeadersIs DEF cp, server
<1>3. /\ InvSent' /\ Grow /\ sent' \in [Clients -> [Ids -> {"no", "head", "all"}]]
      /\ NextStream(c)' = NextStream(c) + 2
  BY <1>1, <1>2, OpenStream DEF Grow
<1>4. PICK n \in Ids : n = NextStream(c)
  BY <1>2
<1>5. n < NextStream(c)' /\ \A d \in Clients : d = c
  BY <1>3, <1>4, OneIs, SMTT(60)
<1>6. PICK l \in Locals \cup {NoAddr}, u \in BOOLEAN :
        /\ prog' = [prog EXCEPT ![c] = [s |-> n, sid |-> n, l |-> l, uturn |-> u]]
        /\ u = ~Redirectable(l)
        /\ l = NoAddr => UNCHANGED <<fib_downstream, h2_conns>>
        /\ l # NoAddr => /\ l \in Locals /\ fib_upstream # <<>> /\ l = Head(fib_upstream)
                         /\ fib_downstream' = [fib_downstream EXCEPT ![l] = c]
                         /\ h2_conns' = [h2_conns EXCEPT ![l] = h2_conns[l] + 2]
  <2>1. CASE fib_upstream = <<>>
    BY <1>4, <2>1, DsHeadersIs
  <2>2. CASE fib_upstream # <<>>
    <3>1. PICK k \in Locals :
            /\ k = Head(fib_upstream)
            /\ fib_downstream' = [fib_downstream EXCEPT ![k] = c]
            /\ h2_conns' = [h2_conns EXCEPT ![k] = h2_conns[k] + 2]
            /\ prog' = [prog EXCEPT ![c] = [s |-> NextStream(c), sid |-> NextStream(c), l |-> k,
                                            uturn |-> ~Redirectable(k)]]
      BY <2>2, DsHeadersIs
    <3>2. k # NoAddr /\ k \in Locals \cup {NoAddr} /\ (~Redirectable(k)) \in BOOLEAN
      BY H2AddrAssumption
    <3> QED BY <1>4, <2>2, <3>1, <3>2
  <2> QED BY <2>1, <2>2
<1>7. /\ prog' \in [Clients -> ProgState]
      /\ prog'[c].s = n /\ prog'[c].sid = n /\ prog'[c].l = l /\ prog'[c].uturn = u
  <2>1. prog \in [Clients -> ProgState]
    BY <1>1 DEF TypeOK
  <2>2. [s |-> n, sid |-> n, l |-> l, uturn |-> u] \in ProgState
    BY DEF ProgState
  <2>3. prog'[c] = [s |-> n, sid |-> n, l |-> l, uturn |-> u]
    BY <2>1, <1>6
  <2> QED BY <2>1, <2>2, <2>3, <1>6
(* The connection, if there is one, is the first of the queue.               *)
<1>8. l # NoAddr => /\ l \in Locals /\ Used(l)
                    /\ \E i \in 1..Len(fib_upstream) : fib_upstream[i] = l
  <2>1. fib_upstream \in Seq(Locals)
    BY <1>1 DEF TypeOK
  <2>2. fib_upstream # <<>> => 1 \in 1..Len(fib_upstream) /\ Head(fib_upstream) = fib_upstream[1]
    BY <2>1, SMTT(60)
  <2> QED BY <1>1, <1>6, <2>2 DEF InvProg
<1>9. l # NoAddr => h2_conns[l] \in Ids /\ h2_conns[l] + 2 \in Ids /\ h2_conns[l] + 2 < NextStream(c)'
  BY <1>3, <1>8, Increase DEF Used
<1>10. /\ h2_conns' \in [Locals -> Ids \cup {0}]
       /\ \A k \in Locals : k # l => h2_conns'[k] = h2_conns[k]
       /\ l # NoAddr => h2_conns'[l] = h2_conns[l] + 2
  <2>1. h2_conns \in [Locals -> Ids \cup {0}]
    BY <1>1 DEF TypeOK
  <2>2. CASE l = NoAddr
    BY <1>6, <2>1, <2>2
  <2>3. CASE l # NoAddr
    BY <1>6, <1>9, <2>1, <2>3
  <2> QED BY <2>2, <2>3
<1>11. TypeOK'
  <2>1. fib_downstream' \in [Locals -> Clients \cup {NoAddr}]
    BY <1>1, <1>6 DEF TypeOK
  <2> QED BY <1>1, <1>2, <1>3, <1>7, <1>10, <2>1 DEF TypeOK
<1>12. InvIds'
  <2>1. ASSUME NEW k \in Locals PROVE h2_conns'[k] < NextStream(c)'
    <3>1. CASE k = l
      <4>1. l # NoAddr
        BY <3>1, H2AddrAssumption
      <4> QED BY <3>1, <4>1, <1>9, <1>10
    <3>2. CASE k # l
      <4>1. h2_conns[k] \in Nat /\ h2_conns[k] < NextStream(c)
        BY <1>1, Numbers DEF InvIds
      <4> QED BY <1>1, <1>3, <1>10, <3>2, <4>1, StillBelow
    <3> QED BY <3>1, <3>2
  <2> QED BY <1>5, <2>1 DEF InvIds
<1>13. InvStreams'
  BY <1>1, <1>2, <1>3, FrameStreams
<1>14. SameHeads /\ SameOpened /\ ConnKept /\ BoundKept
  BY <1>2, FrameSame
<1>15. InvTasks'
  <2>1. ASSUME NEW k \in Locals, Fresh(k) PROVE Fresh(k)'
    <3>1. k # l
      BY <1>8, <2>1, H2AddrAssumption DEF Fresh
    <3>2. Heads(k)' = {} /\ Opened(k)' = {}
      BY <1>14, <2>1 DEF Fresh, SameHeads, SameOpened
    <3>3. \A d \in Clients : prog'[d].l # k
      BY <1>5, <1>7, <3>1
    <3> QED BY <1>2, <1>10, <2>1, <3>1, <3>2, <3>3 DEF Fresh
  <2> QED BY <1>1, <1>2, <1>3, <1>14, <2>1, FrameTasks DEF StillFresh
<1>16. InvProg'
  <2>1. ASSUME NEW k \in Locals, Used(k) PROVE Used(k)'
    <3>1. k = l => l # NoAddr
      BY H2AddrAssumption
    <3>2. h2_conns'[k] \in Ids
      BY <1>9, <1>10, <2>1, <3>1 DEF Used
    <3> QED BY <1>2, <2>1, <3>2 DEF Used
  <2>2. ~u => l # NoAddr
    <3>1. up \in SUBSET Clients
      BY <1>1 DEF TypeOK
    <3> QED BY <1>6, <3>1, H2AddrAssumption DEF Redirectable
  <2>3. fib_upstream \in Seq(Locals)
    BY <1>1 DEF TypeOK
  <2>4. \A i \in 1..Len(fib_upstream) : fib_upstream[i] \in Locals
    BY <2>3, SMTT(60)
  <2>5. \A i \in 1..Len(fib_upstream) : Used(fib_upstream[i])'
    BY <1>1, <1>2, <2>1, <2>4 DEF InvProg
  <2>6. prog'[c].l \in Locals => Used(prog[c].l)'
    BY <1>7, <1>8, <2>1, H2AddrAssumption
  <2>7. ~prog'[c].uturn => prog'[c].l \in Locals
    BY <1>7, <1>8, <2>2
  <2> QED BY <1>2, <1>5, <1>7, <2>5, <2>6, <2>7 DEF InvProg
<1>17. InvConn'
  BY <1>1, <1>2, FrameConn
<1>18. InvBound'
  <2>1. ASSUME NEW k \in Locals, NEW m \in Nat, Below(k, m) PROVE Below(k, m)'
    <3>1. CASE k = l
      <4>1. l # NoAddr
        BY <3>1, H2AddrAssumption
      <4>2. h2_conns[k] \in Nat /\ m <= h2_conns[k] /\ h2_conns'[k] = h2_conns[k] + 2
        BY <1>1, <1>10, <2>1, <3>1, <4>1, Numbers DEF Below
      <4>3. m <= h2_conns'[k] /\ m < h2_conns'[k]
        BY <4>2, SMTT(60)
      <4> QED BY <4>3 DEF Below
    <3>2. CASE k # l
      <4>1. \A d \in Clients : ~Assigning(d, k)'
        BY <1>5, <1>7, <3>2 DEF Assigning
      <4> QED BY <1>10, <2>1, <3>2, <4>1 DEF Below
    <3> QED BY <3>1, <3>2
  <2>2. ASSUME NEW k \in Locals PROVE BoundInv(k)'
    <3>1. \A i \in Heads(k) : inbox[k][i].id \in Nat /\ Below(k, inbox[k][i].id)
      BY <1>1, Numbers DEF InvBound, BoundInv, Heads
    <3>2. \A t \in Opened(k) : t \in Nat /\ Below(k, t)
      BY <1>1, OneIs DEF InvBound, BoundInv, Opened
    <3>3. \A i \in Heads(k) : Below(k, inbox[k][i].id)'
      BY <1>2, <2>1, <3>1
    <3>4. \A t \in Opened(k) : Below(k, t)'
      BY <2>1, <3>2
    <3> QED BY <1>2, <1>14, <3>3, <3>4 DEF BoundInv, SameHeads, SameOpened
  <2> QED BY <2>2 DEF InvBound
<1>19. InvOrder'
  BY <1>1, <1>14, FrameOrder
<1> QED BY <1>3, <1>11, <1>12, <1>13, <1>15, <1>16, <1>17, <1>18, <1>19 DEF HInv

(* A frame that opens a stream is added to a socket.                         *)
LEMMA AddHead ==
  ASSUME TypeOK, NEW l \in Locals, NEW f \in Frames, f.kind \in {"head", "bare"},
         inbox' = [inbox EXCEPT ![l] = Append(@, f)]
  PROVE  /\ Heads(l)' = Heads(l) \cup {Len(inbox[l]) + 1}
         /\ inbox'[l][Len(inbox[l]) + 1] = f
         /\ \A i \in Heads(l) : inbox'[l][i] = inbox[l][i] /\ i < Len(inbox[l]) + 1
         /\ \A k \in Locals \ {l} : Heads(k)' = Heads(k) /\ inbox'[k] = inbox[k]
<1>1. /\ \A k \in Locals \ {l} : inbox'[k] = inbox[k]
      /\ Len(inbox'[l]) = Len(inbox[l]) + 1 /\ Len(inbox[l]) \in Nat
      /\ inbox'[l][Len(inbox[l]) + 1] = f
      /\ \A i \in 1..Len(inbox[l]) : inbox'[l][i] = inbox[l][i]
  BY AddFrame
<1>2. PICK n \in Nat : n = Len(inbox[l])
  BY <1>1
<1>3. 1..(n + 1) = (1..n) \cup {n + 1}
  BY SMTT(60)
<1>4. Heads(l)' = Heads(l) \cup {n + 1}
  BY <1>1, <1>2, <1>3 DEF Heads
<1>5. \A i \in 1..n : i < n + 1
  BY SMTT(60)
<1>6. \A i \in Heads(l) : inbox'[l][i] = inbox[l][i] /\ i < n + 1
  BY <1>1, <1>2, <1>5 DEF Heads
<1>7. \A k \in Locals \ {l} : Heads(k)' = Heads(k)
  BY <1>1 DEF Heads
<1> QED BY <1>1, <1>2, <1>4, <1>6, <1>7

(* Its id is above all before it, and not above the connection's.            *)
LEMMA AddHeadInv ==
  ASSUME OneClient, TypeOK, InvSent, InvBound, InvOrder, NEW l \in Locals, NEW f \in Frames, f.kind \in {"head", "bare"},
         inbox' = [inbox EXCEPT ![l] = Append(@, f)], UNCHANGED <<h2_conns, sstream>>, SameProg,
         \A i \in Heads(l) : inbox[l][i].id < f.id, \A t \in Opened(l) : t < f.id,
         f.id <= h2_conns[l], \A c \in Clients : ~Assigning(c, l)'
  PROVE  InvBound' /\ InvOrder'
<1>1. PICK n : n = Len(inbox[l]) + 1
  OBVIOUS
<1>2. /\ Heads(l)' = Heads(l) \cup {n}
      /\ inbox'[l][n] = f
      /\ \A i \in Heads(l) : inbox'[l][i] = inbox[l][i] /\ i < n
      /\ \A k \in Locals \ {l} : Heads(k)' = Heads(k) /\ inbox'[k] = inbox[k]
  BY <1>1, AddHead
<1>3. \A k \in Locals : Opened(k)' = Opened(k)
  BY FrameSame DEF SameOpened
<1>4. ASSUME NEW k \in Locals, NEW m, Below(k, m) PROVE Below(k, m)'
  <2>1. \A c \in Clients : Assigning(c, k)' => Assigning(c, k)
    BY DEF Assigning, SameProg
  <2> QED BY <1>4, <2>1 DEF Below
<1>5. Below(l, f.id)'
  BY DEF Below
<1>6. ASSUME NEW k \in Locals PROVE BoundInv(k)'
  <2>1. BoundInv(k)
    BY DEF InvBound
  <2>2. CASE k = l
    BY <1>2, <1>3, <1>4, <1>5, <2>1, <2>2 DEF BoundInv
  <2>3. CASE k # l
    BY <1>2, <1>3, <1>4, <2>1, <2>3 DEF BoundInv
  <2> QED BY <2>2, <2>3
<1>7. ASSUME NEW k \in Locals PROVE OrderInv(k)'
  <2>1. OrderInv(k)
    BY DEF InvOrder
  <2>2. CASE k = l
    <3>1. ~(n < n) /\ \A i \in Heads(l) : ~(n < i)
      <4>1. n \in Nat /\ \A i \in Heads(l) : i \in Nat /\ i < n
        <5>1. inbox[l] \in Seq(Frames)
          BY DEF TypeOK
        <5>2. Len(inbox[l]) \in Nat
          BY <5>1, SMTT(60)
        <5>3. \A i \in 1..Len(inbox[l]) : i \in Nat
          BY <5>2, SMTT(60)
        <5>4. n \in Nat
          BY <1>1, <5>2, SMTT(60)
        <5> QED BY <1>2, <5>3, <5>4 DEF Heads
      <4> QED BY <4>1, SMTT(60)
    <3>2. ASSUME NEW i \in Heads(l)' PROVE \A t \in Opened(l) : t < inbox'[l][i].id
      BY <1>2, <2>1, <2>2 DEF OrderInv
    <3>3. ASSUME NEW i \in Heads(l)', NEW j \in Heads(l)', j < i PROVE inbox'[l][j].id < inbox'[l][i].id
      <4>1. CASE i = n
        <5>1. j # n
          BY <3>1, <3>3, <4>1
        <5> QED BY <4>1, <5>1, <1>2
      <4>2. CASE i # n
        <5>1. i \in Heads(l) /\ j # n
          BY <3>1, <3>3, <4>2, <1>2
        <5> QED BY <3>3, <5>1, <1>2, <2>1, <2>2 DEF OrderInv
      <4> QED BY <4>1, <4>2
    <3> QED BY <2>2, <1>3, <3>2, <3>3 DEF OrderInv
  <2>3. CASE k # l
    BY <1>2, <1>3, <2>1, <2>3 DEF OrderInv
  <2> QED BY <2>2, <2>3
<1> QED BY <1>6, <1>7 DEF InvBound, InvOrder

(* Two streams are assigned to each other, one of a host and one of a server. *)
LEMMA AssignInv ==
  ASSUME OneClient, HInv, UNCHANGED sent, NEW h \in Hosts, NEW s \in Ids, NEW l \in Locals, NEW t \in Ids,
         \A c \in Clients : s < NextStream(c), h2_streams' = Assign(<<h, s>>, <<l, t>>)
  PROVE  InvStreams' /\ h2_streams' \in [Streams -> Streams \cup {NoStream}]
<1>1. /\ h2_streams \in [Streams -> Streams \cup {NoStream}]
      /\ <<h, s>> \in Streams /\ <<l, t>> \in Streams /\ <<h, s>> # <<l, t>>
  <2>1. h \in Hosts \cup Locals /\ l \in Hosts \cup Locals /\ h # l
    BY H2AddrAssumption DEF Hosts
  <2> QED BY <2>1 DEF HInv, TypeOK, Streams
<1>2. /\ h2_streams' \in [Streams -> Streams \cup {NoStream}]
      /\ h2_streams'[<<h, s>>] = <<l, t>> /\ h2_streams'[<<l, t>>] = <<h, s>>
      /\ \A k \in Streams : k # <<h, s>> /\ k # <<l, t>> => h2_streams'[k] = h2_streams[k]
  BY <1>1 DEF Assign
<1>3. \A x \in Hosts \cup Locals, i \in Ids : <<x, i>> \in Streams
  BY DEF Streams
<1>4. \A k \in Hosts : k \notin Locals
  BY H2AddrAssumption DEF Hosts
<1>5. ASSUME NEW c \in Clients, NEW i \in Ids, i >= NextStream(c)' PROVE h2_streams'[<<c, i>>] = NoStream
  <2>1. NextStream(c)' = NextStream(c)
    BY FrameSent DEF HInv
  <2>2. c \in Hosts
    BY DEF Hosts
  <2>3. i # s
    <3>1. s \in Nat /\ NextStream(c) \in Nat /\ s < NextStream(c)
      BY OneIs, Numbers DEF HInv
    <3> QED BY <1>5, <2>1, <3>1, SMTT(60)
  <2>4. <<c, i>> # <<h, s>> /\ <<c, i>> # <<l, t>>
    BY <1>4, <2>2, <2>3
  <2>5. h2_streams[<<c, i>>] = NoStream
    BY <1>5, <2>1 DEF HInv, InvStreams
  <2> QED BY <1>2, <1>3, <2>2, <2>4, <2>5
<1>6. ASSUME NEW k \in Locals, NEW i \in Ids PROVE h2_streams'[<<k, i>>] = NoStream \/ h2_streams'[<<k, i>>][1] \in Hosts
  <2>1. CASE <<k, i>> = <<l, t>>
    <3>1. h2_streams'[<<k, i>>] = <<h, s>> /\ <<h, s>>[1] = h
      BY <1>2, <2>1
    <3> QED BY <3>1
  <2>2. CASE <<k, i>> # <<l, t>>
    <3>1. <<k, i>> # <<h, s>>
      BY <1>4
    <3>2. h2_streams'[<<k, i>>] = h2_streams[<<k, i>>]
      BY <1>2, <1>3, <2>2, <3>1
    <3> QED BY <3>2 DEF HInv, InvStreams
  <2> QED BY <2>1, <2>2
<1>7. ASSUME NEW k \in Hosts, NEW i \in Ids PROVE h2_streams'[<<k, i>>] = NoStream \/ h2_streams'[<<k, i>>][1] \in Locals
  <2>1. CASE <<k, i>> = <<h, s>>
    <3>1. h2_streams'[<<k, i>>] = <<l, t>> /\ <<l, t>>[1] = l
      BY <1>2, <2>1
    <3> QED BY <3>1
  <2>2. CASE <<k, i>> # <<h, s>>
    <3>1. <<k, i>> # <<l, t>>
      BY <1>4
    <3>2. h2_streams'[<<k, i>>] = h2_streams[<<k, i>>]
      BY <1>2, <1>3, <2>2, <3>1
    <3> QED BY <3>2 DEF HInv, InvStreams
  <2> QED BY <2>1, <2>2
<1> QED BY <1>2, <1>5, <1>6, <1>7 DEF InvStreams

LEMMA DsAssignInv == ASSUME OneClient, HInv, NEW c \in Clients, DsAssign(c) PROVE HInv'
<1>1. TypeOK /\ InvSent /\ InvIds /\ InvTasks /\ InvProg /\ InvConn /\ InvBound /\ InvOrder
  BY DEF HInv
<1>2. PICK l, n : l = prog[c].l /\ n = h2_conns[l]
  OBVIOUS
<1>3. /\ prog[c] # Idle /\ ~prog[c].uturn
      /\ prog' = [prog EXCEPT ![c] = Idle]
      /\ h2_streams' = Assign(<<c, prog[c].sid>>, <<l, n>>)
      /\ UNCHANGED <<fib_upstream, fib_downstream, utrn_wait_list, h2_conns, up, sent, crx, task, body, conn, sstream>>
      /\ inbox' = IF conn[l] = "open"
                  THEN [inbox EXCEPT ![l] = Append(@, Frame(n, "head", c, prog[c].s, "data_plane"))]
                  ELSE inbox
  BY <1>2 DEF DsAssign, NewId, client, cp
<1>4. /\ l \in Locals /\ n \in Ids /\ prog[c].s \in Ids /\ prog[c].sid \in Ids
      /\ prog[c].sid < NextStream(c) /\ Used(l) /\ Assigning(c, l)
  BY <1>1, <1>2, <1>3 DEF InvProg, Used, Assigning
<1>5. InvSent' /\ Grow
  BY <1>1, <1>3, FrameGrow
<1>6. SameProg /\ SameOpened /\ ConnKept /\ BoundKept /\ \A d \in Clients : prog'[d] = Idle
  <2>1. \A d \in Clients : prog'[d] = Idle
    BY <1>1, <1>3, OneIs DEF TypeOK
  <2> QED BY <1>3, <2>1, FrameSame DEF SameProg
<1>7. InvStreams' /\ h2_streams' \in [Streams -> Streams \cup {NoStream}]
  <2>1. c \in Hosts /\ \A d \in Clients : prog[c].sid < NextStream(d)
    BY <1>4, OneIs DEF Hosts
  <2> QED BY <1>3, <1>4, <2>1, AssignInv
<1>8. InvIds'
  BY <1>1, <1>3, <1>5, FrameIds
<1>9. InvProg'
  BY <1>1, <1>3, <1>5, <1>6, FrameProg, FrameUsed
<1>10. /\ inbox' \in [Locals -> Seq(Frames)] /\ InvConn' /\ InvBound' /\ InvOrder'
       /\ \A k \in Locals \ {l} : Heads(k)' = Heads(k)
  <2>1. CASE conn[l] = "open"
    <3>1. PICK f \in Frames : f = Frame(n, "head", c, prog[c].s, "data_plane") /\ f.kind = "head" /\ f.id = n
      BY <1>4, FrameType, SMTT(60)
    <3>2. inbox' = [inbox EXCEPT ![l] = Append(@, f)]
      BY <1>3, <2>1, <3>1
    <3>3. InvConn'
      BY <1>1, <1>3, <1>4, <2>1, <3>1, <3>2, AddConn
    <3>4. /\ \A i \in Heads(l) : inbox[l][i].id < f.id
          /\ \A t \in Opened(l) : t < f.id
      BY <1>1, <1>2, <1>4, <3>1 DEF InvBound, BoundInv, Below
    <3>5. f.id <= h2_conns[l]
      BY <1>2, <1>4, <3>1, OneIs, SMTT(60)
    <3>6. \A d \in Clients : ~Assigning(d, l)'
      BY <1>6 DEF Assigning
    <3>7. InvBound' /\ InvOrder'
      BY <1>1, <1>3, <1>4, <1>6, <3>1, <3>2, <3>4, <3>5, <3>6, AddHeadInv
    <3>8. inbox' \in [Locals -> Seq(Frames)] /\ \A k \in Locals \ {l} : Heads(k)' = Heads(k)
      BY <1>1, <1>4, <3>1, <3>2, AddFrame, AddHead
    <3> QED BY <3>3, <3>7, <3>8
  <2>2. CASE conn[l] # "open"
    <3>1. UNCHANGED inbox
      BY <1>3, <2>2
    <3>2. SameHeads /\ inbox' \in [Locals -> Seq(Frames)] /\ InvConn'
      BY <1>1, <1>3, <3>1, FrameSame, FrameConn DEF TypeOK
    <3> QED BY <1>1, <1>3, <1>6, <3>2, FrameBound, FrameOrder DEF SameHeads
  <2> QED BY <2>1, <2>2
<1>11. InvTasks'
  <2>1. ASSUME NEW k \in Locals, Fresh(k) PROVE Fresh(k)'
    <3>1. k # l
      BY <1>2, <2>1 DEF Fresh
    <3>2. Heads(k)' = {} /\ Opened(k)' = {}
      BY <1>6, <1>10, <2>1, <3>1 DEF Fresh, SameOpened
    <3> QED BY <1>3, <1>6, <2>1, <3>2, IdleL DEF Fresh
  <2> QED BY <1>1, <1>3, <1>5, <1>6, <2>1, FrameTasks DEF StillFresh
<1>12. TypeOK'
  <2>1. prog' \in [Clients -> ProgState]
    BY <1>1, <1>3, IdleType DEF TypeOK
  <2> QED BY <1>1, <1>3, <1>7, <1>10, <2>1 DEF TypeOK
<1> QED BY <1>5, <1>7, <1>8, <1>9, <1>10, <1>11, <1>12 DEF HInv

-----------------------------------------------------------------------------
(* The server of one connection takes a step.                                *)
LEMMA ServerStep ==
  ASSUME OneClient, HInv, TypeOK', NEW l \in Locals, UNCHANGED <<maps, prog, sent, task>>,
         conn'[l] \in {"open", "closed"}, conn[l] \in {"est", "open", "closed"},
         \A k \in Locals \ {l} : conn'[k] = conn[k] /\ inbox'[k] = inbox[k] /\ sstream'[k] = sstream[k],
         Fresh(l) => Heads(l)' = {} /\ Opened(l)' = {},
         ConnInv(l)', BoundInv(l)', OrderInv(l)'
  PROVE  HInv'
<1>1. TypeOK /\ InvSent /\ InvIds /\ InvStreams /\ InvTasks /\ InvProg /\ InvConn /\ InvBound /\ InvOrder
  BY DEF HInv
<1>2. InvSent' /\ Grow
  BY <1>1, FrameGrow
<1>3. InvIds' /\ InvStreams'
  BY <1>1, <1>2, FrameIds, FrameStreams DEF maps
<1>4. \A k \in Locals \ {l} : Heads(k)' = Heads(k) /\ Opened(k)' = Opened(k)
  BY DEF Heads, Opened
<1>5. StillFresh
  <2>1. ASSUME NEW k \in Locals, Fresh(k) PROVE Heads(k)' = {} /\ Opened(k)' = {}
    BY <1>4, <2>1 DEF Fresh
  <2> QED BY <2>1 DEF StillFresh, Fresh, maps
<1>6. ConnKept /\ BoundKept
  BY DEF ConnKept, BoundKept
<1>7. InvTasks'
  BY <1>1, <1>2, <1>5, <1>6, FrameTasks
<1>8. InvProg'
  <2>1. StillUsed
    <3>1. \A k \in Locals : conn[k] \in {"open", "closed"} => conn'[k] \in {"open", "closed"}
      OBVIOUS
    <3> QED BY <3>1, FrameUsed DEF maps
  <2> QED BY <1>1, <1>2, <2>1, FrameSame, FrameProg DEF maps
<1>9. InvConn'
  <2>1. ASSUME NEW k \in Locals \ {l} PROVE ConnInv(k)'
    <3>1. ConnInv(k) /\ Opened(k)' = Opened(k)
      BY <1>1, <1>4 DEF InvConn
    <3> QED BY <3>1 DEF ConnInv
  <2> QED BY <2>1 DEF InvConn
<1>10. InvBound'
  <2>1. ASSUME NEW k \in Locals \ {l} PROVE BoundInv(k)'
    <3>1. BoundInv(k)
      BY <1>1 DEF InvBound
    <3> QED BY <3>1, <1>4 DEF BoundInv, Below, Assigning, maps
  <2> QED BY <2>1 DEF InvBound
<1>11. InvOrder'
  <2>1. ASSUME NEW k \in Locals \ {l} PROVE OrderInv(k)'
    <3>1. OrderInv(k)
      BY <1>1 DEF InvOrder
    <3> QED BY <3>1, <1>4 DEF OrderInv
  <2> QED BY <2>1 DEF InvOrder
<1> QED BY <1>2, <1>3, <1>7, <1>8, <1>9, <1>10, <1>11 DEF HInv

LEMMA NotOpenType == NotOpen \in StreamState /\ NotOpen.st = "none"
<1>1. NotOpen.st = "none"
  BY SMTT(60) DEF NotOpen
<1> QED BY <1>1 DEF NotOpen, StreamState

(* A connection that is closed has nothing left in it.                       *)
LEMMA ShutInv ==
  ASSUME OneClient, HInv, NEW l \in Locals, conn[l] = "open", Shut(l), UNCHANGED <<maps, prog, client, cp>>
  PROVE  HInv'
<1>1. TypeOK
  BY DEF HInv
<1>2. /\ conn' = [conn EXCEPT ![l] = "closed"] /\ inbox' = [inbox EXCEPT ![l] = <<>>]
      /\ sstream' = [sstream EXCEPT ![l] = [i \in Ids |-> NotOpen]]
  BY DEF Shut
<1>3. /\ conn \in [Locals -> {"free", "bound", "est", "open", "closed"}]
      /\ inbox \in [Locals -> Seq(Frames)]
      /\ sstream \in [Locals -> [Ids -> StreamState]]
  BY <1>1 DEF TypeOK
<1>4. <<>> \in Seq(Frames) /\ [i \in Ids |-> NotOpen] \in [Ids -> StreamState]
  <2>1. <<>> \in Seq(Frames)
    BY SMTT(60)
  <2> QED BY <2>1, NotOpenType
<1>5. /\ conn'[l] = "closed" /\ inbox'[l] = <<>> /\ \A t \in Ids : sstream'[l][t] = NotOpen
      /\ \A k \in Locals \ {l} : conn'[k] = conn[k] /\ inbox'[k] = inbox[k] /\ sstream'[k] = sstream[k]
  BY <1>2, <1>3
<1>6. /\ conn' \in [Locals -> {"free", "bound", "est", "open", "closed"}]
      /\ inbox' \in [Locals -> Seq(Frames)]
      /\ sstream' \in [Locals -> [Ids -> StreamState]]
  BY <1>2, <1>3, <1>4
<1>7. TypeOK'
  BY <1>1, <1>6 DEF TypeOK, maps, client, cp
<1>8. Heads(l)' = {} /\ Opened(l)' = {} /\ \A i : i \notin 1..Len(inbox'[l])
  <2>1. \A i : i \notin 1..Len(inbox'[l])
    BY <1>5, SMTT(60)
  <2>2. Opened(l)' = {}
    BY <1>5, NotOpenType DEF Opened
  <2> QED BY <2>1, <2>2 DEF Heads
<1>9. ConnInv(l)' /\ BoundInv(l)' /\ OrderInv(l)'
  BY <1>5, <1>8 DEF ConnInv, BoundInv, OrderInv
<1> QED BY <1>5, <1>7, <1>8, <1>9, ServerStep DEF client, cp

LEMMA ConnCloseInv == ASSUME OneClient, HInv, NEW l \in Locals, ConnClose(l) PROVE HInv'
BY ShutInv DEF ConnClose

LEMMA EstablishedInv == ASSUME OneClient, HInv, NEW l \in Locals, Established(l) PROVE HInv'
<1>1. TypeOK /\ InvConn /\ InvBound /\ InvOrder
  BY DEF HInv
<1>2. /\ conn[l] = "est" /\ conn' = [conn EXCEPT ![l] = "open"]
      /\ UNCHANGED <<maps, prog, client, cp, inbox, sstream>>
  BY DEF Established
<1>3. /\ conn' \in [Locals -> {"free", "bound", "est", "open", "closed"}]
      /\ conn'[l] = "open" /\ \A k \in Locals \ {l} : conn'[k] = conn[k]
  BY <1>1, <1>2 DEF TypeOK
<1>4. TypeOK'
  BY <1>1, <1>2, <1>3 DEF TypeOK, maps, client, cp
<1>5. Heads(l)' = Heads(l) /\ Opened(l)' = Opened(l)
  BY <1>2 DEF Heads, Opened
<1>6. ConnInv(l) /\ BoundInv(l) /\ OrderInv(l)
  BY <1>1 DEF InvConn, InvBound, InvOrder
<1>7. ConnInv(l)'
  BY <1>2, <1>3, <1>5, <1>6 DEF ConnInv
<1>8. BoundInv(l)' /\ OrderInv(l)'
  BY <1>2, <1>5, <1>6 DEF BoundInv, Below, Assigning, OrderInv, maps
<1>9. Fresh(l) => Heads(l)' = {} /\ Opened(l)' = {}
  BY <1>5 DEF Fresh
<1> QED BY <1>2, <1>3, <1>4, <1>7, <1>8, <1>9, ServerStep DEF client, cp

(* The state of a server's stream, when its request ends and when it begins. *)
LEMMA StreamAt ==
  ASSUME NEW x \in StreamState, NEW st \in {"open", "ready", "headers", "done"}
  PROVE  /\ [x EXCEPT !.st = st] \in StreamState /\ [x EXCEPT !.st = st].st = st
         /\ [x EXCEPT !.st = st].c = x.c /\ [x EXCEPT !.st = st].s = x.s
BY DEF StreamState

BeginAt(st, c, s) == [NotOpen EXCEPT !.st = st, !.c = c, !.s = s]
LEMMA BeginIs ==
  ASSUME NEW st, NEW c, NEW s, NEW A, NEW B, NEW C, NEW D, NEW E,
         st \in A, c \in B, s \in C, NoAddr \in D, NoAddr \in E
  PROVE  BeginAt(st, c, s) \in [st : A, c : B, s : C, to : D, rest : E]
BY DEF NotOpen, BeginAt

LEMMA StreamNew ==
  ASSUME NEW st \in {"open", "ready"}, NEW c \in Clients, NEW s \in Ids
  PROVE  /\ BeginAt(st, c, s) \in StreamState
         /\ BeginAt(st, c, s).st = st /\ BeginAt(st, c, s).c = c /\ BeginAt(st, c, s).s = s
<1>1. BeginAt(st, c, s).st = st /\ BeginAt(st, c, s).c = c /\ BeginAt(st, c, s).s = s
  BY DEF NotOpen, BeginAt
<1>2. /\ st \in {"none", "open", "ready", "headers", "done"} /\ c \in Clients \cup {NoAddr}
      /\ s \in Ids \cup {0} /\ NoAddr \in Clients \cup {NoAddr} /\ NoAddr \in Clients \cup {Proxy, NoAddr}
  OBVIOUS
<1>3. BeginAt(st, c, s) \in StreamState
  <2>1. PICK A, B, C, E : /\ A = {"none", "open", "ready", "headers", "done"} /\ B = Clients \cup {NoAddr}
                          /\ C = Ids \cup {0} /\ E = Clients \cup {Proxy, NoAddr}
    OBVIOUS
  <2>2. StreamState = [st : A, c : B, s : C, to : B, rest : E]
    BY <2>1 DEF StreamState
  <2>3. st \in A /\ c \in B /\ s \in C /\ NoAddr \in B /\ NoAddr \in E
    BY <1>2, <2>1
  <2>4. BeginAt(st, c, s) \in [st : A, c : B, s : C, to : B, rest : E]
    BY <2>3, BeginIs
  <2> QED BY <2>2, <2>4
<1> QED BY <1>1, <1>3

(* The first frame of a socket is taken from it.                             *)
LEMMA TakeFrame ==
  ASSUME TypeOK, NEW l \in Locals, inbox[l] # <<>>, inbox' = [inbox EXCEPT ![l] = Tail(@)]
  PROVE  /\ inbox' \in [Locals -> Seq(Frames)]
         /\ \A k \in Locals \ {l} : inbox'[k] = inbox[k]
         /\ Head(inbox[l]) = inbox[l][1] /\ inbox[l][1] \in Frames /\ 1 \in 1..Len(inbox[l])
         /\ \A i \in 1..Len(inbox'[l]) : /\ i \in Nat /\ i + 1 \in 1..Len(inbox[l]) /\ 1 < i + 1
                                         /\ inbox'[l][i] = inbox[l][i + 1]
<1>1. inbox \in [Locals -> Seq(Frames)]
  BY DEF TypeOK
<1>2. inbox[l] \in Seq(Frames) /\ inbox'[l] = Tail(inbox[l]) /\ \A k \in Locals \ {l} : inbox'[k] = inbox[k]
  BY <1>1
<1>3. ASSUME NEW s \in Seq(Frames), s # <<>>
      PROVE  /\ Tail(s) \in Seq(Frames) /\ Head(s) = s[1] /\ s[1] \in Frames /\ 1 \in 1..Len(s)
             /\ \A i \in 1..Len(Tail(s)) : /\ i \in Nat /\ i + 1 \in 1..Len(s) /\ 1 < i + 1
                                           /\ Tail(s)[i] = s[i + 1]
  BY <1>3, SMTT(60)
<1>4. inbox' \in [Locals -> Seq(Frames)]
  BY <1>1, <1>2, <1>3
<1> QED BY <1>2, <1>3, <1>4

(* A frame opens a stream, or is DATA of an open one.                         *)
LEMMA ServerTake ==
  ASSUME OneClient, HInv, NEW l \in Locals, conn[l] = "open", inbox[l] # <<>>,
         NEW f, f = Head(inbox[l]), NEW id \in Ids, id = f.id, f.kind = "data" => id \in Opened(l),
         NEW r \in StreamState, r.st \in {"open", "ready"}, r.c \in Clients, r.s \in Ids,
         inbox' = [inbox EXCEPT ![l] = Tail(@)], sstream' = [sstream EXCEPT ![l][id] = r],
         UNCHANGED <<maps, prog, client, cp, conn>>
  PROVE  HInv'
<1>1. TypeOK /\ InvConn /\ InvBound /\ InvOrder
  BY DEF HInv
<1>2. /\ inbox' \in [Locals -> Seq(Frames)]
      /\ \A k \in Locals \ {l} : inbox'[k] = inbox[k]
      /\ f = inbox[l][1] /\ f \in Frames /\ 1 \in 1..Len(inbox[l])
      /\ \A i \in 1..Len(inbox'[l]) : /\ i \in Nat /\ i + 1 \in 1..Len(inbox[l]) /\ 1 < i + 1
                                      /\ inbox'[l][i] = inbox[l][i + 1]
  BY <1>1, TakeFrame
<1>4. sstream \in [Locals -> [Ids -> StreamState]]
  BY <1>1 DEF TypeOK
<1>5. ConnInv(l) /\ BoundInv(l) /\ OrderInv(l)
  BY <1>1 DEF InvConn, InvBound, InvOrder
<1>6. f.kind \in {"head", "data", "bare"}
  BY <1>2, <1>5 DEF ConnInv
<1>9. /\ sstream' \in [Locals -> [Ids -> StreamState]] /\ sstream'[l][id] = r
      /\ \A k \in Locals, t \in Ids : k # l \/ t # id => sstream'[k][t] = sstream[k][t]
  BY <1>4, Put2
<1>10. \A k \in Locals \ {l} : sstream'[k] = sstream[k]
  <2>1. PICK g : g = [sstream[l] EXCEPT ![id] = r]
    OBVIOUS
  <2>2. sstream' = [sstream EXCEPT ![l] = g]
    BY <2>1
  <2> QED BY <1>4, <2>2
<1>11. TypeOK'
  BY <1>1, <1>2, <1>9 DEF TypeOK, maps, client, cp
(* HEADERS were the first in the socket, and DATA opens no stream.           *)
<1>12. f.kind # "data" => 1 \in Heads(l)
  BY <1>2, <1>6 DEF Heads
<1>14. \A t \in Opened(l)' : t \in Opened(l) \/ (t = id /\ 1 \in Heads(l))
  BY <1>9, <1>12 DEF Opened
<1>15. \A i \in Heads(l)' : i \in Nat /\ i + 1 \in Heads(l) /\ 1 < i + 1 /\ inbox'[l][i] = inbox[l][i + 1]
  BY <1>2 DEF Heads
<1>16. ~Fresh(l)
  BY <1>12 DEF Fresh
<1>17. ConnInv(l)'
  <2>1. \A i \in 1..Len(inbox'[l]) : inbox'[l][i].kind \in {"head", "data", "bare"}
    BY <1>2, <1>5 DEF ConnInv
  <2>2. ASSUME NEW t \in Opened(l)' PROVE sstream'[l][t].c \in Clients /\ sstream'[l][t].s \in Ids
    <3>1. CASE t = id
      BY <1>9, <3>1
    <3>2. CASE t # id
      <4>1. t \in Ids /\ sstream'[l][t] = sstream[l][t]
        BY <1>9, <3>2 DEF Opened
      <4> QED BY <1>5, <1>14, <3>2, <4>1 DEF ConnInv
    <3> QED BY <3>1, <3>2
  <2> QED BY <2>1, <2>2 DEF ConnInv
<1>18. BoundInv(l)'
  <2>1. ASSUME NEW n, Below(l, n) PROVE Below(l, n)'
    BY <2>1 DEF Below, Assigning, maps
  <2>2. ASSUME NEW i \in Heads(l)' PROVE Below(l, inbox[l][i].id)'
    <3>1. i + 1 \in Heads(l) /\ inbox'[l][i] = inbox[l][i + 1]
      BY <1>15
    <3>2. PICK n : n = inbox[l][i + 1].id /\ Below(l, n)
      BY <1>5, <3>1 DEF BoundInv
    <3>3. Below(l, n)' /\ n = inbox'[l][i].id
      BY <2>1, <3>1, <3>2
    <3> QED BY <3>3 DEF Below
  <2>3. ASSUME NEW t \in Opened(l)' PROVE Below(l, t)'
    <3>1. Below(l, t)
      BY <1>2, <1>5, <1>14 DEF BoundInv
    <3> QED BY <2>1, <3>1
  <2> QED BY <2>2, <2>3 DEF BoundInv
<1>19. OrderInv(l)'
  <2>1. ASSUME NEW i \in Heads(l)', NEW t \in Opened(l)' PROVE t < inbox'[l][i].id
    <3>1. i + 1 \in Heads(l) /\ 1 < i + 1 /\ inbox'[l][i] = inbox[l][i + 1]
      BY <1>15
    <3>2. PICK n : n = i + 1
      OBVIOUS
    <3>3. n \in Heads(l) /\ 1 < n /\ inbox'[l][i] = inbox[l][n]
      BY <3>1, <3>2
    <3>4. CASE t \in Opened(l)
      BY <1>5, <3>3, <3>4 DEF OrderInv
    <3>5. CASE t = id /\ 1 \in Heads(l)
      BY <1>2, <1>5, <3>3, <3>5 DEF OrderInv
    <3> QED BY <1>14, <3>4, <3>5
  <2>2. ASSUME NEW i \in Heads(l)', NEW j \in Heads(l)', j < i PROVE inbox'[l][j].id < inbox'[l][i].id
    <3>1. i \in Nat /\ j \in Nat
      BY <1>15
    <3>2. j + 1 < i + 1
      BY <2>2, <3>1, SMTT(60)
    <3> QED BY <1>5, <1>15, <3>2 DEF OrderInv
  <2> QED BY <2>1, <2>2 DEF OrderInv
<1> QED BY <1>2, <1>10, <1>11, <1>16, <1>17, <1>18, <1>19, ServerStep DEF client, cp

LEMMA ServerReadInv == ASSUME OneClient, HInv, NEW l \in Locals, ServerRead(l) PROVE HInv'
<1>1. PICK f : f = Head(inbox[l])
  OBVIOUS
<1>2. conn[l] = "open" /\ inbox[l] # <<>> /\ UNCHANGED <<maps, prog, client, cp>>
  BY DEF ServerRead
<1>3. f \in Frames
  <2>1. inbox[l] \in Seq(Frames)
    BY DEF HInv, TypeOK
  <2> QED BY <1>1, <1>2, <2>1, SMTT(60)
<1>4. f.id \in Ids /\ f.c \in Clients /\ f.s \in Ids
  BY <1>3, SMTT(60) DEF Frames
<1>5. PICK id \in Ids : id = f.id
  BY <1>4
<1>6. sstream[l][id] \in StreamState /\ ConnInv(l)
  BY DEF HInv, TypeOK, InvConn
<1>7. CASE Shut(l)
  BY <1>2, <1>7, ShutInv
<1>8. CASE ~Shut(l) /\ f.kind = "data"
  <2>1. PICK r : r = [sstream[l][id] EXCEPT !.st = "ready"]
    OBVIOUS
  <2>2. /\ sstream[l][id].st = "open" /\ inbox' = [inbox EXCEPT ![l] = Tail(@)] /\ UNCHANGED conn
        /\ sstream' = [sstream EXCEPT ![l][id] = r]
    BY <1>1, <1>5, <1>8, <2>1 DEF ServerRead
  <2>3. id \in Opened(l)
    BY <2>2 DEF Opened
  <2>4. r \in StreamState /\ r.st \in {"open", "ready"} /\ r.c \in Clients /\ r.s \in Ids
    BY <1>6, <2>1, <2>3, StreamAt DEF ConnInv
  <2> QED BY <1>1, <1>2, <1>5, <2>2, <2>3, <2>4, ServerTake
<1>9. CASE ~Shut(l) /\ f.kind # "data"
  <2>1. PICK st \in {"open", "ready"} : st = IF f.kind = "head" THEN "open" ELSE "ready"
    OBVIOUS
  <2>2. PICK r : r = [NotOpen EXCEPT !.st = st, !.c = f.c, !.s = f.s]
    OBVIOUS
  <2>3. /\ inbox' = [inbox EXCEPT ![l] = Tail(@)] /\ UNCHANGED conn
        /\ sstream' = [sstream EXCEPT ![l][id] = r]
    BY <1>1, <1>5, <1>9, <2>1, <2>2 DEF ServerRead
  <2>4. r \in StreamState /\ r.st \in {"open", "ready"} /\ r.c \in Clients /\ r.s \in Ids
    <3>1. PICK c \in Clients, i \in Ids : c = f.c /\ i = f.s
      BY <1>4
    <3>2. r = BeginAt(st, c, i)
      BY <2>2, <3>1 DEF BeginAt
    <3>3. r \in StreamState /\ r.st = st /\ r.c = c /\ r.s = i
      BY <3>2, StreamNew, SMTT(60)
    <3> QED BY <3>3
  <2> QED BY <1>1, <1>2, <1>5, <1>9, <2>3, <2>4, ServerTake
<1> QED BY <1>7, <1>8, <1>9

-----------------------------------------------------------------------------
(* A server's stream goes on; it stays that of the same request.             *)
LEMMA StreamStep ==
  ASSUME TypeOK, InvConn, NEW l \in Locals, NEW t \in Opened(l), NEW r \in StreamState, r.st # "none",
         r.c = sstream[l][t].c, r.s = sstream[l][t].s, sstream' = [sstream EXCEPT ![l][t] = r],
         UNCHANGED <<conn, inbox>>
  PROVE  sstream' \in [Locals -> [Ids -> StreamState]] /\ SameOpened /\ InvConn'
<1>1. sstream \in [Locals -> [Ids -> StreamState]] /\ t \in Ids /\ sstream[l][t].st # "none"
  BY DEF TypeOK, Opened
<1>2. /\ sstream' \in [Locals -> [Ids -> StreamState]] /\ sstream'[l][t] = r
      /\ \A k \in Locals, i \in Ids : k # l \/ i # t => sstream'[k][i] = sstream[k][i]
  BY <1>1, Put2
<1>3. ASSUME NEW k \in Locals PROVE Opened(k)' = Opened(k)
  <2>1. \A i \in Ids : sstream'[k][i].st # "none" <=> sstream[k][i].st # "none"
    BY <1>1, <1>2
  <2> QED BY <2>1 DEF Opened
<1>4. SameOpened
  BY <1>3 DEF SameOpened
<1>5. ASSUME NEW k \in Locals, NEW i \in Opened(k)
      PROVE  sstream'[k][i].c = sstream[k][i].c /\ sstream'[k][i].s = sstream[k][i].s
  BY <1>2 DEF Opened
<1>6. \A k \in Locals : \A i \in 1..Len(inbox'[k]) : inbox'[k][i].kind \in {"head", "data", "bare"}
  BY DEF InvConn, ConnInv
<1>7. InvConn'
  BY <1>4, <1>5, <1>6, FrameConnOf
<1> QED BY <1>2, <1>4, <1>7

(* A connection with a stream has been open.                                 *)
LEMMA OpenedUsed ==
  ASSUME OneClient, HInv, NEW l \in Locals, NEW t \in Opened(l)
  PROVE  /\ Used(l) /\ ~Fresh(l) /\ t \in Ids
         /\ sstream[l][t] \in StreamState /\ sstream[l][t].c \in Clients /\ sstream[l][t].s \in Ids
<1>1. TypeOK /\ ConnInv(l) /\ BoundInv(l) /\ InvSent
  BY DEF HInv, InvConn, InvBound
<1>2. conn[l] = "open" /\ sstream[l][t].c \in Clients /\ sstream[l][t].s \in Ids /\ ~Fresh(l)
  BY <1>1 DEF ConnInv, Fresh
<1>3. t \in Ids /\ sstream[l][t] \in StreamState /\ h2_conns[l] \in Ids \cup {0}
  BY <1>1 DEF Opened, TypeOK
<1>4. t <= h2_conns[l]
  BY <1>1 DEF BoundInv, Below
<1>5. Ids = {i \in 1..LastId : i % 2 = 1} /\ LastId \in Nat /\ LastId >= 1
  BY OneIs
<1>6. t >= 1 /\ t \in Nat
  BY <1>3, <1>5, SMTT(60)
<1>7. h2_conns[l] # 0
  BY <1>4, <1>6, SMTT(60)
<1> QED BY <1>2, <1>3, <1>7 DEF Used

(* A client that can be reached is one that is connected.                    *)
LEMMA ToClient ==
  ASSUME HInv, NEW k, k \in Clients \cup {NoAddr} \/ k \in Hosts, Redirectable(k)
  PROVE  k \in up /\ k \in Clients
<1>1. k \notin Locals
  BY H2AddrAssumption DEF Hosts
<1>2. up \in SUBSET Clients
  BY DEF HInv, TypeOK
<1> QED BY <1>1, <1>2 DEF Redirectable

(* A client gets a frame.                                                    *)
LEMMA CrxType ==
  ASSUME TypeOK, NEW c \in Clients, NEW f \in Frames, NEW g, g = [crx EXCEPT ![c] = @ \cup {f}]
  PROVE  g \in [Clients -> SUBSET Frames]
<1>1. crx \in [Clients -> SUBSET Frames]
  BY DEF TypeOK
<1>2. crx[c] \cup {f} \in SUBSET Frames
  BY <1>1
<1> QED BY <1>1, <1>2

(* The queue is appended to, its first element gone if it was full.          *)
Queued(q, x) == Append(IF Len(q) < QueueCap THEN q ELSE Tail(q), x)
QueueOf(p, q, x) ==
  /\ p \in Seq(Locals) /\ Len(p) <= QueueCap
  /\ \A i \in 1..Len(p) : p[i] = x \/ \E j \in 1..Len(q) : p[i] = q[j]
LEMMA Enqueue ==
  ASSUME NEW q \in Seq(Locals), Len(q) <= QueueCap, NEW x \in Locals, NEW p, p = Queued(q, x)
  PROVE  QueueOf(p, q, x)
<1>0. QueueCap \in Nat \ {0}
  BY H2Assumption
<1>1. CASE Len(q) < QueueCap
  <2>1. p = Append(q, x)
    BY <1>1 DEF Queued
  <2>2. p \in Seq(Locals) /\ Len(p) = Len(q) + 1 /\ Len(q) \in Nat
    BY <2>1, SMTT(60)
  <2>3. \A i \in 1..Len(p) : p[i] = x \/ (i \in 1..Len(q) /\ p[i] = q[i])
    BY <2>1, SMTT(60)
  <2>4. Len(p) <= QueueCap
    BY <1>0, <1>1, <2>2, SMTT(60)
  <2> QED BY <2>2, <2>3, <2>4 DEF QueueOf
<1>2. CASE ~(Len(q) < QueueCap)
  <2>1. p = Append(Tail(q), x)
    BY <1>2 DEF Queued
  <2>2. q # <<>>
    BY <1>0, <1>2, SMTT(60)
  <2>3. p \in Seq(Locals) /\ Len(p) = Len(q) /\ Len(q) \in Nat
    BY <2>1, <2>2, SMTT(60)
  <2>4. \A i \in 1..Len(p) : p[i] = x \/ (i + 1 \in 1..Len(q) /\ p[i] = q[i + 1])
    BY <2>1, <2>2, SMTT(60)
  <2>5. ASSUME NEW i \in 1..Len(p) PROVE p[i] = x \/ \E j \in 1..Len(q) : p[i] = q[j]
    BY <2>4
  <2> QED BY <2>3, <2>5, <1>0 DEF QueueOf
<1> QED BY <1>1, <1>2

(* Where the HEADERS of an answer went, and its trailers.                    *)
SentTo(x, st, to) == [x EXCEPT !.st = st, !.to = to]
DoneWith(x, rest) == [x EXCEPT !.st = "done", !.rest = rest]
LEMMA StreamPut ==
  ASSUME TypeOK, NEW l \in Locals, NEW t \in Ids
  PROVE  \A st : [sstream EXCEPT ![l][t].st = st] = [sstream EXCEPT ![l][t] = [sstream[l][t] EXCEPT !.st = st]]
BY DEF TypeOK, StreamState

LEMMA StreamSent ==
  ASSUME NEW x \in StreamState
  PROVE  /\ \A to \in Clients : LET y == SentTo(x, "headers", to) IN
              y \in StreamState /\ y.st # "none" /\ y.c = x.c /\ y.s = x.s
         /\ \A rest \in Clients \cup {Proxy} : LET y == DoneWith(x, rest) IN
              y \in StreamState /\ y.st # "none" /\ y.c = x.c /\ y.s = x.s
<1>1. ASSUME NEW to \in Clients
      PROVE  LET y == SentTo(x, "headers", to) IN y \in StreamState /\ y.st # "none" /\ y.c = x.c /\ y.s = x.s
  BY DEF StreamState, SentTo
<1>2. ASSUME NEW rest \in Clients \cup {Proxy}
      PROVE  LET y == DoneWith(x, rest) IN y \in StreamState /\ y.st # "none" /\ y.c = x.c /\ y.s = x.s
  BY DEF StreamState, DoneWith
<1> QED BY <1>1, <1>2

(* The stream at the client of a stream at a server.                         *)
LEMMA AnswerIs ==
  ASSUME HInv, NEW l \in Locals, NEW t \in Ids
  PROVE  /\ AnswerId(l, t) \in Ids
         /\ h2_streams[<<l, t>>] # NoStream => h2_streams[<<l, t>>][1] \in Hosts /\ h2_streams[<<l, t>>][2] \in Ids
<1>1. <<l, t>> \in Streams
  BY DEF Streams
<1>2. h2_streams[<<l, t>>] \in Streams \cup {NoStream}
  BY <1>1 DEF HInv, TypeOK
<1>3. h2_streams[<<l, t>>] # NoStream => h2_streams[<<l, t>>][1] \in Hosts /\ h2_streams[<<l, t>>][2] \in Ids
  BY <1>2 DEF Streams, HInv, InvStreams
<1> QED BY <1>3 DEF AnswerId

LEMMA UsHeadersInv == ASSUME OneClient, HInv, NEW l \in Locals, NEW t \in Ids, UsHeaders(l, t) PROVE HInv'
<1>1. TypeOK /\ InvSent /\ InvTasks /\ InvProg /\ InvConn
  BY DEF HInv
<1>2. /\ sstream[l][t].st = "ready"
      /\ fib_upstream' = Append(IF Len(fib_upstream) < QueueCap THEN fib_upstream ELSE Tail(fib_upstream), l)
      /\ UNCHANGED <<fib_downstream, utrn_wait_list, h2_conns, h2_streams, prog, up, sent, task, body, conn, inbox>>
  BY DEF UsHeaders, cp
<1>3. t \in Opened(l)
  BY <1>2 DEF Opened
<1>4. /\ Used(l) /\ ~Fresh(l)
      /\ sstream[l][t] \in StreamState /\ sstream[l][t].c \in Clients /\ sstream[l][t].s \in Ids
      /\ sstream \in [Locals -> [Ids -> StreamState]]
  BY <1>1, <1>3, OpenedUsed DEF TypeOK
<1>5. /\ fib_upstream' \in Seq(Locals) /\ Len(fib_upstream') <= QueueCap
      /\ \A i \in 1..Len(fib_upstream') : fib_upstream'[i] = l \/ \E j \in 1..Len(fib_upstream) : fib_upstream'[i] = fib_upstream[j]
  <2>1. fib_upstream \in Seq(Locals) /\ Len(fib_upstream) <= QueueCap
    BY <1>1 DEF TypeOK
  <2>2. fib_upstream' = Queued(fib_upstream, l)
    BY <1>2 DEF Queued
  <2>3. QueueOf(fib_upstream', fib_upstream, l)
    BY <2>1, <2>2, Enqueue
  <2> QED BY <2>3 DEF QueueOf
<1>6. PICK r : /\ r \in StreamState /\ r.st # "none" /\ r.c = sstream[l][t].c /\ r.s = sstream[l][t].s
               /\ sstream' = [sstream EXCEPT ![l][t] = r] /\ crx' \in [Clients -> SUBSET Frames]
  <2>1. PICK to : to = fib_downstream[l]
    OBVIOUS
  <2>2. to \in Clients \cup {NoAddr}
    BY <1>1, <2>1 DEF TypeOK
  <2>3. CASE Redirectable(to)
    <3>1. to \in Clients
      BY <2>2, <2>3, ToClient
    <3>2. PICK id \in Ids, c \in Clients, s \in Ids : id = AnswerId(l, t) /\ c = sstream[l][t].c /\ s = sstream[l][t].s
      BY <1>4, AnswerIs
    <3>3. PICK f \in Frames : f = Frame(id, "head", c, s, "data_plane")
      BY FrameType, SMTT(60)
    <3>4. /\ crx' = [crx EXCEPT ![to] = @ \cup {f}]
          /\ sstream' = [sstream EXCEPT ![l][t].st = "headers", ![l][t].to = to]
      BY <2>1, <2>3, <3>2, <3>3 DEF UsHeaders
    <3>5. sstream' = [sstream EXCEPT ![l][t] = SentTo(sstream[l][t], "headers", to)]
      BY <1>4, <3>4 DEF SentTo, StreamState
    <3>6. crx' \in [Clients -> SUBSET Frames]
      BY <1>1, <3>1, <3>4, CrxType
    <3>7. LET y == SentTo(sstream[l][t], "headers", to) IN
            y \in StreamState /\ y.st # "none" /\ y.c = sstream[l][t].c /\ y.s = sstream[l][t].s
      BY <1>4, <3>1, StreamSent
    <3> QED BY <3>5, <3>6, <3>7
  <2>4. CASE ~Redirectable(to)
    <3>1. sstream' = [sstream EXCEPT ![l][t].st = "done"] /\ UNCHANGED crx
      BY <2>1, <2>4 DEF UsHeaders
    <3>2. PICK r : r = [sstream[l][t] EXCEPT !.st = "done"]
      OBVIOUS
    <3>3. sstream' = [sstream EXCEPT ![l][t] = r]
      BY <1>1, <3>1, <3>2, StreamPut
    <3>4. r \in StreamState /\ r.st = "done" /\ r.c = sstream[l][t].c /\ r.s = sstream[l][t].s
      BY <1>4, <3>2, StreamAt
    <3>5. crx' \in [Clients -> SUBSET Frames]
      BY <1>1, <3>1 DEF TypeOK
    <3> QED BY <3>3, <3>4, <3>5
  <2> QED BY <2>3, <2>4
<1>7. sstream' \in [Locals -> [Ids -> StreamState]] /\ SameOpened /\ InvConn'
  BY <1>1, <1>2, <1>3, <1>6, StreamStep
<1>8. TypeOK'
  BY <1>1, <1>2, <1>5, <1>6, <1>7 DEF TypeOK
<1>9. InvSent' /\ Grow /\ SameProg /\ SameHeads /\ ConnKept /\ BoundKept
  BY <1>1, <1>2, FrameGrow, FrameSame
<1>10. InvTasks'
  <2>1. ASSUME NEW k \in Locals, Fresh(k) PROVE Fresh(k)'
    <3>1. k # l
      BY <1>4, <2>1
    <3>2. Heads(k)' = {} /\ Opened(k)' = {}
      BY <1>7, <1>9, <2>1 DEF Fresh, SameHeads, SameOpened
    <3>3. \A i \in 1..Len(fib_upstream') : fib_upstream'[i] # k
      BY <1>5, <2>1, <3>1 DEF Fresh
    <3> QED BY <1>2, <2>1, <3>2, <3>3 DEF Fresh
  <2> QED BY <1>1, <1>2, <1>9, <2>1, FrameTasks DEF StillFresh
<1>11. InvProg'
  <2>1. \A k : Used(k)' <=> Used(k)
    BY <1>2 DEF Used
  <2>2. ASSUME NEW i \in 1..Len(fib_upstream') PROVE Used(fib_upstream'[i])
    BY <1>1, <1>4, <1>5 DEF InvProg
  <2>3. \A i \in 1..Len(fib_upstream') : Used(fib_upstream[i])'
    BY <1>2, <2>2 DEF Used
  <2>4. \A c \in Clients : NextStream(c)' = NextStream(c)
    BY <1>1, <1>2, FrameSent
  <2> QED BY <1>1, <1>2, <2>3, <2>4 DEF InvProg, Used
<1> QED BY <1>2, <1>7, <1>8, <1>9, <1>10, <1>11, Quiet

LEMMA UsTrailersInv == ASSUME OneClient, HInv, NEW l \in Locals, NEW t \in Ids, UsTrailers(l, t) PROVE HInv'
<1>1. TypeOK /\ InvSent /\ InvTasks /\ InvConn
  BY DEF HInv
<1>2. /\ sstream[l][t].st \in {"ready", "headers"}
      /\ UNCHANGED <<maps, prog, up, sent, cp, conn, inbox>>
  BY DEF UsTrailers
<1>3. t \in Opened(l)
  BY <1>2 DEF Opened
<1>4. /\ sstream[l][t] \in StreamState /\ sstream[l][t].c \in Clients /\ sstream[l][t].s \in Ids
      /\ sstream \in [Locals -> [Ids -> StreamState]]
  BY <1>1, <1>3, OpenedUsed DEF TypeOK
<1>5. PICK r : /\ r \in StreamState /\ r.st # "none" /\ r.c = sstream[l][t].c /\ r.s = sstream[l][t].s
               /\ sstream' = [sstream EXCEPT ![l][t] = r] /\ crx' \in [Clients -> SUBSET Frames]
  <2>1. PICK m : m = h2_streams[<<l, t>>]
    OBVIOUS
  <2>2. PICK rest \in Clients \cup {Proxy} :
          /\ sstream' = [sstream EXCEPT ![l][t].st = "done", ![l][t].rest = rest]
          /\ crx' \in [Clients -> SUBSET Frames]
    <3>1. CASE m # NoStream /\ Redirectable(m[1])
      <4>1. m[1] \in Clients /\ m[2] \in Ids
        BY <2>1, <3>1, AnswerIs, ToClient
      <4>2. PICK to \in Clients, id \in Ids, c \in Clients, s \in Ids :
              to = m[1] /\ id = m[2] /\ c = sstream[l][t].c /\ s = sstream[l][t].s
        BY <1>4, <4>1
      <4>3. PICK f \in Frames : f = Frame(id, "trailers", c, s, "data_plane")
        BY FrameType, SMTT(60)
      <4>4. /\ crx' = [crx EXCEPT ![to] = @ \cup {f}]
            /\ sstream' = [sstream EXCEPT ![l][t].st = "done", ![l][t].rest = to]
        BY <2>1, <3>1, <4>2, <4>3 DEF UsTrailers
      <4>5. crx' \in [Clients -> SUBSET Frames]
        BY <1>1, <4>4, CrxType
      <4> QED BY <4>4, <4>5
    <3>2. CASE ~(m # NoStream /\ Redirectable(m[1]))
      <4>1. sstream' = [sstream EXCEPT ![l][t].st = "done", ![l][t].rest = Proxy] /\ UNCHANGED crx
        BY <2>1, <3>2 DEF UsTrailers
      <4>2. crx' \in [Clients -> SUBSET Frames]
        BY <1>1, <4>1 DEF TypeOK
      <4> QED BY <4>1, <4>2
    <3> QED BY <3>1, <3>2
  <2>3. sstream' = [sstream EXCEPT ![l][t] = DoneWith(sstream[l][t], rest)]
    BY <1>4, <2>2 DEF DoneWith, StreamState
  <2>4. LET y == DoneWith(sstream[l][t], rest) IN
          y \in StreamState /\ y.st # "none" /\ y.c = sstream[l][t].c /\ y.s = sstream[l][t].s
    BY <1>4, StreamSent
  <2> QED BY <2>2, <2>3, <2>4
<1>6. sstream' \in [Locals -> [Ids -> StreamState]] /\ SameOpened /\ InvConn'
  BY <1>1, <1>2, <1>3, <1>5, StreamStep
<1>7. TypeOK'
  BY <1>1, <1>2, <1>5, <1>6 DEF TypeOK, maps, cp
<1>8. InvSent' /\ Grow /\ SameProg /\ SameHeads
  BY <1>1, <1>2, FrameGrow, FrameSame
<1>9. InvTasks'
  BY <1>1, <1>2, <1>6, <1>8, CalmTasks, FrameTasks DEF maps, cp
<1> QED BY <1>2, <1>6, <1>7, <1>8, <1>9, Calm DEF maps

-----------------------------------------------------------------------------
(* The state of a task when it goes on, and when it has bound its socket.    *)
Pcs == {"send", "body", "response", "done"}
LastPcs == {"response", "done"}
Gone(x, p) == [x EXCEPT !.pc = p]
BoundTo(x, l) == [x EXCEPT !.pc = "connect", !.l = l]
TaskTo(c, id, p) == [task EXCEPT ![c][id].pc = p]
LEMMA TaskAt ==
  ASSUME NEW x \in TaskState
  PROVE  /\ \A p \in Pcs : LET y == Gone(x, p) IN
              y \in TaskState /\ y.pc = p /\ y.l = x.l /\ y.src = x.src
         /\ \A l \in Locals : LET y == BoundTo(x, l) IN
              y \in TaskState /\ y.pc = "connect" /\ y.l = l /\ y.src = x.src
<1>1. ASSUME NEW p \in Pcs
      PROVE  LET y == Gone(x, p) IN y \in TaskState /\ y.pc = p /\ y.l = x.l /\ y.src = x.src
  BY DEF TaskState, Gone, Pcs
<1>2. ASSUME NEW l \in Locals
      PROVE  LET y == BoundTo(x, l) IN y \in TaskState /\ y.pc = "connect" /\ y.l = l /\ y.src = x.src
  BY DEF TaskState, BoundTo
<1> QED BY <1>1, <1>2

(* What a task that goes on is afterwards.                                   *)
LEMMA TaskGoes ==
  ASSUME HInv, NEW c \in Clients, NEW id \in Ids, NEW p \in Pcs,
         task' = TaskTo(c, id, p)
  PROVE  /\ task' \in [Clients -> [Ids -> TaskState]]
         /\ task' = PutTask(c, id, Gone(task[c][id], p))
         /\ Gone(task[c][id], p).pc = p /\ Gone(task[c][id], p).l = task[c][id].l
         /\ Gone(task[c][id], p).src = task[c][id].src
<1>1. TypeOK
  BY DEF HInv
<1>2. PICK t : t = Gone(task[c][id], p)
  OBVIOUS
<1>3. task' = PutTask(c, id, t) /\ task[c][id] \in TaskState
  BY <1>1, <1>2, TaskIs DEF TaskTo, Gone, PutTask
<1>4. t \in TaskState /\ t.pc = p /\ t.l = task[c][id].l /\ t.src = task[c][id].src
  BY <1>2, <1>3, TaskAt
<1>5. task \in [Clients -> [Ids -> TaskState]]
  BY <1>1 DEF TypeOK
<1>6. task' \in [Clients -> [Ids -> TaskState]]
  BY <1>3, <1>4, <1>5, SMTT(60) DEF PutTask
<1> QED BY <1>2, <1>3, <1>4, <1>6

(* A task that has begun comes to its end or its next wait.                  *)
LEMMA TaskEnd ==
  ASSUME OneClient, HInv, NEW c \in Clients, NEW id \in Ids, task[c][id].pc # "none",
         NEW p \in LastPcs, task' = TaskTo(c, id, p),
         p = "response" => task[c][id].l \in Locals, UNCHANGED sent, StillFresh, ConnKept, BoundKept
  PROVE  InvTasks' /\ task' \in [Clients -> [Ids -> TaskState]] /\ InvSent' /\ Grow
<1>1. TypeOK /\ InvSent /\ InvTasks
  BY DEF HInv
<1>2. InvSent' /\ Grow
  BY <1>1, FrameGrow
<1>3. p \in Pcs
  BY DEF Pcs, LastPcs
<1>4. PICK t : /\ task' = PutTask(c, id, t) /\ t.pc = p /\ t.l = task[c][id].l
               /\ t.src = task[c][id].src
  <2>1. /\ task' = PutTask(c, id, Gone(task[c][id], p))
        /\ Gone(task[c][id], p).pc = p /\ Gone(task[c][id], p).l = task[c][id].l
        /\ Gone(task[c][id], p).src = task[c][id].src
    BY <1>3, TaskGoes
  <2> WITNESS Gone(task[c][id], p)
  <2> QED BY <2>1
<1>5. TaskInv(c, id)
  BY <1>1 DEF InvTasks
<1>6. id < NextStream(c)' /\ t.src \in Ids
  BY <1>1, <1>4, <1>5, FrameSent DEF TaskInv
<1>7. InvTasks'
  <2>1. t.pc \in {"new", "body", "response", "done"} /\ t.pc # "body" /\ (t.pc \in {"body", "response"} => t.l \in Locals)
    BY <1>4 DEF LastPcs
  <2> QED BY <1>2, <1>4, <1>6, <2>1, TaskOn
<1> QED BY <1>2, <1>3, <1>7, TaskGoes

LEMMA SendErrorType ==
  ASSUME OneClient, HInv, NEW c \in Clients, NEW id \in Ids, task[c][id].pc # "none", SendError(c, id)
  PROVE  crx' \in [Clients -> SUBSET Frames] /\ task' = TaskTo(c, id, "done")
<1>1. TypeOK /\ TaskInv(c, id)
  BY DEF HInv, InvTasks
<1>2. task[c][id].src \in Ids
  BY <1>1 DEF TaskInv
<1>3. PICK s \in Ids : s = task[c][id].src
  BY <1>2
<1>4. PICK f \in Frames : f = Frame(id, "error", c, s, "control_plane")
  BY FrameType, SMTT(60)
<1>5. CASE c \in up
  <2>1. crx' = [crx EXCEPT ![c] = @ \cup {f}]
    BY <1>3, <1>4, <1>5 DEF SendError
  <2> QED BY <1>1, <2>1, CrxType DEF SendError, TaskTo
<1>6. CASE c \notin up
  BY <1>1, <1>6 DEF SendError, TaskTo, TypeOK
<1> QED BY <1>5, <1>6

LEMMA TaskFailInv == ASSUME OneClient, HInv, NEW c \in Clients, NEW id \in Ids, TaskFail(c, id) PROVE HInv'
<1>1. TypeOK /\ InvConn
  BY DEF HInv
<1>2. /\ task[c][id].pc = "new" /\ utrn_wait_list' = utrn_wait_list \ {TokenOf(c, id)} /\ SendError(c, id)
      /\ UNCHANGED <<fib_upstream, fib_downstream, h2_conns, h2_streams, prog, up, sent, body, server>>
  BY DEF TaskFail
<1>3. crx' \in [Clients -> SUBSET Frames] /\ task' = TaskTo(c, id, "done")
  BY <1>2, SendErrorType
<1>4. SameProg /\ SameHeads /\ SameOpened /\ StillFresh /\ ConnKept /\ BoundKept
  BY <1>2, FrameSame, CalmTasks DEF server
<1>5. InvTasks' /\ task' \in [Clients -> [Ids -> TaskState]] /\ InvSent' /\ Grow
  <2>1. PICK p \in LastPcs : p = "done"
    BY DEF LastPcs
  <2>2. task[c][id].pc # "none" /\ task' = TaskTo(c, id, p) /\ ~(p = "response")
    BY <1>2, <1>3, <2>1
  <2> QED BY <1>2, <1>4, <2>2, TaskEnd
<1>6. TypeOK'
  BY <1>1, <1>2, <1>3, <1>5 DEF TypeOK, server
<1>7. InvConn'
  BY <1>1, <1>2, FrameConn DEF server
<1> QED BY <1>2, <1>4, <1>5, <1>6, <1>7, Calm DEF server

LEMMA TaskDeleteInv == ASSUME OneClient, HInv, NEW c \in Clients, NEW id \in Ids, TaskDelete(c, id) PROVE HInv'
<1>1. TypeOK /\ InvConn /\ TaskInv(c, id)
  BY DEF HInv, InvTasks
<1>2. /\ task[c][id].pc = "response" /\ fib_downstream' = [fib_downstream EXCEPT ![task[c][id].l] = NoAddr]
      /\ task' = TaskTo(c, id, "done")
      /\ UNCHANGED <<fib_upstream, utrn_wait_list, h2_conns, h2_streams, prog, client, body, server>>
  BY DEF TaskDelete, TaskTo
<1>3. fib_downstream' \in [Locals -> Clients \cup {NoAddr}]
  BY <1>1, <1>2 DEF TypeOK
<1>4. SameProg /\ SameHeads /\ SameOpened /\ StillFresh /\ ConnKept /\ BoundKept
  BY <1>2, FrameSame, CalmTasks DEF server
<1>5. InvTasks' /\ task' \in [Clients -> [Ids -> TaskState]] /\ InvSent' /\ Grow
  <2>1. PICK p \in LastPcs : p = "done"
    BY DEF LastPcs
  <2>2. task[c][id].pc # "none" /\ task' = TaskTo(c, id, p) /\ ~(p = "response") /\ UNCHANGED sent
    BY <1>2, <2>1 DEF client
  <2> QED BY <1>4, <2>2, TaskEnd
<1>6. TypeOK'
  BY <1>1, <1>2, <1>3, <1>5 DEF TypeOK, client, server
<1>7. InvConn'
  BY <1>1, <1>2, FrameConn DEF server
<1> QED BY <1>2, <1>4, <1>5, <1>6, <1>7, Calm DEF server

LEMMA OneIn == ASSUME OneClient, NEW id \in Ids PROVE 1 \in Ids /\ 1 <= id
<1>1. Ids = {i \in 1..LastId : i % 2 = 1} /\ LastId \in Nat /\ LastId >= 1
  BY OneIs
<1>2. 1 % 2 = 1
  BY SMTT(60)
<1>3. 1 \in 1..LastId
  BY <1>1, SMTT(60)
<1>4. id \in 1..LastId
  BY <1>1
<1>5. 1 <= id
  BY <1>1, <1>4, SMTT(60)
<1> QED BY <1>1, <1>2, <1>3, <1>5

LEMMA TaskBodyInv == ASSUME OneClient, HInv, NEW c \in Clients, NEW id \in Ids, TaskBody(c, id) PROVE HInv'
<1>1. TypeOK /\ InvConn /\ TaskInv(c, id)
  BY DEF HInv, InvTasks
<1>2. /\ task[c][id].pc = "body" /\ task' = TaskTo(c, id, "response")
      /\ UNCHANGED <<maps, prog, client, body, conn, sstream>>
  BY DEF TaskBody, TaskTo
<1>3. PICK l \in Locals : l = task[c][id].l /\ conn[l] \in {"est", "open", "closed"}
  BY <1>1, <1>2 DEF TaskInv
<1>4. inbox' \in [Locals -> Seq(Frames)] /\ SameHeads /\ InvConn'
  <2>1. CASE UNCHANGED inbox
    BY <1>1, <1>2, <2>1, FrameSame, FrameConn DEF TypeOK
  <2>2. CASE inbox' # inbox
    <3>1. body[c][id] # <<>> /\ Forward(c, id, "data", Head(body[c][id]))
      BY <2>2 DEF TaskBody
    <3>2. PICK s \in Ids : s = Head(body[c][id])
      <4>1. body \in [Clients -> [Ids -> Seq(Ids)]]
        BY <1>1 DEF TypeOK
      <4>2. body[c][id] \in Seq(Ids)
        BY <4>1
      <4> QED BY <3>1, <4>2, SMTT(60)
    <3>3. PICK n \in Ids : n = 1
      BY OneIn
    <3>4. PICK f \in Frames : f = Frame(n, "data", c, s, "control_plane") /\ f.kind = "data"
      BY FrameType, SMTT(60)
    <3>5. inbox' = [inbox EXCEPT ![l] = Append(@, f)]
      BY <1>3, <2>2, <3>1, <3>2, <3>3, <3>4 DEF Forward
    <3>6. f.kind \notin {"head", "bare"} /\ f.kind \in {"head", "data", "bare"} /\ conn[l] \notin {"free", "bound"}
      BY <1>3, <3>4
    <3>7. inbox' \in [Locals -> Seq(Frames)]
      BY <1>1, <3>5, AddFrame
    <3>8. SameHeads
      BY <1>1, <3>5, <3>6, AddOther
    <3>9. InvConn'
      BY <1>1, <1>2, <3>5, <3>6, AddConn
    <3> QED BY <3>7, <3>8, <3>9
  <2> QED BY <2>1, <2>2
<1>5. SameProg /\ SameOpened /\ StillFresh /\ ConnKept /\ BoundKept
  BY <1>2, <1>4, FrameSame, CalmTasks DEF maps
<1>6. InvTasks' /\ task' \in [Clients -> [Ids -> TaskState]] /\ InvSent' /\ Grow
  <2>1. PICK p \in LastPcs : p = "response"
    BY DEF LastPcs
  <2>2. task[c][id].pc # "none" /\ task' = TaskTo(c, id, p) /\ task[c][id].l \in Locals /\ UNCHANGED sent
    BY <1>2, <1>3, <2>1 DEF client
  <2> QED BY <1>5, <2>2, TaskEnd
<1>7. TypeOK'
  BY <1>1, <1>2, <1>4, <1>6 DEF TypeOK, maps, client
<1> QED BY <1>2, <1>4, <1>5, <1>6, <1>7, Calm DEF maps

-----------------------------------------------------------------------------
(* The steps of the one task that opens a connection.                        *)
LEMMA Opener ==
  ASSUME OneClient, HInv, UNCHANGED sent, NEW c \in Clients, NEW id \in Ids, NEW t,
         task' = PutTask(c, id, t), \A i \in Ids \ {id} : ~Opening(c, i), ConnKept, TaskInv(c, id)'
  PROVE  InvTasks' /\ InvSent' /\ Grow
<1>1. TypeOK /\ InvSent /\ InvTasks
  BY DEF HInv
<1>2. InvSent' /\ Grow
  BY <1>1, FrameGrow
<1>3. \A i \in Ids \ {id} : task'[c][i] = task[c][i]
  BY <1>1, TaskPut
<1>4. ASSUME NEW i \in Ids \ {id} PROVE TaskInv(c, i)'
  <2>1. TaskInv(c, i) /\ ~Opening(c, i) /\ task'[c][i] = task[c][i]
    BY <1>1, <1>3 DEF InvTasks
  <2> QED BY <1>1, <1>2, <2>1, FrameTask
<1>5. InvTasks'
  BY <1>1, <1>4, TaskStep
<1> QED BY <1>2, <1>5

LEMMA OnlyOpener ==
  ASSUME HInv, NEW c \in Clients, NEW id \in Ids, Opening(c, id)
  PROVE  /\ \A i \in Ids \ {id} : ~Opening(c, i)
         /\ TaskInv(c, id) /\ task[c][id].l \in Locals /\ Fresh(task[c][id].l)
         /\ task[c][id].src \in Ids /\ id < NextStream(c)
<1>1. InvTasks
  BY DEF HInv
<1>2. TaskInv(c, id)
  BY <1>1 DEF InvTasks
<1>3. \A i \in Ids \ {id} : ~Opening(c, i)
  BY <1>1 DEF InvTasks
<1> QED BY <1>2, <1>3 DEF TaskInv, Opening

LEMMA TaskConnectedInv ==
  ASSUME OneClient, HInv, NEW c \in Clients, NEW id \in Ids, TaskConnected(c, id) PROVE HInv'
<1>1. TypeOK /\ InvConn /\ InvProg /\ InvSent
  BY DEF HInv
<1>2. /\ task[c][id].pc = "connect" /\ task' = TaskTo(c, id, "send")
      /\ conn' = [conn EXCEPT ![task[c][id].l] = "est"]
      /\ UNCHANGED <<maps, prog, client, body, inbox, sstream>>
  BY DEF TaskConnected, TaskTo
<1>3. Opening(c, id)
  BY <1>2 DEF Opening
<1>4. PICK l \in Locals : l = task[c][id].l /\ Fresh(l) /\ conn[l] = "bound"
  BY <1>2, <1>3, OnlyOpener DEF TaskInv
<1>5. /\ conn' \in [Locals -> {"free", "bound", "est", "open", "closed"}]
      /\ conn'[l] = "est" /\ \A k \in Locals \ {l} : conn'[k] = conn[k]
  BY <1>1, <1>2, <1>4 DEF TypeOK
<1>6. SameProg /\ SameHeads /\ SameOpened
  BY <1>2, FrameSame
<1>7. StillFresh
  BY <1>2, <1>6, FrameFresh DEF maps
<1>8. ConnKept
  BY <1>4, <1>5 DEF ConnKept
<1>9. PICK p \in Pcs : p = "send"
  BY DEF Pcs
<1>10. PICK t : t = Gone(task[c][id], p)
  OBVIOUS
<1>11. /\ task' \in [Clients -> [Ids -> TaskState]] /\ task' = PutTask(c, id, t)
       /\ t.pc = "send" /\ t.l = l /\ t.src = task[c][id].src
  <2>1. task' = TaskTo(c, id, p)
    BY <1>2, <1>9
  <2>2. /\ task' \in [Clients -> [Ids -> TaskState]] /\ task' = PutTask(c, id, Gone(task[c][id], p))
        /\ Gone(task[c][id], p).pc = p /\ Gone(task[c][id], p).l = task[c][id].l
        /\ Gone(task[c][id], p).src = task[c][id].src
    BY <2>1, TaskGoes
  <2> QED BY <1>4, <1>9, <1>10, <2>2
<1>12. UNCHANGED sent /\ id < NextStream(c)'
  <2>1. UNCHANGED sent
    BY <1>2 DEF client
  <2> QED BY <1>1, <1>3, <2>1, FrameSent, OnlyOpener
<1>13. TaskInv(c, id)'
  <2>0. TypeOK /\ task' = PutTask(c, id, t)
    BY <1>1, <1>11
  <2>1. task'[c][id] = t
    BY <2>0, TaskPut
  <2>2. Fresh(l)'
    BY <1>4, <1>7 DEF StillFresh
  <2>3. t.src \in Ids
    BY <1>3, <1>11, OnlyOpener
  <2> QED BY <1>5, <1>11, <1>12, <2>1, <2>2, <2>3 DEF TaskInv
<1>14. InvTasks' /\ InvSent' /\ Grow
  BY <1>3, <1>8, <1>11, <1>12, <1>13, OnlyOpener, Opener
<1>15. TypeOK'
  BY <1>1, <1>2, <1>5, <1>11 DEF TypeOK, maps, client
<1>16. InvProg'
  <2>1. \A k \in Locals : conn[k] \in {"open", "closed"} => conn'[k] \in {"open", "closed"}
    BY <1>4, <1>5
  <2>2. StillUsed
    BY <1>2, <2>1, FrameUsed DEF maps
  <2> QED BY <1>1, <1>2, <1>6, <1>14, <2>2, FrameProg DEF maps
<1>17. InvConn'
  <2>1. ASSUME NEW k \in Locals PROVE ConnInv(k)'
    <3>1. ConnInv(k) /\ Opened(k)' = Opened(k)
      BY <1>1, <1>6 DEF InvConn, SameOpened
    <3>2. CASE k = l
      <4>1. Opened(k)' = {}
        BY <1>4, <3>1, <3>2 DEF Fresh
      <4> QED BY <1>2, <1>5, <3>1, <3>2, <4>1 DEF ConnInv
    <3>3. CASE k # l
      BY <1>2, <1>5, <3>1, <3>3 DEF ConnInv
    <3> QED BY <3>2, <3>3
  <2> QED BY <2>1 DEF InvConn
<1> QED BY <1>2, <1>6, <1>14, <1>15, <1>16, <1>17, Quiet DEF maps

(* A connection that is not yet established has nothing in it.               *)
LEMMA ConnMove ==
  ASSUME InvConn, NEW l \in Locals, conn[l] \in {"free", "bound"}, conn'[l] \in {"free", "bound", "est"},
         \A k \in Locals \ {l} : conn'[k] = conn[k], UNCHANGED <<inbox, sstream>>
  PROVE  /\ InvConn' /\ ConnKept /\ \A k \in Locals : conn[k] \in {"open", "closed"} => conn'[k] \in {"open", "closed"}
         /\ inbox[l] = <<>> /\ Opened(l) = {} /\ Heads(l) = {}
<1>1. ConnInv(l) /\ conn[l] # "open"
  BY DEF InvConn
<1>2. inbox[l] = <<>> /\ Opened(l) = {}
  BY <1>1 DEF ConnInv
<1>3. Heads(l) = {}
  <2>1. \A i : i \notin 1..Len(inbox[l])
    BY <1>2, SMTT(60)
  <2> QED BY <2>1 DEF Heads
<1>4. ASSUME NEW k \in Locals PROVE ConnInv(k)'
  <2>1. ConnInv(k) /\ Opened(k)' = Opened(k)
    BY FrameSame DEF InvConn, SameOpened
  <2>2. CASE k = l
    BY <1>2, <2>1, <2>2 DEF ConnInv
  <2>3. CASE k # l
    BY <2>1, <2>3 DEF ConnInv
  <2> QED BY <2>2, <2>3
<1>5. ConnKept
  BY DEF ConnKept
<1>6. \A k \in Locals : conn[k] \in {"open", "closed"} => conn'[k] \in {"open", "closed"}
  OBVIOUS
<1> QED BY <1>2, <1>3, <1>4, <1>5, <1>6 DEF InvConn

LEMMA TaskConnectFailInv ==
  ASSUME OneClient, HInv, NEW c \in Clients, NEW id \in Ids, TaskConnectFail(c, id) PROVE HInv'
<1>1. TypeOK /\ InvConn /\ InvProg /\ InvSent
  BY DEF HInv
<1>2. /\ task[c][id].pc = "connect" /\ SendError(c, id)
      /\ conn' = [conn EXCEPT ![task[c][id].l] = "free"]
      /\ UNCHANGED <<maps, prog, up, sent, body, inbox, sstream>>
  BY DEF TaskConnectFail
<1>3. Opening(c, id)
  BY <1>2 DEF Opening
<1>4. PICK l \in Locals : l = task[c][id].l /\ Fresh(l) /\ conn[l] = "bound"
  BY <1>2, <1>3, OnlyOpener DEF TaskInv
<1>5. /\ conn' \in [Locals -> {"free", "bound", "est", "open", "closed"}]
      /\ conn'[l] = "free" /\ \A k \in Locals \ {l} : conn'[k] = conn[k]
  BY <1>1, <1>2, <1>4 DEF TypeOK
<1>6. SameProg /\ SameHeads /\ SameOpened
  BY <1>2, FrameSame
<1>7. InvConn' /\ ConnKept /\ \A k \in Locals : conn[k] \in {"open", "closed"} => conn'[k] \in {"open", "closed"}
  BY <1>1, <1>2, <1>4, <1>5, ConnMove
<1>8. crx' \in [Clients -> SUBSET Frames] /\ task' = TaskTo(c, id, "done")
  BY <1>2, SendErrorType
<1>9. PICK p \in Pcs : p = "done"
  BY DEF Pcs
<1>10. PICK t : t = Gone(task[c][id], p)
  OBVIOUS
<1>11. /\ task' \in [Clients -> [Ids -> TaskState]] /\ task' = PutTask(c, id, t)
       /\ t.pc = "done" /\ t.src = task[c][id].src
  <2>1. task' = TaskTo(c, id, p)
    BY <1>8, <1>9
  <2>2. /\ task' \in [Clients -> [Ids -> TaskState]] /\ task' = PutTask(c, id, Gone(task[c][id], p))
        /\ Gone(task[c][id], p).pc = p /\ Gone(task[c][id], p).src = task[c][id].src
    BY <2>1, TaskGoes
  <2> QED BY <1>9, <1>10, <2>2
<1>12. TaskInv(c, id)'
  <2>0. TypeOK /\ task' = PutTask(c, id, t)
    BY <1>1, <1>11
  <2>1. task'[c][id] = t
    BY <2>0, TaskPut
  <2>2. t.src \in Ids /\ id < NextStream(c)
    BY <1>3, <1>11, OnlyOpener
  <2>3. id < NextStream(c)'
    BY <1>1, <1>2, <2>2, FrameSent
  <2> QED BY <1>11, <2>1, <2>2, <2>3 DEF TaskInv
<1>13. InvTasks' /\ InvSent' /\ Grow
  BY <1>2, <1>3, <1>7, <1>11, <1>12, OnlyOpener, Opener
<1>14. TypeOK'
  BY <1>1, <1>2, <1>5, <1>8, <1>11 DEF TypeOK, maps
<1>15. InvProg'
  <2>1. StillUsed
    BY <1>2, <1>7, FrameUsed DEF maps
  <2> QED BY <1>1, <1>2, <1>6, <1>13, <2>1, FrameProg DEF maps
<1> QED BY <1>2, <1>6, <1>7, <1>13, <1>14, <1>15, Quiet DEF maps

LEMMA TaskSendInv == ASSUME OneClient, HInv, NEW c \in Clients, NEW id \in Ids, TaskSend(c, id) PROVE HInv'
<1>1. TypeOK /\ InvConn /\ InvProg /\ InvSent /\ InvIds /\ InvStreams /\ InvBound /\ InvOrder
  BY DEF HInv
<1>2. /\ task[c][id].pc = "send"
      /\ fib_downstream' = [fib_downstream EXCEPT ![task[c][id].l] = c]
      /\ Forward(c, id, IF task[c][id].ended THEN "bare" ELSE "head", task[c][id].src)
      /\ UNCHANGED <<fib_upstream, utrn_wait_list, h2_conns, h2_streams, prog, client, body, conn, sstream>>
  BY DEF TaskSend
<1>3. Opening(c, id)
  BY <1>2 DEF Opening
<1>4. PICK l \in Locals : l = task[c][id].l /\ Fresh(l) /\ conn[l] \in {"est", "open", "closed"}
  BY <1>2, <1>3, OnlyOpener DEF TaskInv
<1>5. PICK p \in Pcs : task' = TaskTo(c, id, p) /\ p \in {"body", "done"}
  BY DEF TaskSend, TaskTo, Pcs
<1>6. PICK t : t = Gone(task[c][id], p)
  OBVIOUS
<1>7. /\ task' \in [Clients -> [Ids -> TaskState]] /\ task' = PutTask(c, id, t)
      /\ t.pc \in {"body", "done"} /\ t.l = l /\ t.src = task[c][id].src
  <2>1. /\ task' \in [Clients -> [Ids -> TaskState]] /\ task' = PutTask(c, id, Gone(task[c][id], p))
        /\ Gone(task[c][id], p).pc = p /\ Gone(task[c][id], p).l = task[c][id].l
        /\ Gone(task[c][id], p).src = task[c][id].src
    BY <1>5, TaskGoes
  <2> QED BY <1>4, <1>5, <1>6, <2>1
<1>8. UNCHANGED sent /\ t.src \in Ids /\ task[c][id].src \in Ids /\ id < NextStream(c)'
  <2>1. UNCHANGED sent /\ t.src \in Ids /\ task[c][id].src \in Ids /\ id < NextStream(c)
    BY <1>2, <1>3, <1>7, OnlyOpener DEF client
  <2> QED BY <1>1, <2>1, FrameSent
<1>9. TaskInv(c, id)'
  <2>0. TypeOK /\ task' = PutTask(c, id, t)
    BY <1>1, <1>7
  <2>1. task'[c][id] = t
    BY <2>0, TaskPut
  <2>2. conn'[l] \in {"est", "open", "closed"}
    BY <1>2, <1>4
  <2> QED BY <1>7, <1>8, <2>1, <2>2 DEF TaskInv
<1>10. SameProg /\ SameOpened /\ ConnKept
  BY <1>2, FrameSame
<1>11. InvTasks' /\ InvSent' /\ Grow
  BY <1>3, <1>7, <1>8, <1>9, <1>10, OnlyOpener, Opener
<1>12. InvIds' /\ InvStreams'
  BY <1>1, <1>2, <1>11, FrameIds, FrameStreams
<1>13. InvProg'
  BY <1>1, <1>2, <1>10, <1>11, FrameUsed, FrameProg
(* The connection's first request is stream 1, and no other can be before it. *)
<1>14. inbox' \in [Locals -> Seq(Frames)] /\ InvConn' /\ InvBound' /\ InvOrder'
  <2>1. CASE conn[l] = "closed"
    <3>1. UNCHANGED inbox
      BY <1>2, <1>4, <2>1 DEF Forward
    <3>2. SameHeads /\ inbox' \in [Locals -> Seq(Frames)] /\ InvConn'
      BY <1>1, <1>2, <3>1, FrameSame, FrameConn DEF TypeOK
    <3> QED BY <1>1, <1>2, <1>10, <3>2, FrameBound, FrameOrder
  <2>2. CASE conn[l] # "closed"
    <3>1. PICK k \in {"head", "bare"} : k = IF task[c][id].ended THEN "bare" ELSE "head"
      OBVIOUS
    <3>2. PICK s \in Ids, n \in Ids : s = task[c][id].src /\ n = 1
      BY <1>8, OneIn
    <3>3. PICK f \in Frames : f = Frame(n, k, c, s, "control_plane") /\ f.kind = k /\ f.id = n
      BY FrameType, SMTT(60)
    <3>4. inbox' = [inbox EXCEPT ![l] = Append(@, f)]
      BY <1>2, <1>4, <2>2, <3>1, <3>2, <3>3 DEF Forward
    <3>5. f.kind \in {"head", "bare"} /\ f.kind \in {"head", "data", "bare"} /\ conn[l] \notin {"free", "bound"}
      BY <1>4, <3>3
    <3>6. inbox' \in [Locals -> Seq(Frames)]
      BY <1>1, <3>4, AddFrame
    <3>7. InvConn'
      BY <1>1, <1>2, <3>4, <3>5, AddConn
    <3>8. /\ \A i \in Heads(l) : inbox[l][i].id < f.id
          /\ \A i \in Opened(l) : i < f.id
          /\ \A d \in Clients : ~Assigning(d, l)'
      BY <1>2, <1>4 DEF Fresh, Assigning
    <3>9. f.id <= h2_conns[l]
      <4>1. f.id = 1 /\ h2_conns[l] = 1
        BY <1>4, <3>2, <3>3 DEF Fresh
      <4> QED BY <4>1, SMTT(60)
    <3>10. InvBound' /\ InvOrder'
      BY <1>1, <1>2, <1>10, <3>4, <3>5, <3>8, <3>9, AddHeadInv
    <3> QED BY <3>6, <3>7, <3>10
  <2> QED BY <2>1, <2>2
<1>15. TypeOK'
  <2>1. fib_downstream' \in [Locals -> Clients \cup {NoAddr}]
    BY <1>1, <1>2, <1>4 DEF TypeOK
  <2> QED BY <1>1, <1>2, <1>7, <1>14, <2>1 DEF TypeOK, client
<1> QED BY <1>11, <1>12, <1>13, <1>14, <1>15 DEF HInv

LEMMA TaskBindInv ==
  ASSUME OneClient, HInv, NEW c \in Clients, NEW id \in Ids, NEW l \in Locals, TaskBind(c, id, l) PROVE HInv'
<1>1. TypeOK /\ InvConn /\ InvProg /\ InvSent /\ InvIds /\ InvTasks /\ InvBound /\ InvOrder
  BY DEF HInv
<1>2. /\ task[c][id].pc = "new" /\ ~Locked(c) /\ conn[l] = "free"
      /\ conn' = [conn EXCEPT ![l] = "bound"]
      /\ utrn_wait_list' = utrn_wait_list \ {TokenOf(c, id)}
      /\ h2_conns' = [h2_conns EXCEPT ![l] = 1]
      /\ h2_streams' = Assign(<<Seen[c], id>>, <<l, 1>>)
      /\ UNCHANGED <<fib_upstream, fib_downstream, prog, client, body, inbox, sstream>>
  BY DEF TaskBind
<1>3. TaskInv(c, id) /\ \A i \in Ids : ~Opening(c, i)
  BY <1>1, <1>2 DEF InvTasks, Locked, Opening
<1>4. id < NextStream(c) /\ task[c][id].src \in Ids
  BY <1>2, <1>3 DEF TaskInv
<1>5. UNCHANGED sent /\ \A d \in Clients : d = c
  BY <1>2, OneIs DEF client
<1>6. NextStream(c)' = NextStream(c) /\ InvSent' /\ Grow
  BY <1>1, <1>5, FrameSent, FrameGrow
<1>7. 1 \in Ids /\ 1 < NextStream(c)
  <2>1. 1 \in Ids /\ 1 <= id /\ id \in Nat /\ NextStream(c) \in Nat
    BY <1>1, OneIn, OneIs, Numbers
  <2>2. 1 < NextStream(c)
    BY <1>4, <2>1, SMTT(60)
  <2> QED BY <2>1, <2>2
<1>8. /\ conn' \in [Locals -> {"free", "bound", "est", "open", "closed"}]
      /\ conn'[l] = "bound" /\ \A k \in Locals \ {l} : conn'[k] = conn[k]
  BY <1>1, <1>2 DEF TypeOK
<1>9. /\ h2_conns' \in [Locals -> Ids \cup {0}]
      /\ h2_conns'[l] = 1 /\ \A k \in Locals \ {l} : h2_conns'[k] = h2_conns[k]
  <2>1. h2_conns \in [Locals -> Ids \cup {0}]
    BY <1>1 DEF TypeOK
  <2> QED BY <1>2, <1>7, <2>1
<1>10. /\ InvConn' /\ ConnKept /\ (\A k \in Locals : conn[k] \in {"open", "closed"} => conn'[k] \in {"open", "closed"})
       /\ Opened(l) = {} /\ Heads(l) = {}
  BY <1>1, <1>2, <1>8, ConnMove
<1>11. SameProg /\ SameHeads /\ SameOpened
  BY <1>2, FrameSame
(* Nobody has used this local address: it is neither queued nor routed to.   *)
<1>12. ~Used(l)
  BY <1>2 DEF Used
<1>13. /\ \A i \in 1..Len(fib_upstream) : fib_upstream[i] # l
       /\ \A d \in Clients : prog[d].l # l
  <2>1. \A i \in 1..Len(fib_upstream) : fib_upstream[i] # l
    BY <1>1, <1>12 DEF InvProg
  <2>2. ASSUME NEW d \in Clients PROVE prog[d].l # l
    <3>1. CASE prog[d] = Idle
      BY <3>1, IdleL
    <3>2. CASE prog[d] # Idle
      BY <1>1, <1>12, <3>2 DEF InvProg
    <3> QED BY <3>1, <3>2
  <2> QED BY <2>1, <2>2
<1>14. Fresh(l)'
  <2>1. Heads(l)' = {} /\ Opened(l)' = {}
    BY <1>10, <1>11 DEF SameHeads, SameOpened
  <2> QED BY <1>2, <1>9, <1>13, <2>1 DEF Fresh
<1>15. PICK t : t = BoundTo(task[c][id], l)
  OBVIOUS
<1>16. task' = PutTask(c, id, t)
  <2>1. task \in [Clients -> [Ids -> TaskState]] /\ task[c][id] \in TaskState
    BY <1>1, TaskIs DEF TypeOK
  <2>2. task' = [task EXCEPT ![c][id].pc = "connect", ![c][id].l = l]
    BY DEF TaskBind
  <2> QED BY <1>15, <2>1, <2>2 DEF PutTask, BoundTo, TaskState
<1>17. t \in TaskState /\ t.pc = "connect" /\ t.l = l /\ t.src = task[c][id].src
  BY <1>1, <1>15, TaskIs, TaskAt
<1>18. task' \in [Clients -> [Ids -> TaskState]]
  <2>1. task \in [Clients -> [Ids -> TaskState]] /\ t \in TaskState
    BY <1>1, <1>17 DEF TypeOK
  <2> QED BY <1>16, <2>1, SMTT(60) DEF PutTask
<1>19. InvTasks'
  <2>0. TypeOK /\ task' = PutTask(c, id, t)
    BY <1>1, <1>16
  <2>1. task'[c][id] = t
    BY <2>0, TaskPut
  <2>2. t.src \in Ids /\ id < NextStream(c)'
    BY <1>4, <1>6, <1>17
  <2>3. TaskInv(c, id)'
    BY <1>8, <1>14, <1>17, <2>1, <2>2 DEF TaskInv
  <2> QED BY <1>3, <1>5, <1>10, <1>16, <2>3, Opener
<1>20. InvIds'
  <2>1. ASSUME NEW k \in Locals PROVE h2_conns'[k] < NextStream(c)'
    <3>1. CASE k = l
      BY <1>6, <1>7, <1>9, <3>1
    <3>2. CASE k # l
      BY <1>1, <1>6, <1>9, <3>2 DEF InvIds
    <3> QED BY <3>1, <3>2
  <2> QED BY <1>5, <2>1 DEF InvIds
<1>21. InvStreams' /\ h2_streams' \in [Streams -> Streams \cup {NoStream}]
  <2>1. Seen[c] \in Hosts /\ \A d \in Clients : id < NextStream(d)
    BY <1>4, <1>5, H2Assumption DEF Hosts
  <2> QED BY <1>2, <1>5, <1>7, <2>1, AssignInv
<1>22. InvProg'
  <2>1. ASSUME NEW k \in Locals, Used(k) PROVE Used(k)'
    <3>1. k # l
      BY <1>12, <2>1
    <3> QED BY <1>8, <1>9, <2>1, <3>1 DEF Used
  <2> QED BY <1>1, <1>2, <1>6, <1>11, <2>1, FrameProg DEF StillUsed
<1>23. InvBound'
  <2>1. ASSUME NEW k \in Locals PROVE BoundInv(k)'
    <3>1. BoundInv(k) /\ Heads(k)' = Heads(k) /\ Opened(k)' = Opened(k)
      BY <1>1, <1>11 DEF InvBound, SameHeads, SameOpened
    <3>2. CASE k = l
      BY <1>10, <3>1, <3>2 DEF BoundInv
    <3>3. CASE k # l
      <4>1. \A n : Below(k, n)' <=> Below(k, n)
        BY <1>2, <1>9, <3>3 DEF Below, Assigning
      <4>2. \A i \in Heads(k) : Below(k, inbox[k][i].id)'
        BY <1>2, <1>9, <3>1, <3>3 DEF BoundInv, Below, Assigning
      <4> QED BY <3>1, <4>1, <4>2 DEF BoundInv
    <3> QED BY <3>2, <3>3
  <2> QED BY <2>1 DEF InvBound
<1>24. InvOrder'
  BY <1>1, <1>11, FrameOrder
<1>25. TypeOK'
  <2>1. utrn_wait_list' \in SUBSET (Hosts \X Ids)
    BY <1>1, <1>2 DEF TypeOK
  <2> QED BY <1>1, <1>2, <1>8, <1>9, <1>18, <1>21, <2>1 DEF TypeOK, client
<1> QED BY <1>6, <1>10, <1>19, <1>20, <1>21, <1>22, <1>23, <1>24, <1>25 DEF HInv

-----------------------------------------------------------------------------
(* At the start nothing is open, bound or assigned.                          *)
LEMMA InitInv == ASSUME OneClient, Init PROVE HInv
<1>1. TypeOK
  <2>1. <<>> \in Seq(Locals) /\ <<>> \in Seq(Frames) /\ <<>> \in Seq(Ids) /\ Len(<<>>) <= QueueCap
    BY H2Assumption, SMTT(60)
  <2>2. NoTask \in TaskState
    BY DEF NoTask, TaskState
  <2>3. Idle \in ProgState /\ NotOpen \in StreamState
    BY IdleType, NotOpenType
  <2> QED BY <2>1, <2>2, <2>3 DEF Init, TypeOK
<1>2. 1 \in Ids /\ \A i \in Ids : i \in Nat /\ ~(i < 1)
  <2>1. Ids = {i \in 1..LastId : i % 2 = 1} /\ LastId \in Nat /\ LastId >= 1
    BY OneIs
  <2>2. 1 \in 1..LastId /\ 1 % 2 = 1
    BY <2>1, SMTT(60)
  <2>3. ASSUME NEW i \in Ids PROVE i \in Nat /\ ~(i < 1)
    <3>1. i \in 1..LastId
      BY <2>1
    <3> QED BY <2>1, <3>1, SMTT(60)
  <2> QED BY <2>1, <2>2, <2>3
<1>3. ASSUME NEW c \in Clients PROVE NextStream(c) = 1
  <2>1. \A i \in Ids : sent[c][i] # "no" <=> i < 1
    BY <1>2 DEF Init
  <2> QED BY <1>2, <2>1, FirstUnused DEF NextStream
<1>4. InvSent
  BY <1>2, <1>3 DEF Init, InvSent
<1>5. InvIds
  <2>1. 0 < 1
    BY SMTT(60)
  <2> QED BY <1>3, <2>1 DEF Init, InvIds
<1>6. InvStreams
  <2>1. \A x \in Hosts \cup Locals, i \in Ids : h2_streams[<<x, i>>] = NoStream
    BY DEF Init, Streams
  <2> QED BY <2>1 DEF InvStreams, Hosts
<1>7. \A c \in Clients, i \in Ids : task[c][i].pc = "none"
  BY DEF Init, NoTask
<1>8. InvTasks
  BY <1>7 DEF InvTasks, TaskInv, Opening
<1>9. \A i : i \notin 1..Len(<<>>)
  BY SMTT(60)
<1>10. InvProg
  BY <1>9 DEF InvProg, Init
<1>11. \A l \in Locals : Heads(l) = {} /\ Opened(l) = {} /\ inbox[l] = <<>>
  BY <1>9, NotOpenType DEF Heads, Opened, Init
<1>12. InvConn /\ InvBound /\ InvOrder
  BY <1>9, <1>11 DEF InvConn, ConnInv, InvBound, BoundInv, InvOrder, OrderInv
<1> QED BY <1>1, <1>4, <1>5, <1>6, <1>8, <1>10, <1>12 DEF HInv

LEMMA TaskInvStep == ASSUME OneClient, HInv, NEW c \in Clients, NEW id \in Ids, Task(c, id) PROVE HInv'
BY TaskFailInv, TaskBindInv, TaskConnectedInv, TaskConnectFailInv, TaskSendInv, TaskBodyInv, TaskDeleteInv
   DEF Task

(* Every step of the data plane, the control plane and the servers.          *)
LEMMA NextInv == ASSUME OneClient, HInv, Next PROVE HInv'
<1>1. ASSUME NEW c \in Clients,
             \/ Preface(c) \/ GiveUp(c) \/ DsDrop(c) \/ DsHeaders(c) \/ DsAssign(c) \/ DsUturn(c) \/ DsBare(c)
      PROVE  HInv'
  BY <1>1, PrefaceInv, DsDropInv, DsHeadersInv, DsAssignInv, DsUturnInv, DsBareInv
<1>2. ASSUME NEW c \in Clients, NEW s \in Ids, DsData(c, s) \/ Task(c, s) PROVE HInv'
  BY <1>2, DsDataInv, TaskInvStep
<1>3. ASSUME NEW l \in Locals, ServerRead(l) \/ ConnClose(l) \/ Established(l) PROVE HInv'
  BY <1>3, ServerReadInv, ConnCloseInv, EstablishedInv
<1>4. ASSUME NEW l \in Locals, NEW t \in Ids, UsHeaders(l, t) \/ UsTrailers(l, t) PROVE HInv'
  BY <1>4, UsHeadersInv, UsTrailersInv
<1> QED BY <1>1, <1>2, <1>3, <1>4 DEF Next

LEMMA StutterInv == ASSUME OneClient, HInv, UNCHANGED vars PROVE HInv'
<1>1. UNCHANGED <<maps, prog, client, cp, server>>
  BY DEF vars
<1>2. TypeOK /\ InvSent
  BY DEF HInv
<1>3. TypeOK'
  BY <1>1, <1>2 DEF TypeOK, maps, client, cp, server
<1>4. InvSent' /\ Grow
  BY <1>1, <1>2, FrameGrow DEF client
<1> QED BY <1>1, <1>3, <1>4, Still DEF maps, cp, server

(* The invariant says that ids increase.                                     *)
LEMMA InvIncreasing == ASSUME HInv PROVE IncreasingIds
<1>1. InvOrder
  BY DEF HInv
<1>2. ASSUME NEW l \in Locals, NEW i \in 1..Len(inbox[l]), inbox[l][i].kind \in {"head", "bare"}
      PROVE  /\ \A t \in Ids : sstream[l][t].st # "none" => t < inbox[l][i].id
             /\ \A j \in 1..(i - 1) : inbox[l][j].kind \in {"head", "bare"} => inbox[l][j].id < inbox[l][i].id
  <2>1. OrderInv(l) /\ i \in Heads(l)
    BY <1>1, <1>2 DEF InvOrder, Heads
  <2>2. \A t \in Ids : sstream[l][t].st # "none" => t < inbox[l][i].id
    BY <2>1 DEF OrderInv, Opened
  <2>3. Len(inbox[l]) \in Nat
    <3>1. inbox[l] \in Seq(Frames)
      BY DEF HInv, TypeOK
    <3> QED BY <3>1, SMTT(60)
  <2>4. ASSUME NEW j \in 1..(i - 1), inbox[l][j].kind \in {"head", "bare"} PROVE inbox[l][j].id < inbox[l][i].id
    <3>1. j \in 1..Len(inbox[l]) /\ j < i
      BY <2>3, SMTT(60)
    <3>2. j \in Heads(l)
      BY <2>4, <3>1 DEF Heads
    <3> QED BY <2>1, <3>1, <3>2 DEF OrderInv
  <2> QED BY <2>2, <2>4
<1> QED BY <1>2 DEF IncreasingIds

(* With one client HInv holds in every state.                                *)
LEMMA OneClientInv == OneClient => (Spec => []HInv)
<1> SUFFICES ASSUME OneClient PROVE Spec => []HInv
  OBVIOUS
<1>1. Init => HInv
  BY InitInv
<1>2. HInv /\ [Next]_vars => HInv'
  BY NextInv, StutterInv
<1> QED BY <1>1, <1>2, PTL DEF Spec

(* With one client every map, the state of process_msg, the tasks of the     *)
(* control plane and the servers' streams keep their types: no id leaves the *)
(* ids a connection has, although process_msg increases it with every        *)
(* HEADERS it forwards.                                                      *)
THEOREM OneClientTypes == OneClient => (Spec => []TypeOK)
<1>1. HInv => TypeOK
  BY DEF HInv
<1> QED BY <1>1, OneClientInv, PTL

(* With one client the requests on an upstream connection come with growing  *)
(* stream ids: its server never sees HEADERS on a stream id that is not new, *)
(* whoever of process_msg and the control plane sent them.                   *)
THEOREM OneClientIncreasingIds == OneClient => (Spec => []IncreasingIds)
<1>1. HInv => IncreasingIds
  BY InvIncreasing
<1> QED BY <1>1, OneClientInv, PTL
=============================================================================

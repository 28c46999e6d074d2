---------------------------- MODULE H2Answer_proof ----------------------------
(***************************************************************************)
(* With one client the answers that process_msg sends it: the rest of an   *)
(* answer goes where its HEADERS went, and until an upstream connection is *)
(* closed every answer is that of the stream it comes on.  AInv is         *)
(* preserved by every step from a state with HInv.                         *)
(***************************************************************************)
EXTENDS H2Proxy_proof

(* Most steps are first-order: Zenon, unless a step asks for the SMT solver.  *)
USE ZenonT(20)

-----------------------------------------------------------------------------
(* What a step can leave as it is: a closed connection stays closed, streams *)
(* stay those of their requests, no client comes, and no task is new, opens  *)
(* a connection or has another request than before.                          *)
StayClosed == NoneClosed' => NoneClosed
SameAsked == \A l \in Locals : \A t \in Opened(l) : sstream'[l][t].s = sstream[l][t].s
NoneComes == \A c \in up' : c \in up
TaskKept(c, id) ==
  LET x == task[c][id]
      y == task'[c][id]
  IN  /\ y.pc # "none" => x.pc # "none" /\ y.src = x.src
      /\ y.pc = "new" => x.pc = "new"
      /\ y.pc \in {"connect", "send"} => x.pc \in {"connect", "send"} /\ y.l = x.l
TasksKept == \A c \in Clients, id \in Ids : TaskKept(c, id)

LEMMA FrameStay ==
  /\ UNCHANGED conn => StayClosed
  /\ UNCHANGED sstream => SameAsked /\ SameOpened
  /\ UNCHANGED up => NoneComes
  /\ UNCHANGED task => TasksKept
<1>1. UNCHANGED conn => StayClosed
  BY DEF StayClosed, NoneClosed
<1>2. UNCHANGED sstream => SameAsked /\ SameOpened
  BY FrameSame DEF SameAsked
<1>3. UNCHANGED task => TasksKept
  BY DEF TasksKept, TaskKept
<1> QED BY <1>1, <1>2, <1>3 DEF NoneComes

LEMMA FrameNames ==
  ASSUME UNCHANGED h2_streams, StayClosed, NEW l, NEW t, NEW s, Names(l, t, s) PROVE Names(l, t, s)'
BY DEF Names, StayClosed

LEMMA FrameHeads == ASSUME InvHeads, UNCHANGED h2_streams, StayClosed, SameHeads PROVE InvHeads'
<1>1. ASSUME NEW l \in Locals, NEW i \in Heads(l)' PROVE Names(l, inbox[l][i].id, inbox[l][i].s)'
  <2>1. i \in Heads(l) /\ inbox'[l][i] = inbox[l][i]
    BY <1>1 DEF SameHeads
  <2>2. Names(l, inbox[l][i].id, inbox[l][i].s)
    BY <2>1 DEF InvHeads
  <2> QED BY <2>1, <2>2 DEF Names, StayClosed
<1> QED BY <1>1 DEF InvHeads

LEMMA FrameOpened ==
  ASSUME InvOpened, UNCHANGED h2_streams, StayClosed, SameOpened, SameAsked PROVE InvOpened'
BY DEF InvOpened, Names, StayClosed, SameOpened, SameAsked

LEMMA FrameOpening == ASSUME InvOpening, UNCHANGED h2_streams, StayClosed, TasksKept PROVE InvOpening'
<1>1. ASSUME NEW c \in Clients, NEW id \in Ids, Opening(c, id)' PROVE Names(task[c][id].l, 1, id)'
  <2>1. Opening(c, id) /\ task'[c][id].l = task[c][id].l
    BY <1>1 DEF Opening, TasksKept, TaskKept
  <2>2. Names(task[c][id].l, 1, id)
    BY <2>1 DEF InvOpening
  <2> QED BY <2>1, <2>2 DEF Names, StayClosed
<1> QED BY <1>1 DEF InvOpening

LEMMA FrameOwn == ASSUME InvOwn, UNCHANGED h2_streams PROVE InvOwn'
BY DEF InvOwn, OwnAddresses

LEMMA FrameRest == ASSUME InvRest, UNCHANGED sstream PROVE InvRest'
BY DEF InvRest

LEMMA FrameTogether == ASSUME InvTogether, UNCHANGED sstream, NoneComes PROVE InvTogether'
BY DEF InvTogether, AnswerStaysTogether, OwnAddresses, NoneComes

LEMMA FrameInvSame == ASSUME HInv, InvSame, StayClosed, SameProg, TasksKept PROVE InvSame'
<1>1. ASSUME NoneClosed', NEW c \in Clients, prog'[c] # Idle
      PROVE  /\ prog'[c].sid = prog'[c].s /\ task'[c][prog'[c].sid].pc = "none"
             /\ prog'[c].uturn => prog'[c].l = NoAddr
  <2>1. prog'[c] = prog[c] /\ NoneClosed
    BY <1>1 DEF SameProg, StayClosed
  <2>2. /\ prog[c].sid = prog[c].s /\ task[c][prog[c].sid].pc = "none"
        /\ prog[c].uturn => prog[c].l = NoAddr
    BY <1>1, <2>1 DEF InvSame
  <2>3. prog[c].sid \in Ids
    BY <1>1, <2>1 DEF HInv, InvProg
  <2>4. task'[c][prog[c].sid].pc = "none"
    BY <2>2, <2>3 DEF TasksKept, TaskKept
  <2> QED BY <2>1, <2>2, <2>4
<1>2. ASSUME NoneClosed', NEW c \in Clients, NEW id \in Ids, task'[c][id].pc # "none" PROVE task'[c][id].src = id
  <2>1. task[c][id].pc # "none" /\ task'[c][id].src = task[c][id].src
    BY <1>2 DEF TasksKept, TaskKept
  <2> QED BY <1>2, <2>1 DEF InvSame, StayClosed
<1> QED BY <1>1, <1>2 DEF InvSame

LEMMA PairIs == ASSUME NEW A, NEW B, NEW m \in A \X B PROVE m[2] \in B /\ m = <<m[1], m[2]>>
BY SMTT(60)

LEMMA LessThan == ASSUME NEW i \in Nat, NEW j \in Nat, NEW k \in Nat, i <= j, j < k PROVE i < k
BY SMTT(60)

(* The stream at the client of a stream at a server.                         *)
LEMMA BackIs ==
  ASSUME HInv, NEW l \in Locals, NEW t \in Ids, NEW m, m = h2_streams[<<l, t>>], m # NoStream
  PROVE  m \in Streams /\ m[1] \in Hosts /\ m[2] \in Ids /\ m = <<m[1], m[2]>>
<1>1. <<l, t>> \in Streams
  BY DEF Streams
<1>2. m \in Streams
  BY <1>1 DEF HInv, TypeOK
<1>3. m[2] \in Ids /\ m = <<m[1], m[2]>>
  BY <1>2, PairIs DEF Streams
<1>4. m[1] \in Hosts
  BY AnswerIs
<1> QED BY <1>2, <1>3, <1>4

LEMMA FrameSettled ==
  ASSUME OneClient, HInv, InvSent', Grow, SameProg, TasksKept, NEW m, m[2] \in Ids, Settled(m)
  PROVE  Settled(m)'
<1>1. ASSUME NEW c \in Clients PROVE m[2] < NextStream(c)'
  <2>1. PICK n \in Nat : n = m[2]
    BY OneIs
  <2> QED BY <2>1, StillBelow DEF Settled, HInv
<1>2. ASSUME NEW c \in Clients, prog'[c] # Idle PROVE m[2] # prog'[c].sid
  BY <1>2 DEF SameProg, Settled
<1>3. ASSUME NEW c \in Clients PROVE task'[c][m[2]].pc # "new"
  BY DEF Settled, TasksKept, TaskKept
<1> QED BY <1>1, <1>2, <1>3 DEF Settled

(* What h2_streams has is left there.                                        *)
LEMMA BackStep ==
  ASSUME HInv, InvBack, UNCHANGED h2_streams, StayClosed,
         \A m : NoneClosed /\ m[2] \in Ids /\ Settled(m) => Settled(m)'
  PROVE  InvBack'
<1>1. ASSUME NoneClosed', NEW l \in Locals, NEW t \in Ids, h2_streams[<<l, t>>] # NoStream
      PROVE  Settled(h2_streams[<<l, t>>])' /\ h2_streams[h2_streams[<<l, t>>]] = <<l, t>>
  <2>1. PICK m : m = h2_streams[<<l, t>>]
    OBVIOUS
  <2>2. NoneClosed /\ Settled(m) /\ h2_streams[m] = <<l, t>>
    BY <1>1, <2>1 DEF InvBack, StayClosed
  <2>3. m[2] \in Ids
    BY <1>1, <2>1, BackIs
  <2>4. Settled(m)'
    BY <2>2, <2>3
  <2> QED BY <2>1, <2>2, <2>4 DEF Settled
<1> QED BY <1>1 DEF InvBack

LEMMA FrameBack ==
  ASSUME OneClient, HInv, InvSent', InvBack, UNCHANGED h2_streams, StayClosed, Grow, SameProg, TasksKept
  PROVE  InvBack'
<1>1. ASSUME NEW m, m[2] \in Ids, Settled(m) PROVE Settled(m)'
  BY <1>1, FrameSettled
<1> QED BY <1>1, BackStep

LEMMA FrameAnswer == ASSUME AnswerWhileOpen, UNCHANGED crx, StayClosed PROVE AnswerWhileOpen'
BY DEF AnswerWhileOpen, AnswerToRequest, StayClosed

(* A step that does not assign, and adds nothing to what the servers and the *)
(* control plane have.                                                       *)
LEMMA KeepsRest ==
  ASSUME OneClient, HInv, HInv', AInv, UNCHANGED <<h2_streams, sstream>>, Grow, StayClosed, SameProg,
         NoneComes, TasksKept, InvHeads', AnswerWhileOpen'
  PROVE  AInv'
<1>1. /\ InvOpened /\ InvOpening /\ InvRest /\ InvOwn /\ InvTogether
      /\ InvSame /\ InvBack
  BY DEF AInv
<1>2. SameAsked /\ SameOpened /\ InvSent'
  BY FrameStay DEF HInv
<1>3. InvOpened' /\ InvOpening'
  BY <1>1, <1>2, FrameOpened, FrameOpening
<1>4. InvRest' /\ InvOwn' /\ InvTogether'
  BY <1>1, FrameRest, FrameOwn, FrameTogether
<1>5. InvSame' /\ InvBack'
  BY <1>1, <1>2, FrameInvSame, FrameBack
<1> QED BY <1>3, <1>4, <1>5 DEF AInv

LEMMA Keeps ==
  ASSUME OneClient, HInv, HInv', AInv, UNCHANGED <<h2_streams, sstream>>, Grow, StayClosed, SameProg,
         SameHeads, NoneComes, TasksKept, AnswerWhileOpen'
  PROVE  AInv'
<1>1. InvHeads'
  BY FrameHeads DEF AInv
<1> QED BY <1>1, KeepsRest

-----------------------------------------------------------------------------
(* A client comes before it has sent anything, so no server has anything     *)
(* that is for it.                                                           *)
LEMMA PrefaceAnswer ==
  ASSUME OneClient, HInv, HInv', AInv, NEW c \in Clients, Preface(c) \/ GiveUp(c) PROVE AInv'
<1>1. UNCHANGED <<maps, prog, sent, crx, cp, server>>
  BY DEF Preface, GiveUp
<1>2. StayClosed /\ TasksKept /\ SameHeads /\ SameProg /\ Grow
  BY <1>1, FrameStay, FrameSame, FrameGrow DEF HInv, cp, server
<1>3. AnswerWhileOpen'
  BY <1>1, <1>2, FrameAnswer DEF AInv
<1>4. CASE GiveUp(c)
  <2>1. NoneComes
    BY <1>4 DEF GiveUp, NoneComes
  <2> QED BY <1>1, <1>2, <1>3, <2>1, Keeps DEF maps, server
<1>5. CASE Preface(c)
  <2>1. \A i \in Ids : sent[c][i] = "no"
    BY <1>5 DEF Preface
  <2>2. ASSUME NEW l \in Locals, NEW t \in Opened(l) PROVE FALSE
    <3>1. t \in Ids /\ BoundInv(l) /\ h2_conns[l] < NextStream(c) /\ ~(t < NextStream(c))
      BY <2>1 DEF Opened, HInv, InvBound, InvIds, InvSent
    <3>2. t <= h2_conns[l]
      BY <3>1 DEF BoundInv, Below
    <3>3. h2_conns[l] \in Ids \cup {0}
      BY DEF HInv, TypeOK
    <3>4. t \in Nat /\ h2_conns[l] \in Nat /\ NextStream(c) \in Nat
      BY <3>1, <3>3, OneIs, Numbers DEF HInv
    <3> QED BY <3>1, <3>2, <3>4, LessThan
  <2>3. ASSUME NEW l \in Locals, NEW t \in Ids PROVE sstream[l][t].to = NoAddr
    <3>1. sstream[l][t].st = "none"
      BY <2>2 DEF Opened
    <3>2. RestInv(sstream[l][t])
      BY DEF AInv, InvRest
    <3> QED BY <3>1, <3>2 DEF RestInv
  <2>4. NoAddr \notin up'
    <3>1. up' \in SUBSET Clients
      BY DEF HInv, TypeOK
    <3> QED BY <3>1, H2AddrAssumption
  <2>5. InvTogether'
    BY <1>1, <2>3, <2>4 DEF InvTogether, AnswerStaysTogether, server
  <2>6. /\ InvHeads /\ InvOpened /\ InvOpening /\ InvRest /\ InvOwn /\ InvSame /\ InvBack
        /\ UNCHANGED <<h2_streams, sstream>> /\ SameAsked /\ SameOpened /\ InvSent'
    BY <1>1, FrameStay DEF AInv, HInv, maps, server
  <2>7. InvHeads' /\ InvOpened' /\ InvOpening'
    BY <1>2, <2>6, FrameHeads, FrameOpened, FrameOpening
  <2>8. InvRest' /\ InvOwn' /\ InvSame' /\ InvBack'
    BY <1>2, <2>6, FrameRest, FrameOwn, FrameInvSame, FrameBack
  <2> QED BY <1>3, <2>5, <2>7, <2>8 DEF AInv
<1> QED BY <1>4, <1>5

LEMMA DsDropAnswer == ASSUME OneClient, HInv, HInv', AInv, NEW c \in Clients, DsDrop(c) PROVE AInv'
<1>1. /\ UNCHANGED <<maps, prog, up, crx, cp, server>> /\ CanOpen(c)
      /\ sent' = [sent EXCEPT ![c][NextStream(c)] = "all"]
  BY DEF DsDrop
<1>2. Grow
  BY <1>1, OpenStream DEF Grow, HInv
<1>3. StayClosed /\ TasksKept /\ SameHeads /\ SameProg /\ NoneComes
  BY <1>1, FrameStay, FrameSame DEF cp, server
<1>4. AnswerWhileOpen'
  BY <1>1, <1>3, FrameAnswer DEF AInv
<1> QED BY <1>1, <1>2, <1>3, <1>4, Keeps DEF maps, server

LEMMA DsDataAnswer ==
  ASSUME OneClient, HInv, HInv', AInv, NEW c \in Clients, NEW s \in Ids, DsData(c, s) PROVE AInv'
<1>1. TypeOK /\ InvSent
  BY DEF HInv
<1>2. /\ UNCHANGED <<maps, prog, crx, task, conn, sstream>>
      /\ sent[c][s] = "head" /\ sent' = [sent EXCEPT ![c][s] = "all"]
  BY DEF DsData
<1>3. Grow
  BY <1>1, <1>2, SendRest
<1>4. StayClosed /\ TasksKept /\ SameProg
  BY <1>2, FrameStay, FrameSame
<1>5. SameHeads /\ NoneComes
  <2>1. PICK m : m = h2_streams[<<c, s>>]
    OBVIOUS
  <2>2. CASE m # NoStream /\ Redirectable(m[1])
    <3>1. m[1] \in Locals /\ m[2] \in Ids
      BY <2>1, <2>2, ToServer
    <3>2. PICK f \in Frames : f = Frame(m[2], "data", c, s, "data_plane") /\ f.kind = "data"
      BY <3>1, FrameType, SMTT(60)
    <3>3. inbox' = [inbox EXCEPT ![m[1]] = Append(@, f)] /\ UNCHANGED up
      BY <2>1, <2>2, <3>2 DEF DsData
    <3>4. f.kind \notin {"head", "bare"}
      BY <3>2
    <3> QED BY <1>1, <3>1, <3>3, <3>4, AddOther, FrameStay
  <2>3. CASE ~(m # NoStream /\ Redirectable(m[1]))
    <3>1. PICK id : id = IF m = NoStream THEN s ELSE m[2]
      OBVIOUS
    <3>2. CpData(c, id, s) /\ UNCHANGED inbox
      BY <2>1, <2>3, <3>1 DEF DsData
    <3>3. NoneComes
      BY <3>2 DEF CpData, NoneComes
    <3> QED BY <3>2, <3>3, FrameSame
  <2> QED BY <2>2, <2>3
<1>6. AnswerWhileOpen'
  BY <1>2, <1>4, FrameAnswer DEF AInv
<1> QED BY <1>2, <1>3, <1>4, <1>5, <1>6, Keeps DEF maps

(* A connection is closed, with what was in it.                              *)
LEMMA ShutAnswer ==
  ASSUME OneClient, HInv, HInv', AInv, NEW l \in Locals, Shut(l), UNCHANGED <<maps, prog, client, cp>>
  PROVE  AInv'
<1>1. /\ conn \in [Locals -> {"free", "bound", "est", "open", "closed"}]
      /\ inbox \in [Locals -> Seq(Frames)]
      /\ sstream \in [Locals -> [Ids -> StreamState]]
  BY DEF HInv, TypeOK
<1>2. /\ conn'[l] = "closed" /\ inbox'[l] = <<>> /\ \A t \in Ids : sstream'[l][t] = NotOpen
      /\ \A k \in Locals \ {l} : inbox'[k] = inbox[k] /\ sstream'[k] = sstream[k]
  BY <1>1 DEF Shut
<1>3. ~NoneClosed'
  BY <1>2 DEF NoneClosed
<1>4. UNCHANGED <<h2_streams, up, task>>
  BY DEF maps, client, cp
<1>5. Heads(l)' = {} /\ Opened(l)' = {}
  <2>1. \A i : i \notin 1..Len(inbox'[l])
    BY <1>2, SMTT(60)
  <2>2. Opened(l)' = {}
    BY <1>2, NotOpenType DEF Opened
  <2> QED BY <2>1, <2>2 DEF Heads
<1>6. \A k \in Locals \ {l} : Heads(k)' = Heads(k) /\ Opened(k)' = Opened(k)
  BY <1>2 DEF Heads, Opened
<1>7. StayClosed /\ TasksKept
  BY <1>3, <1>4, FrameStay DEF StayClosed
<1>8. InvHeads'
  <2>1. ASSUME NEW k \in Locals, NEW i \in Heads(k)' PROVE Names(k, inbox[k][i].id, inbox[k][i].s)'
    <3>1. k # l
      BY <1>5, <2>1
    <3>2. i \in Heads(k) /\ inbox'[k][i] = inbox[k][i]
      BY <1>2, <1>6, <2>1, <3>1
    <3>3. Names(k, inbox[k][i].id, inbox[k][i].s)
      BY <3>2 DEF AInv, InvHeads
    <3> QED BY <1>4, <1>7, <3>2, <3>3 DEF Names, StayClosed
  <2> QED BY <2>1 DEF InvHeads
<1>9. InvOpened'
  <2>1. ASSUME NEW k \in Locals, NEW t \in Opened(k)' PROVE Names(k, t, sstream[k][t].s)'
    <3>1. k # l
      BY <1>5, <2>1
    <3>2. t \in Opened(k) /\ sstream'[k][t] = sstream[k][t]
      BY <1>2, <1>6, <2>1, <3>1
    <3>3. Names(k, t, sstream[k][t].s)
      BY <3>2 DEF AInv, InvOpened
    <3> QED BY <1>4, <1>7, <3>2, <3>3 DEF Names, StayClosed
  <2> QED BY <2>1 DEF InvOpened
<1>10. InvOpening' /\ InvOwn'
  BY <1>4, <1>7, FrameOpening, FrameOwn DEF AInv
<1>11. \A k \in Locals, t \in Ids : sstream'[k][t] = sstream[k][t] \/ sstream'[k][t] = NotOpen
  BY <1>2
<1>12. InvRest'
  <2>1. RestInv(NotOpen)
    BY DEF NotOpen, RestInv
  <2>2. ASSUME NEW k \in Locals, NEW t \in Ids PROVE RestInv(sstream'[k][t])
    BY <1>11, <2>1 DEF AInv, InvRest
  <2> QED BY <2>2 DEF InvRest, RestInv
<1>13. InvTogether'
  <2>1. NotOpen.rest = NoAddr
    BY DEF NotOpen
  <2>2. ASSUME OwnAddresses, NEW k \in Locals, NEW t \in Ids, sstream'[k][t].to \in up, sstream'[k][t].rest # NoAddr
        PROVE  sstream'[k][t].rest = sstream'[k][t].to
    <3>1. sstream'[k][t] = sstream[k][t]
      BY <1>11, <2>1, <2>2
    <3>2. AnswerStaysTogether
      BY <2>2 DEF AInv, InvTogether
    <3> QED BY <2>2, <3>1, <3>2 DEF AnswerStaysTogether
  <2> QED BY <1>4, <2>2 DEF InvTogether, AnswerStaysTogether, OwnAddresses
<1>14. InvSame' /\ InvBack' /\ AnswerWhileOpen'
  BY <1>3 DEF InvSame, InvBack, AnswerWhileOpen
<1> QED BY <1>8, <1>9, <1>10, <1>12, <1>13, <1>14 DEF AInv

LEMMA ConnCloseAnswer == ASSUME OneClient, HInv, HInv', AInv, NEW l \in Locals, ConnClose(l) PROVE AInv'
BY ShutAnswer DEF ConnClose

LEMMA EstablishedAnswer == ASSUME OneClient, HInv, HInv', AInv, NEW l \in Locals, Established(l) PROVE AInv'
<1>1. /\ conn[l] = "est" /\ conn' = [conn EXCEPT ![l] = "open"]
      /\ UNCHANGED <<maps, prog, client, cp, inbox, sstream>>
  BY DEF Established
<1>2. StayClosed
  BY <1>1 DEF HInv, TypeOK, StayClosed, NoneClosed
<1>3. TasksKept /\ SameHeads /\ SameProg /\ NoneComes /\ Grow
  BY <1>1, FrameStay, FrameSame, FrameGrow DEF HInv, cp, client
<1>4. AnswerWhileOpen'
  BY <1>1, <1>2, FrameAnswer DEF AInv, client
<1> QED BY <1>1, <1>2, <1>3, <1>4, Keeps DEF maps

-----------------------------------------------------------------------------
(* The steps of tasks that only go on.                                       *)
LEMMA TaskMoved ==
  ASSUME OneClient, TypeOK, NEW c \in Clients, NEW id \in Ids, NEW t, task' = PutTask(c, id, t),
         t.src = task[c][id].src, t.l = task[c][id].l, t.pc \notin {"new", "connect"},
         task[c][id].pc # "none", t.pc = "send" => task[c][id].pc = "connect"
  PROVE  TasksKept
<1>1. task'[c][id] = t /\ \A i \in Ids \ {id} : task'[c][i] = task[c][i]
  BY TaskPut
<1>2. TaskKept(c, id)
  BY <1>1 DEF TaskKept
<1>3. ASSUME NEW i \in Ids PROVE TaskKept(c, i)
  <2>1. CASE i = id
    BY <1>2, <2>1
  <2>2. CASE i # id
    BY <1>1, <2>2 DEF TaskKept
  <2> QED BY <2>1, <2>2
<1> QED BY <1>3, OneIs DEF TasksKept

LEMMA GoesOn ==
  ASSUME OneClient, HInv, NEW c \in Clients, NEW id \in Ids, NEW p \in Pcs, task' = TaskTo(c, id, p),
         task[c][id].pc # "none", p = "send" => task[c][id].pc = "connect"
  PROVE  TasksKept
<1>1. TypeOK
  BY DEF HInv
<1>2. PICK t : t = Gone(task[c][id], p)
  OBVIOUS
<1>3. task' = PutTask(c, id, t) /\ t.pc = p /\ t.l = task[c][id].l /\ t.src = task[c][id].src
  BY <1>2, TaskGoes
<1>4. t.pc \notin {"new", "connect"} /\ (t.pc = "send" => task[c][id].pc = "connect")
  BY <1>3 DEF Pcs
<1> QED BY <1>1, <1>3, <1>4, TaskMoved

(* send_error is not the data plane's.                                       *)
LEMMA ErrorAnswer ==
  ASSUME OneClient, HInv, AnswerWhileOpen, StayClosed, NEW c \in Clients, NEW id \in Ids,
         task[c][id].pc # "none", SendError(c, id)
  PROVE  AnswerWhileOpen' /\ TasksKept
<1>1. TasksKept
  <2>1. PICK p \in Pcs : p = "done"
    BY DEF Pcs
  <2>2. task' = TaskTo(c, id, p) /\ ~(p = "send")
    BY <2>1 DEF SendError, TaskTo
  <2> QED BY <2>2, GoesOn
<1>2. PICK f : f = Frame(id, "error", c, task[c][id].src, "control_plane")
  OBVIOUS
<1>3. f.via # "data_plane"
  BY <1>2 DEF Frame
<1>4. crx' = IF c \in up THEN [crx EXCEPT ![c] = @ \cup {f}] ELSE crx
  BY <1>2 DEF SendError
<1>5. crx \in [Clients -> SUBSET Frames]
  BY DEF HInv, TypeOK
<1>6. \A d \in Clients : \A g \in crx'[d] : g \in crx[d] \/ g = f
  BY <1>4, <1>5
<1>7. AnswerWhileOpen'
  BY <1>3, <1>6 DEF AnswerWhileOpen, AnswerToRequest, StayClosed
<1> QED BY <1>1, <1>7

LEMMA TaskFailAnswer ==
  ASSUME OneClient, HInv, HInv', AInv, NEW c \in Clients, NEW id \in Ids, TaskFail(c, id) PROVE AInv'
<1>1. /\ task[c][id].pc = "new" /\ SendError(c, id)
      /\ UNCHANGED <<fib_upstream, fib_downstream, h2_conns, h2_streams, prog, up, sent, body, server>>
  BY DEF TaskFail
<1>2. StayClosed /\ SameHeads /\ SameProg /\ NoneComes /\ Grow
  BY <1>1, FrameStay, FrameSame, FrameGrow DEF HInv, server
<1>3. AnswerWhileOpen' /\ TasksKept
  BY <1>1, <1>2, ErrorAnswer DEF AInv
<1> QED BY <1>1, <1>2, <1>3, Keeps DEF server

LEMMA TaskDeleteAnswer ==
  ASSUME OneClient, HInv, HInv', AInv, NEW c \in Clients, NEW id \in Ids, TaskDelete(c, id) PROVE AInv'
<1>1. /\ task[c][id].pc = "response" /\ task' = TaskTo(c, id, "done")
      /\ UNCHANGED <<fib_upstream, utrn_wait_list, h2_conns, h2_streams, prog, client, body, server>>
  BY DEF TaskDelete, TaskTo
<1>2. StayClosed /\ SameHeads /\ SameProg /\ NoneComes /\ Grow
  BY <1>1, FrameStay, FrameSame, FrameGrow DEF HInv, server, client
<1>3. AnswerWhileOpen'
  BY <1>1, <1>2, FrameAnswer DEF AInv, client
<1>4. TasksKept
  <2>1. PICK p \in Pcs : p = "done"
    BY DEF Pcs
  <2>2. task' = TaskTo(c, id, p) /\ ~(p = "send") /\ task[c][id].pc # "none"
    BY <1>1, <2>1
  <2> QED BY <2>2, GoesOn
<1> QED BY <1>1, <1>2, <1>3, <1>4, Keeps DEF server

LEMMA TaskConnectedAnswer ==
  ASSUME OneClient, HInv, HInv', AInv, NEW c \in Clients, NEW id \in Ids, TaskConnected(c, id) PROVE AInv'
<1>1. /\ task[c][id].pc = "connect" /\ task' = TaskTo(c, id, "send")
      /\ conn' = [conn EXCEPT ![task[c][id].l] = "est"]
      /\ UNCHANGED <<maps, prog, client, body, inbox, sstream>>
  BY DEF TaskConnected, TaskTo
<1>2. TaskInv(c, id) /\ conn \in [Locals -> {"free", "bound", "est", "open", "closed"}]
  BY DEF HInv, InvTasks, TypeOK
<1>3. StayClosed
  <2>1. PICK l \in Locals : l = task[c][id].l /\ conn[l] = "bound"
    BY <1>1, <1>2 DEF TaskInv
  <2> QED BY <1>1, <1>2, <2>1 DEF StayClosed, NoneClosed
<1>4. SameHeads /\ SameProg /\ NoneComes /\ Grow
  BY <1>1, FrameStay, FrameSame, FrameGrow DEF HInv, client
<1>5. AnswerWhileOpen'
  BY <1>1, <1>3, FrameAnswer DEF AInv, client
<1>6. TasksKept
  <2>1. PICK p \in Pcs : p = "send"
    BY DEF Pcs
  <2>2. task' = TaskTo(c, id, p) /\ task[c][id].pc # "none" /\ task[c][id].pc = "connect"
    BY <1>1, <2>1
  <2> QED BY <2>2, GoesOn
<1> QED BY <1>1, <1>3, <1>4, <1>5, <1>6, Keeps DEF maps

LEMMA TaskConnectFailAnswer ==
  ASSUME OneClient, HInv, HInv', AInv, NEW c \in Clients, NEW id \in Ids, TaskConnectFail(c, id) PROVE AInv'
<1>1. /\ task[c][id].pc = "connect" /\ SendError(c, id)
      /\ conn' = [conn EXCEPT ![task[c][id].l] = "free"]
      /\ UNCHANGED <<maps, prog, up, sent, body, inbox, sstream>>
  BY DEF TaskConnectFail
<1>2. TaskInv(c, id) /\ conn \in [Locals -> {"free", "bound", "est", "open", "closed"}]
  BY DEF HInv, InvTasks, TypeOK
<1>3. StayClosed
  <2>1. PICK l \in Locals : l = task[c][id].l /\ conn[l] = "bound"
    BY <1>1, <1>2 DEF TaskInv
  <2> QED BY <1>1, <1>2, <2>1 DEF StayClosed, NoneClosed
<1>4. SameHeads /\ SameProg /\ NoneComes /\ Grow
  BY <1>1, FrameStay, FrameSame, FrameGrow DEF HInv
<1>5. AnswerWhileOpen' /\ TasksKept
  BY <1>1, <1>3, ErrorAnswer DEF AInv
<1> QED BY <1>1, <1>3, <1>4, <1>5, Keeps DEF maps

LEMMA TaskBodyAnswer ==
  ASSUME OneClient, HInv, HInv', AInv, NEW c \in Clients, NEW id \in Ids, TaskBody(c, id) PROVE AInv'
<1>1. TypeOK /\ TaskInv(c, id)
  BY DEF HInv, InvTasks
<1>2. /\ task[c][id].pc = "body" /\ task' = TaskTo(c, id, "response")
      /\ UNCHANGED <<maps, prog, client, body, conn, sstream>>
  BY DEF TaskBody, TaskTo
<1>3. SameHeads
  <2>1. CASE UNCHANGED inbox
    BY <2>1, FrameSame
  <2>2. CASE inbox' # inbox
    <3>1. body[c][id] # <<>> /\ Forward(c, id, "data", Head(body[c][id]))
      BY <2>2 DEF TaskBody
    <3>2. PICK s \in Ids : s = Head(body[c][id])
      <4>1. body \in [Clients -> [Ids -> Seq(Ids)]]
        BY <1>1 DEF TypeOK
      <4>2. body[c][id] \in Seq(Ids)
        BY <4>1
      <4> QED BY <3>1, <4>2, SMTT(60)
    <3>3. PICK n \in Ids : n = 1
      BY OneIn
    <3>4. PICK f \in Frames : f = Frame(n, "data", c, s, "control_plane") /\ f.kind = "data"
      BY FrameType, SMTT(60)
    <3>5. PICK l \in Locals : l = task[c][id].l
      BY <1>1, <1>2 DEF TaskInv
    <3>6. inbox' = [inbox EXCEPT ![l] = Append(@, f)] /\ f.kind \notin {"head", "bare"}
      BY <2>2, <3>1, <3>2, <3>3, <3>4, <3>5 DEF Forward
    <3> QED BY <1>1, <3>6, AddOther
  <2> QED BY <2>1, <2>2
<1>4. StayClosed /\ SameProg /\ NoneComes /\ Grow
  BY <1>2, FrameStay, FrameSame, FrameGrow DEF HInv, client
<1>5. AnswerWhileOpen'
  BY <1>2, <1>4, FrameAnswer DEF AInv, client
<1>6. TasksKept
  <2>1. PICK p \in Pcs : p = "response"
    BY DEF Pcs
  <2>2. task' = TaskTo(c, id, p) /\ task[c][id].pc # "none" /\ ~(p = "send")
    BY <1>2, <2>1
  <2> QED BY <2>2, GoesOn
<1> QED BY <1>2, <1>3, <1>4, <1>5, <1>6, Keeps DEF maps

-----------------------------------------------------------------------------
(* The control plane gets HEADERS with the id of the request.                *)
LEMMA CpHeadIs ==
  ASSUME OneClient, HInv, NEW c \in Clients, NEW id \in Ids, NEW s, NEW ended, CpHead(c, id, s, ended)
  PROVE  /\ NoneComes
         /\ \A i \in Ids \ {id} : task'[c][i] = task[c][i]
         /\ task'[c][id] = task[c][id] \/ (task'[c][id].pc = "new" /\ task'[c][id].src = s)
<1>1. TypeOK
  BY DEF HInv
<1>2. CASE NewAtCp(c, id)
  <2>1. PICK t : t = [NoTask EXCEPT !.pc = "new", !.src = s, !.ended = ended]
    OBVIOUS
  <2>2. task' = PutTask(c, id, t) /\ up' = up
    BY <1>2, <2>1 DEF CpHead, PutTask
  <2>3. t.pc = "new" /\ t.src = s
    BY <2>1 DEF NoTask
  <2>4. task'[c][id] = t /\ \A i \in Ids \ {id} : task'[c][i] = task[c][i]
    BY <1>1, <2>2, TaskPut
  <2> QED BY <2>2, <2>3, <2>4, FrameStay
<1>3. CASE ~NewAtCp(c, id)
  <2>1. task' = task /\ up' = up \ {c}
    BY <1>3 DEF CpHead
  <2> QED BY <2>1 DEF NoneComes
<1> QED BY <1>2, <1>3

AllIdle == \A c \in Clients : prog'[c] = Idle
Unassigned(s, id) == NoneClosed => s = id /\ \A m : Settled(m) => m[2] # id
LEMMA NewTask ==
  ASSUME OneClient, HInv, HInv', AInv, UNCHANGED <<h2_streams, sstream, crx, conn, inbox>>, Grow,
         AllIdle, NEW c \in Clients, NEW id \in Ids, NEW s, NEW ended,
         CpHead(c, id, s, ended), Unassigned(s, id)
  PROVE  AInv'
<1>1. /\ NoneComes
      /\ \A i \in Ids \ {id} : task'[c][i] = task[c][i]
      /\ task'[c][id] = task[c][id] \/ (task'[c][id].pc = "new" /\ task'[c][id].src = s)
  BY CpHeadIs
<1>2. /\ InvHeads /\ InvOpened /\ InvOpening /\ InvRest /\ InvOwn /\ InvTogether /\ InvSame /\ InvBack
      /\ AnswerWhileOpen
  BY DEF AInv
<1>3. StayClosed /\ SameAsked /\ SameOpened /\ SameHeads /\ \A d \in Clients : d = c
  BY FrameStay, FrameSame, OneIs
<1>4. InvHeads' /\ InvOpened' /\ InvRest' /\ InvOwn'
  BY <1>2, <1>3, FrameHeads, FrameOpened, FrameRest, FrameOwn
<1>5. InvTogether' /\ AnswerWhileOpen'
  BY <1>1, <1>2, <1>3, FrameTogether, FrameAnswer
<1>6. InvOpening'
  <2>1. ASSUME NEW i \in Ids, Opening(c, i)' PROVE Names(task[c][i].l, 1, i)'
    <3>1. task'[c][i] = task[c][i]
      BY <1>1, <2>1 DEF Opening
    <3>2. Names(task[c][i].l, 1, i)
      BY <1>2, <2>1, <3>1 DEF InvOpening, Opening
    <3> QED BY <1>3, <3>1, <3>2 DEF Names, StayClosed
  <2> QED BY <1>3, <2>1 DEF InvOpening
<1>7. InvSame'
  <2>1. ASSUME NoneClosed', NEW i \in Ids, task'[c][i].pc # "none" PROVE task'[c][i].src = i
    <3>1. NoneClosed /\ s = id
      BY <1>3, <2>1 DEF StayClosed, Unassigned
    <3>2. CASE task'[c][i] = task[c][i]
      <4>1. task[c][i].pc # "none" => task[c][i].src = i
        BY <1>2, <3>1 DEF InvSame
      <4> QED BY <2>1, <3>2, <4>1
    <3>3. CASE task'[c][i] # task[c][i]
      <4>1. i = id
        BY <1>1, <3>3
      <4> QED BY <1>1, <3>1, <3>3, <4>1
    <3> QED BY <3>2, <3>3
  <2> QED BY <1>3, <2>1 DEF InvSame, AllIdle
<1>8. InvBack'
  <2>1. ASSUME NEW m, NoneClosed, m[2] \in Ids, Settled(m) PROVE Settled(m)'
    <3>1. m[2] # id /\ task[c][m[2]].pc # "new" /\ m[2] < NextStream(c)
      BY <2>1 DEF Settled, Unassigned
    <3>2. task'[c][m[2]].pc # "new"
      BY <1>1, <2>1, <3>1
    <3>3. m[2] < NextStream(c)'
      <4>1. PICK n \in Nat : n = m[2]
        BY <2>1, OneIs
      <4> QED BY <3>1, <4>1, StillBelow DEF HInv
    <3> QED BY <1>3, <3>2, <3>3 DEF Settled, AllIdle
  <2> QED BY <1>2, <1>3, <2>1, BackStep
<1> QED BY <1>4, <1>5, <1>6, <1>7, <1>8 DEF AInv

LEMMA DsUturnAnswer == ASSUME OneClient, HInv, HInv', AInv, NEW c \in Clients, DsUturn(c) PROVE AInv'
<1>1. TypeOK /\ InvSent /\ InvProg /\ InvIds
  BY DEF HInv
<1>2. /\ UNCHANGED <<fib_upstream, fib_downstream, h2_conns, h2_streams, sent, crx, body, server>>
      /\ prog[c] # Idle /\ prog[c].uturn /\ prog' = [prog EXCEPT ![c] = Idle]
      /\ CpHead(c, UturnId(c), prog[c].s, FALSE)
  BY DEF DsUturn, Uturning
<1>3. UturnId(c) \in Ids
  <2>1. CASE prog[c].l = NoAddr
    BY <2>1, <1>1, <1>2 DEF UturnId, InvProg
  <2>2. CASE prog[c].l # NoAddr
    <3>1. prog[c] \in ProgState
      BY <1>1 DEF TypeOK
    <3>2. prog[c].l \in Locals
      BY <2>2, <3>1 DEF ProgState
    <3>3. h2_conns[prog[c].l] \in Ids
      BY <3>2, <1>1, <1>2 DEF InvProg, Used
    <3> QED BY <2>2, <3>3 DEF UturnId, NewId
  <2> QED BY <2>1, <2>2
<1>4. Grow
  BY <1>1, <1>2, FrameGrow
<1>5. AllIdle
  <2>1. prog \in [Clients -> ProgState]
    BY <1>1 DEF TypeOK
  <2> QED BY <1>2, <2>1, OneIs DEF AllIdle
<1>6. NoneClosed => prog[c].s = UturnId(c) /\ UturnId(c) = prog[c].sid
  BY <1>2 DEF AInv, InvSame, UturnId
<1>7. PICK id, s : id \in Ids /\ id = UturnId(c) /\ s = prog[c].s
  BY <1>3
<1>8. Unassigned(s, id)
  BY <1>2, <1>6, <1>7 DEF Settled, Unassigned
<1>9. CpHead(c, id, s, FALSE)
  BY <1>2, <1>7
<1> QED BY <1>2, <1>4, <1>5, <1>7, <1>8, <1>9, NewTask DEF server

LEMMA DsBareAnswer == ASSUME OneClient, HInv, HInv', AInv, NEW c \in Clients, DsBare(c) PROVE AInv'
<1>1. TypeOK /\ InvSent
  BY DEF HInv
<1>2. /\ UNCHANGED <<maps, prog, crx, body, conn, sstream>> /\ CanOpen(c)
      /\ sent' = [sent EXCEPT ![c][NextStream(c)] = "all"]
  BY DEF DsBare
<1>3. PICK n \in Ids : n = NextStream(c)
  BY <1>1 DEF InvSent
<1>4. CpHead(c, n, n, TRUE) /\ UNCHANGED inbox
  BY <1>3, NewStream DEF DsBare
<1>5. Grow
  BY <1>1, <1>2, OpenStream DEF Grow
<1>6. AllIdle
  BY <1>2, OneIs DEF CanOpen, AllIdle
<1>7. ASSUME NEW m, Settled(m) PROVE m[2] # n
  <2>1. m[2] < NextStream(c)
    BY <1>7 DEF Settled
  <2>2. n \in Nat
    BY OneIs
  <2>3. ~(n < n)
    BY <2>2, SMTT(60)
  <2> QED BY <1>3, <2>1, <2>3
<1>8. Unassigned(n, n)
  BY <1>7 DEF Unassigned
<1> QED BY <1>2, <1>4, <1>5, <1>6, <1>8, NewTask DEF maps

(* The stream that HEADERS open is not one that h2_streams knows, and the    *)
(* connection for it is there.                                               *)
LEMMA DsHeadersAnswer == ASSUME OneClient, HInv, HInv', AInv, NEW c \in Clients, DsHeaders(c) PROVE AInv'
<1>1. TypeOK /\ InvSent /\ InvProg /\ InvTasks /\ InvSent'
  BY DEF HInv
<1>2. /\ CanOpen(c) /\ sent' = [sent EXCEPT ![c][NextStream(c)] = "head"]
      /\ UNCHANGED <<fib_upstream, utrn_wait_list, h2_streams, up, crx, task, body, conn, inbox, sstream>>
  BY DsHeadersIs DEF cp, server
<1>3. PICK n \in Ids : n = NextStream(c)
  BY <1>1 DEF InvSent
<1>4. Grow /\ \A d \in Clients : d = c
  BY <1>1, <1>2, OpenStream, OneIs DEF Grow
<1>5. /\ InvHeads /\ InvOpened /\ InvOpening /\ InvRest /\ InvOwn /\ InvTogether /\ InvSame /\ InvBack
      /\ AnswerWhileOpen
  BY DEF AInv
<1>6. StayClosed /\ SameAsked /\ SameOpened /\ SameHeads /\ NoneComes /\ TasksKept
  BY <1>2, FrameStay, FrameSame
<1>7. InvHeads' /\ InvOpened' /\ InvOpening' /\ InvRest' /\ InvOwn'
  BY <1>2, <1>5, <1>6, FrameHeads, FrameOpened, FrameOpening, FrameRest, FrameOwn
<1>8. InvTogether' /\ AnswerWhileOpen'
  BY <1>2, <1>5, <1>6, FrameTogether, FrameAnswer
<1>9. \A i \in Nat : i < n => i # n
  <2>1. n \in Nat
    BY OneIs
  <2> QED BY <2>1, SMTT(60)
<1>10. /\ prog'[c].s = n /\ prog'[c].sid = n
       /\ NoneClosed => (prog'[c].uturn => prog'[c].l = NoAddr)
  <2>1. prog \in [Clients -> ProgState]
    BY <1>1 DEF TypeOK
  <2>2. CASE fib_upstream = <<>>
    <3>1. prog' = [prog EXCEPT ![c] = [s |-> n, sid |-> n, l |-> NoAddr, uturn |-> ~Redirectable(NoAddr)]]
      BY <1>3, <2>2, DsHeadersIs
    <3> QED BY <2>1, <3>1
  <2>3. CASE fib_upstream # <<>>
    <3>1. PICK l \in Locals : /\ l = Head(fib_upstream)
                              /\ prog' = [prog EXCEPT ![c] = [s |-> n, sid |-> n, l |-> l, uturn |-> ~Redirectable(l)]]
      BY <1>3, <2>3, DsHeadersIs
    <3>2. Used(l)
      <4>1. fib_upstream \in Seq(Locals)
        BY <1>1 DEF TypeOK
      <4>2. 1 \in 1..Len(fib_upstream) /\ l = fib_upstream[1]
        BY <2>3, <3>1, <4>1, SMTT(60)
      <4> QED BY <1>1, <4>2 DEF InvProg
    <3>3. NoneClosed => Redirectable(l)
      BY <3>2 DEF Used, NoneClosed, Redirectable
    <3>4. (~Redirectable(l)) \in BOOLEAN
      OBVIOUS
    <3>5. PICK u \in BOOLEAN : /\ u = ~Redirectable(l)
                               /\ prog' = [prog EXCEPT ![c] = [s |-> n, sid |-> n, l |-> l, uturn |-> u]]
      BY <3>1, <3>4
    <3>6. CASE u = FALSE
      <4>1. prog' = [prog EXCEPT ![c] = [s |-> n, sid |-> n, l |-> l, uturn |-> FALSE]]
        BY <3>5, <3>6
      <4> QED BY <2>1, <4>1
    <3>7. CASE u = TRUE
      <4>1. prog' = [prog EXCEPT ![c] = [s |-> n, sid |-> n, l |-> l, uturn |-> TRUE]]
        BY <3>5, <3>7
      <4>2. ~NoneClosed
        BY <3>3, <3>5, <3>7
      <4>3. prog'[c].s = n /\ prog'[c].sid = n
        BY <2>1, <4>1
      <4> QED BY <4>2, <4>3
    <3> QED BY <3>6, <3>7
  <2> QED BY <2>2, <2>3
<1>11. InvSame'
  <2>1. task[c][n].pc = "none"
    <3>1. TaskInv(c, n)
      BY <1>1 DEF InvTasks
    <3>2. n \in Nat
      BY OneIs
    <3> QED BY <1>3, <1>9, <3>1, <3>2 DEF TaskInv
  <2>2. ASSUME NEW i \in Ids, NoneClosed, task[c][i].pc # "none" PROVE task[c][i].src = i
    BY <1>5, <2>2 DEF InvSame
  <2> QED BY <1>2, <1>4, <1>6, <1>10, <2>1, <2>2 DEF InvSame, StayClosed
<1>12. InvBack'
  <2>1. ASSUME NEW m, NoneClosed, m[2] \in Ids, Settled(m) PROVE Settled(m)'
    <3>1. PICK i \in Nat : i = m[2]
      BY <2>1, OneIs
    <3>2. i < n /\ task[c][i].pc # "new"
      BY <1>3, <2>1, <3>1 DEF Settled
    <3>3. i # prog'[c].sid
      BY <1>9, <1>10, <3>2
    <3>4. i < NextStream(c)'
      BY <1>1, <1>3, <1>4, <3>2, StillBelow
    <3> QED BY <1>2, <1>4, <3>1, <3>2, <3>3, <3>4 DEF Settled
  <2> QED BY <1>2, <1>5, <1>6, <2>1, BackStep
<1> QED BY <1>7, <1>8, <1>11, <1>12 DEF AInv

-----------------------------------------------------------------------------
(* Two streams are assigned to each other; others keep what they have.       *)
Assigned(h, s, l, t) == h2_streams' = Assign(<<h, s>>, <<l, t>>)
AssignsOnly(h, s, l, t) ==
  /\ h2_streams'[<<l, t>>] = <<h, s>> /\ h2_streams'[<<h, s>>] = <<l, t>>
  /\ \A m \in Streams : m # <<h, s>> /\ m # <<l, t>> => h2_streams'[m] = h2_streams[m]
  /\ \A k \in Locals, i \in Ids : k # l \/ i # t => h2_streams'[<<k, i>>] = h2_streams[<<k, i>>]
NamesNext(l, t, s) == h2_streams'[<<l, t>>] # NoStream /\ (NoneClosed' => h2_streams'[<<l, t>>][2] = s)
LEMMA AssignIs ==
  ASSUME TypeOK, NEW h \in Hosts, NEW s \in Ids, NEW l \in Locals, NEW t \in Ids,
         Assigned(h, s, l, t)
  PROVE  AssignsOnly(h, s, l, t)
<1>1. /\ h2_streams \in [Streams -> Streams \cup {NoStream}]
      /\ <<h, s>> \in Streams /\ <<l, t>> \in Streams /\ <<h, s>> # <<l, t>>
  <2>1. h \in Hosts \cup Locals /\ l \in Hosts \cup Locals /\ h # l
    BY H2AddrAssumption DEF Hosts
  <2> QED BY <2>1 DEF TypeOK, Streams
<1>2. /\ h2_streams'[<<h, s>>] = <<l, t>> /\ h2_streams'[<<l, t>>] = <<h, s>>
      /\ \A m \in Streams : m # <<h, s>> /\ m # <<l, t>> => h2_streams'[m] = h2_streams[m]
  BY <1>1 DEF Assign, Assigned
<1>3. ASSUME NEW k \in Locals, NEW i \in Ids, k # l \/ i # t PROVE h2_streams'[<<k, i>>] = h2_streams[<<k, i>>]
  <2>1. <<k, i>> \in Streams
    BY DEF Streams
  <2>2. k # h
    BY H2AddrAssumption DEF Hosts
  <2>3. <<k, i>> # <<h, s>> /\ <<k, i>> # <<l, t>>
    BY <1>3, <2>2
  <2> QED BY <1>2, <2>1, <2>3
<1> QED BY <1>2, <1>3 DEF AssignsOnly

LEMMA AssignNewName ==
  ASSUME TypeOK, StayClosed, NEW h \in Hosts, NEW s \in Ids, NEW l \in Locals, NEW t \in Ids,
         Assigned(h, s, l, t), NEW r, NoneClosed => r = s
  PROVE  NamesNext(l, t, r)
<1>1. AssignsOnly(h, s, l, t)
  BY AssignIs
<1>2. h2_streams'[<<l, t>>] = <<h, s>>
  BY <1>1 DEF AssignsOnly
<1>3. <<h, s>> # NoStream /\ <<h, s>>[2] = s
  <2>1. h # NoAddr
    BY H2AddrAssumption DEF Hosts
  <2> QED BY <2>1 DEF NoStream
<1>4. h2_streams'[<<l, t>>][2] = s
  BY <1>2, <1>3
<1> QED BY <1>2, <1>3, <1>4 DEF NamesNext, StayClosed

Other(k, i, l, t) == k # l \/ i # t
LEMMA AssignOldName ==
  ASSUME TypeOK, StayClosed, NEW h \in Hosts, NEW s \in Ids, NEW l \in Locals, NEW t \in Ids,
         Assigned(h, s, l, t), NEW k \in Locals, NEW i \in Ids, NEW r,
         Other(k, i, l, t), Names(k, i, r)
  PROVE  NamesNext(k, i, r)
<1>1. AssignsOnly(h, s, l, t)
  BY AssignIs
<1>2. h2_streams'[<<k, i>>] = h2_streams[<<k, i>>]
  BY <1>1 DEF AssignsOnly, Other
<1> QED BY <1>2 DEF Names, NamesNext, StayClosed

(* The stream that is assigned was not assigned before.                      *)
Apart(s) == NoneClosed => \A m : m[2] \in Ids /\ Settled(m) => m[2] # s /\ Settled(m)'
LEMMA AssignedBack ==
  ASSUME HInv, InvBack, StayClosed, NEW h \in Hosts, NEW s \in Ids, NEW l \in Locals, NEW t \in Ids,
         Assigned(h, s, l, t), Apart(s), NoneClosed => Settled(<<h, s>>)'
  PROVE  InvBack'
<1>0. AssignsOnly(h, s, l, t)
  BY AssignIs DEF HInv
<1>1. /\ h2_streams'[<<l, t>>] = <<h, s>> /\ h2_streams'[<<h, s>>] = <<l, t>>
      /\ \A m \in Streams : m # <<h, s>> /\ m # <<l, t>> => h2_streams'[m] = h2_streams[m]
      /\ \A k \in Locals, i \in Ids : k # l \/ i # t => h2_streams'[<<k, i>>] = h2_streams[<<k, i>>]
  BY <1>0 DEF AssignsOnly
<1>2. ASSUME NoneClosed', NEW k \in Locals, NEW i \in Ids, h2_streams'[<<k, i>>] # NoStream
      PROVE  \E m : m = h2_streams'[<<k, i>>] /\ Settled(m)' /\ h2_streams'[m] = <<k, i>>
  <2>1. CASE k = l /\ i = t
    <3>1. <<k, i>> = <<l, t>>
      BY <2>1
    <3> QED BY <1>1, <1>2, <3>1 DEF StayClosed
  <2>2. CASE k # l \/ i # t
    <3>1. PICK m : m = h2_streams[<<k, i>>]
      OBVIOUS
    <3>2. h2_streams'[<<k, i>>] = m /\ m # NoStream
      BY <1>1, <1>2, <2>2, <3>1
    <3>3. NoneClosed /\ Settled(m) /\ h2_streams[m] = <<k, i>>
      BY <1>2, <3>1, <3>2 DEF InvBack, StayClosed
    <3>4. m \in Streams /\ m[1] \in Hosts /\ m[2] \in Ids
      BY <3>1, <3>2, BackIs
    <3>5. m[2] # s /\ Settled(m)'
      BY <3>3, <3>4 DEF Apart
    <3>6. m # <<h, s>> /\ m # <<l, t>>
      <4>1. <<h, s>>[2] = s /\ <<l, t>>[1] = l
        OBVIOUS
      <4>2. m[1] # l
        BY <3>4, H2AddrAssumption DEF Hosts
      <4> QED BY <3>5, <4>1, <4>2
    <3>7. h2_streams'[m] = <<k, i>>
      BY <1>1, <3>3, <3>4, <3>6
    <3> QED BY <3>2, <3>5, <3>7
  <2> QED BY <2>1, <2>2
<1>3. ASSUME NoneClosed', NEW k \in Locals, NEW i \in Ids, h2_streams'[<<k, i>>] # NoStream
      PROVE  Settled(h2_streams[<<k, i>>])' /\ h2_streams'[h2_streams'[<<k, i>>]] = <<k, i>>
  <2>1. PICK m : m = h2_streams'[<<k, i>>] /\ Settled(m)' /\ h2_streams'[m] = <<k, i>>
    BY <1>2, <1>3
  <2> QED BY <2>1 DEF Settled
<1> QED BY <1>3 DEF InvBack

(* HEADERS are added to a socket.                                            *)
HeadsNext == \A k \in Locals : \A i \in Heads(k) : NamesNext(k, inbox[k][i].id, inbox[k][i].s)
LEMMA HeadsAdd ==
  ASSUME TypeOK, HeadsNext, NEW l \in Locals, NEW f \in Frames, f.kind \in {"head", "bare"},
         NamesNext(l, f.id, f.s), inbox' = [inbox EXCEPT ![l] = Append(@, f)]
  PROVE  InvHeads'
<1>1. PICK n : n = Len(inbox[l]) + 1
  OBVIOUS
<1>2. /\ Heads(l)' = Heads(l) \cup {n}
      /\ inbox'[l][n] = f
      /\ \A i \in Heads(l) : inbox'[l][i] = inbox[l][i] /\ i < n
      /\ \A k \in Locals \ {l} : Heads(k)' = Heads(k) /\ inbox'[k] = inbox[k]
  BY <1>1, AddHead
<1>3. ASSUME NEW k \in Locals, NEW i \in Heads(k)' PROVE NamesNext(k, inbox'[k][i].id, inbox'[k][i].s)
  <2>1. CASE k = l /\ i = n
    BY <1>2, <2>1
  <2>2. CASE ~(k = l /\ i = n)
    <3>1. i \in Heads(k) /\ inbox'[k][i] = inbox[k][i]
      <4>1. CASE k = l
        BY <1>2, <1>3, <2>2, <4>1
      <4>2. CASE k # l
        BY <1>2, <1>3, <4>2
      <4> QED BY <4>1, <4>2
    <3> QED BY <3>1 DEF HeadsNext
  <2> QED BY <2>1, <2>2
<1> QED BY <1>3 DEF InvHeads, Names, NamesNext

LEMMA HeadsSame == ASSUME HeadsNext, SameHeads PROVE InvHeads'
<1>1. ASSUME NEW k \in Locals, NEW i \in Heads(k)' PROVE NamesNext(k, inbox'[k][i].id, inbox'[k][i].s)
  <2>1. i \in Heads(k) /\ inbox'[k][i] = inbox[k][i]
    BY <1>1 DEF SameHeads
  <2> QED BY <2>1 DEF HeadsNext
<1> QED BY <1>1 DEF InvHeads, Names, NamesNext

(* A server's stream that is not used yet is assigned, and one of a client   *)
(* that is not assigned yet.                                                 *)
Unused(l, t) == (\A i \in Heads(l) : inbox[l][i].id # t) /\ (\A i \in Opened(l) : i # t)
LEMMA AssignHeads ==
  ASSUME HInv, InvHeads, StayClosed, NEW h \in Hosts, NEW s \in Ids, NEW l \in Locals, NEW t \in Ids,
         Assigned(h, s, l, t), Unused(l, t)
  PROVE  HeadsNext
<1>0. TypeOK
  BY DEF HInv
<1>1. ASSUME NEW k \in Locals, NEW i \in Heads(k) PROVE NamesNext(k, inbox[k][i].id, inbox[k][i].s)
  <2>1. PICK n : n = inbox[k][i].id
    OBVIOUS
  <2>2. n \in Ids
    <3>1. inbox[k] \in Seq(Frames) /\ i \in 1..Len(inbox[k])
      BY DEF HInv, TypeOK, Heads
    <3>2. inbox[k][i] \in Frames
      BY <3>1, SMTT(60)
    <3> QED BY <2>1, <3>2 DEF Frames
  <2>3. Other(k, n, l, t)
    BY <2>1 DEF Unused, Other
  <2>4. Names(k, n, inbox[k][i].s)
    BY <2>1 DEF InvHeads
  <2>5. NamesNext(k, n, inbox[k][i].s)
    BY <1>0, <2>2, <2>3, <2>4, AssignOldName
  <2> QED BY <2>1, <2>5
<1> QED BY <1>1 DEF HeadsNext

LEMMA AssignAnswer ==
  ASSUME HInv, AInv, StayClosed, NoneComes, UNCHANGED <<sstream, crx>>,
         NEW h \in Hosts, NEW s \in Ids, NEW l \in Locals, NEW t \in Ids,
         Assigned(h, s, l, t), Unused(l, t), OwnAddresses => h \in Clients,
         Apart(s), NoneClosed => Settled(<<h, s>>)', InvHeads', InvOpening', InvSame'
  PROVE  AInv'
<1>1. InvOpened /\ InvRest /\ InvOwn /\ InvTogether /\ InvBack /\ AnswerWhileOpen /\ TypeOK
  BY DEF AInv, HInv
<1>2. InvRest' /\ InvTogether' /\ AnswerWhileOpen'
  BY <1>1, FrameRest, FrameTogether, FrameAnswer
<1>3. InvBack'
  BY <1>1, AssignedBack
<1>4. InvOpened'
  <2>1. ASSUME NEW k \in Locals, NEW i \in Opened(k) PROVE NamesNext(k, i, sstream[k][i].s)
    <3>1. Names(k, i, sstream[k][i].s) /\ i \in Ids
      BY <1>1 DEF InvOpened, Opened
    <3>2. Other(k, i, l, t)
      BY DEF Unused, Other
    <3> QED BY <1>1, <3>1, <3>2, AssignOldName
  <2>2. \A k \in Locals : Opened(k)' = Opened(k)
    BY DEF Opened
  <2> QED BY <2>1, <2>2 DEF InvOpened, Names, NamesNext
<1>5. InvOwn'
  <2>1. AssignsOnly(h, s, l, t)
    BY AssignIs DEF HInv
  <2>2. ASSUME OwnAddresses, NEW k \in Locals, NEW i \in Ids
        PROVE  h2_streams'[<<k, i>>] = NoStream \/ h2_streams'[<<k, i>>][1] \in Clients
    <3>1. CASE k = l /\ i = t
      <4>1. h2_streams'[<<k, i>>] = <<h, s>> /\ <<h, s>>[1] = h
        BY <2>1, <3>1 DEF AssignsOnly
      <4> QED BY <2>2, <4>1
    <3>2. CASE k # l \/ i # t
      <4>1. h2_streams'[<<k, i>>] = h2_streams[<<k, i>>]
        BY <2>1, <3>2 DEF AssignsOnly
      <4> QED BY <1>1, <2>2, <4>1 DEF InvOwn
    <3> QED BY <3>1, <3>2
  <2> QED BY <2>2 DEF InvOwn, OwnAddresses
<1> QED BY <1>2, <1>3, <1>4, <1>5 DEF AInv

LEMMA DsAssignAnswer == ASSUME OneClient, HInv, HInv', AInv, NEW c \in Clients, DsAssign(c) PROVE AInv'
<1>1. TypeOK /\ InvSent /\ InvProg /\ InvBound /\ InvTasks /\ InvSent'
  BY DEF HInv
<1>2. PICK l, n, s : l = prog[c].l /\ n = h2_conns[l] /\ s = prog[c].sid
  OBVIOUS
<1>3. /\ prog[c] # Idle /\ ~prog[c].uturn
      /\ prog' = [prog EXCEPT ![c] = Idle]
      /\ Assigned(c, s, l, n)
      /\ UNCHANGED <<fib_upstream, fib_downstream, utrn_wait_list, h2_conns, up, sent, crx, task, body, conn, sstream>>
      /\ inbox' = IF conn[l] = "open"
                  THEN [inbox EXCEPT ![l] = Append(@, Frame(n, "head", c, prog[c].s, "data_plane"))]
                  ELSE inbox
  BY <1>2 DEF DsAssign, Assigned, NewId, client, cp
<1>4. /\ l \in Locals /\ n \in Ids /\ prog[c].s \in Ids /\ s \in Ids
      /\ s < NextStream(c) /\ Assigning(c, l) /\ c \in Hosts
  BY <1>1, <1>2, <1>3 DEF InvProg, Used, Assigning, Hosts
<1>5. Grow /\ \A d \in Clients : d = c
  BY <1>1, <1>3, FrameGrow, OneIs
<1>6. AllIdle /\ SameProg
  <2>1. prog \in [Clients -> ProgState]
    BY <1>1 DEF TypeOK
  <2>2. AllIdle
    BY <1>3, <1>5, <2>1 DEF AllIdle
  <2> QED BY <2>2 DEF AllIdle, SameProg
<1>7. StayClosed /\ NoneComes /\ TasksKept
  BY <1>3, FrameStay
<1>8. /\ InvHeads /\ InvOpening /\ InvSame
      /\ NoneClosed => prog[c].s = s /\ task[c][s].pc = "none"
  BY <1>2, <1>3 DEF AInv, InvSame
<1>9. Unused(l, n)
  <2>1. ASSUME NEW i \in Nat, i < n PROVE i # n
    <3>1. n \in Nat
      BY <1>4, OneIs
    <3> QED BY <2>1, <3>1, SMTT(60)
  <2>2. BoundInv(l)
    BY <1>1, <1>4 DEF InvBound
  <2>3. \A i \in Heads(l) : inbox[l][i].id < n /\ inbox[l][i].id \in Nat
    BY <1>1, <1>2, <1>4, <2>2, Numbers DEF BoundInv, Below, Heads
  <2>4. \A i \in Opened(l) : i < n /\ i \in Nat
    BY <1>2, <1>4, <2>2, OneIs DEF BoundInv, Below, Opened
  <2> QED BY <2>1, <2>3, <2>4 DEF Unused
<1>10. HeadsNext
  BY <1>3, <1>4, <1>7, <1>8, <1>9, AssignHeads
<1>11. InvHeads'
  <2>1. CASE conn[l] = "open"
    <3>1. PICK f \in Frames : f = Frame(n, "head", c, prog[c].s, "data_plane") /\ f.kind = "head" /\ f.id = n
      BY <1>4, FrameType, SMTT(60)
    <3>2. f.s = prog[c].s
      BY <3>1 DEF Frame
    <3>3. inbox' = [inbox EXCEPT ![l] = Append(@, f)] /\ f.kind \in {"head", "bare"}
      BY <1>3, <2>1, <3>1
    <3>4. NamesNext(l, n, prog[c].s)
      BY <1>1, <1>3, <1>4, <1>7, <1>8, AssignNewName
    <3> QED BY <1>1, <1>4, <1>10, <3>1, <3>2, <3>3, <3>4, HeadsAdd
  <2>2. CASE conn[l] # "open"
    BY <1>3, <1>10, <2>2, FrameSame, HeadsSame
  <2> QED BY <2>1, <2>2
<1>12. InvOpening'
  <2>1. ASSUME NEW i \in Ids, Opening(c, i) PROVE NamesNext(task[c][i].l, 1, i)
    <3>1. Names(task[c][i].l, 1, i) /\ task[c][i].l \in Locals /\ Fresh(task[c][i].l)
      BY <1>8, <2>1, OnlyOpener DEF InvOpening
    <3>2. Other(task[c][i].l, 1, l, n)
      BY <1>2, <3>1 DEF Fresh, Other
    <3>3. 1 \in Ids
      BY OneIn
    <3> QED BY <1>1, <1>3, <1>4, <1>7, <3>1, <3>2, <3>3, AssignOldName
  <2> QED BY <1>3, <1>5, <2>1 DEF InvOpening, Opening, Names, NamesNext
<1>13. InvSame'
  BY <1>6, <1>7, <1>8, FrameInvSame
<1>14. Apart(s)
  <2>1. ASSUME NEW m, m[2] \in Ids, Settled(m) PROVE m[2] # s /\ Settled(m)'
    <3>1. Settled(m)'
      BY <1>1, <1>5, <1>6, <1>7, <2>1, FrameSettled
    <3> QED BY <1>2, <1>3, <2>1, <3>1 DEF Settled
  <2> QED BY <2>1 DEF Apart
<1>15. NoneClosed => Settled(<<c, s>>)'
  <2>1. <<c, s>>[2] = s
    OBVIOUS
  <2>2. s < NextStream(c)'
    <3>1. s \in Nat
      BY <1>4, OneIs
    <3> QED BY <1>1, <1>4, <1>5, <3>1, StillBelow
  <2> QED BY <1>3, <1>5, <1>6, <1>8, <2>1, <2>2 DEF Settled, AllIdle
<1> QED BY <1>3, <1>4, <1>7, <1>9, <1>11, <1>12, <1>13, <1>14, <1>15, AssignAnswer

LEMMA TaskBindAnswer ==
  ASSUME OneClient, HInv, HInv', AInv, NEW c \in Clients, NEW id \in Ids, NEW l \in Locals, TaskBind(c, id, l)
  PROVE  AInv'
<1>1. TypeOK /\ InvConn /\ InvSent /\ InvSent' /\ InvTasks
  BY DEF HInv
<1>2. PICK h, n : h = Seen[c] /\ n = 1
  OBVIOUS
<1>3. /\ task[c][id].pc = "new" /\ ~Locked(c) /\ conn[l] = "free"
      /\ conn' = [conn EXCEPT ![l] = "bound"]
      /\ Assigned(h, id, l, n)
      /\ UNCHANGED <<fib_upstream, fib_downstream, prog, client, body, inbox, sstream>>
  BY <1>2 DEF TaskBind, Assigned
<1>4. h \in Hosts /\ n \in Ids /\ (OwnAddresses => h \in Clients) /\ \A d \in Clients : d = c
  BY <1>2, H2Assumption, OneIn, OneIs DEF Hosts, OwnAddresses
<1>5. /\ conn'[l] = "bound" /\ \A k \in Locals \ {l} : conn'[k] = conn[k]
  BY <1>1, <1>3 DEF TypeOK
<1>6. Opened(l) = {} /\ Heads(l) = {}
  BY <1>1, <1>3, <1>5, ConnMove
<1>7. StayClosed
  BY <1>3, <1>5 DEF StayClosed, NoneClosed
<1>8. NoneComes /\ SameHeads /\ SameProg /\ Grow
  BY <1>1, <1>3, FrameStay, FrameSame, FrameGrow DEF client
<1>9. Unused(l, n)
  BY <1>6 DEF Unused
<1>10. InvHeads /\ InvSame
  BY DEF AInv
<1>11. InvHeads'
  BY <1>3, <1>4, <1>7, <1>8, <1>9, <1>10, AssignHeads, HeadsSame
<1>12. PICK t : t = BoundTo(task[c][id], l)
  OBVIOUS
<1>13. task' = PutTask(c, id, t)
  <2>1. task \in [Clients -> [Ids -> TaskState]] /\ task[c][id] \in TaskState
    BY <1>1, TaskIs DEF TypeOK
  <2>2. task' = [task EXCEPT ![c][id].pc = "connect", ![c][id].l = l]
    BY DEF TaskBind
  <2> QED BY <1>12, <2>1, <2>2 DEF PutTask, BoundTo, TaskState
<1>14. t.pc = "connect" /\ t.l = l /\ t.src = task[c][id].src
  BY <1>1, <1>12, TaskIs, TaskAt
<1>15. task'[c][id] = t /\ \A i \in Ids \ {id} : task'[c][i] = task[c][i]
  BY <1>1, <1>13, TaskPut
<1>16. InvOpening'
  <2>1. ASSUME NEW i \in Ids, Opening(c, i)' PROVE i = id
    BY <1>3, <1>15, <2>1 DEF Opening, Locked
  <2>2. NamesNext(l, n, id)
    BY <1>1, <1>3, <1>4, <1>7, AssignNewName
  <2>3. Names(task[c][id].l, 1, id)'
    BY <1>2, <1>14, <1>15, <2>2 DEF Names, NamesNext
  <2> QED BY <1>4, <2>1, <2>3 DEF InvOpening
<1>17. NoneClosed => (prog[c] # Idle => prog[c].sid # id)
  BY <1>3, <1>10 DEF InvSame
<1>18. InvSame'
  <2>1. ASSUME NoneClosed', prog'[c] # Idle
        PROVE  /\ prog'[c].sid = prog'[c].s /\ task'[c][prog'[c].sid].pc = "none"
               /\ prog'[c].uturn => prog'[c].l = NoAddr
    <3>1. NoneClosed /\ prog'[c] = prog[c] /\ prog[c] # Idle
      BY <1>3, <1>7, <2>1 DEF StayClosed
    <3>2. /\ prog[c].sid = prog[c].s /\ task[c][prog[c].sid].pc = "none"
          /\ prog[c].uturn => prog[c].l = NoAddr
      BY <1>10, <3>1 DEF InvSame
    <3>3. prog[c].sid \in Ids /\ prog[c].sid # id
      BY <1>17, <3>1 DEF HInv, InvProg
    <3>4. task'[c][prog[c].sid] = task[c][prog[c].sid]
      BY <1>15, <3>3
    <3> QED BY <3>1, <3>2, <3>4
  <2>2. ASSUME NoneClosed', NEW i \in Ids, task'[c][i].pc # "none" PROVE task'[c][i].src = i
    <3>1. task[c][i].pc # "none" /\ task'[c][i].src = task[c][i].src
      BY <1>3, <1>14, <1>15, <2>2
    <3>2. NoneClosed
      BY <1>7, <2>2 DEF StayClosed
    <3> QED BY <1>10, <3>1, <3>2 DEF InvSame
  <2> QED BY <1>4, <2>1, <2>2 DEF InvSame
<1>19. NextStream(c)' = NextStream(c)
  BY <1>1, <1>3, FrameSent DEF client
<1>20. Apart(id)
  <2>1. ASSUME NEW m, m[2] \in Ids, Settled(m) PROVE m[2] # id /\ Settled(m)'
    <3>1. task[c][m[2]].pc # "new" /\ m[2] < NextStream(c) /\ (prog[c] # Idle => m[2] # prog[c].sid)
      BY <2>1 DEF Settled
    <3>2. m[2] # id
      BY <1>3, <3>1
    <3>3. task'[c][m[2]] = task[c][m[2]]
      BY <1>15, <2>1, <3>2
    <3> QED BY <1>3, <1>4, <1>19, <3>1, <3>2, <3>3 DEF Settled
  <2> QED BY <2>1 DEF Apart
<1>21. NoneClosed => Settled(<<h, id>>)'
  <2>1. <<h, id>>[2] = id
    OBVIOUS
  <2>2. id < NextStream(c)
    <3>1. TaskInv(c, id)
      BY <1>1 DEF InvTasks
    <3> QED BY <1>3, <3>1 DEF TaskInv
  <2> QED BY <1>3, <1>4, <1>14, <1>15, <1>17, <1>19, <2>1, <2>2 DEF Settled
<1> QED BY <1>3, <1>4, <1>7, <1>8, <1>9, <1>11, <1>16, <1>18, <1>20, <1>21, AssignAnswer DEF client

LEMMA TaskSendAnswer ==
  ASSUME OneClient, HInv, HInv', AInv, NEW c \in Clients, NEW id \in Ids, TaskSend(c, id) PROVE AInv'
<1>1. TypeOK
  BY DEF HInv
<1>2. /\ task[c][id].pc = "send"
      /\ Forward(c, id, IF task[c][id].ended THEN "bare" ELSE "head", task[c][id].src)
      /\ UNCHANGED <<fib_upstream, utrn_wait_list, h2_conns, h2_streams, prog, client, body, conn, sstream>>
  BY DEF TaskSend
<1>3. Opening(c, id)
  BY <1>2 DEF Opening
<1>4. PICK l \in Locals, s \in Ids : l = task[c][id].l /\ s = task[c][id].src
  BY <1>3, OnlyOpener
<1>5. PICK p \in Pcs : task' = TaskTo(c, id, p) /\ p \in {"body", "done"}
  BY DEF TaskSend, TaskTo, Pcs
<1>6. TasksKept
  <2>1. task[c][id].pc # "none" /\ ~(p = "send")
    BY <1>2, <1>5
  <2> QED BY <1>5, <2>1, GoesOn
<1>7. StayClosed /\ SameProg /\ NoneComes /\ Grow
  BY <1>2, FrameStay, FrameSame, FrameGrow DEF HInv, client
<1>8. AnswerWhileOpen'
  BY <1>2, <1>7, FrameAnswer DEF AInv, client
<1>9. NamesNext(l, 1, s)
  <2>1. Names(l, 1, id) /\ (NoneClosed => s = id)
    BY <1>2, <1>3, <1>4 DEF AInv, InvOpening, InvSame
  <2> QED BY <1>2, <1>7, <2>1 DEF Names, NamesNext, StayClosed
<1>10. HeadsNext
  <2>1. InvHeads
    BY DEF AInv
  <2> QED BY <1>2, <1>7, <2>1 DEF InvHeads, HeadsNext, Names, NamesNext, StayClosed
<1>11. InvHeads'
  <2>1. CASE conn[l] = "closed"
    <3>1. UNCHANGED inbox
      BY <1>2, <1>4, <2>1 DEF Forward
    <3> QED BY <1>10, <3>1, FrameSame, HeadsSame
  <2>2. CASE conn[l] # "closed"
    <3>1. PICK k \in {"head", "bare"} : k = IF task[c][id].ended THEN "bare" ELSE "head"
      OBVIOUS
    <3>2. PICK n \in Ids : n = 1
      BY OneIn
    <3>3. PICK f \in Frames : f = Frame(n, k, c, s, "control_plane") /\ f.kind = k /\ f.id = n
      BY FrameType, SMTT(60)
    <3>4. f.s = s
      BY <3>3 DEF Frame
    <3>5. inbox' = [inbox EXCEPT ![l] = Append(@, f)] /\ f.kind \in {"head", "bare"}
      BY <1>2, <1>4, <2>2, <3>1, <3>2, <3>3 DEF Forward
    <3>6. NamesNext(l, f.id, f.s)
      BY <1>9, <3>2, <3>3, <3>4
    <3> QED BY <1>1, <1>10, <3>5, <3>6, HeadsAdd
  <2> QED BY <2>1, <2>2
<1> QED BY <1>2, <1>6, <1>7, <1>8, <1>11, KeepsRest

-----------------------------------------------------------------------------
(* What the steps of a server do to the rest of an answer.                   *)
LEMMA RestAt ==
  ASSUME NEW x \in StreamState
  PROVE  /\ \A st \in {"ready", "done"} : LET y == [x EXCEPT !.st = st] IN y.st = st /\ y.rest = x.rest /\ y.to = x.to
         /\ \A to \in Clients : LET y == SentTo(x, "headers", to) IN y.st = "headers" /\ y.rest = x.rest
         /\ \A rest \in Clients \cup {Proxy} : LET y == DoneWith(x, rest) IN y.st = "done" /\ y.rest = rest /\ y.to = x.to
<1>1. ASSUME NEW st \in {"ready", "done"}
      PROVE  LET y == [x EXCEPT !.st = st] IN y.st = st /\ y.rest = x.rest /\ y.to = x.to
  BY DEF StreamState
<1>2. ASSUME NEW to \in Clients PROVE LET y == SentTo(x, "headers", to) IN y.st = "headers" /\ y.rest = x.rest
  BY DEF StreamState, SentTo
<1>3. ASSUME NEW rest \in Clients \cup {Proxy}
      PROVE  LET y == DoneWith(x, rest) IN y.st = "done" /\ y.rest = rest /\ y.to = x.to
  BY DEF StreamState, DoneWith
<1> QED BY <1>1, <1>2, <1>3

LEMMA BeginRest == ASSUME NEW st, NEW c, NEW s PROVE BeginAt(st, c, s).rest = NoAddr
BY DEF BeginAt, NotOpen

(* A stream of a server changes.                                             *)
TogetherAt(r) == OwnAddresses /\ r.to \in up /\ r.rest # NoAddr => r.rest = r.to
PutStream(l, t, r) == sstream' = [sstream EXCEPT ![l][t] = r]
LEMMA PutStreamIs ==
  ASSUME TypeOK, NEW l \in Locals, NEW t \in Ids, NEW r \in StreamState, PutStream(l, t, r)
  PROVE  sstream'[l][t] = r /\ \A k \in Locals, i \in Ids : k # l \/ i # t => sstream'[k][i] = sstream[k][i]
<1>1. sstream \in [Locals -> [Ids -> StreamState]]
  BY DEF TypeOK
<1> QED BY <1>1, Put2 DEF PutStream

LEMMA StreamAnswer ==
  ASSUME OneClient, HInv, HInv', AInv, NEW l \in Locals, NEW t \in Ids, NEW r \in StreamState, PutStream(l, t, r),
         RestInv(r), TogetherAt(r), Names(l, t, r.s), UNCHANGED <<h2_streams, prog, up, sent, task, conn>>,
         InvHeads', AnswerWhileOpen'
  PROVE  AInv'
<1>1. TypeOK /\ InvSent /\ InvSent'
  BY DEF HInv
<1>2. /\ InvOpened /\ InvOpening /\ InvRest /\ InvOwn /\ InvTogether
      /\ InvSame /\ InvBack
  BY DEF AInv
<1>3. StayClosed /\ NoneComes /\ TasksKept /\ SameProg /\ Grow
  BY <1>1, FrameStay, FrameSame, FrameGrow
<1>4. InvOpening' /\ InvOwn' /\ InvSame' /\ InvBack'
  BY <1>1, <1>2, <1>3, FrameOpening, FrameOwn, FrameInvSame, FrameBack
<1>5. sstream'[l][t] = r /\ \A k \in Locals, i \in Ids : k # l \/ i # t => sstream'[k][i] = sstream[k][i]
  BY <1>1, PutStreamIs
<1>6. InvOpened'
  <2>1. ASSUME NEW k \in Locals, NEW i \in Opened(k)' PROVE NamesNext(k, i, sstream'[k][i].s)
    <3>1. i \in Ids /\ sstream'[k][i].st # "none"
      BY <2>1 DEF Opened
    <3>2. CASE k = l /\ i = t
      BY <1>3, <1>5, <3>2 DEF Names, NamesNext, StayClosed
    <3>3. CASE k # l \/ i # t
      <4>1. sstream'[k][i] = sstream[k][i]
        BY <1>5, <3>1, <3>3
      <4>2. i \in Opened(k)
        BY <3>1, <4>1 DEF Opened
      <4>3. Names(k, i, sstream[k][i].s)
        BY <1>2, <4>2 DEF InvOpened
      <4> QED BY <1>3, <4>1, <4>3 DEF Names, NamesNext, StayClosed
    <3> QED BY <3>2, <3>3
  <2> QED BY <2>1 DEF InvOpened, Names, NamesNext
<1>7. InvRest'
  <2>1. ASSUME NEW k \in Locals, NEW i \in Ids PROVE RestInv(sstream'[k][i])
    <3>1. CASE k = l /\ i = t
      BY <1>5, <3>1
    <3>2. CASE k # l \/ i # t
      BY <1>2, <1>5, <3>2 DEF InvRest
    <3> QED BY <3>1, <3>2
  <2> QED BY <2>1 DEF InvRest, RestInv
<1>8. InvTogether'
  <2>1. ASSUME OwnAddresses, NEW k \in Locals, NEW i \in Ids, sstream'[k][i].to \in up, sstream'[k][i].rest # NoAddr
        PROVE  sstream'[k][i].rest = sstream'[k][i].to
    <3>1. CASE k = l /\ i = t
      BY <1>5, <2>1, <3>1 DEF TogetherAt
    <3>2. CASE k # l \/ i # t
      <4>1. sstream'[k][i] = sstream[k][i]
        BY <1>5, <3>2
      <4> QED BY <1>2, <2>1, <4>1 DEF InvTogether, AnswerStaysTogether
    <3> QED BY <3>1, <3>2
  <2> QED BY <2>1 DEF InvTogether, AnswerStaysTogether, OwnAddresses
<1> QED BY <1>4, <1>6, <1>7, <1>8 DEF AInv

(* A server takes a frame from its socket.                                   *)
LEMMA TakeHeads ==
  ASSUME HInv, InvHeads, NEW l \in Locals, inbox[l] # <<>>, inbox' = [inbox EXCEPT ![l] = Tail(@)],
         UNCHANGED h2_streams, StayClosed
  PROVE  InvHeads'
<1>1. TypeOK
  BY DEF HInv
<1>2. /\ \A k \in Locals \ {l} : inbox'[k] = inbox[k]
      /\ \A i \in 1..Len(inbox'[l]) : i + 1 \in 1..Len(inbox[l]) /\ inbox'[l][i] = inbox[l][i + 1]
  BY <1>1, TakeFrame
<1>3. ASSUME NEW k \in Locals, NEW i \in Heads(k)'
      PROVE  \E j \in Heads(k) : inbox'[k][i] = inbox[k][j]
  <2>1. CASE k = l
    <3>1. PICK j : j = i + 1
      OBVIOUS
    <3>2. j \in 1..Len(inbox[l]) /\ inbox'[l][i] = inbox[l][j]
      BY <1>2, <1>3, <2>1, <3>1 DEF Heads
    <3>3. j \in Heads(l)
      BY <1>3, <2>1, <3>2 DEF Heads
    <3> QED BY <2>1, <3>2, <3>3
  <2>2. CASE k # l
    BY <1>2, <1>3, <2>2 DEF Heads
  <2> QED BY <2>1, <2>2
<1>4. ASSUME NEW k \in Locals, NEW i \in Heads(k)' PROVE NamesNext(k, inbox'[k][i].id, inbox'[k][i].s)
  <2>1. PICK j \in Heads(k) : inbox'[k][i] = inbox[k][j]
    BY <1>3
  <2>2. Names(k, inbox[k][j].id, inbox[k][j].s)
    BY DEF InvHeads
  <2> QED BY <2>1, <2>2 DEF Names, NamesNext, StayClosed
<1> QED BY <1>4 DEF InvHeads, Names, NamesNext

LEMMA ServerReadAnswer == ASSUME OneClient, HInv, HInv', AInv, NEW l \in Locals, ServerRead(l) PROVE AInv'
<1>1. PICK f : f = Head(inbox[l])
  OBVIOUS
<1>2. conn[l] = "open" /\ inbox[l] # <<>> /\ UNCHANGED <<maps, prog, client, cp>>
  BY DEF ServerRead
<1>3. TypeOK /\ ConnInv(l) /\ InvHeads /\ InvOpened /\ InvRest /\ AnswerWhileOpen
  BY DEF HInv, InvConn, AInv
<1>4. f \in Frames /\ f = inbox[l][1] /\ 1 \in 1..Len(inbox[l])
  <2>1. inbox[l] \in Seq(Frames)
    BY <1>3 DEF TypeOK
  <2> QED BY <1>1, <1>2, <2>1, SMTT(60)
<1>5. f.id \in Ids /\ f.c \in Clients /\ f.s \in Ids
  BY <1>4, SMTT(60) DEF Frames
<1>6. PICK id \in Ids : id = f.id
  BY <1>5
<1>7. CASE Shut(l)
  BY <1>2, <1>7, ShutAnswer
<1>8. CASE ~Shut(l)
  <2>1. inbox' = [inbox EXCEPT ![l] = Tail(@)] /\ UNCHANGED conn
    BY <1>1, <1>8 DEF ServerRead
  <2>2. StayClosed /\ UNCHANGED <<h2_streams, prog, up, sent, task, conn, crx>>
    BY <1>2, <2>1, FrameStay DEF maps, client, cp
  <2>3. InvHeads' /\ AnswerWhileOpen'
    BY <1>2, <1>3, <2>1, <2>2, TakeHeads, FrameAnswer
  <2>4. PICK r \in StreamState : PutStream(l, id, r) /\ r.st # "none" /\ r.rest = NoAddr /\ Names(l, id, r.s)
    <3>1. CASE f.kind = "data"
      <4>1. PICK r : r = [sstream[l][id] EXCEPT !.st = "ready"]
        OBVIOUS
      <4>2. sstream[l][id].st = "open" /\ PutStream(l, id, r)
        BY <1>1, <1>6, <1>8, <3>1, <4>1 DEF ServerRead, PutStream
      <4>3. id \in Opened(l) /\ sstream[l][id] \in StreamState
        BY <1>3, <4>2 DEF Opened, TypeOK
      <4>4. r \in StreamState /\ r.st = "ready" /\ r.s = sstream[l][id].s
        BY <4>1, <4>3, StreamAt
      <4>5. r.rest = sstream[l][id].rest
        BY <4>1, <4>3, RestAt
      <4>6. sstream[l][id].rest = NoAddr
        BY <1>3, <4>2 DEF InvRest, RestInv
      <4>7. Names(l, id, r.s)
        BY <1>3, <4>3, <4>4 DEF InvOpened
      <4> QED BY <4>2, <4>4, <4>5, <4>6, <4>7
    <3>2. CASE f.kind # "data"
      <4>1. PICK st \in {"open", "ready"} : st = IF f.kind = "head" THEN "open" ELSE "ready"
        OBVIOUS
      <4>2. PICK r : r = [NotOpen EXCEPT !.st = st, !.c = f.c, !.s = f.s]
        OBVIOUS
      <4>3. PutStream(l, id, r)
        BY <1>1, <1>6, <1>8, <3>2, <4>1, <4>2 DEF ServerRead, PutStream
      <4>4. PICK c \in Clients, i \in Ids : c = f.c /\ i = f.s
        BY <1>5
      <4>5. r = BeginAt(st, c, i)
        BY <4>2, <4>4 DEF BeginAt
      <4>6. r \in StreamState /\ r.st = st /\ r.s = i
        BY <4>5, StreamNew, SMTT(60)
      <4>7. r.rest = NoAddr
        BY <4>5, BeginRest
      <4>8. 1 \in Heads(l)
        <5>1. f.kind \in {"head", "data", "bare"}
          BY <1>3, <1>4 DEF ConnInv
        <5> QED BY <1>4, <3>2, <5>1 DEF Heads
      <4>9. Names(l, id, r.s)
        BY <1>3, <1>4, <1>6, <4>4, <4>6, <4>8 DEF InvHeads
      <4> QED BY <4>3, <4>6, <4>7, <4>9
    <3> QED BY <3>1, <3>2
  <2>5. RestInv(r) /\ TogetherAt(r)
    BY <2>4 DEF RestInv, TogetherAt
  <2> QED BY <2>2, <2>3, <2>4, <2>5, StreamAnswer
<1> QED BY <1>7, <1>8

(* A client gets a frame of an answer.                                       *)
GetsFrame(c, f) == crx' = [crx EXCEPT ![c] = @ \cup {f}]
LEMMA CrxAnswer ==
  ASSUME OneClient, HInv, AnswerWhileOpen, UNCHANGED conn, NEW c \in Clients, NEW f \in Frames, GetsFrame(c, f),
         NoneClosed => f.s = f.id
  PROVE  AnswerWhileOpen'
<1>1. crx \in [Clients -> SUBSET Frames]
  BY DEF HInv, TypeOK
<1>2. \A d \in Clients : \A g \in crx'[d] : g \in crx[d] \/ g = f
  BY <1>1 DEF GetsFrame
<1>3. f.c \in Clients
  BY DEF Frames
<1>4. \A d \in Clients : f.c = d
  BY <1>3, OneIs
<1>5. ASSUME NoneClosed', NEW d \in Clients, NEW g \in crx'[d], g.via = "data_plane" PROVE g.c = d /\ g.s = g.id
  <2>1. NoneClosed
    BY <1>5 DEF NoneClosed
  <2>2. CASE g = f
    BY <1>4, <2>1, <2>2
  <2>3. CASE g \in crx[d]
    BY <1>5, <2>1, <2>3 DEF AnswerWhileOpen, AnswerToRequest
  <2> QED BY <1>2, <2>2, <2>3
<1> QED BY <1>5 DEF AnswerWhileOpen, AnswerToRequest

LEMMA UsHeadersAnswer ==
  ASSUME OneClient, HInv, HInv', AInv, NEW l \in Locals, NEW t \in Ids, UsHeaders(l, t) PROVE AInv'
<1>1. TypeOK /\ InvRest /\ InvHeads /\ InvOpened /\ AnswerWhileOpen
  BY DEF HInv, AInv
<1>2. /\ sstream[l][t].st = "ready"
      /\ UNCHANGED <<fib_downstream, utrn_wait_list, h2_conns, h2_streams, prog, up, sent, task, body, conn, inbox>>
  BY DEF UsHeaders, cp
<1>3. t \in Opened(l) /\ RestInv(sstream[l][t])
  BY <1>1, <1>2 DEF Opened, InvRest
<1>4. PICK x \in StreamState : x = sstream[l][t] /\ x.c \in Clients /\ x.s \in Ids /\ x.rest = NoAddr
  BY <1>2, <1>3, OpenedUsed DEF RestInv
<1>5. Names(l, t, x.s)
  BY <1>1, <1>3, <1>4 DEF InvOpened
<1>6. InvHeads'
  BY <1>1, <1>2, FrameStay, FrameSame, FrameHeads
<1>7. PICK to \in Clients \cup {NoAddr} : to = fib_downstream[l]
  BY <1>1 DEF TypeOK
<1>8. PICK r \in StreamState : /\ PutStream(l, t, r) /\ r.st # "none" /\ r.rest = NoAddr /\ r.s = x.s
                               /\ AnswerWhileOpen'
  <2>1. CASE Redirectable(to)
    <3>1. to \in Clients
      BY <2>1, ToClient
    <3>2. PICK id \in Ids, c \in Clients, s \in Ids : id = AnswerId(l, t) /\ c = x.c /\ s = x.s
      BY <1>4, AnswerIs
    <3>3. PICK f \in Frames : f = Frame(id, "head", c, s, "data_plane") /\ f.id = id
      BY FrameType, SMTT(60)
    <3>4. f.s = s
      BY <3>3 DEF Frame
    <3>5. /\ GetsFrame(to, f)
          /\ sstream' = [sstream EXCEPT ![l][t].st = "headers", ![l][t].to = to]
      BY <1>4, <1>7, <2>1, <3>2, <3>3 DEF UsHeaders, GetsFrame
    <3>6. PICK r : r = SentTo(x, "headers", to)
      OBVIOUS
    <3>7. PutStream(l, t, r)
      <4>1. sstream \in [Locals -> [Ids -> StreamState]]
        BY <1>1 DEF TypeOK
      <4> QED BY <1>4, <3>5, <3>6, <4>1 DEF SentTo, StreamState, PutStream
    <3>8. r \in StreamState /\ r.s = x.s
      BY <3>1, <3>6, StreamSent
    <3>9. r.st = "headers" /\ r.rest = x.rest
      BY <3>1, <3>6, RestAt
    <3>10. NoneClosed => f.s = f.id
      BY <1>5, <3>2, <3>3, <3>4 DEF Names, AnswerId
    <3>11. AnswerWhileOpen'
      BY <1>1, <1>2, <3>1, <3>5, <3>10, CrxAnswer
    <3> QED BY <1>4, <3>7, <3>8, <3>9, <3>11
  <2>2. CASE ~Redirectable(to)
    <3>1. sstream' = [sstream EXCEPT ![l][t].st = "done"] /\ UNCHANGED crx
      BY <1>7, <2>2 DEF UsHeaders
    <3>2. PICK r : r = [x EXCEPT !.st = "done"]
      OBVIOUS
    <3>3. PutStream(l, t, r)
      BY <1>1, <1>4, <3>1, <3>2, StreamPut DEF PutStream
    <3>4. r \in StreamState /\ r.st = "done" /\ r.s = x.s
      BY <3>2, StreamAt
    <3>5. r.rest = x.rest
      BY <3>2, RestAt
    <3>6. AnswerWhileOpen'
      BY <1>1, <1>2, <3>1, FrameStay, FrameAnswer
    <3> QED BY <1>4, <3>3, <3>4, <3>5, <3>6
  <2> QED BY <2>1, <2>2
<1>9. RestInv(r) /\ TogetherAt(r) /\ Names(l, t, r.s)
  BY <1>5, <1>8 DEF RestInv, TogetherAt
<1> QED BY <1>2, <1>6, <1>8, <1>9, StreamAnswer

(* The rest of an answer is for the client that the server's stream is       *)
(* assigned to, which is the one its HEADERS went to.                        *)
LEMMA UsTrailersAnswer ==
  ASSUME OneClient, HInv, HInv', AInv, NEW l \in Locals, NEW t \in Ids, UsTrailers(l, t) PROVE AInv'
<1>1. TypeOK /\ InvRest /\ InvHeads /\ InvOpened /\ InvOwn /\ AnswerWhileOpen
  BY DEF HInv, AInv
<1>2. /\ sstream[l][t].st \in {"ready", "headers"}
      /\ UNCHANGED <<h2_streams, prog, up, sent, task, conn, inbox>>
  BY DEF UsTrailers, maps, cp
<1>3. t \in Opened(l)
  BY <1>2 DEF Opened
<1>4. PICK x \in StreamState : x = sstream[l][t] /\ x.c \in Clients /\ x.s \in Ids
  BY <1>3, OpenedUsed
<1>5. Names(l, t, x.s)
  BY <1>1, <1>3, <1>4 DEF InvOpened
<1>6. InvHeads'
  BY <1>1, <1>2, FrameStay, FrameSame, FrameHeads
<1>7. PICK m : m = h2_streams[<<l, t>>]
  OBVIOUS
<1>8. m # NoStream /\ (NoneClosed => m[2] = x.s) /\ m[1] \in Hosts /\ m[2] \in Ids
  BY <1>5, <1>7, AnswerIs DEF Names
<1>9. \A d \in up : d \in Clients
  <2>1. up \in SUBSET Clients
    BY <1>1 DEF TypeOK
  <2> QED BY <2>1
<1>10. PICK rest \in Clients \cup {Proxy} :
         /\ sstream' = [sstream EXCEPT ![l][t].st = "done", ![l][t].rest = rest]
         /\ AnswerWhileOpen' /\ (OwnAddresses /\ x.to \in up => rest = x.to)
  <2>1. CASE Redirectable(m[1])
    <3>1. m[1] \in Clients
      BY <1>8, <2>1, ToClient
    <3>2. PICK to \in Clients, id \in Ids, c \in Clients, s \in Ids : to = m[1] /\ id = m[2] /\ c = x.c /\ s = x.s
      BY <1>4, <1>8, <3>1
    <3>3. PICK f \in Frames : f = Frame(id, "trailers", c, s, "data_plane") /\ f.id = id
      BY FrameType, SMTT(60)
    <3>4. f.s = s
      BY <3>3 DEF Frame
    <3>5. /\ GetsFrame(to, f)
          /\ sstream' = [sstream EXCEPT ![l][t].st = "done", ![l][t].rest = to]
      BY <1>4, <1>7, <1>8, <2>1, <3>2, <3>3 DEF UsTrailers, GetsFrame
    <3>6. AnswerWhileOpen'
      <4>1. NoneClosed => f.s = f.id
        BY <1>8, <3>2, <3>3, <3>4
      <4> QED BY <1>1, <1>2, <3>5, <4>1, CrxAnswer
    <3>7. x.to \in up => to = x.to
      BY <1>9, OneIs
    <3> QED BY <3>5, <3>6, <3>7
  <2>2. CASE ~Redirectable(m[1])
    <3>1. sstream' = [sstream EXCEPT ![l][t].st = "done", ![l][t].rest = Proxy] /\ UNCHANGED crx
      BY <1>7, <2>2 DEF UsTrailers
    <3>2. AnswerWhileOpen'
      BY <1>1, <1>2, <3>1, FrameStay, FrameAnswer
    <3>3. ~(OwnAddresses /\ x.to \in up)
      <4>1. m[1] \notin up
        BY <2>2 DEF Redirectable
      <4>2. OwnAddresses => m[1] \in Clients
        BY <1>1, <1>7, <1>8 DEF InvOwn
      <4> QED BY <1>9, <4>1, <4>2, OneIs
    <3> QED BY <3>1, <3>2, <3>3
  <2> QED BY <2>1, <2>2
<1>11. PICK r : r = DoneWith(x, rest)
  OBVIOUS
<1>12. PutStream(l, t, r)
  <2>1. sstream \in [Locals -> [Ids -> StreamState]]
    BY <1>1 DEF TypeOK
  <2> QED BY <1>4, <1>10, <1>11, <2>1 DEF DoneWith, StreamState, PutStream
<1>13. r \in StreamState /\ r.s = x.s
  BY <1>11, StreamSent
<1>14. r.st = "done" /\ r.rest = rest /\ r.to = x.to
  BY <1>11, RestAt
<1>15. RestInv(r) /\ TogetherAt(r) /\ Names(l, t, r.s)
  BY <1>5, <1>10, <1>13, <1>14 DEF RestInv, TogetherAt
<1> QED BY <1>2, <1>6, <1>10, <1>12, <1>13, <1>15, StreamAnswer

-----------------------------------------------------------------------------
LEMMA InitAnswer == ASSUME OneClient, Init PROVE AInv
<1>1. \A x \in Hosts \cup Locals, i \in Ids : h2_streams[<<x, i>>] = NoStream
  BY DEF Init, Streams
<1>2. \A i : i \notin 1..Len(<<>>)
  BY SMTT(60)
<1>3. \A l \in Locals : Heads(l) = {} /\ Opened(l) = {}
  BY <1>2, NotOpenType DEF Heads, Opened, Init
<1>4. \A c \in Clients, i \in Ids : task[c][i].pc = "none"
  BY DEF Init, NoTask
<1>5. InvHeads /\ InvOpened
  BY <1>3 DEF InvHeads, InvOpened
<1>6. InvOpening
  BY <1>4 DEF InvOpening, Opening
<1>7. RestInv(NotOpen) /\ NotOpen.rest = NoAddr
  BY DEF RestInv, NotOpen
<1>8. \A l \in Locals, t \in Ids : sstream[l][t] = NotOpen
  BY DEF Init
<1>9. InvRest
  BY <1>7, <1>8 DEF InvRest
<1>10. InvTogether
  BY <1>7, <1>8 DEF InvTogether, AnswerStaysTogether
<1>11. InvOwn /\ InvBack
  BY <1>1 DEF InvOwn, InvBack
<1>12. InvSame
  BY <1>4 DEF InvSame, Init
<1>13. AnswerWhileOpen
  BY DEF AnswerWhileOpen, AnswerToRequest, Init
<1> QED BY <1>5, <1>6, <1>9, <1>10, <1>11, <1>12, <1>13 DEF AInv

LEMMA TaskAnswer ==
  ASSUME OneClient, HInv, HInv', AInv, NEW c \in Clients, NEW id \in Ids, Task(c, id) PROVE AInv'
BY TaskFailAnswer, TaskBindAnswer, TaskConnectedAnswer, TaskConnectFailAnswer, TaskSendAnswer, TaskBodyAnswer,
   TaskDeleteAnswer DEF Task

LEMMA NextAnswer == ASSUME OneClient, HInv, HInv', AInv, Next PROVE AInv'
<1>1. ASSUME NEW c \in Clients,
             \/ Preface(c) \/ GiveUp(c) \/ DsDrop(c) \/ DsHeaders(c) \/ DsAssign(c) \/ DsUturn(c) \/ DsBare(c)
      PROVE  AInv'
  BY <1>1, PrefaceAnswer, DsDropAnswer, DsHeadersAnswer, DsAssignAnswer, DsUturnAnswer, DsBareAnswer
<1>2. ASSUME NEW c \in Clients, NEW s \in Ids, DsData(c, s) \/ Task(c, s) PROVE AInv'
  BY <1>2, DsDataAnswer, TaskAnswer
<1>3. ASSUME NEW l \in Locals, ServerRead(l) \/ ConnClose(l) \/ Established(l) PROVE AInv'
  BY <1>3, ServerReadAnswer, ConnCloseAnswer, EstablishedAnswer
<1>4. ASSUME NEW l \in Locals, NEW t \in Ids, UsHeaders(l, t) \/ UsTrailers(l, t) PROVE AInv'
  BY <1>4, UsHeadersAnswer, UsTrailersAnswer
<1> QED BY <1>1, <1>2, <1>3, <1>4 DEF Next

LEMMA StutterAnswer == ASSUME OneClient, HInv, HInv', AInv, UNCHANGED vars PROVE AInv'
<1>1. UNCHANGED <<maps, prog, client, cp, server>>
  BY DEF vars
<1>2. StayClosed /\ TasksKept /\ SameHeads /\ SameProg /\ NoneComes /\ Grow
  BY <1>1, FrameStay, FrameSame, FrameGrow DEF HInv, cp, server, client
<1>3. AnswerWhileOpen'
  BY <1>1, <1>2, FrameAnswer DEF AInv, client
<1> QED BY <1>1, <1>2, <1>3, Keeps DEF maps, server

(* h2_streams leads back, from a server's stream to its client's and on.     *)
LEMMA BackTwoWays == ASSUME AInv PROVE TwoWays
<1>1. InvBack
  BY DEF AInv
<1>2. ASSUME NoneClosed, NEW k \in Locals \X Ids, h2_streams[k] # NoStream PROVE h2_streams[h2_streams[k]] = k
  <2>1. PICK l \in Locals, t \in Ids : k = <<l, t>>
    BY <1>2, SMTT(60)
  <2> QED BY <1>1, <1>2, <2>1 DEF InvBack
<1> QED BY <1>2 DEF TwoWays

(* With one client both invariants hold in every state.                      *)
LEMMA Answers == OneClient => (Spec => [](HInv /\ AInv))
<1> SUFFICES ASSUME OneClient PROVE Spec => [](HInv /\ AInv)
  OBVIOUS
<1>1. Init => HInv /\ AInv
  BY InitInv, InitAnswer
<1>2. HInv /\ AInv /\ [Next]_vars => (HInv /\ AInv)'
  <2>1. ASSUME HInv, AInv, Next PROVE HInv' /\ AInv'
    BY <2>1, NextInv, NextAnswer
  <2>2. ASSUME HInv, AInv, UNCHANGED vars PROVE HInv' /\ AInv'
    BY <2>2, StutterInv, StutterAnswer
  <2> QED BY <2>1, <2>2
<1> QED BY <1>1, <1>2, PTL DEF Spec

(* With one client, and as long as no upstream connection has been closed,   *)
(* every frame that process_msg sends to the client belongs to the request   *)
(* that the client sent on the same stream.                                  *)
THEOREM OneClientAnswers == OneClient => (Spec => []AnswerWhileOpen)
<1>1. HInv /\ AInv => AnswerWhileOpen
  BY DEF AInv
<1> QED BY <1>1, Answers, PTL

(* With one client, and as long as no upstream connection has been closed,   *)
(* the two directions of h2_streams agree.                                   *)
THEOREM OneClientTwoWays == OneClient => (Spec => []TwoWays)
<1>1. HInv /\ AInv => TwoWays
  BY BackTwoWays
<1> QED BY <1>1, Answers, PTL

(* With one client that the control plane sees under its own address, the    *)
(* trailers of an answer go where its HEADERS went, whatever is closed.      *)
THEOREM OneClientTogether == OneClient /\ OwnAddresses => (Spec => []AnswerStaysTogether)
<1> SUFFICES ASSUME OneClient, OwnAddresses PROVE Spec => []AnswerStaysTogether
  OBVIOUS
<1>1. HInv /\ AInv => AnswerStaysTogether
  BY DEF AInv, InvTogether
<1>2. Spec => [](HInv /\ AInv)
  BY Answers
<1> QED BY <1>1, <1>2, PTL
==============================================================================

---------------------------- MODULE RequestReply ----------------------------
(***************************************************************************)
(* What the HTTP/1.1 proxy promises a client, with no proxy in it.  A      *)
(* request is handed to a server at most once.  The answer is that         *)
(* server's, from its first part to its last, or it is an error that says  *)
(* no server has the request.  A request may be refused or get lost, and   *)
(* a lost one is never answered.                                           *)
(***************************************************************************)
EXTENDS Naturals

CONSTANTS Clients,
          MaxReqs,   \* bound: requests a client sends
          MaxBody    \* bound: parts of a message after its head

(* Of each client the connection, the number of requests it has made, the    *)
(* phase of the last one, and the length of its answer with what has come.   *)
VARIABLE exch

Exchange(st, n, phase, len, got) ==
  [st |-> st, n |-> n, phase |-> phase, len |-> len, got |-> got]

Init == exch = [c \in Clients |-> Exchange("new", 0, "none", 0, 0)]

Connect(c) ==
  /\ exch[c].st = "new"
  /\ exch' = [exch EXCEPT ![c] = Exchange("idle", exch[c].n, "none", 0, 0)]
Refuse(c) ==
  /\ exch[c].st = "idle" /\ exch[c].n < MaxReqs
  /\ exch' = [exch EXCEPT ![c] = Exchange("idle", exch[c].n + 1, "none", 0, 0)]
Ask(c) ==
  /\ exch[c].st = "idle" /\ exch[c].n < MaxReqs
  /\ exch' = [exch EXCEPT ![c] = Exchange("waiting", exch[c].n + 1, "asked", 0, 0)]
Serve(c) ==
  /\ exch[c].phase = "asked"
  /\ exch' = [exch EXCEPT ![c] = Exchange("waiting", exch[c].n, "served", 0, 0)]
Lose(c) ==
  /\ exch[c].phase \in {"asked", "served"}
  /\ exch' = [exch EXCEPT ![c] = Exchange("waiting", exch[c].n, "lost", 0, 0)]
Reply(c) ==
  /\ exch[c].phase = "served"
  /\ \E len \in 0..MaxBody :
       exch' = [exch EXCEPT ![c] = Exchange("waiting", exch[c].n, "replied", len, 1)]
Fail(c) ==
  /\ exch[c].phase = "asked"
  /\ exch' = [exch EXCEPT ![c] = Exchange("waiting", exch[c].n, "replied", 0, 1)]
More(c) ==
  /\ exch[c].phase = "replied" /\ exch[c].got <= exch[c].len
  /\ exch' = [exch EXCEPT ![c] =
                Exchange("waiting", exch[c].n, "replied", exch[c].len, exch[c].got + 1)]
Finish(c) ==
  /\ exch[c].phase = "replied" /\ exch[c].got = exch[c].len + 1
  /\ exch' = [exch EXCEPT ![c] = Exchange("idle", exch[c].n, "none", 0, 0)]
Close(c) ==
  /\ exch[c].st \in {"idle", "waiting"}
  /\ exch' = [exch EXCEPT ![c] = Exchange("closed", exch[c].n, "none", 0, 0)]

Next ==
  \E c \in Clients :
    \/ Connect(c) \/ Refuse(c) \/ Ask(c) \/ Serve(c) \/ Lose(c) \/ Reply(c)
    \/ Fail(c) \/ More(c) \/ Finish(c) \/ Close(c)
Spec == Init /\ [][Next]_exch
=============================================================================

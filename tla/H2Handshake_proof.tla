-------------------------- MODULE H2Handshake_proof --------------------------
(***************************************************************************)
(* However the octets of a connection are cut into reads and writes, the   *)
(* server's handshake takes the preface from the socket and no octet more. *)
(* The proof follows each octet by its place in what the client says: what *)
(* was read, what is on the socket and what is still to be written are     *)
(* consecutive stretches of it.                                            *)
(***************************************************************************)
EXTENDS H2Handshake, TLAPS

(* Most steps are about places in sequences: the SMT solver, with some time. *)
USE SMTT(30)

(* Octets of says that the server has taken from the socket.               *)
Taken == pos + Len(frames)

InvTypes ==
  /\ says \in Seq(Octets) /\ cbuf \in Seq(Octets) /\ up \in Seq(Octets) /\ frames \in Seq(Octets)
  /\ pos \in 0..Len(PREFACE)
  /\ client \in {"binding", "open", "other"}
  /\ server \in {"Flushing", "ReadingPreface", "Done", "PROTOCOL_ERROR", "UnexpectedEof"}
  /\ client # "other" => says = PREFACE \o SETTINGS

(* ReadPreface.pos counts octets that were said and are the preface's.     *)
InvRead ==
  /\ pos <= Len(says) /\ \A i \in 1..pos : says[i] = PREFACE[i]
  /\ server \in {"Flushing", "ReadingPreface"} => pos < Len(PREFACE) /\ frames = <<>>
  /\ server = "Done" => pos = Len(PREFACE)

(* q is the stretch of s behind its first k octets.                        *)
Stretch(q, s, k) == \A i \in 1..Len(q) : q[i] = s[k + i]

(* The stretches of says, while the server has not given up.               *)
Alive == server \in {"Flushing", "ReadingPreface", "Done"}
InvStretches ==
  Alive =>
    /\ Stretch(frames, says, pos)
    /\ Stretch(up, says, Taken)
    /\ Stretch(cbuf, says, Taken + Len(up))
    /\ Taken + Len(up) <= Len(says)
    /\ Taken + Len(up) + Len(cbuf) = IF client = "binding" THEN Len(PREFACE) ELSE Len(says)

InvVerdict ==
  /\ server = "PROTOCOL_ERROR" => ~Begins(PREFACE, says) /\ ~Begins(says, PREFACE)
  /\ server = "UnexpectedEof" => Begins(says, PREFACE) /\ says # PREFACE

HInv == InvTypes /\ InvRead /\ InvStretches /\ InvVerdict
-----------------------------------------------------------------------------
(* The first n elements of a sequence, and the others, by index.           *)
LEMMA CutFacts ==
  ASSUME NEW S, NEW s \in Seq(S), NEW n \in Nat, n <= Len(s)
  PROVE  /\ First(s, n) \in Seq(S) /\ Len(First(s, n)) = n
         /\ \A i \in 1..n : First(s, n)[i] = s[i]
         /\ From(s, n) \in Seq(S) /\ Len(From(s, n)) = Len(s) - n
         /\ \A i \in 1..(Len(s) - n) : From(s, n)[i] = s[n + i]
<1>1. /\ SubSeq(s, 1, n) \in Seq(S) /\ Len(SubSeq(s, 1, n)) = n
      /\ \A i \in 1..n : SubSeq(s, 1, n)[i] = s[i]
  OBVIOUS
<1>2. /\ SubSeq(s, n + 1, Len(s)) \in Seq(S) /\ Len(SubSeq(s, n + 1, Len(s))) = Len(s) - n
      /\ \A i \in 1..(Len(s) - n) : SubSeq(s, n + 1, Len(s))[i] = s[n + i]
  OBVIOUS
<1> QED BY <1>1, <1>2, ZenonT(20) DEF First, From

(* Two sequences behind each other, by index.                              *)
LEMMA JoinFacts ==
  ASSUME NEW S, NEW s \in Seq(S), NEW t \in Seq(S)
  PROVE  /\ s \o t \in Seq(S) /\ Len(s \o t) = Len(s) + Len(t)
         /\ \A i \in 1..Len(s) : (s \o t)[i] = s[i]
         /\ \A i \in 1..Len(t) : (s \o t)[Len(s) + i] = t[i]
<1>1. Len(s) \in Nat /\ Len(t) \in Nat
  OBVIOUS
<1>2. /\ s \o t \in Seq(S) /\ Len(s \o t) = Len(s) + Len(t)
      /\ \A i \in 1..Len(s) + Len(t) : (s \o t)[i] = IF i <= Len(s) THEN s[i] ELSE t[i - Len(s)]
  OBVIOUS
<1>3. ASSUME NEW i \in 1..Len(s) PROVE (s \o t)[i] = s[i]
  BY <1>1, <1>2
<1>4. ASSUME NEW i \in 1..Len(t) PROVE (s \o t)[Len(s) + i] = t[i]
  <2>1. /\ Len(s) + i \in 1..Len(s) + Len(t) /\ ~(Len(s) + i <= Len(s)) /\ (Len(s) + i) - Len(s) = i
    BY <1>1
  <2> QED BY <1>2, <2>1
<1> QED BY <1>2, <1>3, <1>4

(* A read of n octets, when p of the a octets of the preface are there: the  *)
(* place behind it is within the preface, and within the t octets said.      *)
LEMMA PlaceBehind ==
  ASSUME NEW a \in Nat, NEW p \in Nat, NEW u \in Nat, NEW t \in Nat, NEW n \in Nat,
         p < a, n <= a - p, n <= u, p + u <= t
  PROVE  /\ p + n \in 0..a /\ p + n <= t
         /\ n = a - p => p + n = a
         /\ n # a - p => p + n < a
OBVIOUS

(* Stretches are joined and cut where they meet.                           *)
LEMMA StretchJoin ==
  ASSUME NEW S, NEW q \in Seq(S), NEW r \in Seq(S), NEW s, NEW k \in Nat,
         Stretch(q, s, k), Stretch(r, s, k + Len(q))
  PROVE  Stretch(q \o r, s, k)
<1>1. Len(q) \in Nat /\ Len(r) \in Nat
  OBVIOUS
<1>2. /\ Len(q \o r) = Len(q) + Len(r)
      /\ \A i \in 1..Len(q) : (q \o r)[i] = q[i]
      /\ \A i \in 1..Len(r) : (q \o r)[Len(q) + i] = r[i]
  BY JoinFacts
<1> SUFFICES ASSUME NEW i \in 1..Len(q \o r) PROVE (q \o r)[i] = s[k + i]
  BY DEF Stretch
<1>3. CASE i <= Len(q)
  <2>1. i \in 1..Len(q)
    BY <1>1, <1>3
  <2> QED BY <1>2, <2>1 DEF Stretch
<1>4. CASE ~(i <= Len(q))
  <2>1. PICK j \in 1..Len(r) : i = Len(q) + j
    <3>1. i - Len(q) \in 1..Len(r) /\ i = Len(q) + (i - Len(q))
      BY <1>1, <1>2, <1>4
    <3> QED BY <3>1, ZenonT(20)
  <2>2. (q \o r)[i] = r[j]
    BY <1>2, <2>1
  <2>3. r[j] = s[(k + Len(q)) + j]
    BY DEF Stretch
  <2>4. (k + Len(q)) + j = k + i
    BY <1>1, <2>1
  <2> QED BY <2>2, <2>3, <2>4
<1> QED BY <1>3, <1>4

LEMMA StretchCut ==
  ASSUME NEW S, NEW q \in Seq(S), NEW s, NEW k \in Nat, NEW n \in Nat, n <= Len(q), Stretch(q, s, k)
  PROVE  Stretch(First(q, n), s, k) /\ Stretch(From(q, n), s, k + n)
<1>1. Len(q) \in Nat
  OBVIOUS
<1>2. /\ Len(First(q, n)) = n /\ \A i \in 1..n : First(q, n)[i] = q[i]
      /\ Len(From(q, n)) = Len(q) - n /\ \A i \in 1..(Len(q) - n) : From(q, n)[i] = q[n + i]
  BY CutFacts, ZenonT(20)
<1>3. ASSUME NEW i \in 1..Len(First(q, n)) PROVE First(q, n)[i] = s[k + i]
  <2>1. i \in 1..n /\ i \in 1..Len(q)
    BY <1>1, <1>2
  <2> QED BY <1>2, <2>1 DEF Stretch
<1>4. ASSUME NEW i \in 1..Len(From(q, n)) PROVE From(q, n)[i] = s[(k + n) + i]
  <2>1. n + i \in 1..Len(q) /\ k + (n + i) = (k + n) + i
    BY <1>1, <1>2
  <2>2. q[n + i] = s[k + (n + i)]
    BY <2>1 DEF Stretch
  <2> QED BY <1>2, <2>1, <2>2
<1> QED BY <1>3, <1>4 DEF Stretch
-----------------------------------------------------------------------------
(* The facts of the invariant that a step leaves as they are when it leaves *)
(* the octets as they are.                                                  *)
LEMMA Frame ==
  ASSUME HInv, UNCHANGED <<says, client, cbuf, up, pos, frames>>,
         server' = server \/ (server = "Flushing" /\ server' = "ReadingPreface")
  PROVE  HInv'
<1>1. InvTypes' /\ InvRead'
  BY DEF HInv, InvTypes, InvRead
<1>2. InvStretches'
  <2>1. Taken' = Taken /\ (Alive' => Alive)
    BY DEF Alive, Taken
  <2> QED BY <2>1, ZenonT(20) DEF HInv, InvStretches
<1>3. InvVerdict'
  BY DEF HInv, InvVerdict
<1> QED BY <1>1, <1>2, <1>3 DEF HInv

LEMMA InitInv == Init => HInv
<1> SUFFICES ASSUME Init PROVE HInv
  OBVIOUS
<1>1. /\ PREFACE \in Seq(Octets) /\ PREFACE # <<>> /\ SETTINGS \in Seq(Octets)
      /\ Len(PREFACE) \in Nat /\ Len(PREFACE) > 0 /\ Len(SETTINGS) \in Nat
  BY OctetAssumption
<1>2. /\ PREFACE \o SETTINGS \in Seq(Octets)
      /\ Len(PREFACE \o SETTINGS) = Len(PREFACE) + Len(SETTINGS)
      /\ \A i \in 1..Len(PREFACE) : (PREFACE \o SETTINGS)[i] = PREFACE[i]
  BY <1>1, JoinFacts
<1>3. up = <<>> /\ frames = <<>> /\ Len(<<>>) = 0 /\ <<>> \in Seq(Octets) /\ pos = 0 /\ server = "Flushing"
  BY DEF Init
<1>4. CASE says = PREFACE \o SETTINGS /\ client = "binding" /\ cbuf = PREFACE
  BY <1>1, <1>2, <1>3, <1>4 DEF HInv, InvTypes, InvRead, InvStretches, InvVerdict, Alive, Taken, Stretch
<1>5. CASE says \in Others /\ client = "other" /\ cbuf = says
  <2>1. says \in Seq(Octets) /\ Len(says) \in Nat
    BY <1>5, OctetAssumption
  <2> QED BY <1>1, <1>3, <1>5, <2>1
        DEF HInv, InvTypes, InvRead, InvStretches, InvVerdict, Alive, Taken, Stretch
<1> QED BY <1>4, <1>5 DEF Init

(* A write moves octets from the client's buffer to the end of the socket;  *)
(* behind the last of the preface come the SETTINGS.                        *)
LEMMA ClientWriteInv ==
  ASSUME HInv, NEW n \in Sizes, ClientWrite(n)
  PROVE  HInv'
<1>1. /\ n \in Nat /\ n <= Len(cbuf) /\ up' = up \o First(cbuf, n)
      /\ UNCHANGED <<says, server, pos, frames>>
  BY CapacityAssumption DEF ClientWrite, Sizes
<1>2. /\ says \in Seq(Octets) /\ cbuf \in Seq(Octets) /\ up \in Seq(Octets) /\ frames \in Seq(Octets)
      /\ Len(says) \in Nat /\ Len(cbuf) \in Nat /\ Len(up) \in Nat /\ Len(frames) \in Nat
      /\ Taken \in Nat /\ Taken' = Taken
  BY <1>1 DEF HInv, InvTypes, Taken
<1>3. /\ PREFACE \in Seq(Octets) /\ SETTINGS \in Seq(Octets)
      /\ Len(PREFACE) \in Nat /\ Len(SETTINGS) \in Nat
  BY OctetAssumption
<1>4. /\ First(cbuf, n) \in Seq(Octets) /\ Len(First(cbuf, n)) = n
      /\ From(cbuf, n) \in Seq(Octets) /\ Len(From(cbuf, n)) = Len(cbuf) - n
  <2>1. cbuf \in Seq(Octets) /\ n \in Nat /\ n <= Len(cbuf)
    BY <1>1, <1>2, ZenonT(20)
  <2> QED BY <2>1, CutFacts, ZenonT(20)
<1>5. up' \in Seq(Octets) /\ Len(up') = Len(up) + n
  BY <1>1, <1>2, <1>4, JoinFacts, ZenonT(20)
<1>6. client # "other" => says = PREFACE \o SETTINGS /\ Len(says) = Len(PREFACE) + Len(SETTINGS)
  BY <1>3, JoinFacts DEF HInv, InvTypes
<1>7. InvTypes' /\ InvRead' /\ InvVerdict'
  <2>1. cbuf' \in Seq(Octets) /\ client' \in {client, "open"} /\ (client' = "open" => client # "other")
    BY <1>3, <1>4 DEF ClientWrite, HInv, InvTypes
  <2>2. InvTypes'
    BY <1>1, <1>5, <2>1 DEF HInv, InvTypes
  <2>3. InvRead' /\ InvVerdict'
    BY <1>1, ZenonT(20) DEF HInv, InvRead, InvVerdict
  <2> QED BY <2>2, <2>3
<1>8. ASSUME Alive
      PROVE  /\ Stretch(frames, says, pos)' /\ Stretch(up, says, Taken)'
             /\ Stretch(cbuf, says, Taken + Len(up))'
             /\ (Taken + Len(up) <= Len(says))'
             /\ (Taken + Len(up) + Len(cbuf) = IF client = "binding" THEN Len(PREFACE) ELSE Len(says))'
  <2>1. /\ Stretch(frames, says, pos) /\ Stretch(up, says, Taken) /\ Stretch(cbuf, says, Taken + Len(up))
        /\ Taken + Len(up) <= Len(says)
        /\ Taken + Len(up) + Len(cbuf) = IF client = "binding" THEN Len(PREFACE) ELSE Len(says)
    BY <1>8 DEF HInv, InvStretches
  <2>2. Taken + Len(up) \in Nat
    BY <1>2
  <2>3. /\ Stretch(First(cbuf, n), says, Taken + Len(up))
        /\ Stretch(From(cbuf, n), says, (Taken + Len(up)) + n)
    BY <1>1, <1>2, <2>1, <2>2, StretchCut, ZenonT(20)
  <2>4. Stretch(up', says', Taken')
    BY <1>1, <1>2, <1>4, <2>1, <2>3, StretchJoin
  <2>5. (Taken + Len(up)) + n = Taken' + Len(up')
    BY <1>1, <1>2, <1>5
  <2>6. Stretch(frames, says, pos)'
    BY <1>1, <2>1 DEF Stretch
  <2>7. CASE client = "binding" /\ n = Len(cbuf)
    <3>1. client' = "open" /\ cbuf' = SETTINGS
      BY <2>7 DEF ClientWrite
    <3>2. Taken' + Len(up') = Len(PREFACE)
      BY <2>1, <2>5, <2>7
    <3>3. Stretch(SETTINGS, says, Len(PREFACE))
      BY <1>3, <1>6, <2>7, JoinFacts DEF Stretch
    <3>4. Len(says) = Len(PREFACE) + Len(SETTINGS)
      BY <1>6, <2>7
    <3>5. Stretch(cbuf', says', Taken' + Len(up'))
      BY <1>1, <3>1, <3>2, <3>3
    <3>6. Taken' + Len(up') <= Len(says') /\ Taken' + Len(up') + Len(cbuf') = Len(says')
      <4>1. Len(cbuf') = Len(SETTINGS) /\ Len(says') = Len(PREFACE) + Len(SETTINGS)
        BY <1>1, <3>1, <3>4
      <4> QED BY <1>3, <3>2, <4>1
    <3> QED BY <2>4, <2>6, <3>1, <3>5, <3>6
  <2>8. CASE ~(client = "binding" /\ n = Len(cbuf))
    <3>1. client' = client /\ cbuf' = From(cbuf, n)
      BY <2>8 DEF ClientWrite
    <3>2. Taken' + Len(up') + Len(cbuf') = Taken + Len(up) + Len(cbuf)
      <4>1. Len(cbuf') = Len(cbuf) - n
        BY <1>4, <3>1
      <4> QED BY <1>1, <1>2, <1>5, <4>1
    <3>3. Taken' + Len(up') <= Len(says)
      <4>1. Taken + Len(up) + Len(cbuf) <= Len(says)
        BY <1>2, <1>3, <1>6, <2>1
      <4> QED BY <1>1, <1>2, <2>5, <4>1
    <3> QED BY <1>1, <2>1, <2>3, <2>4, <2>5, <2>6, <3>1, <3>2, <3>3
  <2> QED BY <2>7, <2>8
<1>9. InvStretches'
  BY <1>1, <1>8 DEF InvStretches, Alive
<1> QED BY <1>7, <1>9 DEF HInv

(* The client's reads and the server's flushes are about the other way.     *)
LEMMA OtherWayInv ==
  ASSUME HInv, NEW n \in Sizes, ClientRead(n) \/ Flush(n)
  PROVE  HInv'
BY Frame DEF ClientRead, Flush

(* A read of the preface: the octets are compared with the ones that miss.  *)
LEMMA ReadPrefaceInv ==
  ASSUME HInv, NEW n \in Sizes, ReadPreface(n)
  PROVE  HInv'
<1>1. /\ server = "ReadingPreface" /\ n \in Nat /\ n <= rem /\ n <= Len(up) /\ up' = From(up, n)
      /\ UNCHANGED <<says, client, cbuf, frames>>
  BY CapacityAssumption DEF ReadPreface, Sizes
<1>2. /\ says \in Seq(Octets) /\ cbuf \in Seq(Octets) /\ up \in Seq(Octets)
      /\ Len(says) \in Nat /\ Len(cbuf) \in Nat /\ Len(up) \in Nat
      /\ frames = <<>> /\ Len(frames) = 0 /\ pos \in Nat /\ pos < Len(PREFACE) /\ Taken = pos
  BY <1>1 DEF HInv, InvTypes, InvRead, Taken
<1>3. PREFACE \in Seq(Octets) /\ Len(PREFACE) \in Nat /\ rem = Len(PREFACE) - pos /\ rem \in Nat
  BY <1>2, OctetAssumption DEF rem
<1>4. /\ Stretch(up, says, pos) /\ Stretch(cbuf, says, pos + Len(up))
      /\ pos + Len(up) <= Len(says)
      /\ pos + Len(up) + Len(cbuf) = IF client = "binding" THEN Len(PREFACE) ELSE Len(says)
      /\ pos <= Len(says) /\ \A i \in 1..pos : says[i] = PREFACE[i]
  BY <1>1, <1>2 DEF HInv, InvStretches, InvRead, Alive
<1>5. /\ First(up, n) \in Seq(Octets) /\ Len(First(up, n)) = n
      /\ \A i \in 1..n : First(up, n)[i] = up[i]
      /\ From(up, n) \in Seq(Octets) /\ Len(From(up, n)) = Len(up) - n
  <2>1. up \in Seq(Octets) /\ n \in Nat /\ n <= Len(up)
    BY <1>1, <1>2, ZenonT(20)
  <2> QED BY <2>1, CutFacts, ZenonT(20)
<1>6. /\ From(PREFACE, pos) \in Seq(Octets) /\ Len(From(PREFACE, pos)) = rem
      /\ \A i \in 1..rem : From(PREFACE, pos)[i] = PREFACE[pos + i]
  <2>1. PREFACE \in Seq(Octets) /\ pos \in Nat /\ pos <= Len(PREFACE)
    BY <1>2, <1>3
  <2>2. /\ From(PREFACE, pos) \in Seq(Octets) /\ Len(From(PREFACE, pos)) = Len(PREFACE) - pos
        /\ \A i \in 1..(Len(PREFACE) - pos) : From(PREFACE, pos)[i] = PREFACE[pos + i]
    BY <2>1, CutFacts, ZenonT(20)
  <2> QED BY <1>3, <2>2
<1>7. compared(First(up, n)) <=> \A i \in 1..n : says[pos + i] = PREFACE[pos + i]
  <2>1. compared(First(up, n)) <=>
          n <= rem /\ \A i \in 1..n : First(up, n)[i] = From(PREFACE, pos)[i]
    <3> DEFINE got == First(up, n)
               missing == From(PREFACE, pos)
    <3>1. got \in Seq(Octets) /\ missing \in Seq(Octets) /\ Len(got) = n /\ Len(missing) = rem
      BY <1>5, <1>6
    <3>2. compared(got) <=> Begins(got, missing)
      BY ZenonT(20) DEF compared
    <3> HIDE DEF got, missing
    <3>3. Begins(got, missing) <=> n <= rem /\ \A i \in 1..n : got[i] = missing[i]
      BY <3>1, ZenonT(20) DEF Begins
    <3> QED BY <3>2, <3>3, ZenonT(20) DEF got, missing
  <2>2. ASSUME NEW i \in 1..n
        PROVE  First(up, n)[i] = says[pos + i] /\ From(PREFACE, pos)[i] = PREFACE[pos + i]
    <3>1. i \in 1..Len(up) /\ i \in 1..rem
      BY <1>1, <1>2, <1>3
    <3>2. up[i] = says[pos + i]
      BY <1>4, <3>1, ZenonT(20) DEF Stretch
    <3> QED BY <1>5, <1>6, <3>1, <3>2, ZenonT(20)
  <2> QED BY <1>1, <2>1, <2>2
<1>8. CASE compared(First(up, n))
  <2>1. pos' = pos + n /\ server' = IF n = rem THEN "Done" ELSE server
    BY <1>8 DEF ReadPreface
  <2>2. /\ pos' \in 0..Len(PREFACE) /\ (n = rem => pos' = Len(PREFACE)) /\ (n # rem => pos' < Len(PREFACE))
        /\ pos' <= Len(says)
    <3>1. /\ Len(PREFACE) \in Nat /\ pos \in Nat /\ Len(up) \in Nat /\ Len(says) \in Nat /\ n \in Nat
          /\ pos < Len(PREFACE) /\ n <= Len(up) /\ pos + Len(up) <= Len(says)
      BY <1>1, <1>2, <1>3, <1>4, ZenonT(20)
    <3>2. rem = Len(PREFACE) - pos /\ n <= Len(PREFACE) - pos
      BY <1>1, <1>3, ZenonT(20)
    <3>3. /\ pos + n \in 0..Len(PREFACE) /\ pos + n <= Len(says)
          /\ n = Len(PREFACE) - pos => pos + n = Len(PREFACE)
          /\ n # Len(PREFACE) - pos => pos + n < Len(PREFACE)
      BY <3>1, <3>2, PlaceBehind, ZenonT(20)
    <3> QED BY <2>1, <3>2, <3>3, ZenonT(20)
  <2>3. ASSUME NEW i \in 1..pos' PROVE says[i] = PREFACE[i]
    <3>1. CASE i <= pos
      BY <1>2, <1>4, <3>1
    <3>2. CASE ~(i <= pos)
      <4>1. i - pos \in 1..n /\ i = pos + (i - pos)
        BY <1>1, <1>2, <2>1, <3>2
      <4> QED BY <1>7, <1>8, <4>1
    <3> QED BY <3>1, <3>2
  <2>4. InvTypes' /\ InvRead' /\ InvVerdict'
    BY <1>1, <1>2, <1>5, <2>1, <2>2, <2>3 DEF HInv, InvTypes, InvRead, InvVerdict
  <2>5. /\ Taken' = pos + n /\ Taken' + Len(up') = pos + Len(up)
    BY <1>1, <1>2, <1>5, <2>1 DEF Taken
  <2>6. Stretch(up', says', Taken')
    BY <1>1, <1>2, <1>4, <2>5, StretchCut, ZenonT(20)
  <2>7. Stretch(frames', says', pos')
    BY <1>1, <1>2 DEF Stretch
  <2>8. InvStretches'
    BY <1>1, <1>4, <2>5, <2>6, <2>7 DEF InvStretches
  <2> QED BY <2>4, <2>8 DEF HInv
<1>9. CASE ~compared(First(up, n))
  <2>1. pos' = pos /\ server' = "PROTOCOL_ERROR"
    BY <1>9 DEF ReadPreface
  <2>2. PICK i \in 1..n : says[pos + i] # PREFACE[pos + i]
    BY <1>7, <1>9
  <2>3. pos + i \in 1..Len(says) /\ pos + i \in 1..Len(PREFACE)
    <3>1. i \in Nat /\ 1 <= i /\ i <= Len(up) /\ i <= Len(PREFACE) - pos
      BY <1>1, <1>2, <1>3
    <3> QED BY <1>2, <1>3, <1>4, <3>1
  <2>4. ~Begins(PREFACE, says) /\ ~Begins(says, PREFACE)
    BY <2>2, <2>3, ZenonT(20) DEF Begins
  <2> QED BY <1>1, <1>5, <2>1, <2>4 DEF HInv, InvTypes, InvRead, InvVerdict, InvStretches, Alive
<1> QED BY <1>8, <1>9

(* The end of what the client says comes inside the preface.                *)
LEMMA ReadPrefaceEofInv ==
  ASSUME HInv, ReadPrefaceEof
  PROVE  HInv'
<1>1. /\ server = "ReadingPreface" /\ up = <<>> /\ client = "other" /\ cbuf = <<>>
      /\ server' = "UnexpectedEof" /\ UNCHANGED <<says, client, cbuf, up, pos, frames>>
  BY DEF ReadPrefaceEof, eof
<1>2. /\ says \in Seq(Octets) /\ Len(says) \in Nat /\ Len(up) = 0 /\ Len(cbuf) = 0 /\ Len(frames) = 0
      /\ pos \in Nat /\ pos < Len(PREFACE) /\ \A i \in 1..pos : says[i] = PREFACE[i]
  BY <1>1 DEF HInv, InvTypes, InvRead
<1>3. PREFACE \in Seq(Octets) /\ Len(PREFACE) \in Nat
  BY OctetAssumption
<1>4. Taken + Len(up) + Len(cbuf) = Len(says)
  BY <1>1 DEF HInv, InvStretches, Alive
<1>5. Len(says) = pos
  BY <1>2, <1>4 DEF Taken
<1>6. Begins(says, PREFACE) /\ says # PREFACE
  BY <1>2, <1>3, <1>5 DEF Begins
<1> QED BY <1>1, <1>6 DEF HInv, InvTypes, InvRead, InvVerdict, InvStretches, Alive

(* The codec reads on where the handshake stopped.                          *)
LEMMA ServerReadInv ==
  ASSUME HInv, NEW n \in Sizes, ServerRead(n)
  PROVE  HInv'
<1>1. /\ server = "Done" /\ n \in Nat /\ n <= Len(up) /\ up' = From(up, n)
      /\ frames' = frames \o First(up, n) /\ UNCHANGED <<says, client, cbuf, server, pos>>
  BY CapacityAssumption DEF ServerRead, Sizes
<1>2. /\ says \in Seq(Octets) /\ cbuf \in Seq(Octets) /\ up \in Seq(Octets) /\ frames \in Seq(Octets)
      /\ Len(says) \in Nat /\ Len(cbuf) \in Nat /\ Len(up) \in Nat /\ Len(frames) \in Nat
      /\ pos \in Nat /\ Taken = pos + Len(frames) /\ Taken \in Nat
  BY DEF HInv, InvTypes, Taken
<1>3. /\ Stretch(frames, says, pos) /\ Stretch(up, says, Taken) /\ Stretch(cbuf, says, Taken + Len(up))
      /\ Taken + Len(up) <= Len(says)
      /\ Taken + Len(up) + Len(cbuf) = IF client = "binding" THEN Len(PREFACE) ELSE Len(says)
  BY <1>1 DEF HInv, InvStretches, Alive
<1>4. /\ First(up, n) \in Seq(Octets) /\ Len(First(up, n)) = n
      /\ From(up, n) \in Seq(Octets) /\ Len(From(up, n)) = Len(up) - n
  <2>1. up \in Seq(Octets) /\ n \in Nat /\ n <= Len(up)
    BY <1>1, <1>2, ZenonT(20)
  <2> QED BY <2>1, CutFacts, ZenonT(20)
<1>5. frames' \in Seq(Octets) /\ Len(frames') = Len(frames) + n
  BY <1>1, <1>2, <1>4, JoinFacts, ZenonT(20)
<1>6. Taken' = Taken + n /\ Taken' + Len(up') = Taken + Len(up)
  BY <1>1, <1>2, <1>4, <1>5 DEF Taken
<1>7. Stretch(First(up, n), says, Taken) /\ Stretch(From(up, n), says, Taken + n)
  BY <1>1, <1>2, <1>3, StretchCut, ZenonT(20)
<1>8. Stretch(frames', says', pos')
  BY <1>1, <1>2, <1>3, <1>4, <1>7, StretchJoin
<1>9. InvStretches'
  BY <1>1, <1>3, <1>6, <1>7, <1>8 DEF InvStretches
<1> QED BY <1>1, <1>4, <1>5, <1>9 DEF HInv, InvTypes, InvRead, InvVerdict

LEMMA NextInv == HInv /\ [Next]_vars => HInv'
<1> SUFFICES ASSUME HInv, [Next]_vars PROVE HInv'
  OBVIOUS
<1>1. CASE UNCHANGED vars
  BY <1>1, Frame DEF vars
<1>2. CASE Next
  BY <1>2, ClientWriteInv, OtherWayInv, ReadPrefaceInv, ServerReadInv, ReadPrefaceEofInv
     DEF Next, ClientStep, ServerStep
<1> QED BY <1>1, <1>2

LEMMA InvImplies == HInv => PrefaceTakenExactly
<1> SUFFICES ASSUME HInv PROVE PrefaceTakenExactly
  OBVIOUS
<1> SUFFICES ASSUME server = "Done"
             PROVE  Begins(PREFACE, says) /\ Begins(frames \o up, From(says, Len(PREFACE)))
  BY DEF PrefaceTakenExactly, HInv, InvVerdict
<1>1. /\ says \in Seq(Octets) /\ up \in Seq(Octets) /\ frames \in Seq(Octets)
      /\ Len(says) \in Nat /\ Len(up) \in Nat /\ Len(frames) \in Nat
      /\ pos = Len(PREFACE) /\ pos <= Len(says) /\ \A i \in 1..pos : says[i] = PREFACE[i]
  BY DEF HInv, InvTypes, InvRead
<1>2. PREFACE \in Seq(Octets) /\ Len(PREFACE) \in Nat
  BY OctetAssumption
<1>3. /\ Stretch(frames, says, pos) /\ Stretch(up, says, pos + Len(frames))
      /\ pos + Len(frames) + Len(up) <= Len(says)
  BY DEF HInv, InvStretches, Alive, Taken
<1>4. Begins(PREFACE, says)
  BY <1>1, <1>2 DEF Begins
<1>5. frames \o up \in Seq(Octets) /\ Len(frames \o up) = Len(frames) + Len(up)
  BY <1>1, JoinFacts
<1>6. Stretch(frames \o up, says, pos)
  BY <1>1, <1>2, <1>3, StretchJoin
<1>7. /\ From(says, pos) \in Seq(Octets) /\ Len(From(says, pos)) = Len(says) - pos
      /\ \A i \in 1..(Len(says) - pos) : From(says, pos)[i] = says[pos + i]
  <2>1. pos \in Nat
    BY <1>1, <1>2, ZenonT(20)
  <2>2. pos <= Len(says)
    BY <1>1, ZenonT(20)
  <2>3. says \in Seq(Octets)
    BY <1>1, ZenonT(20)
  <2> QED BY <2>1, <2>2, <2>3, CutFacts, ZenonT(20)
<1>8. Len(frames \o up) <= Len(From(says, pos))
  BY <1>1, <1>2, <1>3, <1>5, <1>7
<1>9. ASSUME NEW i \in 1..Len(frames \o up) PROVE (frames \o up)[i] = From(says, pos)[i]
  <2>1. i \in 1..(Len(says) - pos)
    BY <1>1, <1>2, <1>3, <1>5
  <2> QED BY <1>6, <1>7, <2>1 DEF Stretch
<1>10. Begins(frames \o up, From(says, pos))
  BY <1>5, <1>7, <1>8, <1>9, ZenonT(20) DEF Begins
<1> QED BY <1>1, <1>4, <1>10

(* ReadPreface takes exactly the preface, whatever it is, whatever the      *)
(* capacity of the socket and however reads and writes are cut; a peer is   *)
(* refused only for what is no preface, or stops inside it.                 *)
THEOREM HandshakeTakesPreface == Spec => []PrefaceTakenExactly
<1>1. Spec => []HInv
  BY InitInv, NextInv, PTL DEF Spec
<1> QED BY <1>1, InvImplies, PTL
=============================================================================

---------------------------- MODULE H2Handshake -----------------------------
(* The start of an HTTP/2 connection, octet by octet: bind_connection and    *)
(* handshake2 of client.rs, and the Handshake future of server.rs with its   *)
(* Flush and ReadPreface, over a socket that takes Capacity octets each way. *)
(* A step is one read or write of a socket, so that the other side runs      *)
(* between any two of them.                                                  *)
EXTENDS Integers, Sequences

CONSTANTS PREFACE,    \* the connection preface, a sequence of octets
          SETTINGS,   \* the octets of a first SETTINGS frame
          Others,     \* what a peer that is no HTTP/2 client sends, before it closes
          Capacity    \* of the socket, in octets, for each direction

(* One of the two first writes must fit the socket: the client reads nothing *)
(* before its preface is out, the server nothing before its SETTINGS are.    *)
ASSUME CapacityAssumption == Capacity \in Nat /\ (Capacity >= Len(SETTINGS) \/ Capacity >= Len(PREFACE))

Octets == 0..255
ASSUME OctetAssumption ==
  /\ PREFACE \in Seq(Octets) /\ PREFACE # <<>> /\ SETTINGS \in Seq(Octets)
  /\ \A s \in Others : s \in Seq(Octets)

VARIABLES says,     \* what the client has to say, for the model's eyes only
          client,   \* "binding", "open", or "other" for a peer of another kind
          cbuf,     \* what the client has still to write
          up, down, \* the socket's two directions
          cgot,     \* what the client has read
          server,   \* Handshaking, or the error the future returned
          sbuf,     \* what the server's codec has still to flush
          pos,      \* ReadPreface.pos
          frames    \* what the server's codec has read after the handshake

vars == <<says, client, cbuf, up, down, cgot, server, sbuf, pos, frames>>

Init ==
  /\ \/ says = PREFACE \o SETTINGS /\ client = "binding" /\ cbuf = PREFACE
     \/ says \in Others /\ client = "other" /\ cbuf = says
  /\ up = <<>> /\ down = <<>> /\ cgot = <<>>
  /\ server = "Flushing" /\ sbuf = SETTINGS /\ pos = 0
  /\ frames = <<>>

From(s, n) == SubSeq(s, n + 1, Len(s))
First(s, n) == SubSeq(s, 1, n)
(* t starts with the octets of s.                                            *)
Begins(s, t) == Len(s) <= Len(t) /\ \A i \in 1..Len(s) : s[i] = t[i]

(* A write takes any part of what is there that fits.  The write_all of      *)
(* bind_connection repeats it; then handshake2 makes the codec and buffers   *)
(* the SETTINGS, which the connection's poll flushes.                        *)
ClientWrite(n) ==
  /\ n <= Len(cbuf) /\ Len(up) + n <= Capacity
  /\ up' = up \o First(cbuf, n)
  /\ IF client = "binding" /\ n = Len(cbuf)
     THEN client' = "open" /\ cbuf' = SETTINGS
     ELSE cbuf' = From(cbuf, n) /\ UNCHANGED client
  /\ UNCHANGED <<says, down, cgot, server, sbuf, pos, frames>>
ClientRead(n) ==
  /\ client # "binding" /\ n <= Len(down)
  /\ cgot' = cgot \o First(down, n) /\ down' = From(down, n)
  /\ UNCHANGED <<says, client, cbuf, up, server, sbuf, pos, frames>>
(* The client has closed its side: what it has to say is on the socket.      *)
eof == client = "other" /\ cbuf = <<>>

(* Flush: the codec's octets, and ReadingPreface behind the last.            *)
Flush(n) ==
  /\ server = "Flushing" /\ n <= Len(sbuf) /\ Len(down) + n <= Capacity
  /\ down' = down \o First(sbuf, n) /\ sbuf' = From(sbuf, n)
  /\ server' = IF n = Len(sbuf) THEN "ReadingPreface" ELSE server
  /\ UNCHANGED <<says, client, cbuf, up, cgot, pos, frames>>

(* ReadPreface: at most the rem octets that miss, compared as they come.     *)
rem_whole == Len(PREFACE)
rem == Len(PREFACE) - pos
compared(got) == Begins(got, From(PREFACE, pos))
ReadPreface_all(n) ==
  /\ server = "ReadingPreface" /\ n <= Len(up)
  /\ up' = From(up, n)
  /\ LET same == compared(First(up, IF n < rem THEN n ELSE rem)) IN
     /\ server' = IF ~same THEN "PROTOCOL_ERROR" ELSE IF n >= rem THEN "Done" ELSE server
     /\ pos' = IF same THEN pos + n ELSE pos
  /\ UNCHANGED <<says, client, cbuf, down, cgot, sbuf, frames>>
ReadPreface(n) ==
  /\ server = "ReadingPreface" /\ n <= rem /\ n <= Len(up)
  /\ up' = From(up, n)
  /\ LET same == compared(First(up, n)) IN
     /\ server' = IF ~same THEN "PROTOCOL_ERROR" ELSE IF n = rem THEN "Done" ELSE server
     /\ pos' = IF same THEN pos + n ELSE pos
  /\ UNCHANGED <<says, client, cbuf, down, cgot, sbuf, frames>>
ReadPrefaceEof ==
  /\ server = "ReadingPreface" /\ up = <<>> /\ eof
  /\ server' = "UnexpectedEof"
  /\ UNCHANGED <<says, client, cbuf, up, down, cgot, sbuf, pos, frames>>
(* The connection's codec takes over the socket.                             *)
ServerRead(n) ==
  /\ server = "Done" /\ n <= Len(up)
  /\ frames' = frames \o First(up, n) /\ up' = From(up, n)
  /\ UNCHANGED <<says, client, cbuf, down, cgot, server, sbuf, pos>>

Sizes == 1..Capacity
ClientStep == \E n \in Sizes : ClientWrite(n) \/ ClientRead(n)
ServerStep == (\E n \in Sizes : Flush(n) \/ ReadPreface(n) \/ ServerRead(n)) \/ ReadPrefaceEof
Next == ClientStep \/ ServerStep
(* The runtime polls a task again whenever its socket turns readable or      *)
(* writable, so each side takes some step while it can take one.  A client   *)
(* that may write or read polls both, so neither starves the other.          *)
Fairness ==
  /\ WF_vars(\E n \in Sizes : ClientWrite(n))
  /\ WF_vars(\E n \in Sizes : ClientRead(n))
  /\ WF_vars(ServerStep)
Spec == Init /\ [][Next]_vars /\ Fairness

(* However the reads are cut, the handshake takes the preface from the       *)
(* socket and not one octet more: what is left, on the socket and in the     *)
(* codec, continues what the client says right behind it.  A peer is refused *)
(* for what it said only if it did not say the preface, and for its silence  *)
(* only if it stopped inside the preface (ReadPreface).                      *)
PrefaceTakenExactly ==
  /\ server = "Done" =>
       /\ Begins(PREFACE, says)
       /\ Begins(frames \o up, From(says, Len(PREFACE)))
  /\ server = "PROTOCOL_ERROR" => ~Begins(PREFACE, says) /\ ~Begins(says, PREFACE)
  /\ server = "UnexpectedEof" => Begins(says, PREFACE) /\ says # PREFACE
(* An HTTP/2 client and the server get each other's SETTINGS, whole, and a   *)
(* peer of another kind gets its refusal or, if it says the preface, its     *)
(* connection: neither side waits for the other for ever.                    *)
HandshakeEnds ==
  /\ client # "other" ~> server = "Done" /\ frames = SETTINGS /\ cgot = SETTINGS
  /\ client = "other" ~> server \notin {"Flushing", "ReadingPreface"}
=============================================================================

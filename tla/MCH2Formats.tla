---------------------------- MODULE MCH2Formats -----------------------------
(* What the library writes against what it reads, layer by layer: messages   *)
(* and header frames (H2Api), header blocks and octets (H2HpackWire), frames *)
(* and octets (H2Wire).                                                      *)
EXTENDS H2Wire

VARIABLES part,                   \* which layer this is
          block, src, err, cuts,  \* H2HpackWire, with sent and got; block is H2Api's too
          msg, frame, heard       \* H2Api

(********************************** frames *********************************)
(* Two frames of every kind with the octets at which the formats turn: the   *)
(* high bit of a word, the limits of the settings, empty and full payloads.  *)
One == <<0, 0, 0, 1>>
Top == <<127, 255, 255, 254>>
High == <<255, 0, 0, 1>>
Dep(on, exclusive) == [on |-> on, weight |-> 255, exclusive |-> exclusive]
Vals(v) == [kind |-> "settings", ack |-> FALSE, vals |-> v]
MCSendable ==
  {Data(id, d, e, -1) : id \in {One, Top}, d \in {<<>>, <<9>>, <<0, 255, 3>>}, e \in BOOLEAN}
    \cup {Headers(One, e, d, b, -1) :
            e \in BOOLEAN, d \in {NoDep, Dep(Zero, FALSE), Dep(Top, TRUE)}, b \in {<<130>>, <<0, 1, 5>>}}
    \cup {Push(One, <<0, 0, 0, 2>>, b, -1) : b \in {<<130>>, <<5, 0, 0>>}}
    \cup {[kind |-> "reset", id |-> id, code |-> c] : id \in {One, Top}, c \in {Zero, High}}
    \cup {[kind |-> "ping", ack |-> a, data |-> <<0, 1, 2, 3, 4, 5, 6, 255>>] : a \in BOOLEAN}
    \cup {[kind |-> "goaway", last |-> Top, code |-> High, debug |-> d] : d \in {<<>>, <<7, 0>>}}
    \cup {[kind |-> "window", id |-> id, incr |-> w] : id \in {Zero, One}, w \in {One, MAX_INITIAL_WINDOW_SIZE}}
    \cup {[Vals(<<>>) EXCEPT !.ack = TRUE]}
    \cup {Vals(v) : v \in [{1, 4} -> {Zero, MAX_INITIAL_WINDOW_SIZE}]
                       \cup [{3, 5} -> {DEFAULT_MAX_FRAME_SIZE, MAX_MAX_FRAME_SIZE}]
                       \cup [{2, 6, 8, 9} -> {Zero, One}]}
Prio(id, on) == [kind |-> "priority", id |-> id, dep |-> Dep(on, TRUE)]
MCPushes ==
  {<<a, b, c>> : a, b, c \in {Prio(One, Zero), Prio(One, Top), Prio(Zero, Top),
                              Prio(<<0, 0, 0, 40>>, One), Prio(<<0, 0, 0, 40>>, Zero)}}
MCRawHeads ==
  [kind : {"data", "headers", "priority", "reset", "settings", "push", "ping", "goaway", "window"},
   flag : {0, 1, 8, 32, 40}, id : {Zero, One}]
MCRawBodies ==
  {SubSeq(<<a, 0, 0, 4, 0, 1, 128, 0, 2>>, 1, n) : a \in {0, 1, 2, 3, 4, 8, 9, 255}, n \in 0..9}

(****************************** header blocks ******************************)
(* Strings whose Huffman code has 2, 126, 127 and 300 octets: the second and *)
(* the third lie on either side of what the seven bits of a length hold, the *)
(* last needs a head of three octets.  Short strings in blocks of two fields *)
(* cut twice, all of them alone and cut once.                                *)
ShortStrings == {"", "bc"}
LongStrings == {"", "bc", "s126", "s127", "s300"}
Octets(n, from) == [i \in 1..n |-> (from + i) % 256] \o <<>>
MCHuffman ==
  [s \in LongStrings \ {""} |->
     CASE s = "bc" -> <<128, 255>> [] s = "s126" -> Octets(126, 1)
       [] s = "s127" -> Octets(127, 2) [] s = "s300" -> Octets(300, 3)]
Fields ==
  INSTANCE H2HpackWire WITH Strings <- ShortStrings, Huffman <- MCHuffman,
    Indices <- {0, 15, 31, 63, 127, 4096}, MaxFields <- 2, MaxCuts <- 2
LongFields ==
  INSTANCE H2HpackWire WITH Strings <- LongStrings, Huffman <- MCHuffman,
    Indices <- {0, 62}, MaxFields <- 1, MaxCuts <- 1

(********************************* messages ********************************)
(* Absolute URIs; relative ones, which HTTP/1 requests have; CONNECT to an   *)
(* authority; extended CONNECT; content lengths at the edges of parse_u64.   *)
Uri(s, a, p) == [scheme |-> s, authority |-> a, path |-> p]
Absolute == {Uri("https", "h", "/p"), Uri("http", "h", "/")}
Authority == Uri("", "h", "")
Relative == {Uri("", "", "/p"), Uri("", "", "*")}
NoLength == <<11>>
Zeros(n) == [i \in 1..n |-> 0]
Lengths == {NoLength, <<>>, <<0>>, <<5>>, <<0, 10>>, <<1, 0>>, Zeros(19), Zeros(20)}
Req(methods, uris, protocols) ==
  [method : methods, uri : uris, version : {1, 2}, protocol : protocols, cl : Lengths]
MCRequests ==
  Req({"GET", "OPTIONS", "POST", "CONNECT"}, Absolute, {""})
    \union Req({"GET", "OPTIONS"}, Relative, {""})
    \union Req({"CONNECT"}, {Authority}, {""})
    \union Req({"CONNECT"}, Absolute, {"websocket"})
Messages ==
  INSTANCE H2Api WITH Requests <- MCRequests, Promises <- Req({"GET", "HEAD", "POST", "PUT"}, Absolute, {""}),
    Statuses <- {"100", "103", "200", "404"},
    Orders <- {<<>>, <<"path", "method">>, <<"status", "path", "path">>,
               <<"protocol", "scheme", "scheme", "authority", "method", "path">>,
               <<"status", "protocol", "path", "authority", "scheme", "method">>}

(********************************* the parts *******************************)
NoFields == src = <<>> /\ err = "" /\ cuts = 0
NoMessage == msg = <<>> /\ frame = <<>> /\ heard = <<>>
NoFrames == sent = <<>> /\ wire = <<>> /\ got = <<>>
FormatsInit ==
  \/ part = "frames" /\ Init /\ NoFields /\ block = <<>> /\ NoMessage
  \/ part = "fields" /\ Fields!Init /\ wire = <<>> /\ NoMessage
  \/ part = "long fields" /\ LongFields!Init /\ wire = <<>> /\ NoMessage
  \/ part = "messages" /\ Messages!Init /\ NoFrames /\ NoFields
FormatsNext ==
  \/ part = "frames" /\ Next /\ UNCHANGED <<part, block, src, err, cuts, msg, frame, heard>>
  \/ part = "fields" /\ Fields!Next /\ UNCHANGED <<part, wire, msg, frame, heard>>
  \/ part = "long fields" /\ LongFields!Next /\ UNCHANGED <<part, wire, msg, frame, heard>>
  \/ part = "messages" /\ Messages!Next /\ UNCHANGED <<part, sent, wire, got, src, err, cuts>>
FormatsSpec ==
  FormatsInit /\ [][FormatsNext]_<<part, sent, wire, got, block, src, err, cuts, msg, frame, heard>>

(* Every frame is read as it was written, none of its octets is lost or made *)
(* up, and no two PRIORITY frames for one stream leave the builder (load and *)
(* encode of each kind in frame/).                                           *)
FramesRoundTrip == part = "frames" => RoundTrip /\ PayloadAccounted /\ PrioritiesOnce
(* A header block decodes to the fields that were encoded, however it is cut *)
(* (encode_int, encode_str, decode_int, try_decode_string), and the decoder  *)
(* holds back only a field that has not arrived whole.                       *)
BlocksDecode ==
  /\ part = "fields" => Fields!BlockDecodes /\ Fields!FieldsInOrder /\ Fields!KeepsPartOfOne
  /\ part = "long fields" => LongFields!BlockDecodes /\ LongFields!FieldsInOrder
(* A message that convert_send_message or convert_push_message lets out is   *)
(* the one that convert_poll_message hands to the other side's user, with    *)
(* its END_STREAM.                                                           *)
MessagesArrive ==
  part = "messages" => Messages!RequestArrives /\ Messages!PromiseArrives /\ Messages!ResponseArrives
=============================================================================

------------------------------- MODULE H2Wire -------------------------------
(* The frames of the HTTP/2 library as octets: what the encode of each       *)
(* frame/*.rs writes and its load accepts.  Frames follow each other on the  *)
(* wire and are told apart by the length in their heads alone.               *)
(*                                                                           *)
(* A u32 is the sequence of its four octets, so that all 32 bits fit.  The   *)
(* header block of HEADERS and PUSH_PROMISE is a sequence of octets that     *)
(* fits the frame (H2HpackWire writes it, H2Codec continues it).             *)
EXTENDS Integers, Sequences, SequencesExt, FiniteSetsExt

CONSTANTS Sendable,   \* frames the library's own constructors make
          Paddings,   \* paddings another implementation adds
          RawHeads,   \* [kind, flag, id] and
          RawBodies,  \* payloads of frames that may be malformed
          Pushes,     \* lists of priorities a user hands to the builder
          MaxFrames

VARIABLES sent,   \* the frames written, each with its padding; "raw" ones unread
          wire,   \* octets on their way
          got     \* what load returned for each frame read

vars == <<sent, wire, got>>

(************************* head.rs, stream_id.rs ***************************)
Zero == <<0, 0, 0, 0>>
Leq(a, b) ==
  a = b \/ \E i \in 1..4 : a[i] < b[i] /\ \A j \in 1..(i - 1) : a[j] = b[j]
Has(flags, bit) == (flags \div bit) % 2 = 1
Flag(set, bit) == IF set THEN bit ELSE 0

StreamId_parse(w) == [id |-> <<w[1] % 128, w[2], w[3], w[4]>>, flag |-> w[1] >= 128]
Kinds == <<"data", "headers", "priority", "reset", "settings", "push", "ping",
           "goaway", "window", "continuation">>
KindOf(b) == IF b < 10 THEN Kinds[b + 1] ELSE "unknown"
ByteOf(kind) == (CHOOSE i \in DOMAIN Kinds : Kinds[i] = kind) - 1
HEADER_LEN == 9
Head_encode(kind, flag, id, n) ==
  <<n \div 65536, (n \div 256) % 256, n % 256, ByteOf(kind), flag>> \o id
Head_parse(h) ==
  [kind |-> KindOf(h[4]), flag |-> h[5], id |-> StreamId_parse(SubSeq(h, 6, 9)).id]
Length(h) == h[1] * 65536 + h[2] * 256 + h[3]

Ok(frame) == [err |-> "", frame |-> frame]
Err(e) == [err |-> e]
Word(p, i) == SubSeq(p, i, i + 3)
From(p, i) == SubSeq(p, i, Len(p))

(**************************** data.rs, util.rs *****************************)
(* A pad of -1 stands for None.                                              *)
Data(id, data, eos, pad) ==
  [kind |-> "data", id |-> id, eos |-> eos, data |-> data, pad |-> pad]
strip_padding(p) ==
  IF p = <<>> \/ p[1] >= Len(p) THEN Err("TooMuchPadding")
  ELSE Ok(SubSeq(p, 2, Len(p) - p[1]))
Data_load(h, p) ==
  LET s == strip_padding(p) IN
  IF h.id = Zero THEN Err("InvalidStreamId")
  ELSE IF ~Has(h.flag, 8) THEN Ok(Data(h.id, p, Has(h.flag, 1), -1))
  ELSE IF s.err # "" THEN s
  ELSE Ok(Data(h.id, s.frame, Has(h.flag, 1), p[1]))
Data_encode(f) == Head_encode("data", Flag(f.eos, 1), f.id, Len(f.data)) \o f.data
flow_controlled_len(f) == IF f.pad >= 0 THEN Len(f.data) + f.pad + 1 ELSE Len(f.data)

(******************************* priority.rs *******************************)
Dependency_load(p) ==
  IF Len(p) # 5 THEN Err("InvalidPayloadLength")
  ELSE LET d == StreamId_parse(p)
       IN  Ok([on |-> d.id, weight |-> p[5], exclusive |-> d.flag])
Dependency_encode(d) ==
  <<d.on[1] + Flag(d.exclusive, 128)>> \o Tail(d.on) \o <<d.weight>>
Priority_load(h, p) ==
  LET d == Dependency_load(p) IN
  IF h.id = Zero THEN Err("InvalidStreamId")   \* framed_read.rs
  ELSE IF d.err # "" THEN d
  ELSE IF d.frame.on = h.id THEN Err("InvalidDependencyId")
  ELSE Ok([kind |-> "priority", id |-> h.id, dep |-> d.frame])
Priority_encode(f) == Head_encode("priority", 0, f.id, 5) \o Dependency_encode(f.dep)
(* PrioritiesBuilder::push: neither stream 0 nor a stream that is in already.*)
Priorities_push(list, f) ==
  IF f.id = Zero \/ \E g \in ToSet(list) : g.id = f.id THEN list ELSE Append(list, f)
Priorities_build(fs) == FoldLeft(Priorities_push, <<>>, fs)

(**************************** settings.rs, macros.rs ***********************)
DEFAULT_IDS == <<1, 2, 3, 4, 5, 6, 8, 9>>
MAX_ID == 15
SettingsOrder_push(ids, id) == IF id \in 1..MAX_ID /\ ~Contains(ids, id) THEN Append(ids, id) ELSE ids
SettingsOrder_build_pushed(pushed) == FoldLeft(SettingsOrder_push, <<>>, pushed)
SettingsOrder_build(pushed) == FoldLeft(SettingsOrder_push, <<>>, pushed \o DEFAULT_IDS)
MAX_INITIAL_WINDOW_SIZE == <<127, 255, 255, 255>>
DEFAULT_MAX_FRAME_SIZE == <<0, 0, 64, 0>>
MAX_MAX_FRAME_SIZE == <<0, 255, 255, 255>>
setting_ok(id, v) ==
  CASE id \in {2, 8, 9} -> v \in {Zero, <<0, 0, 0, 1>>}
    [] id = 4 -> Leq(v, MAX_INITIAL_WINDOW_SIZE)
    [] id = 5 -> Leq(DEFAULT_MAX_FRAME_SIZE, v) /\ Leq(v, MAX_MAX_FRAME_SIZE)
    [] OTHER -> TRUE
(* The settings a payload names, the last value of each; 7 is unknown.       *)
Settings_load(h, p) ==
  LET n == Len(p) \div 6
      Id(i) == p[6 * i - 5] * 256 + p[6 * i - 4]
      Val(i) == Word(p, 6 * i - 3)
      Latest(id) == Max({i \in 1..n : Id(i) = id})
  IN  IF h.id # Zero THEN Err("InvalidStreamId")
      ELSE IF Has(h.flag, 1) /\ p # <<>> THEN Err("InvalidPayloadLength")
      ELSE IF Len(p) % 6 # 0 THEN Err("InvalidPayloadAckSettings")
      ELSE IF \E i \in 1..n : ~setting_ok(Id(i), Val(i)) THEN Err("InvalidSettingValue")
      ELSE Ok([kind |-> "settings", ack |-> Has(h.flag, 1),
               vals |-> [id \in {Id(i) : i \in 1..n} \cap ToSet(DEFAULT_IDS) |-> Val(Latest(id))]])
(* for_each: the settings that are set, in the order the builder gave.       *)
Settings_encode(f, pushed) ==
  LET set == SelectSeq(SettingsOrder_build(pushed), LAMBDA id : id \in DOMAIN f.vals)
  IN  Head_encode("settings", Flag(f.ack, 1), Zero, 6 * Len(set))
        \o FlattenSeq([i \in DOMAIN set |-> <<0, set[i]>> \o f.vals[set[i]]])

(************ ping.rs, reset.rs, window_update.rs, go_away.rs ***************)
Ping_load(h, p) ==
  IF h.id # Zero THEN Err("InvalidStreamId")
  ELSE IF Len(p) # 8 THEN Err("BadFrameSize")
  ELSE Ok([kind |-> "ping", ack |-> Has(h.flag, 1), data |-> p])
Ping_encode(f) == Head_encode("ping", Flag(f.ack, 1), Zero, 8) \o f.data
Reset_load(h, p) ==
  IF Len(p) # 4 THEN Err("InvalidPayloadLength")
  ELSE Ok([kind |-> "reset", id |-> h.id, code |-> p])
Reset_encode(f) == Head_encode("reset", 0, f.id, 4) \o f.code
WindowUpdate_load(h, p) ==
  LET incr == StreamId_parse(p).id IN   \* the same mask
  IF Len(p) # 4 THEN Err("BadFrameSize")
  ELSE IF incr = Zero THEN Err("InvalidWindowUpdateValue")
  ELSE Ok([kind |-> "window", id |-> h.id, incr |-> incr])
WindowUpdate_encode(f) == Head_encode("window", 0, f.id, 4) \o f.incr
GoAway_load(p) ==
  IF Len(p) < 8 THEN Err("BadFrameSize")
  ELSE Ok([kind |-> "goaway", last |-> StreamId_parse(p).id, code |-> Word(p, 5), debug |-> From(p, 9)])
GoAway_encode(f) ==
  Head_encode("goaway", 0, Zero, 8 + Len(f.debug)) \o f.last \o f.code \o f.debug

(******************************** headers.rs *******************************)
NoDep == [none |-> TRUE]
Headers(id, eos, dep, block, pad) ==
  [kind |-> "headers", id |-> id, eos |-> eos, dep |-> dep, block |-> block, pad |-> pad]
Headers_load(h, p) ==
  LET padded == Has(h.flag, 8)
      prio == Has(h.flag, 32)
      pad == IF padded THEN p[1] ELSE 0
      q == IF padded THEN Tail(p) ELSE p
      dep == Dependency_load(SubSeq(q, 1, 5))
      block == IF prio THEN From(q, 6) ELSE q
  IN  IF h.id = Zero THEN Err("InvalidStreamId")
      ELSE IF padded /\ p = <<>> THEN Err("MalformedMessage")
      ELSE IF prio /\ Len(q) < 5 THEN Err("MalformedMessage")
      ELSE IF prio /\ dep.frame.on = h.id THEN Err("InvalidDependencyId")
      ELSE IF pad > Len(block) THEN Err("TooMuchPadding")
      ELSE Ok(Headers(h.id, Has(h.flag, 1), IF prio THEN dep.frame ELSE NoDep,
                      SubSeq(block, 1, Len(block) - pad), IF padded THEN pad ELSE -1))
HeadersBody(f) == (IF f.dep = NoDep THEN <<>> ELSE Dependency_encode(f.dep)) \o f.block
HeadersFlags(f) == Flag(f.eos, 1) + 4 + Flag(f.dep # NoDep, 32)
Headers_encode(f) ==
  Head_encode("headers", HeadersFlags(f), f.id, Len(HeadersBody(f))) \o HeadersBody(f)

Push(id, promised, block, pad) ==
  [kind |-> "push", id |-> id, promised |-> promised, block |-> block, pad |-> pad]
PushPromise_load(h, p) ==
  LET padded == Has(h.flag, 8)
      pad == IF padded THEN p[1] ELSE 0
      q == IF padded THEN Tail(p) ELSE p
  IN  IF h.id = Zero THEN Err("InvalidStreamId")
      ELSE IF padded /\ p = <<>> THEN Err("MalformedMessage")
      ELSE IF Len(q) < 5 THEN Err("MalformedMessage")
      ELSE IF pad > Len(q) - 4 THEN Err("TooMuchPadding")
      ELSE Ok(Push(h.id, StreamId_parse(q).id, SubSeq(q, 5, Len(q) - pad), IF padded THEN pad ELSE -1))
PushPromise_encode(f) ==
  Head_encode("push", 4, f.id, 4 + Len(f.block)) \o f.promised \o f.block

(******************************** the stream *******************************)
encode(f, pushed) ==
  CASE f.kind = "data" -> Data_encode(f)           [] f.kind = "headers" -> Headers_encode(f)
    [] f.kind = "priority" -> Priority_encode(f)   [] f.kind = "reset" -> Reset_encode(f)
    [] f.kind = "push" -> PushPromise_encode(f)    [] f.kind = "ping" -> Ping_encode(f)
    [] f.kind = "goaway" -> GoAway_encode(f)       [] f.kind = "window" -> WindowUpdate_encode(f)
    [] f.kind = "settings" -> Settings_encode(f, pushed)
load(h, p) ==
  CASE h.kind = "data" -> Data_load(h, p)          [] h.kind = "headers" -> Headers_load(h, p)
    [] h.kind = "priority" -> Priority_load(h, p)  [] h.kind = "reset" -> Reset_load(h, p)
    [] h.kind = "push" -> PushPromise_load(h, p)   [] h.kind = "ping" -> Ping_load(h, p)
    [] h.kind = "goaway" -> GoAway_load(p)         [] h.kind = "window" -> WindowUpdate_load(h, p)
    [] h.kind = "settings" -> Settings_load(h, p)  [] OTHER -> Err("ignored")

(* Another implementation pads a frame of ours (external).                   *)
Padded(f, pad) ==
  LET e == encode(f, <<>>)
      body == <<pad>> \o From(e, 10) \o [i \in 1..pad |-> 0]
  IN  Head_encode(f.kind, e[5] + 8, f.id, Len(body)) \o body

Init == sent = <<>> /\ wire = <<>> /\ got = <<>>

(* Bounds: MaxFrames frames, and a raw frame or a list of priorities alone.  *)
Room == Len(sent) < MaxFrames /\ \A i \in DOMAIN sent : sent[i].kind \notin {"raw", "priority"}
(* A SETTINGS frame lists its values in the order they were set in, if any.  *)
SetIn(f) == IF f.kind = "settings" THEN {<<>>, <<5, 4, 77, 4>>} ELSE {<<>>}
Send ==
  /\ Room
  /\ \E f \in Sendable : \E pushed \in SetIn(f) :
       sent' = Append(sent, f) /\ wire' = wire \o encode(f, pushed)
  /\ UNCHANGED got
SendPriorities ==
  /\ Len(sent) = 0
  /\ \E fs \in Pushes : \E list \in {Priorities_build(fs)} :
       sent' = list /\ wire' = FlattenSeq([i \in DOMAIN list |-> encode(list[i], <<>>)])
  /\ UNCHANGED got
PeerPads ==
  /\ Room
  /\ \E f \in Sendable, pad \in Paddings :
       /\ f.kind \in {"data", "headers", "push"}
       /\ sent' = Append(sent, [f EXCEPT !.pad = pad]) /\ wire' = wire \o Padded(f, pad)
  /\ UNCHANGED got
PeerRaw ==
  /\ Len(sent) = 0
  /\ \E h \in RawHeads, p \in RawBodies :
       sent' = <<[kind |-> "raw"]>> /\ wire' = Head_encode(h.kind, h.flag, h.id, Len(p)) \o p
  /\ UNCHANGED got
(* The length-delimited reader hands over a frame once it is there whole.    *)
Recv ==
  LET n == Length(wire)
      p == SubSeq(wire, HEADER_LEN + 1, HEADER_LEN + n)
  IN  /\ Len(wire) >= HEADER_LEN /\ Len(wire) >= HEADER_LEN + n
      /\ got' = Append(got, load(Head_parse(wire), p) @@ [len |-> n])
      /\ wire' = From(wire, HEADER_LEN + n + 1)
      /\ UNCHANGED sent

Next == Send \/ SendPriorities \/ PeerPads \/ PeerRaw \/ Recv
Spec == Init /\ [][Next]_vars

(* A frame is read as it was written, whatever its kind, flags, padding or   *)
(* neighbours, and no octet of it is taken for its neighbour's: the load of  *)
(* each kind undoes its encode, the settings in any order and exclusive      *)
(* dependencies included.                                                    *)
RoundTrip ==
  /\ \A i \in DOMAIN got : sent[i].kind # "raw" => got[i].err = "" /\ got[i].frame = sent[i]
  /\ wire = <<>> => Len(got) = Len(sent)
(* load neither loses nor invents octets of a frame it accepts, well formed  *)
(* or not: data or header block, padding, its length and the fixed fields    *)
(* make up the length in the head, which is also what flow control is        *)
(* charged for DATA.                                                         *)
PayloadAccounted ==
  \A i \in DOMAIN got :
    LET f == got[i].frame
        n == got[i].len
    IN  got[i].err = "" =>
          CASE f.kind = "data" -> flow_controlled_len(f) = n
            [] f.kind = "headers" ->
                 Len(f.block) + (f.pad + 1) + (IF f.dep = NoDep THEN 0 ELSE 5) = n
            [] f.kind = "push" -> Len(f.block) + (f.pad + 1) + 4 = n
            [] OTHER -> TRUE
(* The builder lets no two PRIORITY frames for one stream out, and none for  *)
(* stream 0, which the receiver answers with a connection error; no other    *)
(* code of the library sends PRIORITY.                                       *)
PrioritiesOnce ==
  \A i \in DOMAIN sent : sent[i].kind = "priority" =>
    /\ sent[i].id # Zero
    /\ \A j \in DOMAIN sent : sent[j].kind = "priority" /\ sent[i].id = sent[j].id => i = j
=============================================================================

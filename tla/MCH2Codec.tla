----------------------------- MODULE MCH2Codec -----------------------------
(* The codec with header blocks that are cut into CONTINUATIONs while the    *)
(* table's limit changes, the codec with DATA that is cut, chained, reclaimed*)
(* and cancelled, and the header tables alone through many more blocks.      *)
EXTENDS Integers, Sequences, SequencesExt, FiniteSetsExt

CONSTANT RawCap   \* the first allocation of the encoder's index

VARIABLES part,                            \* which of the three this is
          q, w, wire, r, exp, sync, left,  \* H2Codec
          e, d, sent, got, n               \* H2Tables

codec == <<q, w, wire, r, exp, sync, left>>
tables == <<e, d, sent, got, n>>
vars == <<part, q, w, wire, r, exp, sync, left, e, d, sent, got, n>>

(* Lengths and hashes stand for the real ones: every entry costs a good part *)
(* of the table, and the names' hashes collide.                              *)
MCLen(h) == CASE h.n \in {"x-b", ":status"} -> 4 [] h.n = ":protocol" -> 5 [] OTHER -> 3
MCHash(name) == CASE name = "x-a" -> 1 [] name = "x-b" -> 1 [] name = "x-c" -> 2 [] OTHER -> 4
MCShort(h) == IF h.n = "x-b" THEN 2 ELSE 1
MCApart(name) == CASE name = "x-a" -> 3 [] name = "x-b" -> 7 [] name = "x-c" -> 0 [] OTHER -> 1

H(name, v) == [n |-> name, v |-> v, s |-> FALSE]
Secret(name, v) == [n |-> name, v |-> v, s |-> TRUE]
Block(t, id, hs) == [t |-> t, id |-> id, hs |-> hs]

(* A request, one with a second value and a sensitive one, a promise.        *)
Plain ==
  {Block("H", 1, <<H(":method", "GET"), H("x-a", "1")>>),
   Block("H", 3, <<H("x-a", "2"), H("", "1"), Secret("x-b", "1")>>),
   Block("P", 1, <<H(":path", "/p"), H("x-b", "1")>>)}
NoData == [id \in {} |-> 0]
TwoStreams == [id \in {1, 3} |-> IF id = 1 THEN 5 ELSE 3]
Trailers == {Block("H", 3, <<H("x-a", "1"), H("x-a", "2")>>)}
Ops == [queue |-> 0, cancel |-> 0, control |-> 0, settings |-> 0]

Heads ==
  INSTANCE H2Codec WITH HashOf <- MCHash, LenOf <- MCLen, MaxFrame <- 3, ChainThreshold <- 2, BufCap <- 2,
    MaxList <- 40, InitialTable <- 10, Blocks <- Plain, DataLen <- NoData, TableSizes <- {0, 8},
    Budget <- [Ops EXCEPT !.queue = 3, !.settings = 2]
Bodies ==
  INSTANCE H2Codec WITH HashOf <- MCHash, LenOf <- MCLen, MaxFrame <- 2, ChainThreshold <- 2, BufCap <- 2,
    MaxList <- 40, InitialTable <- 10, Blocks <- Trailers, DataLen <- TwoStreams, TableSizes <- {0, 8},
    Budget <- [Ops EXCEPT !.queue = 2, !.cancel = 1, !.control = 2]
Tables ==
  INSTANCE H2Tables WITH HashOf <- MCApart, LenOf <- MCShort, Sizes <- {0, 3, 7}, MaxBlocks <- 5, MaxChanges <- 2,
    Headers <- {H("x-a", "1"), H("x-a", "2"), H("x-b", "1"), Secret("x-b", "2"), H("x-c", "1"), H("accept", "1")}

NoCodec == q = <<>> /\ w = <<>> /\ wire = <<>> /\ r = <<>> /\ exp = <<>> /\ sync = 0 /\ left = <<>>
NoTables == e = <<>> /\ d = <<>> /\ sent = <<>> /\ got = <<>> /\ n = <<>>
Init ==
  \/ part = "heads" /\ Heads!Init /\ NoTables
  \/ part = "bodies" /\ Bodies!Init /\ NoTables
  \/ part = "tables" /\ Tables!Init /\ NoCodec
Next ==
  \/ part = "heads" /\ Heads!Next /\ UNCHANGED <<part, tables>>
  \/ part = "bodies" /\ Bodies!Next /\ UNCHANGED <<part, tables>>
  \/ part = "tables" /\ Tables!Next /\ UNCHANGED <<part, codec>>
Spec == Init /\ [][Next]_vars

(* What is read is what was written: frames and headers, in their order, cut *)
(* anywhere, with no connection error (FramedRead against poll_complete, and *)
(* Decoder::decode against Table::index for every table history).            *)
DeliversWhatWasSent ==
  /\ part = "heads" => Heads!FramesSurvive
  /\ part = "bodies" => Bodies!FramesSurvive
  /\ part = "tables" => Tables!HeadersSurvive

(* The two ends' header tables hold the same entries whenever nothing is on  *)
(* its way and no change of the limit is pending.                            *)
TablesAgree ==
  /\ part = "heads" => Heads!TablesEqual
  /\ part = "bodies" => Bodies!TablesEqual
  /\ part = "tables" => Tables!TablesInStep

(* No DATA stays with the codec: what is cut, chained and handed back all    *)
(* arrives, and reclaim_frame_inner never panics.                            *)
NothingLeftBehind ==
  /\ part = "heads" => Heads!DataComplete
  /\ part = "bodies" => Bodies!DataComplete

(* The encoder's robin-hood index reaches every slot by exactly one way      *)
(* (assert_valid_state of table.rs, which is commented out there).           *)
IndexValid == part = "tables" => Tables!IndexSound
=============================================================================

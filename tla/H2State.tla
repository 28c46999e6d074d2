------------------------------ MODULE H2State ------------------------------
(* The life of one HTTP/2 stream as the library's proto/streams/state.rs     *)
(* keeps it.  A state is a record: st is the variant, lo and re say whether  *)
(* the local and the remote half still await their HEADERS ("A") or stream   *)
(* ("S"), and by/why give the cause and the reason of a closed stream.       *)
(* A transition the code rejects with an error yields NoState.               *)
EXTENDS Naturals

St(st, lo, re, by, why) == [st |-> st, lo |-> lo, re |-> re, by |-> by, why |-> why]

Idle == St("Idle", "-", "-", "-", "-")
ReservedLocal == St("ReservedLocal", "-", "-", "-", "-")
ReservedRemote == St("ReservedRemote", "-", "-", "-", "-")
Open(lo, re) == St("Open", lo, re, "-", "-")
HalfClosedLocal(re) == St("HalfClosedLocal", "-", re, "-", "-")
HalfClosedRemote(lo) == St("HalfClosedRemote", lo, "-", "-", "-")
Closed(by, why) == St("Closed", "-", "-", by, why)
EndStream == Closed("EndStream", "-")
NoState == St("None", "-", "-", "-", "-")

(* Causes that are errors of this endpoint (Error::is_local); "Reset.Remote" *)
(* and "GoAway.Remote" are the peer's.                                       *)
LocalCause == {"Reset.User", "Reset.Library", "GoAway.User", "GoAway.Library", "Io"}

send_open(s, eos) ==
  CASE s.st = "Idle" -> IF eos THEN HalfClosedLocal("A") ELSE Open("S", "A")
    [] s.st = "Open" /\ s.lo = "A" -> IF eos THEN HalfClosedLocal(s.re) ELSE Open("S", s.re)
    [] (s.st = "HalfClosedRemote" /\ s.lo = "A") \/ s.st = "ReservedLocal" ->
         IF eos THEN EndStream ELSE HalfClosedRemote("S")
    [] OTHER -> NoState

recv_open_unended(s, eos, info) ==
  IF s.st = "Idle" THEN Open("A", "A") ELSE HalfClosedLocal("S")
Remote(info) == IF info THEN "A" ELSE "S"   \* remote after the response: Peer
recv_open(s, eos, info) ==
  CASE s.st = "Idle" -> IF eos THEN HalfClosedRemote("A") ELSE Open("A", Remote(info))
    [] s.st = "ReservedRemote" ->
         IF eos THEN EndStream ELSE IF info THEN s ELSE HalfClosedLocal("S")
    [] s.st = "Open" /\ s.re = "A" -> IF eos THEN HalfClosedRemote(s.lo) ELSE Open(s.lo, Remote(info))
    [] s.st = "HalfClosedLocal" /\ s.re = "A" -> IF eos THEN EndStream ELSE HalfClosedLocal(Remote(info))
    [] OTHER -> NoState

(* recv_open's result: HEADERS that start the stream's receiving half.       *)
is_initial(s) == s.st \in {"Idle", "ReservedRemote"}

reserve_remote(s) == IF s.st = "Idle" THEN ReservedRemote ELSE NoState
reserve_local(s) == IF s.st = "Idle" THEN ReservedLocal ELSE NoState

recv_close(s) ==
  CASE s.st = "Open" -> HalfClosedRemote(s.lo)
    [] s.st = "HalfClosedLocal" -> EndStream
    [] OTHER -> NoState

(* NoState stands for the panic of the other variants.                       *)
send_close(s) ==
  CASE s.st = "Open" -> HalfClosedLocal(s.re)
    [] s.st = "HalfClosedRemote" -> EndStream
    [] OTHER -> NoState

recv_reset(s, why, queued) ==
  IF s.st = "Closed" /\ ~queued THEN s ELSE Closed("Reset.Remote", why)

handle_error(s, by, why) == IF s.st = "Closed" THEN s ELSE Closed(by, why)
recv_eof(s) == IF s.st = "Closed" THEN s ELSE Closed("Io", "-")
set_scheduled_reset(why) == Closed("Scheduled", why)

is_closed(s) == s.st = "Closed"
is_scheduled_reset(s) == s.by = "Scheduled"
is_local_error(s) == s.by \in LocalCause \cup {"Scheduled"}
is_remote_reset(s) == s.by = "Reset.Remote"
is_reset(s) == s.st = "Closed" /\ s.by # "EndStream"
is_send_streaming(s) == s.st \in {"Open", "HalfClosedRemote"} /\ s.lo = "S"
is_recv_headers(s) == is_initial(s) \/ (s.st \in {"Open", "HalfClosedLocal"} /\ s.re = "A")
is_recv_streaming(s) == s.st \in {"Open", "HalfClosedLocal"} /\ s.re = "S"
is_recv_end_stream(s) == s.by = "EndStream" \/ s.st = "HalfClosedRemote"
is_send_closed(s) == s.st \in {"Closed", "HalfClosedLocal", "ReservedRemote"}

(* "open", "end" (no more frames will come) or "err" (the stream failed).    *)
ensure_recv_open(s) ==
  CASE is_reset(s) -> "err"
    [] s.by = "EndStream" \/ s.st \in {"HalfClosedRemote", "ReservedLocal"} -> "end"
    [] OTHER -> "open"

(* What poll_reset finds: "reason", "err", "misuse" or "none" yet.           *)
ensure_reason(s, mode) ==
  CASE s.by \in {"Reset.User", "Reset.Library", "Reset.Remote", "GoAway.User",
                 "GoAway.Library", "GoAway.Remote", "Scheduled"} -> "reason"
    [] s.by = "Io" -> "err"
    [] is_send_streaming(s) /\ mode = "AwaitingHeaders" -> "misuse"
    [] OTHER -> "none"
=============================================================================

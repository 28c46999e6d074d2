------------------------------- MODULE H2Api --------------------------------
(* How requests, responses and promises become header blocks and are read    *)
(* back: Peer::convert_send_message and convert_poll_message of client.rs    *)
(* and server.rs, convert_push_message, and Pseudo, PseudoOrder, Iter and    *)
(* validate_request of frame/headers.rs.                                     *)
(*                                                                           *)
(* A request is [method, uri, version, protocol, cl]: uri is a record of     *)
(* scheme, authority and path, "" for what it lacks, and cl the digits of    *)
(* its content-length header (10 for an octet that is no digit), or None.    *)
EXTENDS Integers, Sequences, SequencesExt, FiniteSetsExt

CONSTANTS Requests,   \* what a user hands to send_request
          Promises,   \* what a user hands to push_request
          Statuses,   \* what a user hands to send_response
          Orders      \* what a user pushes to the PseudoOrder builder

VARIABLES msg,     \* the message being carried: [kind, ...]
          frame,   \* its header frame: the error or the pseudo headers and fields
          block,   \* the headers in the order Iter yields them
          heard    \* what the other side makes of it

vars == <<msg, frame, block, heard>>

Nothing == [kind |-> "none"]
None == <<11>>   \* no content-length header
Ok(v) == [err |-> "", v |-> v]
Err(e) == [err |-> e]

(******************************** headers.rs *******************************)
DEFAULT_IDS == <<"method", "scheme", "authority", "path", "protocol", "status">>
PseudoOrder_push(ids, id) == IF Contains(ids, id) THEN ids ELSE Append(ids, id)
PseudoOrder_build(pushed) ==
  LET ids == FoldLeft(PseudoOrder_push, <<>>, pushed)
  IN  IF Len(ids) # Len(DEFAULT_IDS) THEN FoldLeft(PseudoOrder_push, ids, DEFAULT_IDS) ELSE ids

NoPseudo == [id \in ToSet(DEFAULT_IDS) |-> ""]
Pseudo_request(method, uri, protocol) ==
  LET plain == method = "CONNECT" /\ protocol = ""
      path == IF uri.path # "" THEN uri.path ELSE IF method = "OPTIONS" THEN "*" ELSE "/"
  IN  [NoPseudo EXCEPT !["method"] = method, !["protocol"] = protocol,
                       !["scheme"] = IF plain THEN "" ELSE uri.scheme,
                       !["authority"] = uri.authority,
                       !["path"] = IF plain THEN "" ELSE path]
Pseudo_response(status) == [NoPseudo EXCEPT !["status"] = status]
is_informational(pseudo) == pseudo["status"] \in {"100", "103"}

(* Iter: the pseudo headers that are there in their order, then the fields.  *)
Iter(f) ==
  [i \in DOMAIN SelectSeq(f.order, LAMBDA id : f.pseudo[id] # "") |->
     LET id == SelectSeq(f.order, LAMBDA d : f.pseudo[d] # "")[i]
     IN  [n |-> id, v |-> f.pseudo[id]]]
    \o (IF f.cl = None THEN <<>> ELSE <<[n |-> "content-length", v |-> f.cl]>>)
(* HeaderBlock::load: a pseudo header behind a field or repeated is refused. *)
IsPseudo(h) == h.n \in ToSet(DEFAULT_IDS)
malformed(b) ==
  \E i \in DOMAIN b : IsPseudo(b[i]) /\ \E j \in 1..(i - 1) : ~IsPseudo(b[j]) \/ b[j].n = b[i].n
Loaded(b) ==
  [pseudo |-> [id \in ToSet(DEFAULT_IDS) |->
                 LET at == {i \in DOMAIN b : b[i].n = id} IN IF at = {} THEN "" ELSE b[Min(at)].v],
   cl |-> LET at == {i \in DOMAIN b : ~IsPseudo(b[i])} IN IF at = {} THEN None ELSE b[Min(at)].v]

(* parse_u64 and PushPromise::validate_request.                              *)
parse_u64(src) ==
  IF Len(src) > 19 \/ \E i \in DOMAIN src : src[i] > 9 THEN Err("ParseU64Error")
  ELSE Ok(FoldLeft(LAMBDA r, d : r * 10 + d, 0, src))
safe_and_cacheable(method) == method \in {"GET", "HEAD"}
validate_request(req) ==
  /\ req.cl # None => parse_u64(req.cl) = Ok(0)
  /\ safe_and_cacheable(req.method)

(* Headers::new, and the two setters of its flags: set_stream_dependency     *)
(* assigns them, set_end_stream adds to them.                                *)
Headers_new(pseudo, cl, pushed) ==
  [pseudo |-> pseudo, cl |-> cl, order |-> PseudoOrder_build(pushed), flags |-> {"END_HEADERS"}]
set_stream_dependency(f) == [f EXCEPT !.flags = {"END_HEADERS", "PRIORITY"}]
set_end_stream(f) == [f EXCEPT !.flags = @ \union {"END_STREAM"}]
If(c, Set(_), f) == IF c THEN Set(f) ELSE f

(******************************** client.rs ********************************)
(* dep: the client was built with a headers_stream_dependency.               *)
client_convert_send_message_end_first(req, pushed, dep, eos) ==
  LET p == Pseudo_request(req.method, req.uri, req.protocol)
      relative == p["scheme"] = "" /\ p["authority"] = ""
      f == Headers_new(IF relative THEN [p EXCEPT !["scheme"] = "http"] ELSE p, req.cl, pushed)
  IN  IF relative /\ req.version = 2 THEN Err("MissingUriSchemeAndAuthority")
      ELSE Ok(If(dep, set_stream_dependency, If(eos, set_end_stream, f)))
client_convert_send_message(req, pushed, dep, eos) ==
  LET p == Pseudo_request(req.method, req.uri, req.protocol)
      relative == p["scheme"] = "" /\ p["authority"] = ""
      f == Headers_new(IF relative THEN [p EXCEPT !["scheme"] = "http"] ELSE p, req.cl, pushed)
  IN  IF relative /\ req.version = 2 THEN Err("MissingUriSchemeAndAuthority")
      ELSE Ok(If(eos, set_end_stream, If(dep, set_stream_dependency, f)))
(* A response without :status takes the builder's default.                   *)
client_convert_poll_message(pseudo) ==
  Ok([status |-> IF pseudo["status"] = "" THEN "200" ELSE pseudo["status"],
      informational |-> is_informational(pseudo)])

(******************************** server.rs ********************************)
server_convert_send_message(status, eos) ==
  Ok(If(eos, set_end_stream, Headers_new(Pseudo_response(status), None, <<>>)))
convert_push_message(req) ==
  IF ~validate_request(req) THEN Err("MalformedHeaders")
  ELSE Ok(Headers_new(Pseudo_request(req.method, req.uri, ""), req.cl, <<>>))
(* http::Uri::from_parts (external): a scheme comes with authority and path, *)
(* an authority without scheme comes alone.                                  *)
UriBuilds(u) ==
  IF u.scheme # "" THEN u.authority # "" /\ u.path # "" ELSE u.authority = "" \/ u.path = ""
server_convert_poll_message(pseudo, cl) ==
  LET connect == pseudo["method"] = "CONNECT"
      extended == pseudo["protocol"] # ""
      plain == connect /\ ~extended
      uri == [scheme |-> IF pseudo["authority"] = "" THEN "" ELSE pseudo["scheme"],
              authority |-> pseudo["authority"], path |-> pseudo["path"]]
  IN  IF \/ pseudo["method"] = ""
         \/ extended /\ ~connect
         \/ pseudo["status"] # ""
         \/ plain /\ (pseudo["scheme"] # "" \/ pseudo["path"] # "")
         \/ ~plain /\ pseudo["scheme"] = ""
         \/ connect /\ extended /\ pseudo["path"] = ""
         \/ ~UriBuilds(uri)
      THEN Err("PROTOCOL_ERROR")
      ELSE Ok([method |-> pseudo["method"], uri |-> uri, protocol |-> pseudo["protocol"], cl |-> cl])

(****************************** one message ********************************)
Init == msg = Nothing /\ frame = Nothing /\ block = <<>> /\ heard = Nothing

SendRequest ==
  /\ msg = Nothing
  /\ \E req \in Requests, pushed \in Orders, dep, eos \in BOOLEAN :
       /\ msg' = [kind |-> "request", req |-> req, eos |-> eos]
       /\ frame' = client_convert_send_message(req, pushed, dep, eos)
  /\ UNCHANGED <<block, heard>>
SendResponse ==
  /\ msg = Nothing
  /\ \E status \in Statuses, eos \in BOOLEAN :
       /\ msg' = [kind |-> "response", status |-> status, eos |-> eos]
       /\ frame' = server_convert_send_message(status, eos)
  /\ UNCHANGED <<block, heard>>
PushRequest ==
  /\ msg = Nothing
  /\ \E req \in Promises :
       /\ msg' = [kind |-> "promise", req |-> req, eos |-> FALSE]
       /\ frame' = convert_push_message(req)
  /\ UNCHANGED <<block, heard>>
EncodeBlock ==
  /\ frame # Nothing /\ frame.err = "" /\ block = <<>>
  /\ block' = Iter(frame.v)
  /\ UNCHANGED <<msg, frame, heard>>
(* The receiver's codec, then its Peer; a promise is validated once more.    *)
Received(b) ==
  LET l == Loaded(b)
      r == server_convert_poll_message(l.pseudo, l.cl)
  IN  IF malformed(b) THEN Err("MalformedMessage")
      ELSE IF msg.kind = "response" THEN client_convert_poll_message(l.pseudo)
      ELSE IF msg.kind = "promise" /\ r.err = "" /\ ~validate_request(r.v) THEN Err("PROTOCOL_ERROR")
      ELSE r
Receive ==
  /\ block # <<>> /\ heard = Nothing
  /\ heard' = Received(block)
  /\ UNCHANGED <<msg, frame, block>>

Next == SendRequest \/ SendResponse \/ PushRequest \/ EncodeBlock \/ Receive
Spec == Init /\ [][Next]_vars

(* A finished delivery of a message of this kind.                            *)
Delivered(kind) == heard # Nothing /\ msg.kind = kind
EndKept == ("END_STREAM" \in frame.v.flags) = msg.eos
(* The request the server reads is the one the user sent, with its path      *)
(* spelt out and the scheme of a relative URI dropped again.                 *)
Same(req, got) ==
  LET p == Pseudo_request(req.method, req.uri, req.protocol) IN
  /\ got.method = req.method /\ got.protocol = req.protocol /\ got.cl = req.cl
  /\ got.uri = [req.uri EXCEPT !.path = p["path"], !.scheme = p["scheme"]]
(* What convert_send_message accepts, convert_poll_message of the server     *)
(* accepts and reads as the same request, in whatever order the user wants   *)
(* the pseudo headers and however few of them the builder was given; and     *)
(* the frame ends the stream exactly when the request has no body, with or   *)
(* without a stream dependency.                                              *)
RequestArrives ==
  Delivered("request") => heard.err = "" /\ Same(msg.req, heard.v) /\ EndKept
(* A promise that convert_push_message lets out is not reset by the client,  *)
(* which validates it again on what is left of it after the conversion.      *)
PromiseArrives ==
  Delivered("promise") => heard.err = "" /\ Same(msg.req, heard.v)
(* A response keeps its status, and is informational on both sides or none.  *)
ResponseArrives ==
  Delivered("response") =>
    /\ heard = Ok([status |-> msg.status, informational |-> msg.status \in {"100", "103"}])
    /\ EndKept
=============================================================================

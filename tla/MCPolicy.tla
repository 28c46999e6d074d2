------------------------------ MODULE MCPolicy ------------------------------
(* Configurations with overlapping routes, a ring that does not divide, JWT  *)
(* filters and policies of every kind of condition, and messages that meet   *)
(* them fully, in part or not at all; and, apart from them, the mutate       *)
(* filter on messages with up to three headers in any order.                 *)
EXTENDS Policy

VARIABLES part,                                                \* "match" or "mutate"
          orig, filter, msg, ranges, done_idx, verdict  \* Mutate

(* Strings that are prefixes of one another; encodings longer and shorter.   *)
MCHuffman ==
  (<<1>> :> <<9, 1>>) @@ (<<1, 2>> :> <<8>>) @@ (<<2, 1>> :> <<7, 7, 7>>)
    @@ (<<3>> :> <<6>>) @@ (<<3, 4>> :> <<6, 5, 5>>) @@ (<<1, 2, 1>> :> <<8, 9>>)
    @@ (<<42>> :> <<10>>)

Route(path, headers, filters, dest) ==
  [path |-> path, headers |-> headers, filters |-> filters, dest |-> dest]
Jwt(iss) == [type |-> "jwt", iss |-> iss, remove |-> <<>>]
Mutate(remove) == [type |-> "mutate", iss |-> Unset, remove |-> remove]
Allow(method, path, src, headers, allow) ==
  [method |-> method, path |-> path, src |-> src, dst |-> Unset, port |-> Unset,
   headers |-> headers, allow |-> allow]
Hosts == [one |-> [instances |-> <<"i1">>, ring |-> 0],
          many |-> [instances |-> <<"i1", "i2", "i3">>, ring |-> 8]]
Config(routes, policies) ==
  [routes |-> routes, policies |-> policies, hosts |-> Hosts, proxy |-> "p"]

MCConfigs ==
  { Config(<<Route(<<1, 2>>, {<<"b", <<2, 1>>>>}, <<Mutate(<<"b", "x">>)>>, "one"),
             Route(<<1>>, {<<"b", <<1>>>>}, <<>>, "many"),
             Route(NoStr, {}, <<>>, "proxy")>>, <<>>),
    Config(<<Route(<<1>>, {}, <<Jwt("beeline"), Mutate(<<"x">>)>>, "many"),
             Route(Star, {<<"x", <<1, 2>>>>, <<"b", <<1>>>>}, <<Jwt(Unset)>>, "one")>>,
           <<Allow(NoStr, <<1, 2>>, Unset, {}, FALSE), Allow(<<3>>, NoStr, "s1", {}, TRUE)>>),
    Config(<<Route(Star, {}, <<>>, "one")>>,
           <<Allow(<<3, 4>>, NoStr, "s2", {<<"b", <<2, 1>>>>}, TRUE),
             Allow(<<3>>, <<1>>, Unset, {<<"b", <<1>>>>}, FALSE),
             Allow(NoStr, Star, Unset, {}, FALSE),
             Allow(NoStr, NoStr, "s1", {}, TRUE)>>) }
HeaderSets == {[n \in {} |-> <<>>], [b |-> <<1>>], [b |-> <<2, 1>>], [b |-> <<1, 2, 1>>, x |-> <<1, 2>>]}
Req(methods, paths, headers, srcs, wires, jwts, hashes) ==
  {[method |-> m, path |-> p, headers |-> hs, src |-> s, dst |-> "d", port |-> "80",
    h2 |-> w # "h1", huff |-> w = "huff", jwt |-> j, hash |-> h] :
     m \in methods, p \in paths, hs \in headers, s \in srcs, w \in wires, j \in jwts, h \in hashes}
MCRequests ==
  Req({<<3>>, <<3, 4>>}, {<<1>>, <<1, 2>>, <<2, 1>>}, HeaderSets, {"s1", "s2"}, {"h1", "h2", "huff"},
      {"beeline"}, {5})
    \union Req({<<3>>}, {<<1>>, <<2, 1>>}, HeaderSets, {"s1"}, {"h1", "h2"},
               {"none", "bad", "other", "beeline"}, {6, 7})

(* Filters that remove none to all of the headers in any order and add up to *)
(* two: HTTP/1.1 with every filter, HTTP/2 with the ones that only add.      *)
MCHeaders == {<<<<99>>, <<48>>>>, <<<<120>>, <<7, 8>>>>, <<<<121, 121>>, <<9>>>>}
MCOrders == UNION {SetToSeqs(S) : S \in SUBSET MCHeaders}
MCMessages(h2) ==
  {[h2 |-> h2, start |-> <<71, 32, 47>>, headers |-> hs, body |-> b] : hs \in MCOrders, b \in {<<>>, <<5, 6>>}}
MCAdds == {<<>>, <<<<<<122>>, <<1>>>>>>, <<<<<<122>>, <<1>>>>, <<<<119, 119>>, <<2, 3>>>>>>}
MCRemoves == {<<>>, <<<<120>>>>, <<<<120>>, <<121, 121>>>>, <<<<121, 121>>, <<120>>>>}
Http1 == INSTANCE Mutate WITH Messages <- MCMessages(FALSE), Filters <- [remove : MCRemoves, add : MCAdds]
Http2 == INSTANCE Mutate WITH Messages <- MCMessages(TRUE), Filters <- [remove : {<<>>}, add : MCAdds]

MCInit ==
  \/ /\ part = "match" /\ Init
     /\ orig = <<>> /\ filter = <<>> /\ msg = <<>> /\ ranges = <<>> /\ done_idx = 0 /\ verdict = "none"
  \/ /\ part \in {"mutate h1", "mutate h2"}
     /\ config = <<>> /\ vars = <<>> /\ ctx = <<>> /\ req = <<>> /\ res = <<>>
     /\ IF part = "mutate h1" THEN Http1!Init ELSE Http2!Init
MCNext ==
  \/ part = "match" /\ Next /\ UNCHANGED <<part, orig, filter, msg, ranges, done_idx, verdict>>
  \/ part = "mutate h1" /\ Http1!Next /\ UNCHANGED <<part, all>>
  \/ part = "mutate h2" /\ Http2!Next /\ UNCHANGED <<part, all>>
MCSpec == MCInit /\ [][MCNext]_<<part, all, orig, filter, msg, ranges, done_idx, verdict>>

(* A message passes exactly when the configuration permits it, whatever the  *)
(* messages before it left in the context (check_rbac and the filters that   *)
(* Compiler generates).                                                      *)
MatchedAsConfigured == part = "match" => PermittedExactly
(* A message that passes goes to an instance of the host its route names     *)
(* (match, resolve_host and the ring of load_balance).                       *)
RoutedAsConfigured == part = "match" => GoesWhereConfigured
(* The octets that go on are the message the configuration asks for, and the *)
(* context still describes them (generate_mutate_filter, _mutate_msg).       *)
MutatedAsConfigured ==
  /\ part = "mutate h1" => Http1!MessageAsWanted /\ Http1!ContextFollows
  /\ part = "mutate h2" => Http2!MessageAsWanted
=============================================================================

------------------------------- MODULE Policy -------------------------------
(* The program that compiler.rs writes for a configuration, and what it      *)
(* decides: the context variables (get_ctx_vars), their initialisation from  *)
(* a parsed message (generate_ctx), the routes, the JWT filter, the ring of  *)
(* a load balancer and the RBAC policies.  The context lives in a per-CPU    *)
(* map and keeps the octets of earlier messages behind the terminator.       *)
(*                                                                           *)
(* A string is a sequence of octets without 0.  A request says in huff       *)
(* whether its values are Huffman encoded on the wire, as HTTP/2 permits.    *)
EXTENDS Integers, Sequences, SequencesExt, FiniteSetsExt, Functions

CONSTANTS Configs,    \* the configurations the compiler is run on
          Requests,   \* the messages that reach the program
          Huffman     \* string -> its encoding: huffman::encode, a generated table

(* str_eq puts both forms into C strings, so neither may hold a NUL.         *)
ASSUME HuffmanAssumption == \A v \in DOMAIN Huffman : 0 \notin Range(v) \union Range(Huffman[v])

VARIABLES config, vars, ctx, req, res
all == <<config, vars, ctx, req, res>>

NoStr == <<0>>      \* an Option that is None
Unset == "any"        \* an address, port or issuer that is None
Star == <<42>>      \* "*"
NullAddr == "0"     \* a zeroed addr_key

(***************************** get_ctx_vars ********************************)
Buffer(name, size) == [name |-> name, buffer |-> TRUE, size |-> size]
RangeVar(name) == [name |-> name, buffer |-> FALSE, size |-> 0]
insert_var(seen, var) ==
  IF \E i \in DOMAIN seen : seen[i].name = var.name /\ (seen[i].buffer \/ ~var.buffer)
  THEN seen ELSE Append(seen, var)
value_size_plain(val) == Len(val)
value_size(val) == Max({Len(val), Len(Huffman[val])})
HeaderVars(headers) == SetToSeq({Buffer(h[1], value_size(h[2])) : h \in headers})
patterns(c) ==
  [i \in DOMAIN c.routes |-> [path |-> c.routes[i].path, headers |-> c.routes[i].headers]]
    \o [i \in DOMAIN c.policies |-> [path |-> c.policies[i].path, headers |-> c.policies[i].headers]]
max_path_len(c) ==
  LET ps == patterns(c)
  IN  Max({16} \union {Len(ps[i].path) + 12 : i \in {j \in DOMAIN ps : ps[j].path # NoStr}})
AllFilters(c) == FlattenSeq([i \in DOMAIN c.routes |-> c.routes[i].filters])
FilterVars(f) == IF f.type = "mutate" THEN [i \in DOMAIN f.remove |-> RangeVar(f.remove[i])] ELSE <<>>
get_ctx_vars(c) ==
  LET ps == patterns(c)
      fs == AllFilters(c)
      auth == \E i \in DOMAIN fs : fs[i].type = "jwt"
  IN  FoldLeft(insert_var, <<>>,
        <<Buffer("preface", 24)>>
          \o FlattenSeq([i \in DOMAIN ps |-> HeaderVars(ps[i].headers)])
          \o FlattenSeq([i \in DOMAIN fs |-> FilterVars(fs[i])])
          \o <<Buffer("method", 7), Buffer("path", max_path_len(c))>>
          \o (IF auth THEN <<Buffer("jwt_claims", 4095), Buffer("jwt_sig", 63)>> ELSE <<>>))

(***************************** generate_ctx ********************************)
(* The strings that conditions read; what a message lacks has length 0.      *)
Strings(vs) == {vs[i].name : i \in {j \in DOMAIN vs : vs[j].buffer}} \ {"preface", "jwt_claims", "jwt_sig"}
SizeOf(vs, name) == vs[CHOOSE i \in DOMAIN vs : vs[i].name = name /\ vs[i].buffer].size
OnWire(r, v) == IF r.huff THEN Huffman[v] ELSE v
Captured(r, name) ==
  CASE name = "method" -> OnWire(r, r.method)
    [] name = "path" -> OnWire(r, r.path)
    [] OTHER -> IF name \in DOMAIN r.headers THEN OnWire(r, r.headers[name]) ELSE <<>>
(* At most size octets are copied over the old contents, and terminated.     *)
Over(old, new) == new \o SubSeq(old, Len(new) + 1, Len(old))
FillUnterminated(old, val, size) == Over(old, SubSeq(val, 1, Min({Len(val), size})))
Fill(old, val, size) == Over(old, Append(SubSeq(val, 1, Min({Len(val), size})), 0))
init_filter_ctx(vs, old, r) ==
  [name \in Strings(vs) |-> Fill(old[name], Captured(r, name), SizeOf(vs, name))]

(************************ conditions and verdicts **************************)
StartsWith(buf, val) == Len(val) <= Len(buf) /\ IsPrefix(val, buf)
(* bpf_strncmp with the plain value, or __builtin_memcmp with the encoded.   *)
str_eq(c, var, val) == StartsWith(c[var], val) \/ StartsWith(c[var], Huffman[val])
Headers_eq(c, headers) == \A h \in headers : str_eq(c, h[1], h[2])
route_cond(c, route) ==
  /\ route.path \in {NoStr, Star} \/ str_eq(c, "path", route.path)
  /\ Headers_eq(c, route.headers)
policy_cond(c, p, r) ==
  /\ p.method = NoStr \/ str_eq(c, "method", p.method)
  /\ p.path = NoStr \/ str_eq(c, "path", p.path)
  /\ p.dst \in {Unset, r.dst} /\ p.port \in {Unset, r.port} /\ p.src \in {Unset, r.src}
  /\ Headers_eq(c, p.headers)
(* The if of each policy returns; the first whose condition holds decides.   *)
check_rbac(c, cfg, r) ==
  LET hits == {i \in DOMAIN cfg.policies : policy_cond(c, cfg.policies[i], r)}
  IN  IF hits # {} THEN IF cfg.policies[Min(hits)].allow THEN "PASS" ELSE "DROP"
      ELSE IF cfg.policies = <<>> THEN "PASS" ELSE "DROP"

(* The parser captures no token from an HTTP/2 message.  The token itself is *)
(* its issuer, or "bad" when the signature does not verify, or none.         *)
jwt_filter(f, r) == ~r.h2 /\ r.jwt \notin {"none", "bad"} /\ f.iss \in {Unset, r.jwt}
route_filters(route, r) ==
  \A i \in DOMAIN route.filters : route.filters[i].type = "jwt" => jwt_filter(route.filters[i], r)

(* The ring: every instance as often as the others, what the division leaves *)
(* over is cut off.  The hash of the connection picks the slot.              *)
hashes_per_instance(host) == host.ring \div Len(host.instances)
Ring(host) == FlattenSeq([i \in DOMAIN host.instances |->
                [k \in 1..hashes_per_instance(host) |-> host.instances[i]]])
ring_len(host) == hashes_per_instance(host) * Len(host.instances)
load_balance(host, hash) ==
  LET idx == hash % ring_len(host)
  IN  IF idx + 1 \in DOMAIN Ring(host) THEN Ring(host)[idx + 1] ELSE NullAddr
resolve_host(cfg, name) ==
  IF name = "proxy" /\ cfg.proxy # NullAddr THEN [instances |-> <<cfg.proxy>>, ring |-> 0]
  ELSE cfg.hosts[name]
route_dest(cfg, route, r) ==
  LET host == resolve_host(cfg, route.dest)
  IN  IF Len(host.instances) = 1 THEN host.instances[1] ELSE load_balance(host, r.hash)

(* The chain of else ifs, then RBAC; a message without a route keeps the     *)
(* zeroed destination.                                                       *)
match(c, cfg, r) ==
  LET hits == {i \in DOMAIN cfg.routes : route_cond(c, cfg.routes[i])}
      route == cfg.routes[Min(hits)]
  IN  IF hits # {} /\ ~route_filters(route, r) THEN [verdict |-> "DROP", dest |-> NullAddr]
      ELSE [verdict |-> check_rbac(c, cfg, r),
            dest |-> IF hits = {} THEN NullAddr ELSE route_dest(cfg, route, r)]

Init ==
  /\ config \in Configs
  /\ vars = get_ctx_vars(config)
  /\ ctx = [name \in Strings(vars) |-> [i \in 1..(SizeOf(vars, name) + 1) |-> 0]]
  /\ req = [h2 |-> FALSE] /\ res = [verdict |-> "none", dest |-> NullAddr]
(* The program on one message.                                               *)
Process(r) ==
  /\ ctx' = init_filter_ctx(vars, ctx, r)
  /\ req' = r
  /\ res' = match(ctx', config, r)
  /\ UNCHANGED <<config, vars>>
Next == \E r \in Requests : Process(r)
Spec == Init /\ [][Next]_all

(**************************** what it should do ****************************)
(* A reading of the configuration that knows no buffers: a pattern meets the *)
(* value on the wire, plain or encoded, up to the pattern's length.          *)
Meets(r, v, val) == IsPrefix(val, OnWire(r, v)) \/ IsPrefix(Huffman[val], OnWire(r, v))
HeadersMeet(r, headers) == \A h \in headers : h[1] \in DOMAIN r.headers /\ Meets(r, r.headers[h[1]], h[2])
TheRoute(r) ==
  SelectInSeq(config.routes, LAMBDA t :
    (t.path \in {NoStr, Star} \/ Meets(r, r.path, t.path)) /\ HeadersMeet(r, t.headers))
ThePolicy(r) ==
  SelectInSeq(config.policies, LAMBDA p :
    /\ p.method = NoStr \/ Meets(r, r.method, p.method)
    /\ p.path = NoStr \/ Meets(r, r.path, p.path)
    /\ p.dst \in {Unset, r.dst} /\ p.port \in {Unset, r.port} /\ p.src \in {Unset, r.src}
    /\ HeadersMeet(r, p.headers))
Permitted(r) ==
  /\ config.policies = <<>> \/ (ThePolicy(r) # 0 /\ config.policies[ThePolicy(r)].allow)
  /\ TheRoute(r) # 0 =>
       \A i \in DOMAIN config.routes[TheRoute(r)].filters :
         LET f == config.routes[TheRoute(r)].filters[i]
         IN  f.type = "jwt" => ~r.h2 /\ r.jwt \notin {"none", "bad"} /\ f.iss \in {Unset, r.jwt}
Answered == res.verdict # "none"
(* A message passes exactly when the configuration permits it: the first     *)
(* policy that meets it allows it and the filters of its route accept it,    *)
(* whatever the messages before it left in the context.                      *)
PermittedExactly == Answered => (res.verdict = "PASS") = Permitted(req)
(* Every hash picks an instance, and in each round of the ring every         *)
(* instance is picked equally often.                                         *)
EvenRing ==
  \A name \in DOMAIN config.hosts :
    LET host == config.hosts[name]
        picks(a) == Cardinality({h \in 0..(ring_len(host) - 1) : load_balance(host, h) = a})
    IN  Len(host.instances) > 1 =>
          /\ \A h \in 0..host.ring : load_balance(host, h) \in Range(host.instances)
          /\ \A a, b \in Range(host.instances) : picks(a) = picks(b)
(* A message that passes goes to the host of the first route that meets it:  *)
(* to one of its instances, which get equal shares of the hashes, and to     *)
(* none when no route meets it.                                              *)
GoesWhereConfigured ==
  /\ EvenRing
  /\ res.verdict = "PASS" =>
       IF TheRoute(req) = 0 THEN res.dest = NullAddr
       ELSE res.dest \in Range(resolve_host(config, config.routes[TheRoute(req)].dest).instances)
=============================================================================

--------------------------- MODULE MCH2Handshake ----------------------------
(* A preface of five octets that repeats its first ones, so that a read that *)
(* starts over can go unnoticed, and a SETTINGS frame of three that starts   *)
(* like the preface.                                                         *)
EXTENDS H2Handshake

MCPreface == <<1, 2, 1, 2, 3>>
MCSettings == <<1, 2, 4>>
(* Every prefix, the preface with an octet changed, and with more behind it. *)
MCOthers ==
  {SubSeq(MCPreface, 1, n) : n \in 0..4}
    \union {[MCPreface EXCEPT ![i] = 9] : i \in DOMAIN MCPreface}
    \union {<<1, 2, 1, 2, 1, 2, 3>>, MCPreface \o <<1, 2>>}
=============================================================================

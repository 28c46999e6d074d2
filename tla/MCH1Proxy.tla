------------------------------ MODULE MCH1Proxy ------------------------------
(***************************************************************************)
(* Instances of H1Proxy for TLC.  Client c1 is seen by the control plane   *)
(* under its own address; c2 sits behind address translation and is found  *)
(* under the gateway's address.                                            *)
(***************************************************************************)
EXTENDS H1Refine, TLC

CONSTANTS c1, c2, x1, x2

MCClients == {c1, c2}
MCNatAddrs == {x1, x2}
MCSeen == c1 :> c1 @@ c2 :> x2
MCGw == c1 :> x1 @@ c2 :> c2
=============================================================================

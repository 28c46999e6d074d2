------------------------------ MODULE MCH2Proxy ------------------------------
EXTENDS H2Proxy, TLC

CONSTANTS c1, c2, x1

(* Every client is seen under its own address, or c1 is behind the gateway.  *)
MCSeen == [c \in Clients |-> c]
MCGw == [c \in Clients |-> c]
MCOne == {c1}
MCTwo == {c1, c2}

(* The clients are alike when both are seen under their own address.         *)
MCSymmetry == Permutations({c1, c2})
=============================================================================

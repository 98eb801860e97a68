---------------------------- MODULE MCLocalRelay ----------------------------
(* Instances of LocalRelay for TLC.                                        *)
EXTENDS LocalRelay, TLC

CONSTANTS b1, b2, k1, k2

OneKey == (b1 :> k1) @@ (b2 :> k1)
OneConn == b1 :> k1

ConnSymmetry == Permutations(Conn)

FourFds == 0 .. 3
TwoFds == 0 .. 1
=============================================================================

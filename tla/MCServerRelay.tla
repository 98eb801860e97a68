--------------------------- MODULE MCServerRelay ---------------------------
(* Instances of ServerRelay for TLC.                                       *)
EXTENDS ServerRelay, TLC

CONSTANTS c1, c2, c3, k1, k2

(* Connections of different sources, and two that reuse a source port.  *)
TwoKeys == (c1 :> k1) @@ (c2 :> k2)
OneKey == (c1 :> k1) @@ (c2 :> k1) @@ (c3 :> k1)
OneConn == c1 :> k1

(* Sound where every connection carries the same key.                       *)
ConnSymmetry == Permutations(Conn)

FourFds == 0 .. 3

(* Bounds: three frames in all, or two where a connection was reset.        *)
FewFrames ==
    LET sent == Len(wire[c1]) + Len(wire[c2]) + Len(wire[c3]) IN
    sent <= 2 \/ (sent <= 3 /\ \A h \in Handler : peer[h] \notin Broken)
=============================================================================

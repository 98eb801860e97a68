-------------------------------- MODULE MCPipes ---------------------------------
EXTENDS Pipes, TLC

Symmetry == Permutations(Conns)

(* Three frames one way and one the other, or two and two.                      *)
FewFrames == client.enc + server.enc <= 4
=================================================================================

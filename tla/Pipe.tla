---------------------------------- MODULE Pipe ----------------------------------
(* What a relayed connection promises in one direction.  What is put in comes  *)
(* out once and in order, a prefix of it at any time; once a connection is cut *)
(* nothing more comes out of it.                                               *)
EXTENDS Naturals, Sequences

CONSTANT Conns

VARIABLES
    src,    \* per connection, the number of items put in
    dst,    \* per connection, the items that came out
    cut     \* the connections that are over

pipeVars == <<src, dst, cut>>

PipeInit ==
    /\ src = [b \in Conns |-> 0]
    /\ dst = [b \in Conns |-> <<>>]
    /\ cut = {}

Put(b) ==
    /\ src' = [src EXCEPT ![b] = @ + 1]
    /\ UNCHANGED <<dst, cut>>

Move(b) ==
    /\ b \notin cut
    /\ Len(dst[b]) < src[b]
    /\ dst' = [dst EXCEPT ![b] = Append(@, Len(@) + 1)]
    /\ UNCHANGED <<src, cut>>

Cut ==
    /\ cut' \in SUBSET Conns
    /\ cut \subseteq cut'
    /\ UNCHANGED <<src, dst>>

PipeNext == Cut \/ \E b \in Conns : Put(b) \/ Move(b)

PipeSpec == PipeInit /\ [][PipeNext]_pipeVars
=================================================================================

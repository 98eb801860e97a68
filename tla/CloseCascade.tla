---------------------------- MODULE CloseCascade ----------------------------
(* TCPRelayHandler.close() on the server, call by call.  close() of one     *)
(* handler calls close() of others while its own loop over source_dest_map  *)
(* is in progress, and those loop over the same map again: a stack of       *)
(* activations.  ServerRelay takes the whole cascade as one step, CloseSet; *)
(* this module says why it may.                                             *)
EXTENDS Integers, Sequences, FiniteSets

CONSTANTS Conn,    \* tunnel handlers
          Remote   \* keys of source_dest_map, naming destination handlers

Handler == Conn \cup Remote

VARIABLES
    start,      \* the handler whose close() the loop called
    openAtStart,\* handlers that were open then
    creator,    \* local_relay of a destination handler
    open,       \* handlers whose self.closed is not set
    stack,      \* activations of close(), innermost last
    removed     \* how often EventLoop.remove was called for a handler

cascadeVars == <<start, openAtStart, creator, open, stack, removed>>

(* Where an activation stands: before the test of its local_relay, in the   *)
(* loop over source_dest_map, or past both.                                 *)
Place == {"relay", "loop", "return"}
Activation == [self : Handler, at : Place, todo : SUBSET Remote]

CascadeTypeOK ==
    /\ start \in Handler
    /\ openAtStart \subseteq Handler
    /\ creator \in [Remote -> Conn]
    /\ open \subseteq Handler
    /\ stack \in Seq(Activation)
    /\ removed \in [Handler -> Nat]

(* The first lines of close(): remove(), sock.close(), closed = True.       *)
Enter(h, s) ==
    /\ removed' = [removed EXCEPT ![h] = @ + 1]
    /\ stack' = Append(s, [self |-> h, at |-> "relay", todo |-> Remote])
    /\ open' = open \ {h}

(* Any open handlers, as long as the creator of an open destination handler *)
(* is open, and a first call of close() for one of them.                    *)
CascadeInit ==
    /\ openAtStart \in SUBSET Handler
    /\ creator \in [Remote -> Conn]
    /\ \A k \in Remote : k \in openAtStart => creator[k] \in openAtStart
    /\ start \in openAtStart
    /\ open = openAtStart \ {start}
    /\ stack = <<[self |-> start, at |-> "relay", todo |-> Remote]>>
    /\ removed = [h \in Handler |-> IF h = start THEN 1 ELSE 0]

Top == stack[Len(stack)]
Below == SubSeq(stack, 1, Len(stack) - 1)
Resume(act) == Append(Below, act)
Leave(act) == stack' = Resume(act) /\ UNCHANGED <<open, removed>>

(* A destination handler closes its local_relay; a tunnel handler has none  *)
(* and goes on to the loop.                                                 *)
AtRelay ==
    /\ stack # <<>> /\ Top.at = "relay"
    /\ LET next == [Top EXCEPT !.at = IF Top.self \in Conn THEN "loop" ELSE "return"] IN
       IF Top.self \in Remote /\ creator[Top.self] \in open
       THEN Enter(creator[Top.self], Resume(next))
       ELSE Leave(next)
    /\ UNCHANGED <<start, openAtStart, creator>>

(* Mutants: the loop does not ask whether a handler was closed meanwhile,   *)
(* or starts again at each handler.                                         *)
AtLoopUnasked ==
    /\ stack # <<>> /\ Top.at = "loop"
    /\ \/ Top.todo = {} /\ Leave([Top EXCEPT !.at = "return"])
       \/ \E k \in Top.todo \cap openAtStart :
            Enter(k, Resume([Top EXCEPT !.todo = @ \ {k}]))
    /\ UNCHANGED <<start, openAtStart, creator>>
AtLoopRestarts ==
    /\ stack # <<>> /\ Top.at = "loop"
    /\ \/ Top.todo = {} /\ Leave([Top EXCEPT !.at = "return"])
       \/ \E k \in Top.todo : IF k \in open THEN Enter(k, stack) ELSE Leave(Top)
    /\ UNCHANGED <<start, openAtStart, creator>>

(* for key in source_dest_map: if handler and not handler.closed.           *)
AtLoop ==
    /\ stack # <<>> /\ Top.at = "loop"
    /\ \/ Top.todo = {} /\ Leave([Top EXCEPT !.at = "return"])
       \/ \E k \in Top.todo :
            LET next == [Top EXCEPT !.todo = @ \ {k}] IN
            IF k \in open THEN Enter(k, Resume(next)) ELSE Leave(next)
    /\ UNCHANGED <<start, openAtStart, creator>>

Return ==
    /\ stack # <<>> /\ Top.at = "return"
    /\ stack' = Below
    /\ UNCHANGED <<start, openAtStart, creator, open, removed>>

CascadeNext == AtRelay \/ AtLoop \/ Return

CascadeSpec == CascadeInit /\ [][CascadeNext]_cascadeVars /\ WF_cascadeVars(CascadeNext)

-----------------------------------------------------------------------------
(* No handler is closed twice, through whatever activations it is reached:  *)
(* the second EventLoop.remove would raise KeyError.  So the activations    *)
(* nest no deeper than there are open handlers.                             *)
RemovedOnce ==
    /\ \A h \in Handler :
        /\ removed[h] <= 1
        /\ removed[h] = 1 <=> h \in openAtStart \ open
    /\ Len(stack) <= Cardinality(openAtStart)

(* What the cascade closes when it is over is what ServerRelay closes in    *)
(* one step: the first handler, every open destination handler and the      *)
(* creators of those.                                                       *)
CloseSet ==
    LET remotes == Remote \cap openAtStart
    IN {start} \cup remotes \cup {creator[k] : k \in remotes}

CascadeClosesCloseSet == stack = <<>> => open = openAtStart \ CloseSet

(* close() closes what ServerRelay says it closes, and each handler once.   *)
CascadeExact == CascadeTypeOK /\ RemovedOnce /\ CascadeClosesCloseSet

CascadeEnds == <>(stack = <<>>)
=============================================================================

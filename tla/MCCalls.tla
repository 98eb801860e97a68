--------------------------------- MODULE MCCalls --------------------------------
(* Two calls that are loops of their own, for TLC: the cascade of close(), which *)
(* ServerRelay takes as one step, and sweep() of the cache, taken apart in      *)
(* LRUCache.  A behaviour is about one of the two.                              *)
EXTENDS LRUCache, CloseCascade

ASSUME CascadeAssumption == Conn \cap Remote = {}

VARIABLE running

(* No call of close(): nothing is open.                                         *)
NoCascade ==
    /\ start = CHOOSE c \in Conn : TRUE
    /\ openAtStart = {} /\ open = {}
    /\ creator = [k \in Remote |-> start]
    /\ stack = <<>>
    /\ removed = [h \in Handler |-> 0]

CallsInit ==
    /\ Init
    /\ \/ running = "close" /\ CascadeInit
       \/ running = "cache" /\ NoCascade

RunCascade ==
    /\ running = "close" /\ CascadeNext
    /\ UNCHANGED <<running, vars>>

RunCache ==
    /\ running = "cache" /\ Next
    /\ UNCHANGED <<running, cascadeVars>>

CallsNext == RunCascade \/ RunCache

CallsSpec ==
    /\ CallsInit /\ [][CallsNext]_<<running, vars, cascadeVars>>
    /\ WF_vars(SweepBucket \/ SweepEnd)
    /\ WF_cascadeVars(CascadeNext)

(* Both calls return.                                                           *)
CallsReturn == SweepReturns /\ CascadeEnds
=================================================================================

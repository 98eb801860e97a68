------------------------------ MODULE TimedMap ------------------------------
(* What LRUCache promises (the class comment and test() of                 *)
(* ptshadowsocks/lru_cache.py): a map whose entries remember when they were *)
(* last used.  An entry is removed by del or, during a sweep, because it    *)
(* was not used for longer than the timeout; after a sweep no such entry is *)
(* left.                                                                    *)
EXTENDS Integers

CONSTANTS Key, Value, NoValue, Time, Timeout

VARIABLES content,  \* the value of a key, or NoValue
          used,     \* when an entry was last set or looked up
          sweepAt   \* the time read by the sweep in progress, or -1

vars == <<content, used, sweepAt>>

Idle == sweepAt = -1
Expired(k) == content[k] # NoValue /\ sweepAt - used[k] > Timeout

Init ==
    /\ content = [k \in Key |-> NoValue]
    /\ used = [k \in Key |-> -1]
    /\ sweepAt = -1

Put(k, v, t) ==
    /\ Idle
    /\ content' = [content EXCEPT ![k] = v]
    /\ used' = [used EXCEPT ![k] = t]
    /\ UNCHANGED sweepAt

Use(k, t) ==
    /\ Idle /\ content[k] # NoValue
    /\ used' = [used EXCEPT ![k] = t]
    /\ UNCHANGED <<content, sweepAt>>

Remove(k) ==
    /\ Idle
    /\ content' = [content EXCEPT ![k] = NoValue]
    /\ used' = [used EXCEPT ![k] = -1]
    /\ UNCHANGED sweepAt

StartSweep(t) ==
    /\ Idle
    /\ sweepAt' = t
    /\ UNCHANGED <<content, used>>

Expire(S) ==
    /\ ~Idle
    /\ \A k \in S : Expired(k)
    /\ content' = [k \in Key |-> IF k \in S THEN NoValue ELSE content[k]]
    /\ used' = [k \in Key |-> IF k \in S THEN -1 ELSE used[k]]
    /\ UNCHANGED sweepAt

EndSweep ==
    /\ ~Idle
    /\ \A k \in Key : ~Expired(k)
    /\ sweepAt' = -1
    /\ UNCHANGED <<content, used>>

Next ==
    \/ \E k \in Key, t \in Time : Use(k, t) \/ \E v \in Value : Put(k, v, t)
    \/ \E k \in Key : Remove(k)
    \/ \E t \in Time : StartSweep(t)
    \/ \E S \in SUBSET Key : Expire(S)
    \/ EndSweep

Spec == Init /\ [][Next]_vars
=============================================================================

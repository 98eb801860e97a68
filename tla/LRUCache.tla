------------------------------ MODULE LRUCache ------------------------------
(* ptshadowsocks/lru_cache.py: a mapping that orders nothing by use.  Each *)
(* lookup or assignment appends its time stamp to _last_visits and the key  *)
(* to the bucket _time_to_keys[stamp]; sweep() walks _last_visits from the  *)
(* left and pops as many stamps as the bucket of the first one has keys.    *)
(* The class is used from one thread: an operation is a step, except for    *)
(* sweep(), which is a step per bucket with nothing else in between.        *)
EXTENDS Integers, Sequences, FiniteSets

CONSTANTS Key, Value, NoValue,
          Timeout,     \* self.timeout
          MaxTime,     \* bound: the clock runs in 0 .. MaxTime
          MaxVisits    \* bound: stamps held in _last_visits

ASSUME CacheAssumption ==
    /\ NoValue \notin Value
    /\ Timeout \in Nat
    /\ MaxTime \in Nat
    /\ MaxVisits \in Nat

VARIABLES
    clock,        \* time.time()
    store,        \* _store
    lastTime,     \* _keys_to_last_time, Never where there is no entry
    timeToKeys,   \* _time_to_keys, a defaultdict(list)
    lastVisits,   \* _last_visits
    closedValues, \* _closed_values
    sweepNow,     \* `now` of the sweep in progress, or NotSweeping
    calls         \* close_callback calls of the last sweep, per value

vars == <<clock, store, lastTime, timeToKeys, lastVisits, closedValues,
          sweepNow, calls>>

Time == 0 .. MaxTime
Never == -1
NotSweeping == -1
Sweeping == sweepNow # NotSweeping

TypeOK ==
    /\ clock \in Time
    /\ store \in [Key -> Value \cup {NoValue}]
    /\ lastTime \in [Key -> Time \cup {Never}]
    /\ timeToKeys \in [Time -> Seq(Key)]
    /\ lastVisits \in Seq(Time)
    /\ closedValues \subseteq Value
    /\ sweepNow \in Time \cup {NotSweeping}
    /\ calls \in [Value -> Nat]

Init ==
    /\ clock = 0
    /\ store = [k \in Key |-> NoValue]
    /\ lastTime = [k \in Key |-> Never]
    /\ timeToKeys = [t \in Time |-> <<>>]
    /\ lastVisits = <<>>
    /\ closedValues = {}
    /\ sweepNow = NotSweeping
    /\ calls = [v \in Value |-> 0]

(* The clock is taken to be one that is not set back.                       *)
Tick ==
    /\ clock < MaxTime
    /\ clock' = clock + 1
    /\ UNCHANGED <<store, lastTime, timeToKeys, lastVisits, closedValues, sweepNow, calls>>

(* Mutant: a visit whose stamp is already there is not queued again.        *)
QueueOnce(k) ==
    /\ ~Sweeping
    /\ Len(lastVisits) < MaxVisits
    /\ lastTime' = [lastTime EXCEPT ![k] = clock]
    /\ timeToKeys' = [timeToKeys EXCEPT ![clock] = Append(@, k)]
    /\ lastVisits' = IF timeToKeys[clock] = <<>> THEN Append(lastVisits, clock)
                     ELSE lastVisits

(* What __getitem__ and __setitem__ have in common.                         *)
Visit(k) ==
    /\ ~Sweeping
    /\ Len(lastVisits) < MaxVisits
    /\ lastTime' = [lastTime EXCEPT ![k] = clock]
    /\ timeToKeys' = [timeToKeys EXCEPT ![clock] = Append(@, k)]
    /\ lastVisits' = Append(lastVisits, clock)

(* __getitem__, also reached through `in`, get(): the visit is recorded     *)
(* before the lookup, so a missing key leaves one too and raises KeyError.  *)
GetItem(k) ==
    /\ Visit(k)
    /\ UNCHANGED <<clock, store, closedValues, sweepNow, calls>>

SetItem(k, v) ==
    /\ Visit(k)
    /\ store' = [store EXCEPT ![k] = v]
    /\ UNCHANGED <<clock, closedValues, sweepNow, calls>>

(* KeyError before any change where the key is missing.                     *)
DelItem(k) ==
    /\ ~Sweeping
    /\ store[k] # NoValue
    /\ store' = [store EXCEPT ![k] = NoValue]
    /\ lastTime' = [lastTime EXCEPT ![k] = Never]
    /\ UNCHANGED <<clock, timeToKeys, lastVisits, closedValues, sweepNow, calls>>

SweepStart ==
    /\ ~Sweeping
    /\ sweepNow' = clock
    /\ calls' = [v \in Value |-> 0]
    /\ UNCHANGED <<clock, store, lastTime, timeToKeys, lastVisits, closedValues>>

Due == lastVisits # <<>> /\ sweepNow - Head(lastVisits) > Timeout

(* Mutant: the age of the stamp that is popped decides, not the last visit. *)
ExpiredByStamp(k) == store[k] # NoValue

Expired(k) == store[k] # NoValue /\ sweepNow - lastTime[k] > Timeout

ValuesToClose(S) == {store[k] : k \in S} \ closedValues

(* One round of the while loop: the callbacks, then the removals.           *)
SweepBucket ==
    /\ Sweeping
    /\ Due
    /\ LET least == Head(lastVisits)
           bucket == timeToKeys[least]
           gone == {k \in Key : Expired(k) /\ \E i \in 1 .. Len(bucket) : bucket[i] = k}
       IN
       /\ calls' = [v \in Value |-> calls[v] + IF v \in ValuesToClose(gone) THEN 1 ELSE 0]
       /\ closedValues' = closedValues \cup ValuesToClose(gone)
       /\ lastVisits' = SubSeq(lastVisits, Len(bucket) + 1, Len(lastVisits))
       /\ store' = [k \in Key |-> IF k \in gone THEN NoValue ELSE store[k]]
       /\ lastTime' = [k \in Key |-> IF k \in gone THEN Never ELSE lastTime[k]]
       /\ timeToKeys' = [timeToKeys EXCEPT ![least] = <<>>]
    /\ UNCHANGED <<clock, sweepNow>>

(* Mutant: _closed_values survives the sweep.                               *)
SweepEndKeeps ==
    /\ Sweeping
    /\ ~Due
    /\ sweepNow' = NotSweeping
    /\ UNCHANGED <<clock, store, lastTime, timeToKeys, lastVisits, closedValues, calls>>

(* `if c`: closedValues is cleared if a key was removed; it is empty        *)
(* otherwise, as values enter it only along with such a removal.            *)
SweepEnd ==
    /\ Sweeping
    /\ ~Due
    /\ sweepNow' = NotSweeping
    /\ closedValues' = {}
    /\ UNCHANGED <<clock, store, lastTime, timeToKeys, lastVisits, calls>>

Next ==
    \/ Tick
    \/ \E k \in Key : GetItem(k) \/ DelItem(k) \/ \E v \in Value : SetItem(k, v)
    \/ SweepStart \/ SweepBucket \/ SweepEnd

Spec == Init /\ [][Next]_vars

(* sweep() is a loop in one call: it goes on for as long as there is a step.*)
SweepSpec == Spec /\ WF_vars(SweepBucket \/ SweepEnd)

-----------------------------------------------------------------------------
(* The stamps of a bucket's keys are next to each other in _last_visits, as *)
(* many as the bucket has keys: popping one stamp per key of the first      *)
(* bucket removes that bucket's stamps and no other's.                      *)
StampsMatchBuckets ==
    /\ \A i, j \in 1 .. Len(lastVisits) : i < j => lastVisits[i] <= lastVisits[j]
    /\ \A t \in Time :
         Cardinality({i \in 1 .. Len(lastVisits) : lastVisits[i] = t}) = Len(timeToKeys[t])

(* A sweep pops the stamps of the keys it looks at.                         *)
QueueConsistent == TypeOK /\ StampsMatchBuckets

(* close_callback gets the value of every entry a sweep removes, once per   *)
(* sweep even if several removed keys hold that value.                      *)
RemovedValuesClosedOnce ==
    [][\A k \in Key : Sweeping /\ store[k] # NoValue /\ store'[k] = NoValue
         => calls'[store[k]] = 1]_vars

(* The cache implements the timed map: it removes nothing that was used     *)
(* within the timeout, and a finished sweep leaves nothing that was not.    *)
Map == INSTANCE TimedMap WITH
           content <- store,
           used <- [k \in Key |-> IF store[k] = NoValue THEN -1 ELSE lastTime[k]],
           sweepAt <- sweepNow

ImplementsTimedMap == Map!Init /\ [][Map!Next]_Map!vars

(* sweep() returns.                                                         *)
SweepReturns == Sweeping ~> ~Sweeping
=============================================================================

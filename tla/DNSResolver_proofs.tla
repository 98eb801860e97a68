------------------------- MODULE DNSResolver_proofs -------------------------
(* Theorems about DNSResolver, for every set of names, callbacks and        *)
(* servers and without a bound on copies of datagrams.                      *)
EXTENDS DNSResolver, FiniteSetTheorems, TLAPS

-----------------------------------------------------------------------------
(* The inductive invariant, part by part.                                   *)

(* Whoever is queued is queued under the name resolve() was asked for, has  *)
(* not been called, and has no second place in that queue.                  *)
QueueExact ==
    \A n \in Name : \A i \in 1 .. Len(waiters[n]) :
        /\ asked[waiters[n][i]] = n
        /\ calls[waiters[n][i]] = 0
        /\ waiters[n][i] \notin raised
        /\ \A j \in 1 .. Len(waiters[n]) : waiters[n][i] = waiters[n][j] => i = j

(* Whoever resolve() took and nobody has called is in the queue.            *)
NobodyForgotten ==
    \A cb \in Callback :
        (asked[cb] # NoName /\ cb \notin raised /\ calls[cb] = 0)
            => \E i \in 1 .. Len(waiters[asked[cb]]) : waiters[asked[cb]][i] = cb

(* Before resolve(), and after one that raised, nothing is called.          *)
NotTaken ==
    \A cb \in Callback :
        /\ asked[cb] = NoName => cb \notin raised /\ result[cb] = "none"
        /\ (asked[cb] = NoName \/ cb \in raised) => calls[cb] = 0

(* AAAA is asked only for names without an A record, so any answer to it,   *)
(* of whichever lookup, says as much.                                       *)
SixAfterFour ==
    \A n \in Name : (status[n] = "IPV6" \/ net[<<n, "AAAA">>] > 0) => n \notin HasA

Inv == /\ TypeOK
       /\ QueueExact /\ NobodyForgotten /\ NotTaken /\ SixAfterFour
       /\ LookupsAlive /\ UnknownOnlyIfNone /\ NobodyWaitsForCached

LEMMA InvInit == ASSUME Init PROVE Inv
<1>. USE ResolverAssumption DEF ResolverAssumption
<1>1. TypeOK
  <2>1. status \in [Name -> {"none", "IPV4", "IPV6"}] /\ waiters \in [Name -> Seq(Callback)]
    BY DEF Init
  <2>2. net \in [Name \X QType -> Nat]
    BY DEF Init
  <2>3. result \in [Callback -> {"none", "address", "unknown", "invalid"}]
    BY DEF Init
  <2>4. asked \in [Callback -> Name \cup {NoName}] /\ calls \in [Callback -> 0 .. 1]
    BY DEF Init
  <2>5. cache \subseteq Name /\ lossy \in BOOLEAN /\ raised \subseteq Callback
    BY DEF Init
  <2>. QED BY <2>1, <2>2, <2>3, <2>4, <2>5 DEF TypeOK
<1>2. QueueExact /\ NobodyForgotten /\ NotTaken
  BY DEF Init, QueueExact, NobodyForgotten, NotTaken
<1>3. SixAfterFour /\ LookupsAlive /\ UnknownOnlyIfNone /\ NobodyWaitsForCached
  BY DEF Init, SixAfterFour, LookupsAlive, UnknownOnlyIfNone, NobodyWaitsForCached, QType
<1>. QED BY <1>1, <1>2, <1>3 DEF Inv

-----------------------------------------------------------------------------
(* What the shared operators do.                                            *)

LEMMA TakenType ==
    ASSUME TypeOK, NEW n \in Name, NEW q \in QType, Arrives(n, q)
    PROVE  /\ Taken(n, q) \in [Name \X QType -> Nat]
           /\ \A m \in Name, r \in QType :
                 Taken(n, q)[<<m, r>>] = IF m = n /\ r = q THEN net[<<m, r>>] - 1 ELSE net[<<m, r>>]
           /\ \A m \in Name, r \in QType : Taken(n, q)[<<m, r>>] > 0 => net[<<m, r>>] > 0
<1>1. <<n, q>> \in Name \X QType /\ net[<<n, q>>] \in Nat \ {0} /\ net \in [Name \X QType -> Nat]
  BY DEF TypeOK, Arrives
<1>2. Taken(n, q) \in [Name \X QType -> Nat]
  BY <1>1 DEF Taken
<1>3. ASSUME NEW p \in Name \X QType
      PROVE  Taken(n, q)[p] = IF p = <<n, q>> THEN net[p] - 1 ELSE net[p]
  BY <1>1 DEF Taken
<1>4. ASSUME NEW m \in Name, NEW r \in QType
      PROVE  <<m, r>> \in Name \X QType /\ (<<m, r>> = <<n, q>> <=> m = n /\ r = q)
  OBVIOUS
<1>5. ASSUME NEW m \in Name, NEW r \in QType, Taken(n, q)[<<m, r>>] > 0
      PROVE  net[<<m, r>>] > 0
  <2>1. net[<<m, r>>] \in Nat
    BY <1>1, <1>4
  <2>. QED BY <1>3, <1>4, <1>5, <2>1
<1>. QED BY <1>2, <1>3, <1>4, <1>5

LEMMA AskType ==
    ASSUME TypeOK, NEW n \in Name, NEW q \in QType,
           NEW before \in [Name \X QType -> Nat], NEW reached \in 0 .. Servers,
           Ask(n, q, before, reached)
    PROVE  /\ net' \in [Name \X QType -> Nat] /\ lossy' \in BOOLEAN
           /\ \A m \in Name, r \in QType :
                 net'[<<m, r>>] = IF m = n /\ r = q THEN before[<<m, r>>] + reached
                                                ELSE before[<<m, r>>]
           /\ lossy => lossy'
           /\ ~lossy' => reached = Servers
<1>1. <<n, q>> \in Name \X QType /\ reached \in Nat /\ before[<<n, q>>] + reached \in Nat
  BY ResolverAssumption DEF ResolverAssumption
<1>2. net' = [before EXCEPT ![<<n, q>>] = @ + reached] /\ lossy' = (lossy \/ reached < Servers)
  BY DEF Ask
<1>3. net' \in [Name \X QType -> Nat] /\ lossy' \in BOOLEAN
  BY <1>1, <1>2 DEF TypeOK
<1>4. ASSUME NEW p \in Name \X QType
      PROVE  net'[p] = IF p = <<n, q>> THEN before[p] + reached ELSE before[p]
  BY <1>1, <1>2
<1>5. ASSUME NEW m \in Name, NEW r \in QType
      PROVE  <<m, r>> \in Name \X QType /\ (<<m, r>> = <<n, q>> <=> m = n /\ r = q)
  OBVIOUS
<1>6. (lossy => lossy') /\ (~lossy' => reached = Servers)
  <2>1. reached < Servers \/ reached = Servers
    BY <1>1, ResolverAssumption DEF ResolverAssumption
  <2>. QED BY <1>2, <2>1, Zenon
<1>. QED BY <1>3, <1>4, <1>5, <1>6

(* _call_callback empties the queue of one name and calls those in it.      *)
LEMMA CallAllKeepsInv ==
    ASSUME Inv, NEW n \in Name, NEW what \in {"address", "unknown"}, CallAll(n, what),
           UNCHANGED <<asked, raised>>
    PROVE  /\ QueueExact' /\ NobodyForgotten' /\ NotTaken'
           /\ status' = [status EXCEPT ![n] = "none"]
           /\ waiters' = [waiters EXCEPT ![n] = <<>>]
           /\ waiters' \in [Name -> Seq(Callback)]
           /\ status' \in [Name -> {"none", "IPV4", "IPV6"}]
           /\ calls' \in [Callback -> 0 .. 1]
           /\ result' \in [Callback -> {"none", "address", "unknown", "invalid"}]
           /\ \A cb \in Callback : result'[cb] = "unknown" =>
                 \/ result[cb] = "unknown"
                 \/ what = "unknown" /\ asked[cb] = n
<1>. USE DEF Inv, TypeOK
<1>1. waiters' = [waiters EXCEPT ![n] = <<>>] /\ status' = [status EXCEPT ![n] = "none"]
  BY DEF CallAll
<1>2. /\ calls' = [cb \in Callback |-> IF cb \in Queued(n) THEN calls[cb] + 1 ELSE calls[cb]]
      /\ result' = [cb \in Callback |-> IF cb \in Queued(n) THEN what ELSE result[cb]]
  BY DEF CallAll, Call
<1>3. ASSUME NEW cb \in Queued(n)
      PROVE  cb \in Callback /\ asked[cb] = n /\ calls[cb] = 0 /\ cb \notin raised
  <2>1. PICK i \in 1 .. Len(waiters[n]) : cb = waiters[n][i]
    BY DEF Queued
  <2>. QED BY <2>1 DEF QueueExact
<1>4. ASSUME NEW cb \in Callback, cb \notin Queued(n)
      PROVE  calls'[cb] = calls[cb] /\ result'[cb] = result[cb]
  BY <1>2, <1>4
<1>5. ASSUME NEW cb \in Queued(n)
      PROVE  calls'[cb] = 1 /\ result'[cb] = what
  BY <1>2, <1>3, <1>5
<1>6. QueueExact'
  <2>. SUFFICES ASSUME NEW m \in Name, NEW i \in 1 .. Len(waiters'[m])
                PROVE  /\ asked[waiters'[m][i]] = m
                       /\ calls'[waiters'[m][i]] = 0
                       /\ waiters'[m][i] \notin raised
                       /\ \A j \in 1 .. Len(waiters'[m]) :
                             waiters'[m][i] = waiters'[m][j] => i = j
    BY DEF QueueExact
  <2>1. m # n
    BY <1>1
  <2>2. waiters'[m] = waiters[m] /\ waiters[m][i] \in Callback
    BY <1>1, <2>1
  <2>3. waiters[m][i] \notin Queued(n)
    BY <1>3, <2>1, <2>2 DEF QueueExact
  <2>. QED BY <1>4, <2>2, <2>3 DEF QueueExact
<1>7. NobodyForgotten'
  <2>. SUFFICES ASSUME NEW cb \in Callback, asked[cb] # NoName, cb \notin raised,
                       calls'[cb] = 0
                PROVE  \E i \in 1 .. Len(waiters'[asked[cb]]) : waiters'[asked[cb]][i] = cb
    BY DEF NobodyForgotten
  <2>1. cb \notin Queued(n)
    BY <1>5
  <2>2. PICK i \in 1 .. Len(waiters[asked[cb]]) : waiters[asked[cb]][i] = cb
    BY <1>4, <2>1 DEF NobodyForgotten
  <2>3. asked[cb] # n
    BY <2>1, <2>2 DEF Queued
  <2>4. asked[cb] \in Name
    OBVIOUS
  <2>. QED BY <1>1, <2>2, <2>3, <2>4
<1>8. NotTaken'
  BY <1>3, <1>4, <1>5, ResolverAssumption DEF NotTaken, ResolverAssumption
<1>9. calls' \in [Callback -> 0 .. 1]
      /\ result' \in [Callback -> {"none", "address", "unknown", "invalid"}]
  BY <1>2, <1>3
<1>10. ASSUME NEW cb \in Callback, result'[cb] = "unknown"
       PROVE  result[cb] = "unknown" \/ (what = "unknown" /\ asked[cb] = n)
  BY <1>3, <1>4, <1>5, <1>10
<1>. QED BY <1>1, <1>6, <1>7, <1>8, <1>9, <1>10

(* Actions that leave the queues and the callbacks alone.                   *)
LEMMA QueuesAlone ==
    ASSUME Inv, UNCHANGED <<waiters, asked, raised, calls, result>>
    PROVE  QueueExact' /\ NobodyForgotten' /\ NotTaken' /\ UnknownOnlyIfNone'
BY DEF Inv, QueueExact, NobodyForgotten, NotTaken, UnknownOnlyIfNone

(* Actions after which there is no more under way and no name has passed    *)
(* to STATUS_IPV6.                                                          *)
LEMMA FewerUnderWay ==
    ASSUME Inv, net' \in [Name \X QType -> Nat],
           \A m \in Name : net'[<<m, "AAAA">>] > 0 => net[<<m, "AAAA">>] > 0,
           \A m \in Name : status'[m] = "IPV6" => status[m] = "IPV6"
    PROVE  SixAfterFour'
BY DEF Inv, SixAfterFour

-----------------------------------------------------------------------------
(* One lemma per operation.                                                 *)

LEMMA ResolveAtOnceKeeps ==
    ASSUME Inv, NEW cb \in Callback, NEW n \in Name, ResolveAtOnce(cb, n) PROVE Inv'
<1>. USE ResolverAssumption DEF Inv, TypeOK
<1>1. PICK what \in {"address", "invalid"} :
         /\ calls' = [c \in Callback |-> IF c \in {cb} THEN calls[c] + 1 ELSE calls[c]]
         /\ result' = [c \in Callback |-> IF c \in {cb} THEN what ELSE result[c]]
  BY DEF ResolveAtOnce, Call
<1>2. /\ asked[cb] = NoName /\ asked' = [asked EXCEPT ![cb] = n]
      /\ UNCHANGED <<status, waiters, cache, net, lossy, raised>>
  BY DEF ResolveAtOnce
<1>3. cb \notin raised /\ calls[cb] = 0
  BY <1>2 DEF NotTaken
<1>4. TypeOK'
  <2>1. calls' \in [Callback -> 0 .. 1]
    BY <1>1, <1>3
  <2>2. result' \in [Callback -> {"none", "address", "unknown", "invalid"}]
    BY <1>1
  <2>. QED BY <1>2, <2>1, <2>2
<1>5. QueueExact'
  <2>. SUFFICES ASSUME NEW m \in Name, NEW i \in 1 .. Len(waiters[m])
                PROVE  /\ asked'[waiters[m][i]] = m
                       /\ calls'[waiters[m][i]] = 0
                       /\ waiters[m][i] \notin raised
                       /\ \A j \in 1 .. Len(waiters[m]) :
                             waiters[m][i] = waiters[m][j] => i = j
    BY <1>2 DEF QueueExact
  <2>1. waiters[m][i] \in Callback /\ asked[waiters[m][i]] = m
    BY DEF QueueExact
  <2>2. waiters[m][i] # cb
    BY <1>2, <2>1 DEF ResolverAssumption
  <2>. QED BY <1>1, <1>2, <2>1, <2>2 DEF QueueExact
<1>6. NobodyForgotten'
  <2>. SUFFICES ASSUME NEW c \in Callback, asked'[c] # NoName, c \notin raised, calls'[c] = 0
                PROVE  \E i \in 1 .. Len(waiters[asked'[c]]) : waiters[asked'[c]][i] = c
    BY <1>2 DEF NobodyForgotten
  <2>1. c # cb
    BY <1>1, <1>3
  <2>. QED BY <1>1, <1>2, <2>1 DEF NobodyForgotten
<1>7. NotTaken'
  BY <1>1, <1>2, <1>3 DEF NotTaken, ResolverAssumption
<1>8. UnknownOnlyIfNone'
  BY <1>1, <1>2 DEF UnknownOnlyIfNone
<1>9. SixAfterFour' /\ LookupsAlive' /\ NobodyWaitsForCached'
  BY <1>2 DEF SixAfterFour, LookupsAlive, NobodyWaitsForCached
<1>. QED BY <1>4, <1>5, <1>6, <1>7, <1>8, <1>9

(* Both ways of joining a queue of a name that is not cached: at the end of *)
(* it, with one more question A sent and, for the first, STATUS_IPV4.       *)
LEMMA QueuedKeeps ==
    ASSUME Inv, NEW cb \in Callback, NEW n \in Name, NEW reached \in 0 .. Servers,
           Unresolved(cb, n), Ask(n, "A", net, reached),
           asked' = [asked EXCEPT ![cb] = n],
           waiters' = [waiters EXCEPT ![n] = Append(@, cb)],
           \/ waiters[n] # <<>> /\ status' = status
           \/ waiters[n] = <<>> /\ reached = Servers
              /\ status' = [status EXCEPT ![n] = "IPV4"],
           UNCHANGED <<cache, raised, calls, result>>
    PROVE  Inv'
<1>0. TypeOK /\ "A" \in QType /\ "AAAA" \in QType /\ net \in [Name \X QType -> Nat]
  BY DEF Inv, TypeOK, QType
<1>1. /\ net' \in [Name \X QType -> Nat] /\ lossy' \in BOOLEAN
      /\ \A m \in Name, r \in QType :
            net'[<<m, r>>] = IF m = n /\ r = "A" THEN net[<<m, r>>] + reached
                                                 ELSE net[<<m, r>>]
      /\ lossy => lossy'
      /\ ~lossy' => reached = Servers
  BY <1>0, AskType
<1>. USE ResolverAssumption DEF Inv, TypeOK
<1>2. /\ waiters' \in [Name -> Seq(Callback)]
      /\ Len(waiters'[n]) = Len(waiters[n]) + 1 /\ Len(waiters[n]) \in Nat
      /\ \A i \in 1 .. Len(waiters[n]) : waiters'[n][i] = waiters[n][i]
      /\ waiters'[n][Len(waiters[n]) + 1] = cb
      /\ \A m \in Name \ {n} : waiters'[m] = waiters[m]
  OBVIOUS
<1>3. asked[cb] = NoName /\ cb \notin raised /\ calls[cb] = 0 /\ n \notin cache
  BY DEF Unresolved, NotTaken
<1>4. TypeOK'
  BY <1>1, <1>2
<1>5. ASSUME NEW m \in Name, NEW i \in 1 .. Len(waiters[m])
      PROVE  waiters[m][i] \in Callback /\ waiters[m][i] # cb
  BY <1>3 DEF QueueExact, ResolverAssumption
<1>6. QueueExact'
  <2>. SUFFICES ASSUME NEW m \in Name, NEW i \in 1 .. Len(waiters'[m])
                PROVE  /\ asked'[waiters'[m][i]] = m
                       /\ calls[waiters'[m][i]] = 0
                       /\ waiters'[m][i] \notin raised
                       /\ \A j \in 1 .. Len(waiters'[m]) :
                             waiters'[m][i] = waiters'[m][j] => i = j
    BY DEF QueueExact
  <2>1. CASE m # n
    BY <1>2, <1>5, <2>1 DEF QueueExact
  <2>2. CASE m = n /\ i = Len(waiters[n]) + 1
    <3>1. ASSUME NEW j \in 1 .. Len(waiters'[n]), waiters'[n][j] = cb
          PROVE  j = Len(waiters[n]) + 1
      BY <1>2, <1>5, <3>1
    <3>. QED BY <1>2, <1>3, <2>2, <3>1
  <2>3. CASE m = n /\ i \in 1 .. Len(waiters[n])
    <3>1. waiters'[n][i] = waiters[n][i] /\ waiters[n][i] # cb /\ waiters[n][i] \in Callback
      BY <1>2, <1>5, <2>3
    <3>2. ASSUME NEW j \in 1 .. Len(waiters'[n]), waiters'[n][j] = waiters[n][i]
          PROVE  i = j
      <4>1. j \in 1 .. Len(waiters[n])
        BY <1>2, <3>1, <3>2
      <4>. QED BY <1>2, <2>3, <3>2, <4>1 DEF QueueExact
    <3>. QED BY <2>3, <3>1, <3>2 DEF QueueExact
  <2>. QED BY <1>2, <2>1, <2>2, <2>3
<1>7. NobodyForgotten'
  <2>. SUFFICES ASSUME NEW c \in Callback, asked'[c] # NoName, c \notin raised, calls[c] = 0
                PROVE  \E i \in 1 .. Len(waiters'[asked'[c]]) : waiters'[asked'[c]][i] = c
    BY DEF NobodyForgotten
  <2>1. CASE c = cb
    <3>1. asked'[c] = n /\ Len(waiters[n]) + 1 \in 1 .. Len(waiters'[n])
      BY <1>2, <2>1
    <3>. QED BY <1>2, <2>1, <3>1
  <2>2. CASE c # cb
    <3>1. asked'[c] = asked[c] /\ asked[c] \in Name
      BY <2>2
    <3>2. PICK i \in 1 .. Len(waiters[asked[c]]) : waiters[asked[c]][i] = c
      BY <3>1 DEF NobodyForgotten
    <3>3. i \in 1 .. Len(waiters'[asked[c]]) /\ waiters'[asked[c]][i] = c
      BY <1>2, <3>1, <3>2
    <3>. QED BY <3>1, <3>3
  <2>. QED BY <2>1, <2>2
<1>8. NotTaken'
  BY <1>3 DEF NotTaken, ResolverAssumption
<1>9. UnknownOnlyIfNone'
  BY <1>3 DEF UnknownOnlyIfNone, NotTaken
<1>10. SixAfterFour'
  BY <1>1 DEF SixAfterFour, QType
<1>11. LookupsAlive'
  <2>. SUFFICES ASSUME NEW m \in Name, waiters'[m] # <<>>
                PROVE  /\ status'[m] # "none"
                       /\ ~lossy' => net'[<<m, IF status'[m] = "IPV4" THEN "A" ELSE "AAAA">>] > 0
    BY DEF LookupsAlive
  <2>1. CASE m = n /\ waiters[n] = <<>>
    <3>1. status'[m] = "IPV4" /\ reached > 0
      BY <2>1 DEF ResolverAssumption
    <3>2. net'[<<m, "A">>] = net[<<m, "A">>] + reached /\ net[<<m, "A">>] \in Nat
      BY <1>1, <2>1 DEF QType
    <3>. QED BY <3>1, <3>2 DEF ResolverAssumption
  <2>2. CASE m # n \/ waiters[n] # <<>>
    <3>1. waiters[m] # <<>> /\ status'[m] = status[m]
      BY <1>2, <2>2
    <3>2. \A r \in QType : net'[<<m, r>>] >= net[<<m, r>>]
      BY <1>1
    <3>3. DEFINE r == IF status[m] = "IPV4" THEN "A" ELSE "AAAA"
    <3>4. r \in QType /\ (~lossy' => net[<<m, r>>] > 0)
      BY <1>1, <3>1 DEF LookupsAlive, QType
    <3>. QED BY <1>1, <3>1, <3>2, <3>4 DEF LookupsAlive
  <2>. QED BY <2>1, <2>2
<1>12. NobodyWaitsForCached'
  BY <1>2, <1>3 DEF NobodyWaitsForCached
<1>. QED BY <1>4, <1>6, <1>7, <1>8, <1>9, <1>10, <1>11, <1>12

(* The question of the first reached no server, or not all: resolve()       *)
(* raises, and the name has a status that nobody waits for.                 *)
LEMMA RaisedKeeps ==
    ASSUME Inv, NEW cb \in Callback, NEW n \in Name, NEW reached \in 0 .. Servers,
           Unresolved(cb, n), Ask(n, "A", net, reached), reached # Servers,
           waiters[n] = <<>>,
           asked' = [asked EXCEPT ![cb] = n],
           status' = [status EXCEPT ![n] = "IPV4"],
           raised' = raised \cup {cb},
           UNCHANGED <<waiters, cache, calls, result>>
    PROVE  Inv'
<1>0. TypeOK /\ "A" \in QType /\ "AAAA" \in QType /\ net \in [Name \X QType -> Nat]
  BY DEF Inv, TypeOK, QType
<1>1. /\ net' \in [Name \X QType -> Nat] /\ lossy' = TRUE
      /\ \A m \in Name : net'[<<m, "AAAA">>] = net[<<m, "AAAA">>]
  <2>1. /\ net' \in [Name \X QType -> Nat] /\ lossy' \in BOOLEAN
        /\ \A m \in Name, r \in QType :
              net'[<<m, r>>] = IF m = n /\ r = "A" THEN net[<<m, r>>] + reached
                                                   ELSE net[<<m, r>>]
        /\ lossy => lossy'
        /\ ~lossy' => reached = Servers
    BY <1>0, AskType
  <2>2. \A m \in Name : net'[<<m, "AAAA">>] = net[<<m, "AAAA">>]
    BY <1>0, <2>1
  <2>3. lossy' = TRUE
    BY <2>1, Zenon
  <2>. QED BY <2>1, <2>2, <2>3
<1>. USE ResolverAssumption DEF Inv, TypeOK
<1>2. asked[cb] = NoName
  BY DEF Unresolved
<1>3. TypeOK'
  BY <1>1
<1>4. QueueExact'
  <2>. SUFFICES ASSUME NEW m \in Name, NEW i \in 1 .. Len(waiters[m])
                PROVE  /\ asked'[waiters[m][i]] = m
                       /\ calls[waiters[m][i]] = 0
                       /\ waiters[m][i] \notin raised'
                       /\ \A j \in 1 .. Len(waiters[m]) :
                             waiters[m][i] = waiters[m][j] => i = j
    BY DEF QueueExact
  <2>1. waiters[m][i] \in Callback /\ waiters[m][i] # cb
    BY <1>2 DEF QueueExact, ResolverAssumption
  <2>. QED BY <2>1 DEF QueueExact
<1>5. NobodyForgotten'
  <2>. SUFFICES ASSUME NEW c \in Callback, c # cb, asked[c] # NoName, c \notin raised,
                       calls[c] = 0
                PROVE  \E i \in 1 .. Len(waiters[asked[c]]) : waiters[asked[c]][i] = c
    BY DEF NobodyForgotten
  <2>. QED BY DEF NobodyForgotten
<1>6. NotTaken' /\ UnknownOnlyIfNone'
  BY <1>2 DEF NotTaken, UnknownOnlyIfNone, ResolverAssumption
<1>7. SixAfterFour'
  BY <1>1 DEF SixAfterFour
<1>8. LookupsAlive' /\ NobodyWaitsForCached'
  BY <1>1 DEF LookupsAlive, NobodyWaitsForCached
<1>. QED BY <1>3, <1>4, <1>5, <1>6, <1>7, <1>8

LEMMA ResolveKeeps ==
    ASSUME Inv, NEW cb \in Callback, NEW n \in Name, NEW reached \in 0 .. Servers,
           StartLookup(cb, n, reached) \/ JoinLookup(cb, n, reached)
    PROVE  Inv'
<1>1. CASE JoinLookup(cb, n, reached)
  BY <1>1, QueuedKeeps DEF JoinLookup
<1>2. CASE StartLookup(cb, n, reached) /\ reached # Servers
  BY <1>2, RaisedKeeps DEF StartLookup
<1>3. CASE StartLookup(cb, n, reached) /\ reached = Servers
  <2>1. waiters' = [waiters EXCEPT ![n] = Append(@, cb)]
    <3>1. waiters' = [waiters EXCEPT ![n] = <<cb>>] /\ waiters[n] = <<>>
      BY <1>3 DEF StartLookup
    <3>2. Append(waiters[n], cb) = <<cb>>
      BY <3>1
    <3>. QED BY <3>1, <3>2
  <2>. QED BY <1>3, <2>1, QueuedKeeps DEF StartLookup
<1>. QED BY <1>1, <1>2, <1>3

LEMMA AnswerAddressKeeps ==
    ASSUME Inv, NEW n \in Name, NEW q \in QType, AnswerAddress(n, q) PROVE Inv'
<1>1. CallAll(n, "address") /\ UNCHANGED <<asked, raised, lossy>> /\ Arrives(n, q)
      /\ net' = Taken(n, q) /\ cache' = cache \cup {n}
  BY DEF AnswerAddress
<1>2. /\ QueueExact' /\ NobodyForgotten' /\ NotTaken'
      /\ status' = [status EXCEPT ![n] = "none"]
      /\ waiters' = [waiters EXCEPT ![n] = <<>>]
      /\ waiters' \in [Name -> Seq(Callback)]
      /\ status' \in [Name -> {"none", "IPV4", "IPV6"}]
      /\ calls' \in [Callback -> 0 .. 1]
      /\ result' \in [Callback -> {"none", "address", "unknown", "invalid"}]
      /\ \A cb \in Callback : result'[cb] = "unknown" => result[cb] = "unknown"
  BY <1>1, CallAllKeepsInv
<1>3. /\ net' \in [Name \X QType -> Nat]
      /\ \A m \in Name, r \in QType :
            net'[<<m, r>>] = IF m = n /\ r = q THEN net[<<m, r>>] - 1 ELSE net[<<m, r>>]
      /\ \A m \in Name, r \in QType : net'[<<m, r>>] > 0 => net[<<m, r>>] > 0
  <2>1. TypeOK
    BY DEF Inv
  <2>2. /\ Taken(n, q) \in [Name \X QType -> Nat]
        /\ \A m \in Name, r \in QType :
              Taken(n, q)[<<m, r>>] = IF m = n /\ r = q THEN net[<<m, r>>] - 1
                                                       ELSE net[<<m, r>>]
        /\ \A m \in Name, r \in QType : Taken(n, q)[<<m, r>>] > 0 => net[<<m, r>>] > 0
    BY <1>1, <2>1, TakenType
  <2>. QED BY <1>1, <2>2
<1>. USE DEF Inv, TypeOK
<1>4. TypeOK'
  BY <1>1, <1>2, <1>3
<1>5. UnknownOnlyIfNone'
  BY <1>1, <1>2 DEF UnknownOnlyIfNone
<1>6. NobodyWaitsForCached'
  BY <1>1, <1>2 DEF NobodyWaitsForCached
<1>7. SixAfterFour'
  <2>1. \A m \in Name : net'[<<m, "AAAA">>] > 0 => net[<<m, "AAAA">>] > 0
    BY <1>3 DEF QType
  <2>2. \A m \in Name : status'[m] = "IPV6" => status[m] = "IPV6"
    BY <1>2
  <2>. QED BY <1>2, <1>3, <2>1, <2>2 DEF SixAfterFour
<1>8. LookupsAlive'
  <2>. SUFFICES ASSUME NEW m \in Name \ {n}, waiters[m] # <<>>
                PROVE  /\ status[m] # "none"
                       /\ ~lossy => net'[<<m, IF status[m] = "IPV4" THEN "A" ELSE "AAAA">>] > 0
    BY <1>1, <1>2 DEF LookupsAlive
  <2>1. \A r \in QType : net'[<<m, r>>] = net[<<m, r>>]
    BY <1>3
  <2>. QED BY <2>1 DEF LookupsAlive, QType
<1>. QED BY <1>2, <1>4, <1>5, <1>6, <1>7, <1>8

LEMMA AnswerUnknownKeeps ==
    ASSUME Inv, NEW n \in Name, NEW q \in QType, AnswerUnknown(n, q) PROVE Inv'
<1>1. CallAll(n, "unknown") /\ UNCHANGED <<asked, raised, lossy, cache>> /\ Arrives(n, q)
      /\ net' = Taken(n, q) /\ n \notin HasAAAA /\ status[n] = "IPV6"
  BY DEF AnswerUnknown, Answers
<1>2. /\ QueueExact' /\ NobodyForgotten' /\ NotTaken'
      /\ status' = [status EXCEPT ![n] = "none"]
      /\ waiters' = [waiters EXCEPT ![n] = <<>>]
      /\ waiters' \in [Name -> Seq(Callback)]
      /\ status' \in [Name -> {"none", "IPV4", "IPV6"}]
      /\ calls' \in [Callback -> 0 .. 1]
      /\ result' \in [Callback -> {"none", "address", "unknown", "invalid"}]
      /\ \A cb \in Callback : result'[cb] = "unknown" =>
            result[cb] = "unknown" \/ asked[cb] = n
  BY <1>1, CallAllKeepsInv
<1>3. /\ net' \in [Name \X QType -> Nat]
      /\ \A m \in Name, r \in QType :
            net'[<<m, r>>] = IF m = n /\ r = q THEN net[<<m, r>>] - 1 ELSE net[<<m, r>>]
      /\ \A m \in Name, r \in QType : net'[<<m, r>>] > 0 => net[<<m, r>>] > 0
  <2>1. TypeOK
    BY DEF Inv
  <2>2. /\ Taken(n, q) \in [Name \X QType -> Nat]
        /\ \A m \in Name, r \in QType :
              Taken(n, q)[<<m, r>>] = IF m = n /\ r = q THEN net[<<m, r>>] - 1
                                                       ELSE net[<<m, r>>]
        /\ \A m \in Name, r \in QType : Taken(n, q)[<<m, r>>] > 0 => net[<<m, r>>] > 0
    BY <1>1, <2>1, TakenType
  <2>. QED BY <1>1, <2>2
<1>. USE DEF Inv, TypeOK
<1>4. TypeOK'
  BY <1>1, <1>2, <1>3
<1>5. UnknownOnlyIfNone'
  <2>1. n \notin HasA \cup HasAAAA
    BY <1>1 DEF SixAfterFour
  <2>. QED BY <1>1, <1>2, <2>1 DEF UnknownOnlyIfNone
<1>6. NobodyWaitsForCached'
  BY <1>1, <1>2 DEF NobodyWaitsForCached
<1>7. SixAfterFour'
  <2>1. \A m \in Name : net'[<<m, "AAAA">>] > 0 => net[<<m, "AAAA">>] > 0
    BY <1>3 DEF QType
  <2>2. \A m \in Name : status'[m] = "IPV6" => status[m] = "IPV6"
    BY <1>2
  <2>. QED BY <1>2, <1>3, <2>1, <2>2 DEF SixAfterFour
<1>8. LookupsAlive'
  <2>. SUFFICES ASSUME NEW m \in Name \ {n}, waiters[m] # <<>>
                PROVE  /\ status[m] # "none"
                       /\ ~lossy => net'[<<m, IF status[m] = "IPV4" THEN "A" ELSE "AAAA">>] > 0
    BY <1>1, <1>2 DEF LookupsAlive
  <2>1. \A r \in QType : net'[<<m, r>>] = net[<<m, r>>]
    BY <1>3
  <2>. QED BY <2>1 DEF LookupsAlive, QType
<1>. QED BY <1>2, <1>4, <1>5, <1>6, <1>7, <1>8

(* An empty answer while STATUS_IPV4: the next question is AAAA.            *)
LEMMA AnswerEmptyKeeps ==
    ASSUME Inv, NEW n \in Name, NEW q \in QType, NEW reached \in 0 .. Servers,
           AnswerEmpty(n, q, reached)
    PROVE  Inv'
<1>1. /\ Arrives(n, q) /\ ~Answers(n, q) /\ status' = [status EXCEPT ![n] = "IPV6"]
      /\ Ask(n, "AAAA", Taken(n, q), reached)
      /\ UNCHANGED <<waiters, cache, asked, raised, calls, result>>
  BY DEF AnswerEmpty
<1>2. TypeOK /\ "A" \in QType /\ "AAAA" \in QType
  BY DEF Inv, QType
<1>3. /\ Taken(n, q) \in [Name \X QType -> Nat]
      /\ \A m \in Name, r \in QType :
            Taken(n, q)[<<m, r>>] = IF m = n /\ r = q THEN net[<<m, r>>] - 1 ELSE net[<<m, r>>]
      /\ \A m \in Name, r \in QType : Taken(n, q)[<<m, r>>] > 0 => net[<<m, r>>] > 0
  BY <1>1, <1>2, TakenType
<1>4. /\ net' \in [Name \X QType -> Nat] /\ lossy' \in BOOLEAN
      /\ \A m \in Name, r \in QType :
            net'[<<m, r>>] = IF m = n /\ r = "AAAA" THEN Taken(n, q)[<<m, r>>] + reached
                                                    ELSE Taken(n, q)[<<m, r>>]
      /\ lossy => lossy'
      /\ ~lossy' => reached = Servers
  BY <1>1, <1>2, <1>3, AskType
<1>5. TypeOK'
  BY <1>1, <1>2, <1>4 DEF TypeOK
<1>6. QueueExact' /\ NobodyForgotten' /\ NotTaken' /\ UnknownOnlyIfNone'
  BY <1>1, QueuesAlone
<1>7. NobodyWaitsForCached'
  BY <1>1 DEF Inv, NobodyWaitsForCached
<1>8. SixAfterFour'
  <2>1. n \notin HasA
    <3>1. CASE q = "A"
      BY <1>1, <3>1 DEF Answers
    <3>2. CASE q = "AAAA"
      BY <1>1, <3>2 DEF Inv, SixAfterFour, Arrives
    <3>. QED BY <3>1, <3>2 DEF QType
  <2>2. ASSUME NEW m \in Name, m # n
        PROVE  status'[m] = status[m] /\ net'[<<m, "AAAA">>] = net[<<m, "AAAA">>]
    BY <1>1, <1>2, <1>3, <1>4, <2>2 DEF TypeOK
  <2>. QED BY <2>1, <2>2 DEF Inv, SixAfterFour
<1>9. LookupsAlive'
  <2>. SUFFICES ASSUME NEW m \in Name, waiters[m] # <<>>
                PROVE  /\ status'[m] # "none"
                       /\ ~lossy' => net'[<<m, IF status'[m] = "IPV4" THEN "A" ELSE "AAAA">>] > 0
    BY <1>1 DEF LookupsAlive
  <2>1. CASE m = n
    <3>1. status'[m] = "IPV6"
      BY <1>1, <1>2, <2>1 DEF TypeOK
    <3>2. Taken(n, q)[<<n, "AAAA">>] \in Nat
      BY <1>2, <1>3
    <3>3. ~lossy' => net'[<<n, "AAAA">>] > 0
      <4>. SUFFICES ASSUME ~lossy' PROVE net'[<<n, "AAAA">>] > 0
        OBVIOUS
      <4>. QED BY <1>2, <1>4, <3>2, ResolverAssumption DEF ResolverAssumption
    <3>. QED BY <2>1, <3>1, <3>3
  <2>2. CASE m # n
    <3>1. status'[m] = status[m] /\ \A r \in QType : net'[<<m, r>>] = net[<<m, r>>]
      BY <1>1, <1>2, <1>3, <1>4, <2>2 DEF TypeOK
    <3>2. status[m] # "none"
          /\ (~lossy => net[<<m, IF status[m] = "IPV4" THEN "A" ELSE "AAAA">>] > 0)
      BY DEF Inv, LookupsAlive
    <3>3. ~lossy' => ~lossy
      BY <1>4
    <3>. QED BY <1>2, <3>1, <3>2, <3>3
  <2>. QED BY <2>1, <2>2
<1>. QED BY <1>5, <1>6, <1>7, <1>8, <1>9 DEF Inv

(* The rest of handle_event, and what UDP does.                             *)
LEMMA AnswerIgnoredKeeps ==
    ASSUME Inv, NEW n \in Name, NEW q \in QType, AnswerIgnored(n, q) PROVE Inv'
<1>1. /\ Arrives(n, q) /\ net' = Taken(n, q)
      /\ status[n] = "none" \/ (status[n] = "IPV6" /\ q = "A")
      /\ UNCHANGED <<status, waiters, cache, lossy, asked, raised, calls, result>>
  BY DEF AnswerIgnored
<1>2. /\ net' \in [Name \X QType -> Nat]
      /\ \A m \in Name, r \in QType :
            net'[<<m, r>>] = IF m = n /\ r = q THEN net[<<m, r>>] - 1 ELSE net[<<m, r>>]
      /\ \A m \in Name, r \in QType : net'[<<m, r>>] > 0 => net[<<m, r>>] > 0
  <2>1. TypeOK
    BY DEF Inv
  <2>2. /\ Taken(n, q) \in [Name \X QType -> Nat]
        /\ \A m \in Name, r \in QType :
              Taken(n, q)[<<m, r>>] = IF m = n /\ r = q THEN net[<<m, r>>] - 1
                                                       ELSE net[<<m, r>>]
        /\ \A m \in Name, r \in QType : Taken(n, q)[<<m, r>>] > 0 => net[<<m, r>>] > 0
    BY <1>1, <2>1, TakenType
  <2>. QED BY <1>1, <2>2
<1>3. QueueExact' /\ NobodyForgotten' /\ NotTaken' /\ UnknownOnlyIfNone'
  BY <1>1, QueuesAlone
<1>. USE DEF Inv, TypeOK
<1>4. TypeOK' /\ NobodyWaitsForCached'
  BY <1>1, <1>2 DEF NobodyWaitsForCached
<1>5. SixAfterFour'
  <2>1. \A m \in Name : net'[<<m, "AAAA">>] > 0 => net[<<m, "AAAA">>] > 0
    BY <1>2 DEF QType
  <2>. QED BY <1>1, <2>1 DEF SixAfterFour
<1>6. LookupsAlive'
  <2>. SUFFICES ASSUME NEW m \in Name, waiters[m] # <<>>
                PROVE  /\ status[m] # "none"
                       /\ ~lossy => net'[<<m, IF status[m] = "IPV4" THEN "A" ELSE "AAAA">>] > 0
    BY <1>1 DEF LookupsAlive
  <2>1. CASE m # n
    <3>1. \A r \in QType : net'[<<m, r>>] = net[<<m, r>>]
      BY <1>2, <2>1
    <3>. QED BY <3>1 DEF LookupsAlive, QType
  <2>2. CASE m = n
    <3>1. status[m] = "IPV6" /\ q = "A"
      BY <1>1, <2>2 DEF LookupsAlive
    <3>2. net'[<<m, "AAAA">>] = net[<<m, "AAAA">>]
      BY <1>2, <3>1 DEF QType
    <3>. QED BY <3>1, <3>2 DEF LookupsAlive
  <2>. QED BY <2>1, <2>2
<1>. QED BY <1>3, <1>4, <1>5, <1>6

LEMMA NetworkKeeps ==
    ASSUME Inv,
           \/ \E n \in Name, q \in QType : Lose(n, q) \/ Copy(n, q)
           \/ SocketReplaced
           \/ \E S \in SUBSET Name : Sweep(S)
    PROVE  Inv'
<1>1. UNCHANGED <<waiters, status, asked, raised, calls, result>>
  BY DEF Lose, Copy, SocketReplaced, Sweep
<1>2. QueueExact' /\ NobodyForgotten' /\ NotTaken' /\ UnknownOnlyIfNone'
  BY <1>1, QueuesAlone
<1>3. cache' \subseteq cache
  BY DEF Lose, Copy, SocketReplaced, Sweep
<1>4. NobodyWaitsForCached'
  BY <1>1, <1>3 DEF Inv, NobodyWaitsForCached
<1>5. /\ net' \in [Name \X QType -> Nat] /\ lossy' \in BOOLEAN
      /\ \A m \in Name, r \in QType : net'[<<m, r>>] > 0 => net[<<m, r>>] > 0
      /\ \/ lossy' = TRUE
         \/ /\ lossy' = lossy
            /\ \A m \in Name, r \in QType : net[<<m, r>>] > 0 => net'[<<m, r>>] > 0
  <2>1. CASE \E n \in Name, q \in QType : Lose(n, q)
    <3>1. PICK n \in Name, q \in QType : Lose(n, q)
      BY <2>1
    <3>2. Arrives(n, q) /\ net' = Taken(n, q) /\ lossy' = TRUE
      BY <3>1 DEF Lose
    <3>. QED BY <3>2, TakenType DEF Inv
  <2>2. CASE \E n \in Name, q \in QType : Copy(n, q)
    <3>1. PICK n \in Name, q \in QType : Copy(n, q)
      BY <2>2
    <3>2. /\ net[<<n, q>>] > 0 /\ net' = [net EXCEPT ![<<n, q>>] = @ + 1] /\ lossy' = lossy
          /\ <<n, q>> \in Name \X QType /\ net \in [Name \X QType -> Nat]
          /\ lossy \in BOOLEAN
      BY <3>1, ResolverAssumption DEF Copy, Inv, TypeOK, ResolverAssumption
    <3>3. net' \in [Name \X QType -> Nat]
      BY <3>2
    <3>4. ASSUME NEW p \in Name \X QType PROVE net'[p] > 0 <=> net[p] > 0
      BY <3>2
    <3>. QED BY <3>2, <3>3, <3>4
  <2>3. CASE SocketReplaced
    BY <2>3 DEF SocketReplaced
  <2>4. CASE \E S \in SUBSET Name : Sweep(S)
    BY <2>4 DEF Sweep, Inv, TypeOK
  <2>. QED BY <2>1, <2>2, <2>3, <2>4
<1>6. TypeOK'
  BY <1>1, <1>3, <1>5 DEF Inv, TypeOK
<1>7. SixAfterFour'
  BY <1>1, <1>5 DEF Inv, SixAfterFour, QType
<1>8. LookupsAlive'
  <2>. SUFFICES ASSUME NEW m \in Name, waiters[m] # <<>>
                PROVE  /\ status[m] # "none"
                       /\ ~lossy' => net'[<<m, IF status[m] = "IPV4" THEN "A" ELSE "AAAA">>] > 0
    BY <1>1 DEF LookupsAlive
  <2>1. /\ status[m] # "none"
        /\ ~lossy => net[<<m, IF status[m] = "IPV4" THEN "A" ELSE "AAAA">>] > 0
    BY DEF Inv, LookupsAlive
  <2>2. CASE lossy' = TRUE
    BY <2>1, <2>2
  <2>3. CASE lossy' = lossy /\ \A r \in QType : net[<<m, r>>] > 0 => net'[<<m, r>>] > 0
    <3>1. CASE status[m] = "IPV4"
      BY <2>1, <2>3, <3>1 DEF QType
    <3>2. CASE status[m] # "IPV4"
      BY <2>1, <2>3, <3>2 DEF QType
    <3>. QED BY <3>1, <3>2
  <2>. QED BY <1>5, <2>2, <2>3
<1>. QED BY <1>2, <1>4, <1>6, <1>7, <1>8 DEF Inv

-----------------------------------------------------------------------------
LEMMA NextKeeps == ASSUME Inv, [Next]_vars PROVE Inv'
<1>1. CASE UNCHANGED vars
  BY <1>1 DEF vars, Inv, TypeOK, QueueExact, NobodyForgotten, NotTaken, SixAfterFour,
     LookupsAlive, UnknownOnlyIfNone, NobodyWaitsForCached
<1>2. CASE Next
  BY <1>2, ResolveAtOnceKeeps, ResolveKeeps, AnswerAddressKeeps, AnswerUnknownKeeps,
     AnswerEmptyKeeps, AnswerIgnoredKeeps, NetworkKeeps DEF Next
<1>. QED BY <1>1, <1>2

THEOREM InvHolds == Spec => []Inv
<1>. QED BY InvInit, NextKeeps, PTL DEF Spec

(* The variables have their types; in particular nobody is called twice.    *)
THEOREM TypeCorrect == Spec => []TypeOK
<1>1. Inv => TypeOK
  BY DEF Inv
<1>. QED BY <1>1, InvHolds, PTL

(* However answers of several lookups, of several servers, repeated or lost *)
(* ones mix: a callback resolve() took is in one place or has been called   *)
(* once, and one whose resolve() raised is neither.                         *)
THEOREM CallbacksExact == Spec => []CalledExactlyOnce
<1>1. ASSUME Inv PROVE CalledExactlyOnce
  <2>. SUFFICES ASSUME NEW cb \in Callback
                PROVE  calls[cb] + Cardinality(Places(cb)) =
                           IF asked[cb] = NoName \/ cb \in raised THEN 0 ELSE 1
    BY DEF CalledExactlyOnce
  <2>. USE <1>1 DEF Inv, TypeOK
  <2>0. \A p : p \in Places(cb) <=>
             \E n \in Name : \E i \in 1 .. Len(waiters[n]) :
                 p = <<n, i>> /\ waiters[n][i] = cb
    BY DEF Places
  <2>1. CASE asked[cb] = NoName \/ cb \in raised \/ calls[cb] = 1
    <3>1. Places(cb) = {}
      BY <2>0, <2>1, ResolverAssumption DEF QueueExact, ResolverAssumption
    <3>2. calls[cb] = IF asked[cb] = NoName \/ cb \in raised THEN 0 ELSE 1
      BY <2>1 DEF NotTaken
    <3>. QED BY <3>1, <3>2, FS_EmptySet
  <2>2. CASE ~(asked[cb] = NoName \/ cb \in raised \/ calls[cb] = 1)
    <3>1. asked[cb] \in Name /\ calls[cb] = 0
      BY <2>2
    <3>2. PICK i \in 1 .. Len(waiters[asked[cb]]) : waiters[asked[cb]][i] = cb
      BY <2>2, <3>1 DEF NobodyForgotten
    <3>3. \A p : p \in Places(cb) <=> p = <<asked[cb], i>>
      BY <2>0, <3>1, <3>2 DEF QueueExact
    <3>4. Places(cb) = {<<asked[cb], i>>}
      BY <3>3
    <3>5. Cardinality(Places(cb)) = 1
      BY <3>4, FS_Singleton
    <3>. QED BY <2>2, <3>1, <3>5
  <2>. QED BY <2>1, <2>2
<1>. QED BY <1>1, InvHolds, PTL

(* A name with an address is never reported unknown, although an answer is  *)
(* matched to a lookup by its question alone.                               *)
THEOREM UnknownIsTrue == Spec => []UnknownOnlyIfNone
<1>1. Inv => UnknownOnlyIfNone
  BY DEF Inv
<1>. QED BY <1>1, InvHolds, PTL

(* Nobody waits without a status, and without a datagram lost there is an   *)
(* answer to come; nobody waits for what is in the cache.                   *)
THEOREM WaitersServed == Spec => [](LookupsAlive /\ NobodyWaitsForCached)
<1>1. Inv => LookupsAlive /\ NobodyWaitsForCached
  BY DEF Inv
<1>. QED BY <1>1, InvHolds, PTL
=============================================================================

------------------------------ MODULE Calls_proofs ------------------------------
(* Theorems about the two calls that are loops of their own: the cascade of       *)
(* close(), for any finite sets of handlers, and the cache with its sweep(), for   *)
(* any keys, values and timeout.                                                   *)
EXTENDS LRUCache, CloseCascade, FiniteSetTheorems, TLAPS

(* The cascade.                                                                    *)

(* Handlers are objects of one process: there are finitely many, and a      *)
(* handler is not both a tunnel and a destination.                          *)
Handlers == IsFiniteSet(Conn) /\ IsFiniteSet(Remote) /\ Conn \cap Remote = {}

(* What is so of an activation while the handlers in `left` are open: its   *)
(* handler is closed, and its loop has no open handler behind it.           *)
Sound(a, left, started) ==
    /\ a.self \in started \ left
    /\ a.self \in Remote => a.at # "loop"
    /\ a.self \in Conn /\ a.at = "return" => a.todo = {}
    /\ \A k \in Remote \ a.todo : k \notin left

Opened ==
    /\ CascadeTypeOK
    /\ open \subseteq openAtStart
    /\ start \in openAtStart \ open
    /\ \A k \in Remote \cap openAtStart : creator[k] \in openAtStart

RemovedExact == removed = [h \in Handler |-> IF h \in openAtStart \ open THEN 1 ELSE 0]

ActivationsSound == \A i \in 1 .. Len(stack) : Sound(stack[i], open, openAtStart)
OneEach == \A i, j \in 1 .. Len(stack) : stack[i].self = stack[j].self => i = j

(* While a destination handler is open, the loop of a tunnel handler is in  *)
(* progress or about to begin.                                              *)
LoopAhead(a, left, by) ==
    a.self \in Conn \/ (a.self \in Remote /\ a.at = "relay" /\ by[a.self] \in left)
SomeLoopAhead ==
    Remote \cap open = {} \/ \E i \in 1 .. Len(stack) : LoopAhead(stack[i], open, creator)

(* The creator of a closed destination handler is closed, or will be by an  *)
(* activation that has yet to test local_relay.                             *)
CreatorsFollow ==
    \A k \in (Remote \cap openAtStart) \ open :
        \/ creator[k] \notin open
        \/ \E i \in 1 .. Len(stack) : stack[i].self = k /\ stack[i].at = "relay"

OthersUntouched == openAtStart \ CloseSet \subseteq open

CascadeInv == Opened /\ RemovedExact /\ ActivationsSound /\ OneEach /\ SomeLoopAhead
        /\ CreatorsFollow /\ OthersUntouched

-----------------------------------------------------------------------------
(* The stacks of Resume and of Below.                                       *)
LEMMA Tops ==
    ASSUME CascadeTypeOK, stack # <<>>
    PROVE  /\ Len(stack) \in Nat /\ Len(stack) >= 1 /\ Top \in Activation
           /\ Below \in Seq(Activation) /\ Len(Below) = Len(stack) - 1
           /\ \A i \in 1 .. Len(stack) - 1 : Below[i] = stack[i]
<1> DEFINE n == Len(stack)
           below == SubSeq(stack, 1, n - 1)
<1>1. stack \in Seq(Activation) /\ n \in Nat /\ n >= 1 /\ stack[n] \in Activation
  <2>1. stack \in Seq(Activation)
    BY DEF CascadeTypeOK
  <2>2. n \in Nat /\ n >= 1 /\ n \in 1 .. n
    BY <2>1
  <2>. QED BY <2>1, <2>2
<1> HIDE DEF n
<1>2. Len(below) = n - 1 /\ \A i \in 1 .. n - 1 : below[i] = stack[i]
  BY <1>1
<1>3. below \in Seq(Activation)
  <2>1. \A i \in 1 .. n - 1 : stack[i] \in Activation
    BY <1>1 DEF n
  <2>. QED BY <1>1, <2>1
<1>. QED BY <1>1, <1>2, <1>3 DEF Top, Below, n

LEMMA Resumed ==
    ASSUME CascadeTypeOK, stack # <<>>, NEW a \in Activation
    PROVE  /\ Resume(a) \in Seq(Activation) /\ Len(Resume(a)) = Len(stack)
           /\ \A i \in 1 .. Len(stack) - 1 : Resume(a)[i] = stack[i]
           /\ Resume(a)[Len(stack)] = a
<1> DEFINE below == Below
<1>1. below \in Seq(Activation) /\ Len(below) = Len(stack) - 1 /\ Len(stack) \in Nat /\ Len(stack) >= 1
      /\ \A i \in 1 .. Len(stack) - 1 : below[i] = stack[i]
  BY Tops
<1> HIDE DEF below
<1>2. /\ Append(below, a) \in Seq(Activation) /\ Len(Append(below, a)) = Len(below) + 1
      /\ \A i \in 1 .. Len(below) : Append(below, a)[i] = below[i]
      /\ Append(below, a)[Len(below) + 1] = a
  BY <1>1
<1>. QED BY <1>1, <1>2 DEF Resume, below

(* The activation on top goes on, at another place or with less to do.      *)
LEMMA LeaveStep ==
    ASSUME CascadeInv, Handlers, stack # <<>>, UNCHANGED <<start, openAtStart, creator>>,
           NEW a \in Activation, Leave(a), a.self = Top.self, Sound(a, open, openAtStart),
           Top.self \in Remote /\ Top.at = "relay" => creator[Top.self] \notin open
    PROVE  CascadeInv'
<1> DEFINE n == Len(stack)
<1>0. CascadeTypeOK /\ stack \in Seq(Activation) /\ UNCHANGED <<open, removed>> /\ n \in Nat /\ n >= 1
  BY Tops DEF CascadeInv, Opened, CascadeTypeOK, Leave
<1>1. /\ stack' \in Seq(Activation) /\ Len(stack') = n /\ stack'[n] = a
      /\ \A i \in 1 .. n - 1 : stack'[i] = stack[i]
  BY <1>0, Resumed DEF Leave
<1>2. \A i \in 1 .. n : stack'[i].self = stack[i].self
  BY <1>0, <1>1 DEF Top
<1>3. Opened' /\ RemovedExact' /\ OthersUntouched'
  BY <1>0, <1>1 DEF CascadeInv, Opened, CascadeTypeOK, RemovedExact, OthersUntouched, CloseSet
<1>4. ActivationsSound'
  <2> SUFFICES ASSUME NEW i \in 1 .. n PROVE Sound(stack'[i], open', openAtStart')
    BY <1>1 DEF ActivationsSound
  <2>1. i \in 1 .. n - 1 \/ i = n
    BY <1>0
  <2>2. CASE i = n
    BY <1>0, <1>1, <2>2 DEF Sound
  <2>3. CASE i \in 1 .. n - 1
    <3>1. Sound(stack[i], open, openAtStart)
      BY <2>3 DEF CascadeInv, ActivationsSound
    <3>. QED BY <1>0, <1>1, <2>3, <3>1 DEF Sound
  <2>. QED BY <2>1, <2>2, <2>3
<1>5. OneEach'
  BY <1>1, <1>2 DEF CascadeInv, OneEach
<1>6. SomeLoopAhead'
  <2> SUFFICES ASSUME Remote \cap open # {}
               PROVE  \E i \in 1 .. n : LoopAhead(stack'[i], open', creator')
    BY <1>0, <1>1 DEF SomeLoopAhead
  <2>1. PICK i \in 1 .. n : LoopAhead(stack[i], open, creator)
    BY DEF CascadeInv, SomeLoopAhead
  <2>2. CASE i = n
    BY <1>0, <1>2, <2>1, <2>2 DEF LoopAhead, Top
  <2>3. CASE i # n
    <3>1. stack'[i] = stack[i]
      BY <1>0, <1>1, <2>3
    <3>. QED BY <1>0, <2>1, <3>1 DEF LoopAhead
  <2>. QED BY <2>2, <2>3
<1>7. CreatorsFollow'
  <2> SUFFICES ASSUME NEW k \in (Remote \cap openAtStart) \ open, creator[k] \in open
               PROVE  \E i \in 1 .. n : stack'[i].self = k /\ stack'[i].at = "relay"
    BY <1>0, <1>1 DEF CreatorsFollow
  <2>1. PICK i \in 1 .. n : stack[i].self = k /\ stack[i].at = "relay"
    BY DEF CascadeInv, CreatorsFollow
  <2>2. i # n
    BY <2>1 DEF Top
  <2>3. stack'[i] = stack[i]
    BY <1>0, <1>1, <2>2
  <2>. QED BY <2>1, <2>3
<1>. QED BY <1>3, <1>4, <1>5, <1>6, <1>7 DEF CascadeInv

(* A call of close() for a handler that is open, from the activation on top *)
(* for one that the call is to close.                                       *)
LEMMA EnterStep ==
    ASSUME CascadeInv, Handlers, stack # <<>>, UNCHANGED <<start, openAtStart, creator>>,
           NEW a \in Activation, NEW h \in open, Enter(h, Resume(a)), a.self = Top.self,
           Sound(a, open \ {h}, openAtStart),
           h \in Remote \/ \E k \in Remote \cap openAtStart : h = creator[k],
           Top.self \in Remote /\ Top.at = "relay" => h = creator[Top.self]
    PROVE  CascadeInv'
<1> DEFINE n == Len(stack)
           new == [self |-> h, at |-> "relay", todo |-> Remote]
<1>0. /\ CascadeTypeOK /\ stack \in Seq(Activation) /\ n \in Nat /\ n >= 1 /\ h \in Handler
      /\ removed' = [removed EXCEPT ![h] = @ + 1] /\ open' = open \ {h} /\ h \in openAtStart
      /\ new \in Activation
  BY Tops DEF CascadeInv, Opened, CascadeTypeOK, Enter, Activation, Place
<1> HIDE DEF new
<1>1. /\ stack' \in Seq(Activation) /\ Len(stack') = n + 1 /\ stack'[n] = a /\ stack'[n + 1] = new
      /\ \A i \in 1 .. n - 1 : stack'[i] = stack[i]
  <2> DEFINE s == Resume(a)
  <2>1. s \in Seq(Activation) /\ Len(s) = n /\ s[n] = a /\ \A i \in 1 .. n - 1 : s[i] = stack[i]
    BY <1>0, Resumed
  <2>2. stack' = Append(s, new)
    BY DEF Enter, new
  <2> HIDE DEF s, n
  <2>3. /\ Append(s, new) \in Seq(Activation) /\ Len(Append(s, new)) = Len(s) + 1
        /\ \A i \in 1 .. Len(s) : Append(s, new)[i] = s[i]
        /\ Append(s, new)[Len(s) + 1] = new
    BY <1>0, <2>1
  <2>. QED BY <1>0, <2>1, <2>2, <2>3
<1>2. \A i \in 1 .. n : stack'[i].self = stack[i].self
  BY <1>0, <1>1 DEF Top
<1>3. new.self = h /\ new.at = "relay" /\ new.todo = Remote
  BY DEF new
<1>4. Opened'
  BY <1>0, <1>1 DEF CascadeInv, Opened, CascadeTypeOK
<1>5. RemovedExact'
  BY <1>0 DEF CascadeInv, RemovedExact
<1>6. OthersUntouched'
  <2>1. h \in CloseSet /\ CloseSet' = CloseSet
    BY <1>0 DEF CloseSet
  <2>. QED BY <1>0, <2>1 DEF CascadeInv, OthersUntouched
<1>7. ActivationsSound'
  <2> SUFFICES ASSUME NEW i \in 1 .. n + 1 PROVE Sound(stack'[i], open', openAtStart')
    BY <1>1 DEF ActivationsSound
  <2>1. i \in 1 .. n - 1 \/ i = n \/ i = n + 1
    BY <1>0
  <2>2. CASE i = n
    BY <1>0, <1>1, <2>2 DEF Sound
  <2>3. CASE i \in 1 .. n - 1
    <3>1. Sound(stack[i], open, openAtStart)
      BY <2>3 DEF CascadeInv, ActivationsSound
    <3>. QED BY <1>0, <1>1, <2>3, <3>1 DEF Sound
  <2>4. CASE i = n + 1
    BY <1>0, <1>1, <1>3, <2>4 DEF Sound
  <2>. QED BY <2>1, <2>2, <2>3, <2>4
<1>8. OneEach'
  <2>1. \A i \in 1 .. n : stack'[i].self # h
    BY <1>2 DEF CascadeInv, ActivationsSound, Sound
  <2>2. \A i, j \in 1 .. n : stack'[i].self = stack'[j].self => i = j
    BY <1>2 DEF CascadeInv, OneEach
  <2>3. \A i \in 1 .. Len(stack') : i \in 1 .. n \/ (i = n + 1 /\ stack'[i].self = h)
    BY <1>0, <1>1, <1>3
  <2>. QED BY <2>1, <2>2, <2>3 DEF OneEach
<1>9. SomeLoopAhead'
  <2> SUFFICES ASSUME Remote \cap open' # {}
               PROVE  \E i \in 1 .. n + 1 : LoopAhead(stack'[i], open', creator')
    BY <1>1 DEF SomeLoopAhead
  <2>1. CASE h \in Conn
    BY <1>0, <1>1, <1>3, <2>1 DEF LoopAhead
  <2>2. CASE h \notin Conn
    <3>1. Remote \cap open # {}
      BY <1>0
    <3>2. PICK i \in 1 .. n : LoopAhead(stack[i], open, creator)
      BY <3>1 DEF CascadeInv, SomeLoopAhead
    <3>3. \A k \in Remote : creator[k] # h
      BY <1>0, <2>2 DEF CascadeTypeOK
    <3>4. i # n \/ Top.self \in Conn
      BY <3>2, <3>3 DEF LoopAhead, Top
    <3>5. CASE i = n
      BY <1>0, <1>2, <3>4, <3>5 DEF LoopAhead, Top
    <3>6. CASE i # n
      <4>1. stack'[i] = stack[i] /\ i \in 1 .. n + 1
        BY <1>0, <1>1, <3>6
      <4>. QED BY <1>0, <3>2, <3>3, <4>1 DEF LoopAhead
    <3>. QED BY <3>5, <3>6
  <2>. QED BY <2>1, <2>2
<1>10. CreatorsFollow'
  <2> SUFFICES ASSUME NEW k \in (Remote \cap openAtStart) \ open', creator[k] \in open'
               PROVE  \E i \in 1 .. n + 1 : stack'[i].self = k /\ stack'[i].at = "relay"
    BY <1>1 DEF CreatorsFollow
  <2>1. CASE k = h
    BY <1>0, <1>1, <1>3, <2>1
  <2>2. CASE k # h
    <3>1. k \notin open /\ creator[k] \in open /\ creator[k] # h
      BY <1>0, <2>2
    <3>2. PICK i \in 1 .. n : stack[i].self = k /\ stack[i].at = "relay"
      BY <3>1 DEF CascadeInv, CreatorsFollow
    <3>3. i # n
      BY <3>1, <3>2 DEF Top
    <3>4. stack'[i] = stack[i] /\ i \in 1 .. n + 1
      BY <1>0, <1>1, <3>3
    <3>. QED BY <3>2, <3>4
  <2>. QED BY <2>1, <2>2
<1>. QED BY <1>4, <1>5, <1>6, <1>7, <1>8, <1>9, <1>10 DEF CascadeInv

(* The innermost activation returns.  If it is a tunnel handler's, its loop *)
(* has been over every destination handler, and none is open.               *)
LEMMA ReturnStep ==
    ASSUME CascadeInv, Handlers, Return
    PROVE  CascadeInv'
<1> DEFINE n == Len(stack)
<1>0. /\ CascadeTypeOK /\ stack # <<>> /\ Top.at = "return" /\ n \in Nat /\ n >= 1 /\ Top = stack[n]
      /\ UNCHANGED <<start, openAtStart, creator, open, removed>>
  BY Tops DEF CascadeInv, Opened, Return, Top
<1>1. /\ stack' \in Seq(Activation) /\ Len(stack') = n - 1
      /\ \A i \in 1 .. n - 1 : stack'[i] = stack[i]
  BY <1>0, Tops DEF Return
<1>2. \A i \in 1 .. n - 1 : i \in 1 .. n /\ stack'[i] = stack[i]
  BY <1>0, <1>1
<1>3. Opened' /\ RemovedExact' /\ OthersUntouched'
  BY <1>0, <1>1 DEF CascadeInv, Opened, CascadeTypeOK, RemovedExact, OthersUntouched, CloseSet
<1>4. Sound(stack[n], open, openAtStart)
  BY <1>0 DEF CascadeInv, ActivationsSound
<1> HIDE DEF n
<1>5. ActivationsSound' /\ OneEach'
  BY <1>0, <1>1, <1>2 DEF CascadeInv, ActivationsSound, OneEach, n
<1>6. SomeLoopAhead'
  <2> SUFFICES ASSUME Remote \cap open # {}
               PROVE  \E i \in 1 .. n - 1 : LoopAhead(stack'[i], open', creator')
    BY <1>0, <1>1 DEF SomeLoopAhead
  <2>1. PICK i \in 1 .. n : LoopAhead(stack[i], open, creator)
    BY DEF CascadeInv, SomeLoopAhead, n
  <2>2. stack[n].self \notin Conn
    BY <1>0, <1>4 DEF Sound
  <2>3. i # n
    BY <1>0, <2>1, <2>2 DEF LoopAhead
  <2>4. i \in 1 .. n - 1
    BY <1>0, <2>3
  <2>. QED BY <1>0, <1>2, <2>1, <2>4
<1>7. CreatorsFollow'
  <2> SUFFICES ASSUME NEW k \in (Remote \cap openAtStart) \ open, creator[k] \in open
               PROVE  \E i \in 1 .. n - 1 : stack'[i].self = k /\ stack'[i].at = "relay"
    BY <1>0, <1>1 DEF CreatorsFollow
  <2>1. PICK i \in 1 .. n : stack[i].self = k /\ stack[i].at = "relay"
    BY DEF CascadeInv, CreatorsFollow, n
  <2>2. i # n
    BY <1>0, <2>1
  <2>3. i \in 1 .. n - 1
    BY <1>0, <2>2
  <2>. QED BY <1>2, <2>1, <2>3
<1>. QED BY <1>3, <1>5, <1>6, <1>7 DEF CascadeInv

LEMMA TopSound == ASSUME CascadeInv, stack # <<>> PROVE Sound(Top, open, openAtStart) /\ Top \in Activation
<1>1. Len(stack) \in 1 .. Len(stack) /\ Top \in Activation
  BY Tops DEF CascadeInv, Opened
<1>. QED BY <1>1 DEF CascadeInv, ActivationsSound, Top

LEMMA RelayStep == ASSUME CascadeInv, Handlers, AtRelay PROVE CascadeInv'
<1> DEFINE place == IF Top.self \in Conn THEN "loop" ELSE "return"
           next == [Top EXCEPT !.at = place]
<1>0. /\ stack # <<>> /\ Top.at = "relay" /\ UNCHANGED <<start, openAtStart, creator>>
      /\ IF Top.self \in Remote /\ creator[Top.self] \in open
         THEN Enter(creator[Top.self], Resume(next))
         ELSE Leave(next)
  BY DEF AtRelay
<1>1. Sound(Top, open, openAtStart) /\ Top \in Activation /\ Top.self \in Handler
  BY <1>0, TopSound DEF Activation
<1>2. /\ next \in Activation /\ next.self = Top.self /\ next.at = place /\ next.todo = Top.todo
      /\ Top.self \in Conn => next.at = "loop"
      /\ Top.self \in Remote => next.at = "return"
  BY <1>1 DEF Activation, Place, Handlers
<1>3. \A left \in SUBSET open : Sound(next, left, openAtStart)
  BY <1>1, <1>2 DEF Sound, Handlers
<1> HIDE DEF next, place
<1>4. CASE Top.self \in Remote /\ creator[Top.self] \in open
  <2>1. PICK h \in open : h = creator[Top.self]
    BY <1>4
  <2>2. Enter(h, Resume(next)) /\ Top.self \in Remote \cap openAtStart
    BY <1>0, <1>1, <1>4, <2>1 DEF Sound
  <2>3. Sound(next, open \ {h}, openAtStart)
    BY <1>3
  <2>. QED BY <1>0, <1>2, <2>1, <2>2, <2>3, EnterStep
<1>5. CASE ~(Top.self \in Remote /\ creator[Top.self] \in open)
  BY <1>0, <1>2, <1>3, <1>5, LeaveStep
<1>. QED BY <1>4, <1>5

LEMMA LoopStep == ASSUME CascadeInv, Handlers, AtLoop PROVE CascadeInv'
<1>0. /\ stack # <<>> /\ Top.at = "loop" /\ UNCHANGED <<start, openAtStart, creator>>
      /\ Sound(Top, open, openAtStart) /\ Top \in Activation
  BY TopSound DEF AtLoop
<1>1. CASE Top.todo = {} /\ Leave([Top EXCEPT !.at = "return"])
  <2>1. PICK next \in Activation : next = [Top EXCEPT !.at = "return"]
    BY <1>0 DEF Activation, Place
  <2>2. next.self = Top.self /\ next.at = "return" /\ next.todo = {}
    BY <1>0, <1>1, <2>1 DEF Activation
  <2>3. Sound(next, open, openAtStart)
    BY <1>0, <1>1, <2>2 DEF Sound
  <2>. QED BY <1>0, <1>1, <2>1, <2>2, <2>3, LeaveStep
<1>2. ASSUME NEW k \in Top.todo,
             LET next == [Top EXCEPT !.todo = @ \ {k}] IN
             IF k \in open THEN Enter(k, Resume(next)) ELSE Leave(next)
      PROVE  CascadeInv'
  <2>1. PICK next \in Activation : next = [Top EXCEPT !.todo = @ \ {k}]
    BY <1>0 DEF Activation
  <2>2. next.self = Top.self /\ next.at = "loop" /\ next.todo = Top.todo \ {k} /\ k \in Remote
    BY <1>0, <2>1 DEF Activation
  <2>3. Sound(next, open \ {k}, openAtStart)
    BY <1>0, <2>2 DEF Sound
  <2>4. CASE k \in open
    <3>1. Enter(k, Resume(next))
      BY <1>2, <2>1, <2>4
    <3>. QED BY <1>0, <2>2, <2>3, <2>4, <3>1, EnterStep
  <2>5. CASE k \notin open
    <3>1. Leave(next) /\ open \ {k} = open
      BY <1>2, <2>1, <2>5
    <3>. QED BY <1>0, <2>2, <2>3, <3>1, LeaveStep
  <2>. QED BY <2>4, <2>5
<1>. QED BY <1>1, <1>2 DEF AtLoop

LEMMA CascadeInvInit == ASSUME CascadeInit, Handlers PROVE CascadeInv
<1> DEFINE first == [self |-> start, at |-> "relay", todo |-> Remote]
<1>0. /\ openAtStart \subseteq Handler /\ start \in openAtStart /\ creator \in [Remote -> Conn]
      /\ open = openAtStart \ {start} /\ \A k \in Remote : k \in openAtStart => creator[k] \in openAtStart
      /\ removed = [h \in Handler |-> IF h = start THEN 1 ELSE 0]
      /\ openAtStart \ open = {start}
  BY DEF CascadeInit
<1>1. first \in Activation /\ first.self = start /\ first.at = "relay" /\ first.todo = Remote
  BY <1>0 DEF Activation, Place
<1>2. stack = <<first>>
  BY DEF CascadeInit
<1> HIDE DEF first
<1>3. stack \in Seq(Activation) /\ Len(stack) = 1 /\ stack[1] = first /\ 1 \in 1 .. Len(stack)
      /\ \A i \in 1 .. Len(stack) : i = 1
  BY <1>1, <1>2
<1>4. Opened
  BY <1>0, <1>3 DEF Opened, CascadeTypeOK
<1>5. RemovedExact
  BY <1>0 DEF RemovedExact
<1>6. ActivationsSound /\ OneEach
  BY <1>0, <1>1, <1>3 DEF ActivationsSound, OneEach, Sound
<1>7. SomeLoopAhead
  <2>1. LoopAhead(first, open, creator)
    <3>1. CASE start \in Conn
      BY <1>1, <3>1 DEF LoopAhead
    <3>2. CASE start \in Remote
      <4>1. creator[start] \in openAtStart /\ creator[start] # start
        BY <1>0, <3>2 DEF Handlers
      <4>. QED BY <1>0, <1>1, <3>2, <4>1 DEF LoopAhead
    <3>. QED BY <1>0, <3>1, <3>2 DEF Handler
  <2>. QED BY <1>3, <2>1 DEF SomeLoopAhead
<1>8. CreatorsFollow
  BY <1>0, <1>1, <1>3 DEF CreatorsFollow
<1>9. OthersUntouched
  BY <1>0 DEF OthersUntouched, CloseSet
<1>. QED BY <1>4, <1>5, <1>6, <1>7, <1>8, <1>9 DEF CascadeInv

LEMMA CascadeInvStep == ASSUME CascadeInv, Handlers, [CascadeNext]_cascadeVars PROVE CascadeInv'
<1>1. CASE UNCHANGED cascadeVars
  BY <1>1 DEF cascadeVars, CascadeInv, Opened, CascadeTypeOK, RemovedExact, ActivationsSound, OneEach, SomeLoopAhead,
     CreatorsFollow, OthersUntouched, CloseSet
<1>2. CASE CascadeNext
  BY <1>2, RelayStep, LoopStep, ReturnStep DEF CascadeNext
<1>. QED BY <1>1, <1>2

(* Each activation is of another handler, so they are no more than those.   *)
LEMMA StackBounded == ASSUME CascadeInv, Handlers PROVE Len(stack) <= Cardinality(openAtStart)
<1> DEFINE f == [i \in 1 .. Len(stack) |-> stack[i].self]
<1>1. IsFiniteSet(openAtStart)
  <2>1. IsFiniteSet(Handler)
    BY FS_Union DEF Handlers, Handler
  <2>. QED BY <2>1, FS_Subset DEF CascadeInv, Opened, CascadeTypeOK
<1>2. f \in Injection(1 .. Len(stack), openAtStart)
  <2>1. f \in [1 .. Len(stack) -> openAtStart]
    BY DEF CascadeInv, ActivationsSound, Sound
  <2>2. \A i, j \in 1 .. Len(stack) : f[i] = f[j] => i = j
    BY DEF CascadeInv, OneEach
  <2>. QED BY <2>1, <2>2 DEF Injection, IsInjective
<1>3. Cardinality(1 .. Len(stack)) = Len(stack)
  <2>. PICK n \in Nat : n = Len(stack)
    BY DEF CascadeInv, Opened, CascadeTypeOK
  <2>1. 1 \in Int /\ n \in Int /\ (IF 1 > n THEN 0 ELSE n - 1 + 1) = n
    OBVIOUS
  <2>2. Cardinality(1 .. n) = IF 1 > n THEN 0 ELSE n - 1 + 1
    BY <2>1, FS_Interval, Zenon
  <2>. QED BY <2>1, <2>2, Zenon
<1>. QED BY <1>1, <1>2, <1>3, FS_Injection

LEMMA CascadeIsExact == ASSUME CascadeInv, Handlers PROVE CascadeExact
<1>1. CascadeTypeOK
  BY DEF CascadeInv, Opened
<1>2. RemovedOnce
  <2>1. \A h \in Handler : removed[h] = IF h \in openAtStart \ open THEN 1 ELSE 0
    BY DEF CascadeInv, RemovedExact
  <2>. QED BY <2>1, StackBounded DEF RemovedOnce
<1>3. CascadeClosesCloseSet
  <2> SUFFICES ASSUME stack = <<>> PROVE open = openAtStart \ CloseSet
    BY DEF CascadeClosesCloseSet
  <2>1. \A i \in 1 .. Len(stack) : FALSE
    OBVIOUS
  <2>2. Remote \cap open = {}
    BY <2>1 DEF CascadeInv, SomeLoopAhead
  <2>3. \A k \in Remote \cap openAtStart : creator[k] \notin open
    BY <2>1, <2>2 DEF CascadeInv, CreatorsFollow
  <2>4. \A h \in CloseSet : h \notin open
    BY <2>2, <2>3 DEF CloseSet, CascadeInv, Opened
  <2>. QED BY <2>4 DEF CascadeInv, OthersUntouched, Opened
<1>. QED BY <1>1, <1>2, <1>3 DEF CascadeExact

(* Whichever handler is closed first and in whatever order the loops over   *)
(* source_dest_map take the others: no handler is removed from the event    *)
(* loop twice, the calls nest no deeper than there are open handlers, and   *)
(* when the outermost returns exactly CloseSet is closed.                   *)
THEOREM CascadeHolds == Handlers => (CascadeSpec => []CascadeExact)
<1> SUFFICES ASSUME Handlers PROVE CascadeSpec => []CascadeExact
  OBVIOUS
<1>1. CascadeInit => CascadeInv
  BY CascadeInvInit
<1>2. CascadeInv /\ [CascadeNext]_cascadeVars => CascadeInv'
  BY CascadeInvStep
<1>3. CascadeInv => CascadeExact
  BY CascadeIsExact
<1>. QED BY <1>1, <1>2, <1>3, PTL DEF CascadeSpec

---------------------------------------------------------------------------------
(* The cache.                                                                      *)

(* The places of _last_visits that hold the stamp t.                        *)
Stamps(visits, t) == {i \in 1 .. Len(visits) : visits[i] = t}
Ascending(visits) == \A i, j \in 1 .. Len(visits) : i < j => visits[i] <= visits[j]

LEMMA StampsFinite ==
    ASSUME NEW S, NEW visits \in Seq(S), NEW t
    PROVE  /\ IsFiniteSet(Stamps(visits, t)) /\ Cardinality(Stamps(visits, t)) \in Nat
           /\ Stamps(visits, t) \subseteq 1 .. Len(visits)
<1>1. IsFiniteSet(1 .. Len(visits)) /\ Stamps(visits, t) \subseteq 1 .. Len(visits)
  BY FS_Interval DEF Stamps
<1>. QED BY <1>1, FS_Subset, FS_CardinalityType

(* A visit adds one place, and only to its own stamp.                       *)
LEMMA StampAppended ==
    ASSUME NEW S, NEW visits \in Seq(S), NEW now \in S, NEW t
    PROVE  Cardinality(Stamps(Append(visits, now), t)) =
              IF t = now THEN Cardinality(Stamps(visits, t)) + 1 ELSE Cardinality(Stamps(visits, t))
<1> DEFINE n == Len(visits) + 1
           more == Append(visits, now)
<1>1. n \in Nat /\ Len(more) = n /\ more[n] = now /\ n \notin Stamps(visits, t)
      /\ \A i \in 1 .. Len(visits) : more[i] = visits[i]
  BY DEF Stamps
<1>2. \A i : i \in 1 .. n <=> i \in 1 .. Len(visits) \/ i = n
  OBVIOUS
<1> HIDE DEF n, more
<1>3. Stamps(more, t) = IF t = now THEN Stamps(visits, t) \cup {n} ELSE Stamps(visits, t)
  BY <1>1, <1>2 DEF Stamps
<1>. QED BY <1>1, <1>3, StampsFinite, FS_AddElement DEF more

(* In an ascending sequence the places of the first stamp come first.       *)
LEMMA FirstStamps ==
    ASSUME NEW S \in SUBSET Int, NEW visits \in Seq(S), visits # <<>>, Ascending(visits)
    PROVE  LET first == Stamps(visits, Head(visits))
           IN  Cardinality(first) \in 1 .. Len(visits) /\ first = 1 .. Cardinality(first)
<1> DEFINE C == Stamps(visits, Head(visits))
           n == Cardinality(C)
           N == Len(visits)
<1>0. N \in Nat /\ N >= 1 /\ Head(visits) = visits[1] /\ \A i \in 1 .. N : visits[i] \in Int
  <2>1. Len(visits) \in Nat /\ Len(visits) >= 1 /\ \A i \in 1 .. Len(visits) : visits[i] \in S
    OBVIOUS
  <2>2. Head(visits) = visits[1]
    OBVIOUS
  <2>3. \A i \in 1 .. Len(visits) : visits[i] \in Int
    BY <2>1
  <2>. QED BY <2>1, <2>2, <2>3
<1>1. IsFiniteSet(C) /\ n \in Nat /\ C \subseteq 1 .. N
  BY StampsFinite
<1>2. 1 \in C
  BY <1>0 DEF Stamps
<1>3. \A i \in C : \A j \in 1 .. i : j \in C
  <2> SUFFICES ASSUME NEW i \in C, NEW j \in 1 .. i PROVE j \in C
    OBVIOUS
  <2>1. i \in 1 .. N /\ j \in 1 .. N /\ 1 \in 1 .. N
    BY <1>0, <1>1
  <2>2. visits[i] = visits[1]
    BY <1>0 DEF Stamps
  <2>3. visits[1] <= visits[j]
    BY <1>0, <2>1 DEF Ascending
  <2>4. visits[j] <= visits[i]
    BY <1>0, <2>1 DEF Ascending
  <2>5. visits[j] = visits[1]
    BY <1>0, <2>1, <2>2, <2>3, <2>4
  <2>. QED BY <1>0, <2>1, <2>5 DEF Stamps
<1> HIDE DEF C, n, N
<1>4. ASSUME NEW m \in Nat, m \in C PROVE m <= n
  <2>1. 1 .. m \subseteq C
    BY <1>3, <1>4
  <2>2. Cardinality(1 .. m) <= Cardinality(C)
    BY <1>1, <2>1, FS_Subset
  <2>3. Cardinality(1 .. m) = m
    BY FS_Interval
  <2>. QED BY <2>2, <2>3 DEF n
<1>5. ASSUME NEW m \in Nat, m >= 1, m \notin C PROVE n <= m - 1
  <2>1. C \subseteq 1 .. (m - 1)
    <3>1. ASSUME NEW i \in C PROVE i \in 1 .. (m - 1)
      <4>1. i \in Nat /\ i >= 1
        BY <1>0, <1>1, <3>1
      <4>2. ~(m <= i)
        BY <1>3, <1>5, <4>1
      <4>. QED BY <4>1, <4>2
    <3>. QED BY <3>1
  <2>2. IsFiniteSet(1 .. (m - 1)) /\ Cardinality(1 .. (m - 1)) = m - 1
    BY <1>5, FS_Interval
  <2>3. Cardinality(C) <= Cardinality(1 .. (m - 1))
    BY <2>1, <2>2, FS_Subset
  <2>. QED BY <2>2, <2>3 DEF n
<1>6. n >= 1
  BY <1>2, <1>4
<1>7. n \in C
  BY <1>1, <1>5, <1>6
<1>8. C = 1 .. n
  <2>1. \A i \in C : i \in 1 .. n
    BY <1>0, <1>1, <1>4
  <2>2. \A i \in 1 .. n : i \in C
    BY <1>3, <1>7
  <2>. QED BY <2>1, <2>2
<1>9. n \in 1 .. N
  BY <1>1, <1>7
<1>. QED BY <1>8, <1>9 DEF C, n, N

(* Dropping them leaves every other stamp as often as it was.               *)
LEMMA StampsDropped ==
    ASSUME NEW S, NEW visits \in Seq(S), NEW n \in 0 .. Len(visits), NEW t,
           \A i \in 1 .. n : visits[i] # t
    PROVE  Cardinality(Stamps(SubSeq(visits, n + 1, Len(visits)), t)) = Cardinality(Stamps(visits, t))
<1> DEFINE N == Len(visits)
           rest == SubSeq(visits, n + 1, N)
           A == Stamps(visits, t)
           B == Stamps(rest, t)
           f == [i \in A |-> i - n]
<1>0. N \in Nat /\ n \in Nat /\ n <= N
  OBVIOUS
<1>1. Len(rest) = N - n /\ \A i \in 1 .. N - n : rest[i] = visits[i + n]
  BY <1>0
<1>2. A \subseteq n + 1 .. N
  BY DEF Stamps
<1>3. IsFiniteSet(A)
  BY StampsFinite
<1> HIDE DEF N, rest
<1>4. \A i \in A : i - n \in B
  BY <1>0, <1>1, <1>2 DEF Stamps, N
<1>5. \A j \in B : j + n \in A /\ (j + n) - n = j
  BY <1>0, <1>1 DEF Stamps, N
<1>6. \A i \in A : i \in Int
  BY <1>0, <1>2
<1> HIDE DEF A, B
<1>7. f \in Bijection(A, B)
  <2>1. f \in [A -> B]
    BY <1>4
  <2>2. \A i, j \in A : f[i] = f[j] => i = j
    BY <1>0, <1>6
  <2>3. \A j \in B : \E i \in A : f[i] = j
    BY <1>5
  <2>. QED BY <2>1, <2>2, <2>3 DEF Bijection, Injection, Surjection, IsInjective
<1>8. ExistsBijection(A, B)
  BY <1>7 DEF ExistsBijection
<1>9. Cardinality(B) = Cardinality(A)
  BY <1>3, <1>8, FS_Bijection
<1>. QED BY <1>9 DEF A, B, rest, N

-----------------------------------------------------------------------------
(* The three structures of the cache.                                       *)

(* An entry is in the bucket of its last visit, so the sweep that takes     *)
(* that bucket looks at it.                                                 *)
EntriesInBuckets ==
    \A k \in Key : store[k] # NoValue =>
        /\ lastTime[k] \in Time
        /\ \E i \in 1 .. Len(timeToKeys[lastTime[k]]) : timeToKeys[lastTime[k]][i] = k

NoStampAhead == \A i \in 1 .. Len(lastVisits) : lastVisits[i] <= clock

(* What has been closed in this sweep was called for once.                  *)
CallsExact ==
    IF Sweeping THEN \A v \in Value : calls[v] = IF v \in closedValues THEN 1 ELSE 0
    ELSE closedValues = {}

IInv == QueueConsistent /\ EntriesInBuckets /\ NoStampAhead /\ CallsExact

LEMMA Times ==
    /\ Time \subseteq Nat /\ Time \in SUBSET Int /\ 0 \in Time
    /\ Never \notin Time /\ NotSweeping \notin Time /\ NoValue \notin Value
BY CacheAssumption DEF CacheAssumption, Time, Never, NotSweeping

LEMMA IInvInit == ASSUME Init PROVE IInv
<1>1. TypeOK
  BY Times DEF Init, TypeOK
<1>2. StampsMatchBuckets
  <2>1. \A t \in Time : {i \in 1 .. Len(lastVisits) : lastVisits[i] = t} = {}
    BY DEF Init
  <2>2. \A t \in Time : Len(timeToKeys[t]) = 0
    BY DEF Init
  <2>. QED BY <2>1, <2>2, FS_EmptySet DEF StampsMatchBuckets, Init
<1>3. EntriesInBuckets /\ NoStampAhead /\ CallsExact
  BY DEF Init, EntriesInBuckets, NoStampAhead, CallsExact, Sweeping
<1>. QED BY <1>1, <1>2, <1>3 DEF IInv, QueueConsistent

(* StampsMatchBuckets in the terms of the lemmas.                           *)
LEMMA Matching ==
    StampsMatchBuckets <=>
        /\ Ascending(lastVisits)
        /\ \A t \in Time : Cardinality(Stamps(lastVisits, t)) = Len(timeToKeys[t])
BY DEF StampsMatchBuckets, Ascending, Stamps

LEMMA VisitStep ==
    ASSUME IInv, NEW k \in Key, Visit(k), UNCHANGED <<clock, closedValues, sweepNow, calls>>,
           \/ UNCHANGED store
           \/ \E v \in Value : store' = [store EXCEPT ![k] = v]
    PROVE  IInv'
<1>0. /\ clock \in Time /\ lastVisits \in Seq(Time) /\ timeToKeys \in [Time -> Seq(Key)]
      /\ lastTime \in [Key -> Time \cup {Never}] /\ store \in [Key -> Value \cup {NoValue}]
  BY DEF IInv, QueueConsistent, TypeOK
<1>1. /\ lastTime' = [lastTime EXCEPT ![k] = clock]
      /\ timeToKeys' = [timeToKeys EXCEPT ![clock] = Append(@, k)]
      /\ lastVisits' = Append(lastVisits, clock)
  BY DEF Visit
<1>2. TypeOK'
  <2>1. lastVisits' \in Seq(Time) /\ timeToKeys' \in [Time -> Seq(Key)]
    BY <1>0, <1>1
  <2>2. store' \in [Key -> Value \cup {NoValue}] /\ lastTime' \in [Key -> Time \cup {Never}]
    BY <1>0, <1>1
  <2>. QED BY <2>1, <2>2 DEF IInv, QueueConsistent, TypeOK
<1>3. \A i \in 1 .. Len(lastVisits') :
         \/ i \in 1 .. Len(lastVisits) /\ lastVisits'[i] = lastVisits[i]
         \/ i = Len(lastVisits) + 1 /\ lastVisits'[i] = clock
  BY <1>0, <1>1
<1>4. clock \in Int /\ Len(lastVisits) \in Nat /\ NoStampAhead
  BY <1>0, Times DEF IInv
<1>5. Ascending(lastVisits')
  BY <1>3, <1>4, Matching DEF Ascending, NoStampAhead, IInv, QueueConsistent
<1>6. \A t \in Time : Cardinality(Stamps(lastVisits', t)) = Len(timeToKeys'[t])
  <2> SUFFICES ASSUME NEW t \in Time PROVE Cardinality(Stamps(lastVisits', t)) = Len(timeToKeys'[t])
    OBVIOUS
  <2>1. Cardinality(Stamps(lastVisits, t)) = Len(timeToKeys[t])
    BY Matching DEF IInv, QueueConsistent
  <2>2. Len(timeToKeys'[t]) = IF t = clock THEN Len(timeToKeys[t]) + 1 ELSE Len(timeToKeys[t])
    BY <1>0, <1>1
  <2>3. Cardinality(Stamps(lastVisits', t)) =
           IF t = clock THEN Cardinality(Stamps(lastVisits, t)) + 1 ELSE Cardinality(Stamps(lastVisits, t))
    BY <1>0, <1>1, StampAppended
  <2>. QED BY <2>1, <2>2, <2>3
<1>7. NoStampAhead'
  BY <1>3, <1>4 DEF NoStampAhead
<1>8. EntriesInBuckets'
  <2> SUFFICES ASSUME NEW j \in Key, store'[j] # NoValue
               PROVE  /\ lastTime'[j] \in Time
                      /\ \E i \in 1 .. Len(timeToKeys'[lastTime'[j]]) :
                            timeToKeys'[lastTime'[j]][i] = j
    BY DEF EntriesInBuckets
  <2>1. CASE j = k
    <3>1. lastTime'[k] = clock /\ timeToKeys'[clock] = Append(timeToKeys[clock], k)
      BY <1>0, <1>1
    <3>2. Len(timeToKeys[clock]) + 1 \in 1 .. Len(Append(timeToKeys[clock], k))
          /\ Append(timeToKeys[clock], k)[Len(timeToKeys[clock]) + 1] = k
      BY <1>0
    <3>. QED BY <1>0, <2>1, <3>1, <3>2
  <2>2. CASE j # k
    <3>1. store[j] # NoValue /\ lastTime'[j] = lastTime[j]
      BY <1>0, <1>1, <2>2
    <3>2. lastTime[j] \in Time
      BY <3>1 DEF IInv, EntriesInBuckets
    <3>3. PICK i \in 1 .. Len(timeToKeys[lastTime[j]]) : timeToKeys[lastTime[j]][i] = j
      BY <3>1 DEF IInv, EntriesInBuckets
    <3>4. i \in 1 .. Len(timeToKeys'[lastTime[j]]) /\ timeToKeys'[lastTime[j]][i] = j
      BY <1>0, <1>1, <3>2, <3>3
    <3>. QED BY <3>1, <3>2, <3>4
  <2>. QED BY <2>1, <2>2
<1>9. CallsExact'
  BY DEF IInv, CallsExact, Sweeping
<1>10. StampsMatchBuckets'
  BY <1>5, <1>6 DEF StampsMatchBuckets, Ascending, Stamps
<1>. QED BY <1>2, <1>7, <1>8, <1>9, <1>10 DEF IInv, QueueConsistent

(* One round of the loop: as many stamps go as the bucket has keys, and     *)
(* they are the bucket's own.                                               *)
LEMMA BucketStep ==
    ASSUME IInv, SweepBucket
    PROVE  IInv'
<1> DEFINE least == Head(lastVisits)
           bucket == timeToKeys[least]
           gone == {k \in Key : Expired(k) /\ \E i \in 1 .. Len(bucket) : bucket[i] = k}
           n == Len(bucket)
<1>0. /\ clock \in Time /\ lastVisits \in Seq(Time) /\ timeToKeys \in [Time -> Seq(Key)]
      /\ lastTime \in [Key -> Time \cup {Never}] /\ store \in [Key -> Value \cup {NoValue}]
      /\ closedValues \subseteq Value /\ calls \in [Value -> Nat] /\ sweepNow \in Time
      /\ Sweeping
  BY DEF IInv, QueueConsistent, TypeOK, SweepBucket, Sweeping
<1>1. /\ calls' = [v \in Value |-> calls[v] + IF v \in ValuesToClose(gone) THEN 1 ELSE 0]
      /\ closedValues' = closedValues \cup ValuesToClose(gone)
      /\ lastVisits' = SubSeq(lastVisits, n + 1, Len(lastVisits))
      /\ store' = [k \in Key |-> IF k \in gone THEN NoValue ELSE store[k]]
      /\ lastTime' = [k \in Key |-> IF k \in gone THEN Never ELSE lastTime[k]]
      /\ timeToKeys' = [timeToKeys EXCEPT ![least] = <<>>]
      /\ UNCHANGED <<clock, sweepNow>>
  BY DEF SweepBucket
<1>2. lastVisits # <<>> /\ sweepNow - least > Timeout /\ least \in Time
  BY <1>0 DEF SweepBucket, Due
<1>3. n \in 1 .. Len(lastVisits) /\ Stamps(lastVisits, least) = 1 .. n
  <2>1. Cardinality(Stamps(lastVisits, least)) = n
    BY <1>2, Matching DEF IInv, QueueConsistent
  <2>2. Ascending(lastVisits)
    BY Matching DEF IInv, QueueConsistent
  <2>. QED BY <1>0, <1>2, <2>1, <2>2, FirstStamps, Times
<1>4. ValuesToClose(gone) \subseteq Value
  <2>1. \A k \in gone : store[k] \in Value
    BY <1>0 DEF Expired
  <2>. QED BY <2>1 DEF ValuesToClose
<1>5. CallsExact'
  <2>1. \A v \in Value : calls[v] = IF v \in closedValues THEN 1 ELSE 0
    BY <1>0 DEF IInv, CallsExact
  <2>2. \A v \in ValuesToClose(gone) : v \notin closedValues
    BY DEF ValuesToClose
  <2> HIDE DEF gone
  <2>3. \A v \in Value : calls'[v] = IF v \in closedValues' THEN 1 ELSE 0
    BY <1>0, <1>1, <2>1, <2>2
  <2>. QED BY <1>0, <1>1, <2>3 DEF CallsExact, Sweeping
<1>6. EntriesInBuckets'
  <2> SUFFICES ASSUME NEW k \in Key, store'[k] # NoValue
               PROVE  /\ lastTime'[k] \in Time
                      /\ \E i \in 1 .. Len(timeToKeys'[lastTime'[k]]) :
                            timeToKeys'[lastTime'[k]][i] = k
    BY DEF EntriesInBuckets
  <2>1. k \notin gone /\ store[k] # NoValue /\ lastTime'[k] = lastTime[k]
    BY <1>1
  <2>2. lastTime[k] \in Time /\ \E i \in 1 .. Len(timeToKeys[lastTime[k]]) : timeToKeys[lastTime[k]][i] = k
    BY <2>1 DEF IInv, EntriesInBuckets
  <2>3. lastTime[k] # least
    BY <1>2, <2>1, <2>2 DEF Expired
  <2>4. timeToKeys'[lastTime[k]] = timeToKeys[lastTime[k]]
    BY <1>0, <1>1, <2>2, <2>3
  <2>. QED BY <2>1, <2>2, <2>4
<1> HIDE DEF gone
<1>7. TypeOK'
  <2>1. lastVisits' \in Seq(Time)
    <3>1. \A i \in 1 .. Len(lastVisits) - n : lastVisits[i + n] \in Time
      BY <1>0, <1>3
    <3>. QED BY <1>0, <1>1, <1>3, <3>1
  <2>2. timeToKeys' \in [Time -> Seq(Key)]
    <3>1. <<>> \in Seq(Key)
      OBVIOUS
    <3> HIDE DEF least, bucket, n
    <3>. QED BY <1>0, <1>1, <3>1
  <2>3. store' \in [Key -> Value \cup {NoValue}] /\ lastTime' \in [Key -> Time \cup {Never}]
    BY <1>0, <1>1
  <2>4. calls' \in [Value -> Nat] /\ closedValues' \subseteq Value
    BY <1>0, <1>1, <1>4
  <2>. QED BY <1>0, <1>1, <2>1, <2>2, <2>3, <2>4 DEF TypeOK
<1> DEFINE N == Len(lastVisits)
<1>8. Len(lastVisits') = N - n /\ \A i \in 1 .. N - n : lastVisits'[i] = lastVisits[i + n]
  <2>1. N \in Nat /\ n \in Nat /\ n <= N
    BY <1>0, <1>3
  <2>2. lastVisits' = SubSeq(lastVisits, n + 1, N)
    BY <1>1
  <2> HIDE DEF n, least, bucket
  <2>3. Len(SubSeq(lastVisits, n + 1, N)) = N - n
    BY <1>0, <2>1
  <2>4. \A i \in 1 .. N - n : SubSeq(lastVisits, n + 1, N)[i] = lastVisits[i + n]
    BY <1>0, <2>1
  <2>. QED BY <2>2, <2>3, <2>4
<1>9. Ascending(lastVisits') /\ NoStampAhead'
  <2>1. n \in Nat /\ N \in Nat /\ n <= N
    BY <1>0, <1>3
  <2>2. \A i \in 1 .. N - n : i + n \in 1 .. N
    BY <2>1
  <2>3. ASSUME NEW i \in 1 .. N - n, NEW j \in 1 .. N - n, i < j
        PROVE  lastVisits'[i] <= lastVisits'[j]
    <3>1. i + n \in 1 .. N /\ j + n \in 1 .. N /\ i + n < j + n
      BY <2>1, <2>2, <2>3
    <3>2. lastVisits[i + n] <= lastVisits[j + n]
      BY <3>1, Matching DEF Ascending, IInv, QueueConsistent
    <3>. QED BY <1>8, <3>2
  <2>4. ASSUME NEW i \in 1 .. N - n PROVE lastVisits'[i] <= clock
    BY <1>8, <2>2 DEF NoStampAhead, IInv
  <2>. QED BY <1>1, <1>8, <2>3, <2>4 DEF Ascending, NoStampAhead
<1>10. \A t \in Time : Cardinality(Stamps(lastVisits', t)) = Len(timeToKeys'[t])
  <2> SUFFICES ASSUME NEW t \in Time PROVE Cardinality(Stamps(lastVisits', t)) = Len(timeToKeys'[t])
    OBVIOUS
  <2>1. CASE t = least
    <3>1. n \in Nat /\ N \in Nat /\ n <= N
      BY <1>0, <1>3
    <3>2. ASSUME NEW i \in 1 .. Len(lastVisits') PROVE lastVisits'[i] # least
      <4>1. i \in 1 .. N - n /\ i + n \in 1 .. N /\ i + n \notin 1 .. n
        BY <1>8, <3>1
      <4>2. lastVisits[i + n] # least
        BY <1>3, <4>1 DEF Stamps
      <4>. QED BY <1>8, <4>1, <4>2
    <3>3. Stamps(lastVisits', t) = {}
      BY <2>1, <3>2 DEF Stamps
    <3>4. Len(timeToKeys'[t]) = 0
      BY <1>0, <1>1, <1>2, <2>1
    <3>. QED BY <3>3, <3>4, FS_EmptySet
  <2>2. CASE t # least
    <3>1. \A i \in 1 .. n : lastVisits[i] # t
      BY <1>3, <2>2 DEF Stamps
    <3>2. n \in 0 .. Len(lastVisits)
      BY <1>3
    <3> HIDE DEF n
    <3>3. Cardinality(Stamps(lastVisits', t)) = Cardinality(Stamps(lastVisits, t))
      BY <1>0, <1>1, <3>1, <3>2, StampsDropped
    <3>4. Len(timeToKeys'[t]) = Len(timeToKeys[t])
      BY <1>0, <1>1, <2>2
    <3>5. Cardinality(Stamps(lastVisits, t)) = Len(timeToKeys[t])
      BY Matching DEF IInv, QueueConsistent
    <3>. QED BY <3>3, <3>4, <3>5
  <2>. QED BY <2>1, <2>2
<1>11. StampsMatchBuckets'
  BY <1>9, <1>10 DEF StampsMatchBuckets, Ascending, Stamps
<1>. QED BY <1>5, <1>6, <1>7, <1>9, <1>11 DEF IInv, QueueConsistent

LEMMA IInvStep == ASSUME IInv, [Next]_vars PROVE IInv'
<1>1. CASE UNCHANGED vars
  BY <1>1 DEF vars, IInv, QueueConsistent, TypeOK, StampsMatchBuckets, EntriesInBuckets,
     NoStampAhead, CallsExact, Sweeping
<1>2. CASE Tick
  <2>1. /\ clock' = clock + 1 /\ clock' \in Time /\ clock \in Int
        /\ UNCHANGED <<store, lastTime, timeToKeys, lastVisits, closedValues, sweepNow, calls>>
    BY <1>2, CacheAssumption DEF Tick, IInv, QueueConsistent, TypeOK, Time, CacheAssumption
  <2>2. TypeOK' /\ StampsMatchBuckets' /\ EntriesInBuckets' /\ CallsExact'
    BY <2>1 DEF IInv, QueueConsistent, TypeOK, StampsMatchBuckets, EntriesInBuckets, CallsExact, Sweeping
  <2>3. NoStampAhead'
    <3>0. lastVisits \in Seq(Time) /\ NoStampAhead
      BY DEF IInv, QueueConsistent, TypeOK
    <3>2. \A i \in 1 .. Len(lastVisits) : lastVisits[i] \in Time
      BY <3>0
    <3>1. \A i \in 1 .. Len(lastVisits) : lastVisits[i] \in Int /\ lastVisits[i] <= clock
      BY <3>0, <3>2, Times DEF NoStampAhead
    <3>. QED BY <2>1, <3>1 DEF NoStampAhead
  <2>. QED BY <2>2, <2>3 DEF IInv, QueueConsistent
<1>3. ASSUME NEW k \in Key, GetItem(k) \/ \E v \in Value : SetItem(k, v) PROVE IInv'
  BY <1>3, VisitStep DEF GetItem, SetItem
<1>4. ASSUME NEW k \in Key, DelItem(k) PROVE IInv'
  <2>1. /\ store' = [store EXCEPT ![k] = NoValue] /\ lastTime' = [lastTime EXCEPT ![k] = Never]
        /\ UNCHANGED <<clock, timeToKeys, lastVisits, closedValues, sweepNow, calls>>
    BY <1>4 DEF DelItem
  <2>2. TypeOK' /\ StampsMatchBuckets' /\ NoStampAhead' /\ CallsExact'
    BY <2>1 DEF IInv, QueueConsistent, TypeOK, StampsMatchBuckets, NoStampAhead, CallsExact, Sweeping
  <2>3. EntriesInBuckets'
    BY <2>1 DEF IInv, QueueConsistent, TypeOK, EntriesInBuckets
  <2>. QED BY <2>2, <2>3 DEF IInv, QueueConsistent
<1>5. CASE SweepStart
  <2>1. /\ sweepNow' = clock /\ calls' = [v \in Value |-> 0] /\ closedValues = {}
        /\ UNCHANGED <<clock, store, lastTime, timeToKeys, lastVisits, closedValues>>
    BY <1>5 DEF SweepStart, IInv, CallsExact
  <2>. QED BY <2>1 DEF IInv, QueueConsistent, TypeOK, StampsMatchBuckets, EntriesInBuckets,
              NoStampAhead, CallsExact, Sweeping
<1>6. CASE SweepBucket
  BY <1>6, BucketStep
<1>7. CASE SweepEnd
  <2>1. /\ sweepNow' = NotSweeping /\ closedValues' = {}
        /\ UNCHANGED <<clock, store, lastTime, timeToKeys, lastVisits, calls>>
    BY <1>7 DEF SweepEnd
  <2>. QED BY <2>1 DEF IInv, QueueConsistent, TypeOK, StampsMatchBuckets, EntriesInBuckets,
              NoStampAhead, CallsExact, Sweeping
<1>. QED BY <1>1, <1>2, <1>3, <1>4, <1>5, <1>6, <1>7 DEF Next

LEMMA IInvHolds == Spec => []IInv
<1>1. Init => IInv
  BY IInvInit
<1>2. IInv /\ [Next]_vars => IInv'
  BY IInvStep
<1>. QED BY <1>1, <1>2, PTL DEF Spec

(* The stamps and the buckets agree before and after every round of every   *)
(* sweep, however visits fall on the same time.                             *)
THEOREM QueueStays == Spec => []QueueConsistent
BY IInvHolds, PTL DEF IInv

-----------------------------------------------------------------------------
(* close_callback is called for the value of every entry that a sweep       *)
(* removes, once: _closed_values holds back the second key of a value, and  *)
(* is empty when a sweep starts.                                            *)
ClosedOnce(k) ==
    Sweeping /\ store[k] # NoValue /\ store'[k] = NoValue => calls'[store[k]] = 1

LEMMA StepClosesOnce == ASSUME IInv, [Next]_vars, NEW k \in Key PROVE ClosedOnce(k)
<1> SUFFICES ASSUME Sweeping, store[k] # NoValue, store'[k] = NoValue
             PROVE  calls'[store[k]] = 1
  BY DEF ClosedOnce
<1>0. store[k] \in Value /\ store[k] # store'[k]
  BY DEF IInv, QueueConsistent, TypeOK
<1>1. SweepBucket
  BY <1>0 DEF Next, vars, Tick, GetItem, SetItem, DelItem, Visit, SweepStart, SweepEnd
<1> DEFINE bucket == timeToKeys[Head(lastVisits)]
           gone == {j \in Key : Expired(j) /\ \E i \in 1 .. Len(bucket) : bucket[i] = j}
<1>2. /\ calls' = [v \in Value |-> calls[v] + IF v \in ValuesToClose(gone) THEN 1 ELSE 0]
      /\ store' = [j \in Key |-> IF j \in gone THEN NoValue ELSE store[j]]
  BY <1>1 DEF SweepBucket
<1>3. k \in gone
  BY <1>0, <1>2
<1> HIDE DEF gone
<1>4. store[k] \in ValuesToClose(gone) <=> store[k] \notin closedValues
  BY <1>3 DEF ValuesToClose
<1>5. calls[store[k]] = IF store[k] \in closedValues THEN 1 ELSE 0
  BY <1>0 DEF IInv, CallsExact
<1>. QED BY <1>0, <1>2, <1>4, <1>5

(* A sweep hands every removed value to close_callback exactly once.        *)
THEOREM ClosedOnceHolds == Spec => RemovedValuesClosedOnce
<1>1. IInv /\ [Next]_vars =>
        [\A k \in Key : Sweeping /\ store[k] # NoValue /\ store'[k] = NoValue
           => calls'[store[k]] = 1]_vars
  BY StepClosesOnce DEF ClosedOnce
<1>. QED BY <1>1, IInvHolds, PTL DEF Spec, RemovedValuesClosedOnce

-----------------------------------------------------------------------------
(* The refinement of the timed map, a step at a time.                       *)

UsedAt == [k \in Key |-> IF store[k] = NoValue THEN -1 ELSE lastTime[k]]

LEMMA MapInit == ASSUME Init PROVE Map!Init
BY DEF Init, Map!Init, NotSweeping

(* When the loop ends no entry is due: the stamp of its last visit is still *)
(* in _last_visits, and the first stamp there is no later.                  *)
LEMMA NothingLeft == ASSUME IInv, Sweeping, ~Due, NEW k \in Key PROVE ~Expired(k)
<1> SUFFICES ASSUME store[k] # NoValue PROVE ~(sweepNow - lastTime[k] > Timeout)
  BY DEF Expired
<1> DEFINE t == lastTime[k]
<1>0. /\ lastVisits \in Seq(Time) /\ timeToKeys \in [Time -> Seq(Key)] /\ sweepNow \in Time
      /\ Ascending(lastVisits) /\ Timeout \in Nat
  BY Matching, CacheAssumption DEF IInv, QueueConsistent, TypeOK, Sweeping, CacheAssumption
<1>1. t \in Time /\ \E i \in 1 .. Len(timeToKeys[t]) : timeToKeys[t][i] = k
  BY DEF IInv, EntriesInBuckets
<1>2. Len(timeToKeys[t]) \in Nat /\ Len(timeToKeys[t]) # 0
  BY <1>0, <1>1
<1>3. Cardinality(Stamps(lastVisits, t)) # 0
  BY <1>1, <1>2, Matching DEF IInv, QueueConsistent
<1>4. Stamps(lastVisits, t) # {}
  BY <1>3, FS_EmptySet
<1>5. PICK i \in 1 .. Len(lastVisits) : lastVisits[i] = t
  BY <1>4 DEF Stamps
<1>6. lastVisits # <<>> /\ Head(lastVisits) = lastVisits[1] /\ Head(lastVisits) \in Time
      /\ Len(lastVisits) \in Nat
  BY <1>0, <1>5
<1>7. t \in Int /\ Head(lastVisits) \in Int /\ sweepNow \in Int /\ Timeout \in Int
  BY <1>0, <1>1, <1>6, Times
<1> HIDE DEF t
<1>8. Head(lastVisits) <= t
  <2>1. CASE i = 1
    BY <1>5, <1>6, <1>7, <2>1
  <2>2. CASE i # 1
    BY <1>0, <1>5, <1>6, <2>2 DEF Ascending
  <2>. QED BY <2>1, <2>2
<1>9. ~(sweepNow - Head(lastVisits) > Timeout)
  BY <1>6 DEF Due
<1>. QED BY <1>8, <1>9, <1>7 DEF t

LEMMA ExpiredSame == ASSUME NEW k \in Key PROVE Map!Expired(k) <=> Expired(k)
BY DEF Map!Expired, Expired

LEMMA MapStep == ASSUME IInv, [Next]_vars PROVE [Map!Next]_(Map!vars)
<1>0. /\ clock \in Time /\ store \in [Key -> Value \cup {NoValue}]
      /\ lastTime \in [Key -> Time \cup {Never}]
  BY DEF IInv, QueueConsistent, TypeOK
<1>1. CASE UNCHANGED vars \/ Tick
  BY <1>1 DEF vars, Tick, Map!vars
<1>2. ASSUME NEW k \in Key, GetItem(k) PROVE [Map!Next]_(Map!vars)
  <2>1. /\ lastTime' = [lastTime EXCEPT ![k] = clock] /\ sweepNow = NotSweeping
        /\ UNCHANGED <<store, sweepNow>>
    BY <1>2 DEF GetItem, Visit, Sweeping
  <2>2. CASE store[k] = NoValue
    <3>1. UsedAt' = UsedAt
      BY <1>0, <2>1, <2>2 DEF UsedAt
    <3>. QED BY <2>1, <3>1 DEF UsedAt, Map!vars
  <2>3. CASE store[k] # NoValue
    <3>1. UsedAt' = [UsedAt EXCEPT ![k] = clock]
      BY <1>0, <2>1, <2>3 DEF UsedAt
    <3>2. PICK t \in Time : t = clock
      BY <1>0
    <3>3. Map!Use(k, t)
      BY <2>1, <2>3, <3>1, <3>2 DEF UsedAt, Map!Use, Map!Idle, NotSweeping
    <3>. QED BY <3>3 DEF Map!Next
  <2>. QED BY <2>2, <2>3
<1>3. ASSUME NEW k \in Key, NEW v \in Value, SetItem(k, v) PROVE Map!Next
  <2>1. /\ lastTime' = [lastTime EXCEPT ![k] = clock] /\ sweepNow = NotSweeping
        /\ store' = [store EXCEPT ![k] = v] /\ UNCHANGED sweepNow /\ v # NoValue
    BY <1>3, Times DEF SetItem, Visit, Sweeping
  <2>2. UsedAt' = [UsedAt EXCEPT ![k] = clock]
    BY <1>0, <2>1 DEF UsedAt
  <2>3. PICK t \in Time : t = clock
    BY <1>0
  <2>4. Map!Put(k, v, t)
    BY <2>1, <2>2, <2>3 DEF UsedAt, Map!Put, Map!Idle, NotSweeping
  <2>. QED BY <2>4 DEF Map!Next
<1>4. ASSUME NEW k \in Key, DelItem(k) PROVE Map!Next
  <2>1. /\ store' = [store EXCEPT ![k] = NoValue] /\ lastTime' = [lastTime EXCEPT ![k] = Never]
        /\ sweepNow = NotSweeping /\ UNCHANGED sweepNow
    BY <1>4 DEF DelItem, Sweeping
  <2>2. UsedAt' = [UsedAt EXCEPT ![k] = -1]
    BY <1>0, <2>1 DEF UsedAt
  <2>3. Map!Remove(k)
    BY <2>1, <2>2 DEF UsedAt, Map!Remove, Map!Idle, NotSweeping
  <2>. QED BY <2>3 DEF Map!Next
<1>5. CASE SweepStart
  <2>1. sweepNow' = clock /\ sweepNow = NotSweeping /\ UNCHANGED <<store, lastTime>>
    BY <1>5 DEF SweepStart, Sweeping
  <2>2. PICK t \in Time : t = clock
    BY <1>0
  <2>3. Map!StartSweep(t)
    BY <2>1, <2>2 DEF Map!StartSweep, Map!Idle, NotSweeping
  <2>. QED BY <2>3 DEF Map!Next
<1>6. CASE SweepBucket
  <2> DEFINE bucket == timeToKeys[Head(lastVisits)]
             gone == {j \in Key : Expired(j) /\ \E i \in 1 .. Len(bucket) : bucket[i] = j}
  <2>1. /\ store' = [k \in Key |-> IF k \in gone THEN NoValue ELSE store[k]]
        /\ lastTime' = [k \in Key |-> IF k \in gone THEN Never ELSE lastTime[k]]
        /\ sweepNow # NotSweeping /\ UNCHANGED sweepNow
    BY <1>6 DEF SweepBucket, Sweeping
  <2>2. PICK S \in SUBSET Key : S = gone
    OBVIOUS
  <2>3. \A k \in S : Map!Expired(k)
    BY <2>2, ExpiredSame
  <2> HIDE DEF gone
  <2>4. UsedAt' = [k \in Key |-> IF k \in S THEN -1 ELSE UsedAt[k]]
    BY <1>0, <2>1, <2>2 DEF UsedAt
  <2>5. Map!Expire(S)
    BY <2>1, <2>2, <2>3, <2>4 DEF UsedAt, Map!Expire, Map!Idle, NotSweeping
  <2>. QED BY <2>5 DEF Map!Next
<1>7. CASE SweepEnd
  <2>1. sweepNow # NotSweeping /\ sweepNow' = NotSweeping /\ UNCHANGED <<store, lastTime>>
    BY <1>7 DEF SweepEnd, Sweeping
  <2>2. \A k \in Key : ~Map!Expired(k)
    BY <1>7, NothingLeft, ExpiredSame DEF SweepEnd
  <2>3. Map!EndSweep
    BY <2>1, <2>2 DEF Map!EndSweep, Map!Idle, NotSweeping
  <2>. QED BY <2>3 DEF Map!Next
<1>. QED BY <1>1, <1>2, <1>3, <1>4, <1>5, <1>6, <1>7 DEF Next

(* The cache with its queue of stamps and its buckets is a timed map: a     *)
(* sweep removes nothing that was used within the timeout and, when it      *)
(* ends, has left nothing that was not, whatever the visits in between.     *)
THEOREM CacheIsTimedMap == Spec => ImplementsTimedMap
<1>1. Init => Map!Init
  BY MapInit
<1>2. IInv /\ [Next]_vars => [Map!Next]_(Map!vars)
  BY MapStep
<1>. QED BY <1>1, <1>2, IInvHolds, PTL DEF Spec, ImplementsTimedMap
=================================================================================

---------------------------- MODULE FrontEnds_proofs -----------------------------
(* Theorems about the three front ends, for any set of browsers, any number of  *)
(* connections, descriptors, datagrams and answers.                             *)
EXTENDS MCFrontEnds, Sequences, FiniteSetTheorems, WellFoundedInduction, TLAPS

-----------------------------------------------------------------------------------
(* The lowest free descriptor exists: of the initial segments that end in a     *)
(* member of a set of descriptors, one has no other inside.                     *)
LEMMA LowestExists ==
    ASSUME NEW n \in Nat, NEW S \in SUBSET (0 .. n - 1), S # {}
    PROVE  \E x \in S : \A y \in S : x <= y
<1> DEFINE T == {0 .. k : k \in S}
           R == StrictSubsetOrdering(0 .. n)
<1>1. IsFiniteSet(0 .. n)
  BY FS_Interval
<1>2. IsWellFoundedOn(R, SUBSET (0 .. n))
  BY <1>1, FS_StrictSubsetOrderingWellFounded, FS_FiniteSubsetsOfFinite, Zenon
<1> HIDE DEF R
<1>3. T \subseteq SUBSET (0 .. n) /\ T # {}
  <2>1. ASSUME NEW k \in S PROVE 0 .. k \in SUBSET (0 .. n)
    OBVIOUS
  <2>2. PICK k \in S : TRUE
    OBVIOUS
  <2>3. 0 .. k \in T
    OBVIOUS
  <2>. QED BY <2>1, <2>3, Zenon
<1>4. PICK t \in T : \A u \in T : ~ (<<u, t>> \in R)
  <2> HIDE DEF T
  <2>. QED BY <1>2, <1>3, WFMin
<1>5. PICK x \in S : t = 0 .. x
  OBVIOUS
<1>6. ASSUME NEW y \in S PROVE x <= y
  <2>1. <<0 .. y, 0 .. x>> \notin R
    BY <1>4, <1>5
  <2>2. x \in 0 .. n /\ y \in 0 .. n
    OBVIOUS
  <2>3. CASE y < x
    <3>1. 0 .. y \subseteq 0 .. x /\ 0 .. y # 0 .. x /\ 0 .. x \subseteq 0 .. n
      <4>1. x \in 0 .. x /\ x \notin 0 .. y
        BY <2>2, <2>3
      <4>. QED BY <2>2, <2>3, <4>1
    <3>2. <<0 .. y, 0 .. x>> \in R
      BY <3>1 DEF R, StrictSubsetOrdering
    <3>. QED BY <2>1, <3>2
  <2>. QED BY <2>2, <2>3
<1>. QED BY <1>6

LEMMA MinIsLowest ==
    ASSUME NEW S \in SUBSET (0 .. MaxFd - 1), S # {}
    PROVE  Https!Min(S) \in S /\ Udp!Min(S) \in S
<1>1. \E x \in S : \A y \in S : x <= y
  BY LowestExists, FrontEndAssumption DEF FrontEndAssumption
<1>2. Https!Min(S) \in S
  BY <1>1 DEF Https!Min
<1>3. Udp!Min(S) \in S
  BY <1>1 DEF Udp!Min
<1>. QED BY <1>2, <1>3

-----------------------------------------------------------------------------------
(* The UDP front end: the socket the receiving thread is adding is in the       *)
(* loop's tables as far as the thread has come, and no poll has seen it.        *)
UdpInv ==
    /\ open \subseteq Udp!Fds
    /\ watched \subseteq mapped /\ polled \subseteq watched /\ mapped \subseteq open
    /\ receiver = "map" => rsock \in open \ mapped
    /\ receiver = "epoll" => rsock \in mapped \ watched

LEMMA UdpStep ==
    ASSUME UdpInv, Udp!Next PROVE UdpInv'
<1>1. ASSUME NEW kind \in Udp!Kinds, Udp!Receive(kind) PROVE UdpInv'
  BY <1>1 DEF Udp!Receive, Udp!CanReceive, Udp!Loaded, Udp!shared, Udp!network, UdpInv
<1>2. CASE Udp!ReceiveFails
  BY <1>2 DEF Udp!ReceiveFails, Udp!CanReceive, Udp!Loaded, Udp!shared, Udp!network, UdpInv
<1>3. CASE Udp!MakeSocket
  <2>1. open # Udp!Fds => Udp!Min(Udp!Fds \ open) \in Udp!Fds \ open
    BY MinIsLowest DEF UdpInv, Udp!Fds
  <2>. QED BY <1>3, <2>1 DEF Udp!MakeSocket, Udp!library, Udp!network, UdpInv
<1>4. CASE Udp!AddToMap
  BY <1>4 DEF Udp!AddToMap, Udp!library, Udp!network, UdpInv
<1>5. CASE Udp!Register
  BY <1>5 DEF Udp!Register, Udp!library, Udp!network, UdpInv
<1>6. CASE Udp!SendOn
  BY <1>6 DEF Udp!SendOn, Udp!library, Udp!shared, Udp!network, UdpInv
<1>7. CASE Udp!Poll
  BY <1>7 DEF Udp!Poll, Udp!library, Udp!shared, Udp!network, UdpInv
<1>8. ASSUME NEW f \in Udp!Fds, Udp!Reply(f) PROVE UdpInv'
  BY <1>8 DEF Udp!Reply, Udp!library, Udp!shared, UdpInv
<1>9. ASSUME NEW f \in Udp!Fds, Udp!Dispatch(f) PROVE UdpInv'
  BY <1>9 DEF Udp!Dispatch, Udp!library, Udp!shared, UdpInv
<1>. QED BY <1>1, <1>2, <1>3, <1>4, <1>5, <1>6, <1>7, <1>8, <1>9 DEF Udp!Next

(* With the receiving thread at any point of adding a socket to the EventLoop   *)
(* while the loop thread polls, dispatches and closes sockets whose numbers are *)
(* used again at once, poll() finds a handler for whatever epoll reports, and   *)
(* what a batch reports is still open (udp-server.py, EventLoop.add).           *)
THEOREM UdpPollFindsHandlers == Spec => []PollFindsHandlers
<1>1. Init => UdpInv
  BY DEF Init, Udp!Init, UdpInv, Udp!Fds
<1>2. UdpInv /\ [Next]_vars => UdpInv'
  <2> SUFFICES ASSUME UdpInv, [Next]_vars PROVE UdpInv'
    OBVIOUS
  <2>1. CASE RunUdpServer
    BY <2>1, UdpStep DEF RunUdpServer
  <2>2. CASE RunBackwardProxy \/ RunHttpsServer \/ UNCHANGED vars
    BY <2>2 DEF RunBackwardProxy, RunHttpsServer, vars, udpVars, UdpInv
  <2>. QED BY <2>1, <2>2 DEF Next
<1>3. UdpInv => PollFindsHandlers
  BY DEF UdpInv, PollFindsHandlers, Udp!PollFindsHandlers
<1>. QED BY <1>1, <1>2, <1>3, PTL DEF Spec

-----------------------------------------------------------------------------------
(* What the library holds after n calls of recvmsg, as an operator on them.     *)
HeldOf(r, n) ==
    LET calls == {i \in 1 .. n : r[i] # Failed}
    IN  IF calls = {} THEN None ELSE r[Udp!Max(calls)]

LEMMA MaxIsHighest ==
    ASSUME NEW n \in Nat, NEW S \in SUBSET (1 .. n), S # {}
    PROVE  Udp!Max(S) \in S /\ \A y \in S : y <= Udp!Max(S)
<1> DEFINE T == {n - i : i \in S}
<1>1. T \in SUBSET (0 .. n - 1) /\ T # {}
  <2>1. ASSUME NEW i \in S PROVE n - i \in 0 .. n - 1
    OBVIOUS
  <2>2. PICK i \in S : TRUE
    OBVIOUS
  <2>3. n - i \in T
    OBVIOUS
  <2>. QED BY <2>1, <2>3, Zenon
<1>2. PICK t \in T : \A u \in T : t <= u
  <2> HIDE DEF T
  <2>. QED BY <1>1, LowestExists
<1>3. PICK x \in S : t = n - x
  OBVIOUS
<1>4. ASSUME NEW y \in S PROVE x >= y
  <2>1. n - x <= n - y
    BY <1>2, <1>3
  <2>. QED BY <2>1
<1>5. \E z \in S : \A y \in S : z >= y
  BY <1>4
<1>6. Udp!Max(S) \in S /\ \A y \in S : Udp!Max(S) >= y
  BY <1>5 DEF Udp!Max
<1>7. \A y \in S : y \in Nat
  OBVIOUS
<1>. QED BY <1>6, <1>7

LEMMA HeldSame ==
    ASSUME NEW r, NEW s, NEW n \in Nat, \A i \in 1 .. n : r[i] = s[i]
    PROVE  HeldOf(r, n) = HeldOf(s, n)
<1> DEFINE calls == {i \in 1 .. n : r[i] # Failed}
<1>1. calls = {i \in 1 .. n : s[i] # Failed}
  OBVIOUS
<1>2. calls # {} => Udp!Max(calls) \in calls
  BY MaxIsHighest
<1>3. calls # {} => r[Udp!Max(calls)] = s[Udp!Max(calls)]
  BY <1>2
<1> HIDE DEF calls
<1>. QED BY <1>1, <1>3 DEF HeldOf, calls

LEMMA HeldNext ==
    ASSUME NEW r, NEW n \in Nat
    PROVE  HeldOf(r, n + 1) = IF r[n + 1] # Failed THEN r[n + 1] ELSE HeldOf(r, n)
<1> DEFINE calls == {i \in 1 .. n + 1 : r[i] # Failed}
<1>1. CASE r[n + 1] # Failed
  <2>1. n + 1 \in calls /\ calls \in SUBSET (1 .. n + 1)
    BY <1>1
  <2>2. Udp!Max(calls) \in calls /\ n + 1 <= Udp!Max(calls)
    <3>1. n + 1 \in Nat /\ calls # {}
      BY <2>1
    <3>. HIDE DEF calls
    <3>2. Udp!Max(calls) \in calls /\ \A y \in calls : y <= Udp!Max(calls)
      BY <2>1, <3>1, MaxIsHighest, Zenon
    <3>. QED BY <2>1, <3>2
  <2>3. Udp!Max(calls) = n + 1
    BY <2>2
  <2>4. calls # {}
    BY <2>1
  <2>. HIDE DEF calls
  <2>. QED BY <1>1, <2>3, <2>4 DEF HeldOf, calls
<1>2. CASE r[n + 1] = Failed
  <2>1. calls = {i \in 1 .. n : r[i] # Failed}
    BY <1>2
  <2>. QED BY <1>2, <2>1 DEF HeldOf
<1>. QED BY <1>1, <1>2

(* by says behind which call each datagram passed on was held; the thread has   *)
(* the last one in hand, or has ended on it.                                    *)
Hand == {"socket", "map", "epoll", "send"}

PassedBy(by, p, r, stop) ==
    /\ by \in [1 .. Len(p) -> 1 .. Len(r)]
    /\ \A i, j \in 1 .. Len(p) : i < j => by[i] < by[j]
    /\ \A i \in 1 .. Len(p) : p[i] = HeldOf(r, by[i]) /\ Udp!IsText(p[i])
    /\ \A n \in 1 .. Len(r) : Udp!IsText(HeldOf(r, n)) =>
          (\E i \in 1 .. Len(p) : by[i] = n) \/ (n = Len(r) /\ stop # "recv")
    /\ stop \in Hand => \A i \in 1 .. Len(p) : by[i] # Len(r)

Datagram == [number : 1 .. MaxReceipts, kind : Udp!Kinds]

PassInv ==
    /\ receipts \in Seq(Datagram \cup {Failed}) /\ passedOn \in Seq(Datagram)
    /\ latest \in Datagram \cup {None} /\ latest = HeldOf(receipts, Len(receipts))
    /\ receiver \in Hand => Udp!IsText(latest)
    /\ \E by : PassedBy(by, passedOn, receipts, receiver)

(* Steps of the thread that neither receive nor send.                           *)
LEMMA PassStays ==
    ASSUME PassInv, UNCHANGED <<receipts, passedOn, latest>>,
           receiver' = receiver \/ (receiver \in Hand /\ receiver' \in Hand \cup {"ended"})
    PROVE  PassInv'
<1>. PICK by : PassedBy(by, passedOn, receipts, receiver)
  BY DEF PassInv
<1>1. PassedBy(by, passedOn, receipts, receiver')
  BY DEF PassedBy, Hand
<1>. QED BY <1>1 DEF PassInv

(* A call of recvmsg, and where main_handle goes with what is held.             *)
LEMMA ReceiptKeeps ==
    ASSUME PassInv, receiver = "recv", NEW x \in Datagram \cup {Failed},
           receipts' = Append(receipts, x), passedOn' = passedOn,
           latest' = IF x = Failed THEN latest ELSE x,
           receiver' = IF latest' = None THEN "ended"
                       ELSE IF latest'.kind = "text" THEN "socket" ELSE "recv"
    PROVE  PassInv'
<1>. PICK by : PassedBy(by, passedOn, receipts, receiver)
  BY DEF PassInv
<1>. PICK n \in Nat : n = Len(receipts)
  BY DEF PassInv
<1>. PICK m \in Nat : m = Len(passedOn)
  BY DEF PassInv
<1>1. /\ receipts' \in Seq(Datagram \cup {Failed}) /\ Len(receipts') = n + 1
      /\ receipts'[n + 1] = x /\ \A i \in 1 .. n : receipts'[i] = receipts[i]
  BY DEF PassInv
<1>2. \A i \in 1 .. n : HeldOf(receipts', i) = HeldOf(receipts, i)
  <2> SUFFICES ASSUME NEW i \in 1 .. n PROVE HeldOf(receipts', i) = HeldOf(receipts, i)
    OBVIOUS
  <2>1. i \in Nat /\ \A j \in 1 .. i : receipts'[j] = receipts[j]
    BY <1>1
  <2>. QED BY <2>1, HeldSame
<1>3. HeldOf(receipts', n) = HeldOf(receipts, n)
  BY <1>1, HeldSame
<1>4. latest' = HeldOf(receipts', n + 1) /\ latest' \in Datagram \cup {None}
  <2>1. latest = HeldOf(receipts, n) /\ latest \in Datagram \cup {None}
    BY DEF PassInv
  <2>. QED BY <1>1, <1>3, <2>1, HeldNext
<1>5. receiver' \in Hand <=> Udp!IsText(latest')
  BY DEF Hand, Udp!IsText
<1>6. receiver' = "recv" => ~Udp!IsText(latest')
  BY DEF Udp!IsText
<1>7. 1 .. n + 1 = (1 .. n) \cup {n + 1} /\ n + 1 \notin 1 .. n
  OBVIOUS
<1>8. PassedBy(by, passedOn, receipts', receiver')
  <2>1. by \in [1 .. m -> 1 .. n]
    BY DEF PassedBy
  <2>2. /\ \A i \in 1 .. m : passedOn[i] = HeldOf(receipts, by[i]) /\ Udp!IsText(passedOn[i])
        /\ \A i, j \in 1 .. m : i < j => by[i] < by[j]
    BY DEF PassedBy
  <2>3. \A i \in 1 .. m : passedOn[i] = HeldOf(receipts', by[i])
    BY <1>2, <2>1, <2>2
  <2>4. ASSUME NEW k \in 1 .. n + 1, Udp!IsText(HeldOf(receipts', k))
        PROVE  (\E i \in 1 .. m : by[i] = k) \/ (k = n + 1 /\ receiver' # "recv")
    <3>1. CASE k = n + 1
      BY <1>4, <1>6, <2>4, <3>1
    <3>2. CASE k \in 1 .. n
      BY <1>2, <2>4, <3>2 DEF PassedBy
    <3>. QED BY <1>7, <3>1, <3>2
  <2>5. \A i \in 1 .. m : by[i] # n + 1
    BY <1>7, <2>1
  <2>6. by \in [1 .. m -> 1 .. n + 1]
    BY <1>7, <2>1
  <2>. QED BY <1>1, <2>2, <2>3, <2>4, <2>5, <2>6 DEF PassedBy
<1>. QED BY <1>1, <1>4, <1>5, <1>8 DEF PassInv

(* Sending passes on what the last call left.                                   *)
LEMMA SendKeepsPassed ==
    ASSUME PassInv, receiver = "send", receiver' = "recv", UNCHANGED <<receipts, latest>>,
           passedOn' = Append(passedOn, latest)
    PROVE  PassInv'
<1>. PICK by : PassedBy(by, passedOn, receipts, receiver)
  BY DEF PassInv
<1>. PICK n \in Nat : n = Len(receipts)
  BY DEF PassInv
<1>. PICK m \in Nat : m = Len(passedOn)
  BY DEF PassInv
<1>1. Udp!IsText(latest) /\ latest \in Datagram /\ latest = HeldOf(receipts, n)
  BY DEF PassInv, Hand, Udp!IsText
<1>2. /\ passedOn' \in Seq(Datagram) /\ Len(passedOn') = m + 1
      /\ passedOn'[m + 1] = latest /\ \A i \in 1 .. m : passedOn'[i] = passedOn[i]
  BY <1>1 DEF PassInv
<1>3. n \in 1 .. n
  <2>1. n # 0
    BY <1>1 DEF HeldOf, Udp!IsText
  <2>. QED BY <2>1
<1>4. by \in [1 .. m -> 1 .. n] /\ \A i \in 1 .. m : by[i] # n
  BY DEF PassedBy, Hand
<1>5. 1 .. m + 1 = (1 .. m) \cup {m + 1} /\ m + 1 \notin 1 .. m
  OBVIOUS
<1> DEFINE to == [i \in 1 .. m + 1 |-> IF i = m + 1 THEN n ELSE by[i]]
<1>6. to \in [1 .. m + 1 -> 1 .. n] /\ to[m + 1] = n /\ \A i \in 1 .. m : to[i] = by[i]
  BY <1>3, <1>4, <1>5
<1> HIDE DEF to
<1>7. PassedBy(to, passedOn', receipts, "recv")
  <2>1. ASSUME NEW i \in 1 .. m + 1, NEW j \in 1 .. m + 1, i < j PROVE to[i] < to[j]
    <3>1. i \in 1 .. m /\ to[i] = by[i] /\ by[i] \in 1 .. n /\ by[i] # n
      BY <1>4, <1>6, <2>1
    <3>2. CASE j \in 1 .. m
      BY <1>6, <2>1, <3>1, <3>2 DEF PassedBy
    <3>3. CASE j = m + 1
      BY <1>6, <3>1, <3>3
    <3>. QED BY <1>5, <3>2, <3>3
  <2>2. ASSUME NEW i \in 1 .. m + 1
        PROVE  passedOn'[i] = HeldOf(receipts, to[i]) /\ Udp!IsText(passedOn'[i])
    <3>1. CASE i \in 1 .. m
      BY <1>2, <1>6, <3>1 DEF PassedBy
    <3>2. CASE i = m + 1
      BY <1>1, <1>2, <1>6, <3>2
    <3>. QED BY <1>5, <3>1, <3>2
  <2>3. ASSUME NEW k \in 1 .. n, Udp!IsText(HeldOf(receipts, k))
        PROVE  \E i \in 1 .. m + 1 : to[i] = k
    <3>1. (\E i \in 1 .. m : by[i] = k) \/ k = n
      BY <2>3 DEF PassedBy
    <3>. QED BY <1>5, <1>6, <3>1
  <2>. QED BY <1>2, <1>6, <2>1, <2>2, <2>3 DEF PassedBy, Hand
<1>. QED BY <1>2, <1>7 DEF PassInv, Hand

LEMMA DatagramHeld ==
    \A d \in Datagram : d # None /\ d # Failed
BY FrontEndAssumption DEF FrontEndAssumption, Datagram, Udp!Kinds

LEMMA PassStep ==
    ASSUME PassInv, Udp!Next PROVE PassInv'
<1>1. ASSUME NEW kind \in Udp!Kinds, Udp!Receive(kind) PROVE PassInv'
  <2>. PICK d : d = [number |-> Len(receipts) + 1, kind |-> kind]
    OBVIOUS
  <2>1. d \in Datagram
    <3>1. Len(receipts) + 1 \in 1 .. MaxReceipts
      <4>1. Len(receipts) \in Nat /\ Len(receipts) < MaxReceipts
        BY <1>1 DEF Udp!Receive, Udp!CanReceive, PassInv
      <4>. QED BY <4>1, FrontEndAssumption DEF FrontEndAssumption
    <3>. QED BY <3>1 DEF Datagram
  <2>2. d # Failed
    BY <2>1, DatagramHeld
  <2>. QED BY <1>1, <2>1, <2>2, ReceiptKeeps DEF Udp!Receive, Udp!CanReceive, Udp!Loaded
<1>2. CASE Udp!ReceiveFails
  BY <1>2, ReceiptKeeps DEF Udp!ReceiveFails, Udp!CanReceive, Udp!Loaded
<1>3. CASE Udp!MakeSocket \/ Udp!AddToMap \/ Udp!Register
  BY <1>3, PassStays DEF Udp!MakeSocket, Udp!AddToMap, Udp!Register, Udp!library, Hand
<1>4. CASE Udp!SendOn
  <2>1. CASE receiver' = "recv"
    BY <1>4, <2>1, SendKeepsPassed DEF Udp!SendOn, Udp!library
  <2>2. CASE receiver' # "recv"
    BY <1>4, <2>2, PassStays DEF Udp!SendOn, Udp!library, Hand
  <2>. QED BY <2>1, <2>2
<1>5. CASE Udp!Poll
  BY <1>5, PassStays DEF Udp!Poll, Udp!library
<1>6. ASSUME NEW f \in Udp!Fds, Udp!Reply(f) \/ Udp!Dispatch(f) PROVE PassInv'
  BY <1>6, PassStays DEF Udp!Reply, Udp!Dispatch, Udp!library
<1>. QED BY <1>1, <1>2, <1>3, <1>4, <1>5, <1>6 DEF Udp!Next

(* Every datagram is passed on once, in order, and once more for each receipt   *)
(* that failed behind it: what the library holds then is what it held before    *)
(* (udp-server.py, main_handle; recv_main keeps j).                             *)
THEOREM UdpPassedOnPerReceipt == Spec => []PassedOnPerReceipt
<1>1. Init => PassInv
  <2> SUFFICES ASSUME Init PROVE PassInv
    OBVIOUS
  <2>1. receipts = <<>> /\ passedOn = <<>> /\ latest = None /\ receiver = "recv"
    BY DEF Init, Udp!Init
  <2>2. Len(receipts) = 0 /\ Len(passedOn) = 0 /\ 1 .. 0 = {}
    BY <2>1
  <2>3. HeldOf(receipts, 0) = None
    BY <2>2 DEF HeldOf
  <2>4. PassedBy([i \in {} |-> 1], passedOn, receipts, receiver)
    BY <2>1, <2>2 DEF PassedBy, Hand
  <2>. QED BY <2>1, <2>2, <2>3, <2>4 DEF PassInv, Hand
<1>2. PassInv /\ [Next]_vars => PassInv'
  <2> SUFFICES ASSUME PassInv, [Next]_vars PROVE PassInv'
    OBVIOUS
  <2>1. CASE RunUdpServer
    BY <2>1, PassStep DEF RunUdpServer
  <2>2. CASE RunBackwardProxy \/ RunHttpsServer \/ UNCHANGED vars
    BY <2>2, PassStays DEF RunBackwardProxy, RunHttpsServer, vars, udpVars, Udp!library
  <2>. QED BY <2>1, <2>2 DEF Next
<1>3. PassInv => PassedOnPerReceipt
  <2> SUFFICES ASSUME PassInv PROVE PassedOnPerReceipt
    OBVIOUS
  <2>. PICK by : PassedBy(by, passedOn, receipts, receiver)
    BY DEF PassInv
  <2>1. DOMAIN receipts = 1 .. Len(receipts) /\ DOMAIN passedOn = 1 .. Len(passedOn)
    BY DEF PassInv
  <2>2. by \in [1 .. Len(passedOn) -> 1 .. Len(receipts)] /\ DOMAIN by = 1 .. Len(passedOn)
    BY DEF PassedBy
  <2>3. \A n : Udp!Held(n) = HeldOf(receipts, n)
    BY DEF Udp!Held, HeldOf
  <2>4. /\ \A i, j \in DOMAIN by : i < j => by[i] < by[j]
        /\ \A i \in DOMAIN by :
              passedOn[i] = HeldOf(receipts, by[i]) /\ Udp!IsText(HeldOf(receipts, by[i]))
        /\ \A n \in DOMAIN receipts : Udp!IsText(HeldOf(receipts, n)) =>
              (\E i \in DOMAIN by : by[i] = n) \/ (n = Len(receipts) /\ receiver # "recv")
    BY <2>1, <2>2 DEF PassedBy
  <2>. QED BY <2>1, <2>2, <2>3, <2>4, Zenon DEF PassedOnPerReceipt, Udp!PassedOnPerReceipt
<1>. QED BY <1>1, <1>2, <1>3, PTL DEF Spec

-----------------------------------------------------------------------------------
(* The HTTPS front end: a connection has an rSock only once it is reading, no   *)
(* two connections have the same, and the entry of a watched one is its own.    *)
OwnSocket ==
    /\ stage \in [Conns -> {"new", "backlog", "asking", "reading", "open", "closed"}]
    /\ rFd \in [Conns -> SUBSET Https!Fds]
    /\ cFd \in [Conns -> SUBSET Https!Fds]
    /\ proxy \in [Conns -> {"open", "rst", "fin"}]
    /\ answered \in [Conns -> Nat]
    /\ fdmap \in [Https!Fds -> Conns \cup {NoConn}]
    /\ registered \subseteq Https!Fds /\ batch \subseteq Https!Fds \cup {Listen}
    /\ \A c, d \in Conns : rFd[c] \cap rFd[d] # {} => c = d
    /\ \A c \in Conns : stage[c] \in {"new", "backlog", "asking"} => rFd[c] = {}
HttpsInv == OwnSocket /\ EventsReachOwners

LEMMA ListenApart == Listen \notin Https!Fds
BY FrontEndAssumption DEF FrontEndAssumption, Https!Fds

(* Steps that leave the loop's tables and what rSock has to report.             *)
LEMMA HttpsQuiet ==
    ASSUME HttpsInv, UNCHANGED <<rFd, fdmap, registered>>, batch' \subseteq batch,
           OwnSocket', \A c \in Conns : Https!Ready(c) => Https!Ready(c)'
    PROVE  HttpsInv'
<1>1. \A f \in registered : fdmap[f] \in Conns
  BY DEF HttpsInv, OwnSocket, EventsReachOwners, Https!EventsReachOwners
<1>. QED BY <1>1 DEF HttpsInv, EventsReachOwners, Https!EventsReachOwners, Https!Ready

LEMMA HttpsPeers ==
    ASSUME HttpsInv, NEW c \in Conns,
           \/ Https!Connect(c) \/ Https!BrowserSends(c) \/ Https!BrowserGoes(c)
           \/ Https!ProxyAnswers(c) \/ Https!ProxyEnds(c)
    PROVE  HttpsInv'
<1>1. CASE Https!Connect(c)
  BY <1>1, HttpsQuiet DEF Https!Connect, Https!peers, Https!loopState, HttpsInv, OwnSocket, Https!Ready
<1>2. CASE Https!BrowserSends(c)
  BY <1>2, HttpsQuiet DEF Https!BrowserSends, Https!loopState, HttpsInv, OwnSocket, Https!Ready
<1>3. CASE Https!BrowserGoes(c)
  BY <1>3, HttpsQuiet DEF Https!BrowserGoes, Https!loopState, HttpsInv, OwnSocket, Https!Ready
<1>4. CASE Https!ProxyAnswers(c)
  BY <1>4, HttpsQuiet DEF Https!ProxyAnswers, Https!loopState, HttpsInv, OwnSocket, Https!Ready
<1>5. CASE Https!ProxyEnds(c)
  BY <1>5, HttpsQuiet DEF Https!ProxyEnds, Https!loopState, HttpsInv, OwnSocket, Https!Ready
<1>. QED BY <1>1, <1>2, <1>3, <1>4, <1>5

LEMMA HttpsPoll ==
    ASSUME HttpsInv, Https!Poll PROVE HttpsInv'
<1>1. /\ batch' = (IF \E c \in Conns : stage[c] = "backlog" THEN {Listen} ELSE {})
                  \cup UNION {rFd[c] \cap registered : c \in {c \in Conns : Https!Ready(c)}}
      /\ UNCHANGED <<stage, cFd, rFd, proxy, answered, fdmap, registered>>
  BY DEF Https!Poll, Https!peers
<1>2. ASSUME NEW f \in batch' \ {Listen}
      PROVE  f \in registered /\ Https!Ready(fdmap[f])
  <2>1. PICK c \in Conns : Https!Ready(c) /\ f \in rFd[c] /\ f \in registered
    BY <1>1, <1>2
  <2>2. fdmap[f] \in Conns /\ f \in rFd[fdmap[f]]
    BY <2>1 DEF HttpsInv, OwnSocket, EventsReachOwners, Https!EventsReachOwners
  <2>3. c = fdmap[f]
    BY <2>1, <2>2 DEF HttpsInv, OwnSocket
  <2>. QED BY <2>1, <2>3
<1>3. OwnSocket'
  BY <1>1, <1>2 DEF HttpsInv, OwnSocket
<1>. QED BY <1>1, <1>2, <1>3 DEF HttpsInv, EventsReachOwners, Https!EventsReachOwners, Https!Ready

LEMMA HttpsAccept ==
    ASSUME HttpsInv, NEW c \in Conns, Https!Accept(c) PROVE HttpsInv'
<1>1. Https!Free # {} => Https!Min(Https!Free) \in Https!Fds
  BY MinIsLowest DEF Https!Free, Https!Fds
<1>2. OwnSocket'
  BY <1>1 DEF Https!Accept, Https!peers, HttpsInv, OwnSocket
<1>. QED BY <1>2, HttpsQuiet DEF Https!Accept, Https!peers, Https!Ready

LEMMA HttpsFails ==
    ASSUME HttpsInv, NEW c \in Conns, Https!ProxyFails(c) PROVE HttpsInv'
<1>1. rFd[c] = {} /\ rFd' = rFd
  BY DEF Https!ProxyFails, Https!Closes, HttpsInv, OwnSocket
<1>2. OwnSocket'
  BY <1>1 DEF Https!ProxyFails, Https!Closes, Https!peers, HttpsInv, OwnSocket
<1>. QED BY <1>1, <1>2, HttpsQuiet DEF Https!ProxyFails, Https!peers, Https!Ready

LEMMA HttpsFirstData ==
    ASSUME HttpsInv, NEW c \in Conns, Https!FirstData(c) PROVE HttpsInv'
<1>1. OwnSocket'
  BY DEF Https!FirstData, Https!peers, HttpsInv, OwnSocket
<1>. QED BY <1>1, HttpsQuiet DEF Https!FirstData, Https!peers, Https!Ready

(* The descriptor of the new rSock is nobody's, whatever _fdmap has for it.     *)
LEMMA HttpsConnected ==
    ASSUME HttpsInv, NEW c \in Conns, Https!ProxyConnected(c) PROVE HttpsInv'
<1>. PICK f : f = Https!Min(Https!Free)
  OBVIOUS
<1>1. f \in Https!Fds /\ \A d \in Conns : f \notin rFd[d]
  <2>1. f \in Https!Free
    BY MinIsLowest DEF Https!ProxyConnected, Https!Free, Https!Fds
  <2>2. ASSUME NEW d \in Conns
        PROVE  rFd[d] \subseteq UNION {cFd[e] \cup rFd[e] : e \in Conns}
    OBVIOUS
  <2>. QED BY <2>1, <2>2 DEF Https!Free
<1>2. /\ rFd' = [rFd EXCEPT ![c] = {f}] /\ fdmap' = [fdmap EXCEPT ![f] = c]
      /\ registered' = registered \cup {f} /\ stage' = [stage EXCEPT ![c] = "reading"]
      /\ stage[c] = "asking" /\ UNCHANGED <<cFd, proxy, answered, batch>>
  BY DEF Https!ProxyConnected, Https!AddToLoop, Https!peers
<1>3. rFd[c] = {}
  BY <1>2 DEF HttpsInv, OwnSocket
<1>4. OwnSocket'
  BY <1>1, <1>2 DEF HttpsInv, OwnSocket
<1>5. ASSUME NEW g \in registered
      PROVE  /\ g # f /\ fdmap'[g] = fdmap[g] /\ fdmap[g] \in Conns /\ fdmap[g] # NoConn
             /\ rFd'[fdmap[g]] = {g}
  <2>1. fdmap[g] \in Conns /\ rFd[fdmap[g]] = {g} /\ g \in Https!Fds /\ fdmap[g] # NoConn
    BY DEF HttpsInv, OwnSocket, EventsReachOwners, Https!EventsReachOwners
  <2>2. g # f /\ fdmap[g] # c
    BY <1>1, <1>3, <2>1
  <2>. QED BY <1>2, <2>1, <2>2 DEF HttpsInv, OwnSocket
<1>6. fdmap'[f] = c /\ rFd'[c] = {f} /\ c # NoConn
  BY <1>1, <1>2, FrontEndAssumption DEF HttpsInv, OwnSocket, FrontEndAssumption
<1>7. EventsReachOwners'
  BY <1>2, <1>5, <1>6 DEF HttpsInv, EventsReachOwners, Https!EventsReachOwners, Https!Ready
<1>. QED BY <1>4, <1>7 DEF HttpsInv

LEMMA HttpsDispatch ==
    ASSUME HttpsInv, NEW f \in Https!Fds, Https!RunBackward(f) PROVE HttpsInv'
<1>. PICK c : c = fdmap[f]
  OBVIOUS
<1>1. f \in batch /\ f # Listen /\ batch' = batch \ {f} /\ UNCHANGED fdmap
  BY ListenApart DEF Https!RunBackward
<1>2. f \in registered /\ c \in Conns /\ rFd[c] = {f}
  BY <1>1 DEF HttpsInv, OwnSocket, EventsReachOwners, Https!EventsReachOwners
<1>3. ASSUME NEW g \in registered \ {f}
      PROVE  fdmap[g] \in Conns /\ fdmap[g] # c /\ rFd[fdmap[g]] = {g} /\ fdmap[g] # NoConn
  BY <1>2 DEF HttpsInv, OwnSocket, EventsReachOwners, Https!EventsReachOwners
<1>4. ASSUME NEW d \in Conns, d # c PROVE Https!Ready(d)' <=> Https!Ready(d)
  BY <1>2, <1>4 DEF Https!RunBackward, Https!Ready, HttpsInv, OwnSocket
<1>5. OwnSocket' /\ registered' \subseteq registered /\ registered \ {f} \subseteq registered'
  <2>1. CASE answered[c] > 0
    BY <1>1, <1>2, <2>1 DEF Https!RunBackward, HttpsInv, OwnSocket
  <2>2. CASE ~(answered[c] > 0) /\ proxy[c] = "rst"
    BY <1>1, <1>2, <2>2 DEF Https!RunBackward, HttpsInv, OwnSocket
  <2>3. CASE ~(answered[c] > 0) /\ proxy[c] # "rst"
    BY <1>1, <1>2, <2>3 DEF Https!RunBackward, Https!Closes, HttpsInv, OwnSocket
  <2>. QED BY <2>1, <2>2, <2>3
<1>6. \A d \in Conns : d # c => rFd'[d] = rFd[d]
  BY <1>2 DEF Https!RunBackward, Https!Closes, HttpsInv, OwnSocket
<1>7. f \in registered' => rFd'[c] = {f}
  BY <1>2 DEF Https!RunBackward
<1>8. c # NoConn
  BY <1>1, <1>2 DEF HttpsInv, EventsReachOwners, Https!EventsReachOwners
<1>9. EventsReachOwners'
  <2>1. ASSUME NEW g \in registered' PROVE fdmap'[g] # NoConn /\ rFd'[fdmap'[g]] = {g}
    BY <1>1, <1>3, <1>5, <1>6, <1>7, <1>8
  <2>2. ASSUME NEW g \in batch' \ {Listen}
        PROVE  g \in registered' /\ Https!Ready(fdmap[g])'
    <3>1. g # f /\ g \in registered /\ Https!Ready(fdmap[g])
      BY <1>1, <2>2 DEF HttpsInv, EventsReachOwners, Https!EventsReachOwners
    <3>2. fdmap[g] \in Conns /\ fdmap[g] # c
      BY <1>3, <3>1
    <3>. QED BY <1>1, <1>4, <1>5, <3>1, <3>2 DEF Https!Ready
  <2>. QED BY <1>1, <2>1, <2>2 DEF EventsReachOwners, Https!EventsReachOwners, Https!Ready
<1>. QED BY <1>5, <1>9 DEF HttpsInv

(* Entries of closed sockets stay in _fdmap and descriptors are used again,     *)
(* also between a poll and the dispatch of its events; an event is handled all  *)
(* the same by the connection whose rSock has the descriptor, and finds it with *)
(* something to read: what is closed is no longer watched, and the next AsyncSocket *)
(* with the number writes its own entry before it is (asyncSocket.py).          *)
THEOREM HttpsEventsReachOwners == Spec => []EventsReachOwners
<1>1. Init => HttpsInv
  BY FrontEndAssumption DEF FrontEndAssumption, Init, Https!Init, HttpsInv, OwnSocket,
     EventsReachOwners, Https!EventsReachOwners
<1>2. HttpsInv /\ [Next]_vars => HttpsInv'
  <2> SUFFICES ASSUME HttpsInv, [Next]_vars PROVE HttpsInv'
    OBVIOUS
  <2>1. CASE RunHttpsServer
    <3>1. Https!Next
      BY <2>1 DEF RunHttpsServer
    <3>. QED BY <3>1, HttpsPeers, HttpsPoll, HttpsAccept, HttpsFails, HttpsFirstData,
                HttpsConnected, HttpsDispatch DEF Https!Next, Https!LoopStep
  <2>2. CASE RunBackwardProxy \/ RunUdpServer \/ UNCHANGED vars
    BY <2>2 DEF RunBackwardProxy, RunUdpServer, vars, httpsVars, HttpsInv, OwnSocket,
       EventsReachOwners, Https!EventsReachOwners, Https!Ready
  <2>. QED BY <2>1, <2>2 DEF Next
<1>3. HttpsInv => EventsReachOwners
  BY DEF HttpsInv
<1>. QED BY <1>1, <1>2, <1>3, PTL DEF Spec

-----------------------------------------------------------------------------------
(* The backward proxy: a closed connection has a reason, a thread that ended    *)
(* closed it, and only a thread between its recv and its send holds an answer.  *)
ThreadsInv ==
    /\ browser \in [Browsers -> {"new", "open", "gone"}]
    /\ connect \in [Browsers -> {"none", "open", "closed"}]
    /\ forward \in [Browsers -> {"none", "recv", "send", "ended"}]
    /\ backward \in [Browsers -> {"none", "recv", "send", "ended"}]
    /\ read \in [Browsers -> Nat] /\ out \in [Browsers -> Nat]
    /\ remote \in {"open", "fin", "rst"}
    /\ \A b \in Browsers :
        /\ browser[b] # "new" => connect[b] # "none"
        /\ browser[b] = "new" => forward[b] = "none" /\ backward[b] = "none"
        /\ connect[b] = "closed" => remote # "open" \/ browser[b] = "gone"
        /\ forward[b] = "ended" \/ backward[b] = "ended" => connect[b] = "closed"
        /\ forward[b] # "ended" => read[b] = out[b] + IF forward[b] = "send" THEN 1 ELSE 0
        /\ hand[b] # 0 => backward[b] = "send"

(* Every answer read has one place.                                             *)
InHand(n) == \E b \in Browsers : hand[b] = n
InGot(n) == \E b \in Browsers : \E i \in DOMAIN got[b] : got[b][i] = n

PlacesInv ==
    /\ taken \in Nat /\ hand \in [Browsers -> 0 .. taken]
    /\ got \in [Browsers -> Seq(1 .. taken)]
    /\ void \subseteq 1 .. taken /\ lost \subseteq 1 .. taken /\ void \cap lost = {}
    /\ \A n \in 1 .. taken : InHand(n) \/ InGot(n) \/ n \in void \/ n \in lost
    /\ \A b, c \in Browsers : hand[b] # 0 /\ hand[b] = hand[c] => b = c
    /\ \A b \in Browsers : hand[b] \notin void \cup lost
    /\ \A b, c \in Browsers : \A i \in DOMAIN got[c] :
        hand[b] # got[c][i] /\ got[c][i] \notin void \cup lost
    /\ \A b, c \in Browsers : \A i \in DOMAIN got[b], j \in DOMAIN got[c] :
        got[b][i] = got[c][j] => b = c /\ i = j

(* What a browser gets is in the order of rSock; an answer is read behind those *)
(* that the thread has sent on.                                                 *)
OrderInv ==
    /\ \A b \in Browsers : \A i, j \in DOMAIN got[b] : i < j => got[b][i] < got[b][j]
    /\ \A b \in Browsers : \A i \in DOMAIN got[b] :
        i <= got[b][i] /\ (hand[b] # 0 => got[b][i] < hand[b])

LostInv == lost # {} => remote # "open" \/ \E b \in Browsers : browser[b] = "gone"

BackInv == ThreadsInv /\ PlacesInv /\ OrderInv /\ LostInv

(* Steps that leave the answers where they are.                                 *)
LEMMA AnswersStay ==
    ASSUME BackInv, UNCHANGED <<taken, hand, got, void, lost>>, ThreadsInv',
           remote # "open" => remote' # "open",
           \A b \in Browsers : browser[b] = "gone" => browser'[b] = "gone"
    PROVE  BackInv'
BY DEF BackInv, PlacesInv, InHand, InGot, OrderInv, LostInv

LEMMA PeerSteps ==
    ASSUME BackInv,
           \/ Backward!RemoteAnswers \/ Backward!RemoteEnds
           \/ \E b \in Browsers :
                 Backward!Accept(b) \/ Backward!BrowserSends(b) \/ Backward!BrowserGoes(b)
    PROVE  BackInv'
<1>1. CASE Backward!RemoteAnswers
  BY <1>1, AnswersStay DEF Backward!RemoteAnswers, Backward!browserSide, Backward!threads,
     Backward!downlink, BackInv, ThreadsInv
<1>2. CASE Backward!RemoteEnds
  BY <1>2, AnswersStay DEF Backward!RemoteEnds, Backward!browserSide, Backward!threads,
     Backward!downlink, BackInv, ThreadsInv
<1>3. ASSUME NEW b \in Browsers, Backward!Accept(b) PROVE BackInv'
  BY <1>3, AnswersStay DEF Backward!Accept, Backward!remoteSide, Backward!downlink, BackInv, ThreadsInv
<1>4. ASSUME NEW b \in Browsers, Backward!BrowserSends(b) PROVE BackInv'
  BY <1>4, AnswersStay DEF Backward!BrowserSends, Backward!threads, Backward!remoteSide,
     Backward!downlink, BackInv, ThreadsInv
<1>5. ASSUME NEW b \in Browsers, Backward!BrowserGoes(b) PROVE BackInv'
  BY <1>5, AnswersStay DEF Backward!BrowserGoes, Backward!threads, Backward!remoteSide,
     Backward!downlink, BackInv, ThreadsInv
<1>. QED BY <1>1, <1>2, <1>3, <1>4, <1>5

LEMMA ForwardSteps ==
    ASSUME BackInv, NEW b \in Browsers, Backward!ForwardStep(b) PROVE BackInv'
<1>1. CASE Backward!ForwardReads(b)
  BY <1>1, AnswersStay DEF Backward!ForwardReads, Backward!browserSide, Backward!remoteSide,
     Backward!downlink, BackInv, ThreadsInv
<1>2. CASE Backward!ForwardEnds(b)
  BY <1>2, AnswersStay DEF Backward!ForwardEnds, Backward!Closed, Backward!browserSide,
     Backward!remoteSide, Backward!downlink, BackInv, ThreadsInv
<1>3. CASE Backward!ForwardSends(b)
  BY <1>3, AnswersStay DEF Backward!ForwardSends, Backward!browserSide, Backward!remoteSide,
     Backward!downlink, BackInv, ThreadsInv
<1>4. CASE Backward!ForwardSendRaises(b)
  BY <1>4, AnswersStay DEF Backward!ForwardSendRaises, Backward!Closed, Backward!Report,
     Backward!browserSide, Backward!downlink, BackInv, ThreadsInv
<1>. QED BY <1>1, <1>2, <1>3, <1>4 DEF Backward!ForwardStep

(* An answer that is read is the newest.                                        *)
LEMMA ReadKeeps ==
    ASSUME BackInv, NEW b \in Browsers, Backward!BackwardReads(b) PROVE BackInv'
<1>1. /\ UNCHANGED <<browser, sent, connect, forward, read, out, remote, answers, got, void, lost>>
      /\ backward[b] = "recv" /\ backward' = [backward EXCEPT ![b] = "send"]
  BY DEF Backward!BackwardReads, Backward!browserSide, Backward!remoteSide
<1>2. hand[b] = 0 /\ hand \in [Browsers -> 0 .. taken]
  BY <1>1 DEF BackInv, ThreadsInv, PlacesInv
<1>3. CASE taken < answers
  <2>1. taken' = taken + 1 /\ hand' = [hand EXCEPT ![b] = taken + 1]
    BY <1>3 DEF Backward!BackwardReads
  <2>2. ThreadsInv' /\ LostInv'
    BY <1>1, <1>2, <2>1 DEF BackInv, ThreadsInv, LostInv
  <2>3. \A c \in Browsers : hand[c] \in 0 .. taken /\ \A i \in DOMAIN got[c] : got[c][i] \in 1 .. taken
    BY DEF BackInv, PlacesInv
  <2>4. /\ taken \in Nat /\ taken' \in Nat /\ 1 .. taken \subseteq 1 .. taken'
        /\ 0 .. taken \subseteq 0 .. taken' /\ taken + 1 \in 0 .. taken' /\ taken + 1 \notin 0 .. taken
        /\ taken + 1 # 0 /\ 1 .. taken' = (1 .. taken) \cup {taken + 1} /\ 1 .. taken \subseteq 0 .. taken
    BY <2>1 DEF BackInv, PlacesInv
  <2>5. hand'[b] = taken + 1 /\ \A c \in Browsers : c # b => hand'[c] = hand[c]
    BY <1>2, <2>1
  <2>6. PlacesInv'
    <3>1. hand' \in [Browsers -> 0 .. taken']
      BY <1>2, <2>1, <2>4
    <3>2. got' \in [Browsers -> Seq(1 .. taken')]
      <4>1. Seq(1 .. taken) \subseteq Seq(1 .. taken')
        BY <2>4
      <4>2. got \in [Browsers -> Seq(1 .. taken)]
        BY DEF BackInv, PlacesInv
      <4>. QED BY <1>1, <4>1, <4>2
    <3>3. \A n \in 1 .. taken' : InHand(n)' \/ InGot(n)' \/ n \in void' \/ n \in lost'
      <4> SUFFICES ASSUME NEW n \in 1 .. taken', n # taken + 1
                   PROVE  InHand(n)' \/ InGot(n)' \/ n \in void' \/ n \in lost'
        BY <2>5 DEF InHand
      <4>1. n \in 1 .. taken /\ n # 0
        BY <2>4
      <4>2. InHand(n) => InHand(n)'
        BY <1>2, <2>5, <4>1 DEF InHand
      <4>. QED BY <1>1, <4>1, <4>2 DEF BackInv, PlacesInv, InGot
    <3>4. \A c, d \in Browsers : hand'[c] # 0 /\ hand'[c] = hand'[d] => c = d
      <4>1. \A c \in Browsers : hand[c] # taken + 1
        BY <2>3, <2>4
      <4>. QED BY <2>5, <4>1 DEF BackInv, PlacesInv
    <3>5. \A c \in Browsers : hand'[c] \notin void \cup lost
      <4>1. taken + 1 \notin void \cup lost
        BY <2>4 DEF BackInv, PlacesInv
      <4>2. \A c \in Browsers : hand[c] \notin void \cup lost
        BY DEF BackInv, PlacesInv
      <4>. QED BY <2>5, <4>1, <4>2, Zenon
    <3>6. \A c, d \in Browsers : \A i \in DOMAIN got[d] :
             hand'[c] # got[d][i] /\ got[d][i] \notin void \cup lost
      BY <2>3, <2>4, <2>5 DEF BackInv, PlacesInv
    <3>. QED BY <1>1, <2>4, <3>1, <3>2, <3>3, <3>4, <3>5, <3>6 DEF BackInv, PlacesInv
  <2>7. OrderInv'
    BY <1>1, <1>2, <2>3, <2>4, <2>5 DEF BackInv, OrderInv
  <2>. QED BY <2>2, <2>6, <2>7 DEF BackInv
<1>4. CASE ~(taken < answers)
  <2>1. UNCHANGED <<taken, hand>>
    BY <1>4 DEF Backward!BackwardReads
  <2>. QED BY <1>1, <2>1, AnswersStay DEF BackInv, ThreadsInv
<1>. QED BY <1>3, <1>4

(* An answer that is sent on leaves the hand for the browser or for nowhere.    *)
LEMMA SendKeeps ==
    ASSUME BackInv, NEW b \in Browsers, Backward!BackwardSends(b) PROVE BackInv'
<1>1. /\ UNCHANGED <<browser, sent, connect, forward, read, out, remote, answers, taken, lost>>
      /\ backward' = [backward EXCEPT ![b] = "recv"] /\ backward[b] = "send"
      /\ hand' = [hand EXCEPT ![b] = 0]
  BY DEF Backward!BackwardSends, Backward!browserSide, Backward!remoteSide
<1>2. /\ taken \in Nat /\ hand \in [Browsers -> 0 .. taken] /\ got \in [Browsers -> Seq(1 .. taken)]
      /\ hand'[b] = 0 /\ \A c \in Browsers : c # b => hand'[c] = hand[c]
  BY <1>1 DEF BackInv, PlacesInv
<1>3. ThreadsInv' /\ LostInv'
  BY <1>1, <1>2 DEF BackInv, ThreadsInv, LostInv
<1>4. \A c \in Browsers : \A i \in DOMAIN got[c] : got[c][i] \in 1 .. taken
  BY <1>2
<1>5. 0 \notin 1 .. taken /\ 1 .. taken \subseteq 0 .. taken /\ 0 \in 0 .. taken
  BY <1>2
<1>6. CASE hand[b] = 0
  <2>1. UNCHANGED <<got, void, hand>>
    BY <1>1, <1>2, <1>6 DEF Backward!BackwardSends
  <2>. QED BY <1>1, <1>3, <2>1, AnswersStay
<1>. PICK n \in 0 .. taken : n = hand[b]
  BY <1>2
<1>7. CASE hand[b] # 0 /\ browser[b] = "open"
  <2>1. got' = [got EXCEPT ![b] = Append(@, n)] /\ void' = void
    BY <1>7 DEF Backward!BackwardSends
  <2>2. n \in 1 .. taken /\ n # 0
    BY <1>2, <1>7
  <2>. PICK k \in Nat : k = Len(got[b])
    BY <1>2
  <2>3. /\ got' \in [Browsers -> Seq(1 .. taken)] /\ DOMAIN got[b] = 1 .. k
        /\ DOMAIN got'[b] = (1 .. k) \cup {k + 1} /\ got'[b][k + 1] = n /\ k + 1 \notin 1 .. k
        /\ \A i \in 1 .. k : got'[b][i] = got[b][i]
        /\ \A c \in Browsers : c # b => got'[c] = got[c]
    <3>1. got'[b] = Append(got[b], n) /\ got[b] \in Seq(1 .. taken)
      BY <1>2, <2>1
    <3>2. Append(got[b], n) \in Seq(1 .. taken)
      BY <2>2, <3>1
    <3>3. 1 .. k + 1 = (1 .. k) \cup {k + 1} /\ k + 1 \notin 1 .. k
      OBVIOUS
    <3>4. DOMAIN got'[b] = 1 .. k + 1 /\ got'[b][k + 1] = n /\ \A i \in 1 .. k : got'[b][i] = got[b][i]
      BY <2>2, <3>1
    <3>5. DOMAIN got[b] = 1 .. k
      BY <3>1
    <3>. QED BY <1>2, <2>1, <3>2, <3>3, <3>4, <3>5
  <2>4. \A c \in Browsers : \A i \in DOMAIN got'[c] :
           \/ i \in DOMAIN got[c] /\ got'[c][i] = got[c][i]
           \/ c = b /\ i = k + 1 /\ got'[c][i] = n
    BY <2>3
  <2>5. PlacesInv'
    <3>1. \A m \in 1 .. taken : InHand(m)' \/ InGot(m)' \/ m \in void \/ m \in lost
      <4> SUFFICES ASSUME NEW m \in 1 .. taken PROVE InHand(m)' \/ InGot(m)' \/ m \in void \/ m \in lost
        OBVIOUS
      <4>1. CASE m = n
        BY <2>3, <4>1 DEF InGot
      <4>2. CASE m # n
        <5>1. InHand(m) => InHand(m)'
          BY <1>2, <4>2 DEF InHand
        <5>2. InGot(m) => InGot(m)'
          <6> SUFFICES ASSUME NEW c \in Browsers, NEW i \in DOMAIN got[c], got[c][i] = m
                       PROVE  InGot(m)'
            BY DEF InGot
          <6>1. CASE c = b
            <7>1. i \in DOMAIN got'[b] /\ got'[b][i] = got[b][i]
              BY <2>3, <6>1
            <7>. QED BY <6>1, <7>1, Zenon DEF InGot
          <6>2. CASE c # b
            <7>1. got'[c] = got[c]
              BY <2>3, <6>2, Zenon
            <7>. QED BY <7>1, Zenon DEF InGot
          <6>. QED BY <6>1, <6>2
        <5>. QED BY <5>1, <5>2 DEF BackInv, PlacesInv
      <4>. QED BY <4>1, <4>2
    <3>2. \A c, d \in Browsers : hand'[c] # 0 /\ hand'[c] = hand'[d] => c = d
      BY <1>2 DEF BackInv, PlacesInv
    <3>3. \A c \in Browsers : hand'[c] \notin void \cup lost
      BY <1>2, <1>5 DEF BackInv, PlacesInv
    <3>4. \A c, d \in Browsers : \A i \in DOMAIN got'[d] :
             hand'[c] # got'[d][i] /\ got'[d][i] \notin void \cup lost
      <4> SUFFICES ASSUME NEW c \in Browsers, NEW d \in Browsers, NEW i \in DOMAIN got'[d]
                   PROVE  hand'[c] # got'[d][i] /\ got'[d][i] \notin void \cup lost
        OBVIOUS
      <4>1. CASE i \in DOMAIN got[d] /\ got'[d][i] = got[d][i]
        BY <1>2, <1>4, <1>5, <4>1 DEF BackInv, PlacesInv
      <4>2. CASE got'[d][i] = n
        BY <1>2, <2>2, <4>2 DEF BackInv, PlacesInv
      <4>. QED BY <2>4, <4>1, <4>2
    <3>5. \A c, d \in Browsers : \A i \in DOMAIN got'[c], j \in DOMAIN got'[d] :
             got'[c][i] = got'[d][j] => c = d /\ i = j
      <4>1. \A c \in Browsers : \A i \in DOMAIN got[c] : got[c][i] # n
        BY DEF BackInv, PlacesInv
      <4> SUFFICES ASSUME NEW c \in Browsers, NEW d \in Browsers,
                          NEW i \in DOMAIN got'[c], NEW j \in DOMAIN got'[d],
                          got'[c][i] = got'[d][j]
                   PROVE  c = d /\ i = j
        OBVIOUS
      <4>2. CASE i \in DOMAIN got[c] /\ got'[c][i] = got[c][i]
        <5>1. j \in DOMAIN got[d] /\ got'[d][j] = got[d][j]
          BY <2>4, <4>1, <4>2, Zenon
        <5>2. got[c][i] = got[d][j]
          BY <4>2, <5>1
        <5>. QED BY <4>2, <5>1, <5>2 DEF BackInv, PlacesInv
      <4>3. CASE c = b /\ i = k + 1 /\ got'[c][i] = n
        <5>1. d = b /\ j = k + 1
          BY <2>4, <4>1, <4>3
        <5>. QED BY <4>3, <5>1
      <4>. QED BY <2>4, <4>2, <4>3
    <3>6. hand' \in [Browsers -> 0 .. taken] /\ got' \in [Browsers -> Seq(1 .. taken)]
      BY <1>1, <1>2, <1>5, <2>3
    <3>7. /\ taken' = taken /\ void' = void /\ lost' = lost
          /\ taken \in Nat /\ void \subseteq 1 .. taken /\ lost \subseteq 1 .. taken /\ void \cap lost = {}
      BY <1>1, <2>1 DEF BackInv, PlacesInv
    <3>. QED BY <3>1, <3>2, <3>3, <3>4, <3>5, <3>6, <3>7 DEF PlacesInv
  <2>6. OrderInv'
    <3>1. \A i \in 1 .. k : i <= got[b][i] /\ got[b][i] < n
      BY <1>7, <2>3 DEF BackInv, OrderInv
    <3>2. k + 1 <= n
      <4>1. CASE k = 0
        BY <2>2, <4>1
      <4>2. CASE k # 0
        <5>1. k \in 1 .. k /\ got[b][k] \in 1 .. taken
          BY <1>4, <2>3, <4>2
        <5>. QED BY <2>2, <3>1, <5>1
      <4>. QED BY <4>1, <4>2
    <3>3. \A c \in Browsers : \A i, j \in DOMAIN got'[c] : i < j => got'[c][i] < got'[c][j]
      <4> SUFFICES ASSUME NEW c \in Browsers, NEW i \in DOMAIN got'[c], NEW j \in DOMAIN got'[c], i < j
                   PROVE  got'[c][i] < got'[c][j]
        OBVIOUS
      <4>1. CASE c # b
        BY <2>3, <4>1 DEF BackInv, OrderInv
      <4>2. CASE c = b
        <5>1. i \in 1 .. k
          BY <2>3, <4>2
        <5>2. CASE j \in 1 .. k
          BY <2>3, <4>2, <5>1, <5>2 DEF BackInv, OrderInv
        <5>3. CASE j = k + 1
          BY <2>3, <3>1, <4>2, <5>1, <5>3
        <5>. QED BY <2>3, <4>2, <5>2, <5>3
      <4>. QED BY <4>1, <4>2
    <3>4. \A c \in Browsers : \A i \in DOMAIN got'[c] :
             i <= got'[c][i] /\ (hand'[c] # 0 => got'[c][i] < hand'[c])
      <4> SUFFICES ASSUME NEW c \in Browsers, NEW i \in DOMAIN got'[c]
                   PROVE  i <= got'[c][i] /\ (hand'[c] # 0 => got'[c][i] < hand'[c])
        OBVIOUS
      <4>1. CASE c # b
        BY <1>2, <2>3, <4>1 DEF BackInv, OrderInv
      <4>2. CASE c = b
        BY <1>2, <2>3, <3>1, <3>2, <4>2
      <4>. QED BY <4>1, <4>2
    <3>. QED BY <3>3, <3>4 DEF OrderInv
  <2>. QED BY <1>3, <2>5, <2>6 DEF BackInv
<1>8. CASE hand[b] # 0 /\ browser[b] # "open"
  <2>1. got' = got /\ void' = void \cup {n}
    BY <1>8 DEF Backward!BackwardSends
  <2>2. n \in 1 .. taken /\ n # 0
    BY <1>2, <1>8
  <2>3. PlacesInv'
    <3>1. \A m \in 1 .. taken : InHand(m)' \/ InGot(m)' \/ m \in void' \/ m \in lost'
      BY <1>1, <1>2, <2>1 DEF BackInv, PlacesInv, InHand, InGot
    <3>2. hand' \in [Browsers -> 0 .. taken]
      BY <1>1, <1>2, <1>5
    <3>3. /\ n \notin void \cup lost /\ \A c \in Browsers : \A i \in DOMAIN got[c] : got[c][i] # n
      BY DEF BackInv, PlacesInv
    <3>4. \A c \in Browsers : hand'[c] # n /\ hand'[c] \notin void \cup lost
      BY <1>2, <1>5, <2>2 DEF BackInv, PlacesInv
    <3>5. \A c, d \in Browsers : hand'[c] # 0 /\ hand'[c] = hand'[d] => c = d
      BY <1>2 DEF BackInv, PlacesInv
    <3>6. \A c, d \in Browsers : \A i \in DOMAIN got[d] :
             hand'[c] # got[d][i] /\ got[d][i] \notin void' \cup lost
      BY <1>2, <1>4, <1>5, <2>1, <3>3 DEF BackInv, PlacesInv
    <3>7. void' \subseteq 1 .. taken /\ void' \cap lost = {}
      <4>1. void \subseteq 1 .. taken /\ void \cap lost = {}
        BY DEF BackInv, PlacesInv
      <4>. QED BY <2>1, <2>2, <3>3, <4>1, Zenon
    <3>. QED BY <1>1, <1>2, <2>1, <3>1, <3>2, <3>4, <3>5, <3>6, <3>7 DEF BackInv, PlacesInv
  <2>4. OrderInv'
    BY <1>2, <2>1 DEF BackInv, OrderInv
  <2>. QED BY <1>3, <2>3, <2>4 DEF BackInv
<1>. QED BY <1>6, <1>7, <1>8

(* An answer whose send raises is lost; the browser has gone, or rSock's end    *)
(* had its connection closed.                                                   *)
LEMMA RaiseKeeps ==
    ASSUME BackInv, NEW b \in Browsers, Backward!BackwardSendRaises(b) PROVE BackInv'
<1>1. /\ UNCHANGED <<browser, sent, forward, read, out, remote, answers, taken, got, void>>
      /\ backward' = [backward EXCEPT ![b] = "ended"]
      /\ connect' = [connect EXCEPT ![b] = "closed"]
      /\ connect[b] = "closed" \/ browser[b] = "gone"
      /\ hand' = [hand EXCEPT ![b] = 0] /\ lost' = lost \cup ({hand[b]} \ {0})
  BY DEF Backward!BackwardSendRaises, Backward!browserSide, Backward!remoteSide, Backward!Closed
<1>2. /\ taken \in Nat /\ hand \in [Browsers -> 0 .. taken] /\ got \in [Browsers -> Seq(1 .. taken)]
      /\ hand'[b] = 0 /\ \A c \in Browsers : c # b => hand'[c] = hand[c]
  BY <1>1 DEF BackInv, PlacesInv
<1>3. ThreadsInv'
  <2>1. /\ connect' \in [Browsers -> {"none", "open", "closed"}]
        /\ backward' \in [Browsers -> {"none", "recv", "send", "ended"}]
    BY <1>1 DEF BackInv, ThreadsInv
  <2>2. \A c \in Browsers : c # b => connect'[c] = connect[c] /\ backward'[c] = backward[c]
    BY <1>1 DEF BackInv, ThreadsInv
  <2>3. connect'[b] = "closed" /\ backward'[b] = "ended"
    BY <1>1 DEF BackInv, ThreadsInv
  <2>4. browser[b] # "new" /\ (remote # "open" \/ browser[b] = "gone")
    BY <1>1 DEF BackInv, ThreadsInv, Backward!BackwardSendRaises
  <2>. QED BY <1>1, <1>2, <2>1, <2>2, <2>3, <2>4 DEF BackInv, ThreadsInv
<1>4. LostInv'
  BY <1>1 DEF BackInv, ThreadsInv, LostInv
<1>5. /\ 0 \notin 1 .. taken /\ 1 .. taken \subseteq 0 .. taken /\ 0 \in 0 .. taken
      /\ \A c \in Browsers : \A i \in DOMAIN got[c] : got[c][i] \in 1 .. taken
  BY <1>2
<1>. PICK n \in 0 .. taken : n = hand[b]
  BY <1>2
<1>6. lost' = IF n = 0 THEN lost ELSE lost \cup {n}
  BY <1>1
<1>7. n = 0 \/ n \in 1 .. taken
  BY <1>2
<1>8. PlacesInv'
  <2>1. \A m \in 1 .. taken : InHand(m)' \/ InGot(m)' \/ m \in void' \/ m \in lost'
    BY <1>1, <1>2, <1>5, <1>6 DEF BackInv, PlacesInv, InHand, InGot
  <2>2. hand' \in [Browsers -> 0 .. taken]
    BY <1>1, <1>2, <1>5
  <2>3. /\ n \notin void \cup lost /\ \A c \in Browsers : \A i \in DOMAIN got[c] : got[c][i] # n
    BY DEF BackInv, PlacesInv
  <2>4. \A c \in Browsers : hand'[c] \notin void \cup lost'
    <3> SUFFICES ASSUME NEW c \in Browsers PROVE hand'[c] \notin void \cup lost'
      OBVIOUS
    <3>1. CASE c = b
      <4>1. void \subseteq 1 .. taken /\ lost \subseteq 1 .. taken
        BY DEF BackInv, PlacesInv
      <4>. QED BY <1>2, <1>5, <1>6, <1>7, <3>1, <4>1
    <3>2. CASE c # b
      <4>1. hand'[c] = hand[c] /\ hand[c] \notin void \cup lost
        BY <1>2, <3>2 DEF BackInv, PlacesInv
      <4>2. n # 0 => hand[c] # n
        BY <3>2 DEF BackInv, PlacesInv
      <4>. QED BY <1>6, <4>1, <4>2
    <3>. QED BY <3>1, <3>2
  <2>5. \A c, d \in Browsers : hand'[c] # 0 /\ hand'[c] = hand'[d] => c = d
    BY <1>2 DEF BackInv, PlacesInv
  <2>6. \A c, d \in Browsers : \A i \in DOMAIN got[d] :
           hand'[c] # got[d][i] /\ got[d][i] \notin void \cup lost'
    BY <1>2, <1>5, <1>6, <2>3 DEF BackInv, PlacesInv
  <2>7. lost' \subseteq 1 .. taken /\ void \cap lost' = {}
    <3>1. lost \subseteq 1 .. taken /\ void \cap lost = {}
      BY DEF BackInv, PlacesInv
    <3>2. CASE n = 0
      BY <1>6, <3>1, <3>2
    <3>3. CASE n # 0
      <4>1. lost' = lost \cup {n} /\ n \in 1 .. taken /\ n \notin void
        BY <1>6, <1>7, <2>3, <3>3
      <4>. QED BY <3>1, <4>1, Zenon
    <3>. QED BY <3>2, <3>3
  <2>. QED BY <1>1, <2>1, <2>2, <2>4, <2>5, <2>6, <2>7 DEF BackInv, PlacesInv
<1>9. OrderInv'
  BY <1>1, <1>2 DEF BackInv, OrderInv
<1>. QED BY <1>3, <1>4, <1>8, <1>9 DEF BackInv

LEMMA BackwardSteps ==
    ASSUME BackInv, NEW b \in Browsers, Backward!BackwardStep(b) PROVE BackInv'
<1>1. CASE Backward!BackwardReadRaises(b)
  BY <1>1, AnswersStay DEF Backward!BackwardReadRaises, Backward!Closed, Backward!Report,
     Backward!browserSide, Backward!downlink, BackInv, ThreadsInv
<1>. QED BY <1>1, ReadKeeps, SendKeeps, RaiseKeeps DEF Backward!BackwardStep

THEOREM BackInvHolds == Spec => []BackInv
<1>1. Init => BackInv
  <2> SUFFICES ASSUME Init PROVE BackInv
    OBVIOUS
  <2>1. ThreadsInv
    BY DEF Init, Backward!Init, ThreadsInv
  <2>2. PlacesInv /\ OrderInv /\ LostInv
    <3>1. taken = 0 /\ 1 .. 0 = {} /\ 0 \in 0 .. 0
      BY DEF Init, Backward!Init
    <3>2. \A b \in Browsers : got[b] = <<>> /\ hand[b] = 0
      BY DEF Init, Backward!Init
    <3>. QED BY <3>1, <3>2 DEF Init, Backward!Init, PlacesInv, OrderInv, LostInv
  <2>. QED BY <2>1, <2>2 DEF BackInv
<1>2. BackInv /\ [Next]_vars => BackInv'
  <2> SUFFICES ASSUME BackInv, [Next]_vars PROVE BackInv'
    OBVIOUS
  <2>1. CASE RunBackwardProxy
    <3>1. Backward!Next
      BY <2>1 DEF RunBackwardProxy
    <3>. QED BY <3>1, PeerSteps, ForwardSteps, BackwardSteps DEF Backward!Next
  <2>2. CASE RunHttpsServer \/ RunUdpServer \/ UNCHANGED vars
    BY <2>2, AnswersStay DEF RunHttpsServer, RunUdpServer, vars, backwardVars, BackInv, ThreadsInv
  <2>. QED BY <2>1, <2>2 DEF Next
<1>. QED BY <1>1, <1>2, PTL DEF Spec

(* While the remote's connection lasts, one browser's going costs no other its  *)
(* connection: its threads run, and all that was read of it goes out            *)
(* (backward-proxy.py, run_forward and run_backward).                           *)
THEOREM BackwardOpenServed == Spec => []OpenBrowsersServed
<1>1. BackInv => OpenBrowsersServed
  BY DEF BackInv, ThreadsInv, OpenBrowsersServed, Backward!OpenBrowsersServed
<1>. QED BY <1>1, BackInvHolds, PTL

LEMMA SameCardinality == \A S : Backward!Cardinality(S) = Cardinality(S)
BY DEF Cardinality, Backward!Cardinality

(* One set of one element and three empty ones.                                 *)
LEMMA OneOfFour ==
    ASSUME NEW n \in 1 .. taken, BackInv
    PROVE  Cardinality({b \in Browsers : hand[b] = n})
             + Cardinality({p \in Browsers \X (1 .. taken) :
                               p[2] \in DOMAIN got[p[1]] /\ got[p[1]][p[2]] = n})
             + Cardinality({n} \cap void) + Cardinality({n} \cap lost) = 1
<1> DEFINE H == {b \in Browsers : hand[b] = n}
           G == {p \in Browsers \X (1 .. taken) : p[2] \in DOMAIN got[p[1]] /\ got[p[1]][p[2]] = n}
           V == {n} \cap void
           L == {n} \cap lost
<1>1. Cardinality({}) = 0 /\ \A x : Cardinality({x}) = 1
  BY FS_EmptySet, FS_Singleton
<1>2. n # 0 /\ taken \in Nat
  BY DEF BackInv, PlacesInv
<1>3. CASE InHand(n)
  <2>. PICK b \in Browsers : hand[b] = n
    BY <1>3 DEF InHand
  <2>1. H = {b}
    BY <1>2 DEF BackInv, PlacesInv
  <2>2. G = {} /\ V = {} /\ L = {}
    BY DEF BackInv, PlacesInv
  <2>. HIDE DEF H, G, V, L
  <2>3. Cardinality(H) = 1 /\ Cardinality(G) = 0 /\ Cardinality(V) = 0 /\ Cardinality(L) = 0
    BY <1>1, <2>1, <2>2, Zenon
  <2>4. Cardinality(H) + Cardinality(G) + Cardinality(V) + Cardinality(L) = 1
    BY <2>3
  <2>. QED BY <2>4 DEF H, G, V, L
<1>4. CASE InGot(n)
  <2>. PICK b \in Browsers : \E i \in DOMAIN got[b] : got[b][i] = n
    BY <1>4 DEF InGot
  <2>. PICK i \in DOMAIN got[b] : got[b][i] = n
    OBVIOUS
  <2>1. i \in 1 .. taken
    <3>1. got[b] \in Seq(1 .. taken)
      BY DEF BackInv, PlacesInv
    <3>2. i \in Nat /\ i >= 1
      BY <3>1
    <3>3. i <= n
      BY DEF BackInv, OrderInv
    <3>. QED BY <1>2, <3>2, <3>3
  <2>2. G = {<<b, i>>}
    <3>1. <<b, i>> \in G
      BY <2>1
    <3>2. ASSUME NEW p \in G PROVE p = <<b, i>>
      <4>1. p[1] \in Browsers /\ p[2] \in DOMAIN got[p[1]] /\ got[p[1]][p[2]] = n /\ p = <<p[1], p[2]>>
        OBVIOUS
      <4>2. p[1] = b /\ p[2] = i
        BY <4>1 DEF BackInv, PlacesInv
      <4>. QED BY <4>1, <4>2
    <3>. QED BY <3>1, <3>2
  <2>3. H = {} /\ V = {} /\ L = {}
    BY DEF BackInv, PlacesInv
  <2>. HIDE DEF H, G, V, L
  <2>4. Cardinality(H) = 0 /\ Cardinality(G) = 1 /\ Cardinality(V) = 0 /\ Cardinality(L) = 0
    BY <1>1, <2>2, <2>3, Zenon
  <2>5. Cardinality(H) + Cardinality(G) + Cardinality(V) + Cardinality(L) = 1
    BY <2>4
  <2>. QED BY <2>5 DEF H, G, V, L
<1>5. CASE n \in void
  <2>1. V = {n} /\ H = {} /\ G = {} /\ L = {}
    BY <1>5 DEF BackInv, PlacesInv
  <2>. HIDE DEF H, G, V, L
  <2>2. Cardinality(H) = 0 /\ Cardinality(G) = 0 /\ Cardinality(V) = 1 /\ Cardinality(L) = 0
    BY <1>1, <2>1, Zenon
  <2>3. Cardinality(H) + Cardinality(G) + Cardinality(V) + Cardinality(L) = 1
    BY <2>2
  <2>. QED BY <2>3 DEF H, G, V, L
<1>6. CASE n \in lost
  <2>1. L = {n} /\ H = {} /\ G = {} /\ V = {}
    BY <1>6 DEF BackInv, PlacesInv
  <2>. HIDE DEF H, G, V, L
  <2>2. Cardinality(H) = 0 /\ Cardinality(G) = 0 /\ Cardinality(V) = 0 /\ Cardinality(L) = 1
    BY <1>1, <2>1, Zenon
  <2>3. Cardinality(H) + Cardinality(G) + Cardinality(V) + Cardinality(L) = 1
    BY <2>2
  <2>. QED BY <2>3 DEF H, G, V, L
<1>. QED BY <1>3, <1>4, <1>5, <1>6 DEF BackInv, PlacesInv

(* However the threads of all browsers interleave on the one rSock: an answer   *)
(* that was read is in the hand of one thread, with one browser, sent after its *)
(* browser had gone, or lost, and in one of these places only; a browser gets   *)
(* its answers in the order of rSock; and nothing is lost before a browser has  *)
(* gone or the remote has ended (backward-proxy.py, run_backward).              *)
THEOREM BackwardAnswersInOnePlace == Spec => []AnswersInOnePlace
<1>1. BackInv => AnswersInOnePlace
  <2> SUFFICES ASSUME BackInv PROVE AnswersInOnePlace
    OBVIOUS
  <2>1. \A b \in Browsers : \A i, j \in DOMAIN got[b] : i < j => got[b][i] < got[b][j]
    BY DEF BackInv, OrderInv
  <2>2. lost # {} => remote # "open" \/ \E b \in Browsers : browser[b] = "gone"
    BY DEF BackInv, LostInv
  <2>. QED BY OneOfFour, SameCardinality, <2>1, <2>2, Zenon DEF AnswersInOnePlace, Backward!AnswersInOnePlace
<1>. QED BY <1>1, BackInvHolds, PTL
==================================================================================

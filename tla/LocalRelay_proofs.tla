------------------------- MODULE LocalRelay_proofs --------------------------
(* Theorems about LocalRelay, for every set of connections, keys and        *)
(* descriptors and without a bound on data, frames or ends.                 *)
EXTENDS LocalRelay, TLAPS

(* The two handlers of a connection have names of their own.                *)
LEMMA Names ==
    /\ \A b \in Conn : L(b) \in Handler /\ R(b) \in Handler /\ L(b) \in Local /\ R(b) \notin Local
    /\ \A b, d \in Conn : (L(b) = L(d) <=> b = d) /\ (R(b) = R(d) <=> b = d) /\ L(b) # R(d)
    /\ \A h \in Handler : \E b \in Conn : h = L(b) \/ h = R(b)
    /\ \A h \in Local : \E b \in Conn : h = L(b)
    /\ Nobody \notin Handler /\ Nobody \notin Conn /\ NoFd \notin Fd
BY LocalAssumption DEF LocalAssumption, L, R, Local, Handler, NoFd

LEMMA TypeInit == ASSUME Init PROVE TypeOK
<1>1. /\ uplink \in [Conn -> Seq(UpFrame)] /\ downlink \in [Conn -> Seq(Nat)]
      /\ received \in [Conn -> Seq(Conn \X Nat \X {"all", "part"})]
  BY DEF Init
<1>2. peer \in [Handler -> PeerState] /\ crash \in CrashReason
  BY DEF Init, PeerState, CrashReason
<1>. QED BY <1>1, <1>2 DEF Init, TypeOK, HandlerState

LEMMA CloseType ==
    ASSUME TypeOK, NEW h, Close(h)
    PROVE  /\ fdmap' \in [Fd -> Handler \cup {Nobody}]
           /\ fileno' \in [Handler -> Fd \cup {NoFd}]
           /\ hstate' \in [Handler -> HandlerState]
BY DEF TypeOK, Close, HandlerState

LEMMA EventType ==
    ASSUME TypeOK, NEW e \in batch
    PROVE  e \in Event /\ Target(e) \in Handler \cup {Nobody} /\ RecvSock(e) \in Handler
BY DEF TypeOK, Event, Target, RecvSock

LEMMA AfterSendType ==
    ASSUME TypeOK, NEW h \in Handler PROVE AfterSend(h) \in PeerState
BY DEF TypeOK, AfterSend, PeerState

LEMMA RecvType ==
    ASSUME TypeOK, NEW e \in batch, NEW h, NEW n \in 0 .. inflight[RecvSock(e)], Recv(e, h, n)
    PROVE  /\ n \in Nat
           /\ inflight' \in [Handler -> Nat]
           /\ batch' \subseteq Event /\ UNCHANGED <<acceptReady, dnsReady>>
<1>1. RecvSock(e) \in Handler
  BY EventType
<1>2. n \in Nat /\ inflight[RecvSock(e)] \in Nat /\ n <= inflight[RecvSock(e)]
  BY <1>1 DEF TypeOK
<1>3. inflight[RecvSock(e)] - n \in Nat
  BY <1>2
<1>. QED BY <1>1, <1>2, <1>3 DEF Recv, Take, TypeOK

LEMMA ResolvedType ==
    ASSUME TypeOK, NEW b \in Conn, Resolved(b)
    PROVE  /\ stage' \in [Conn -> {"INIT", "ADDR", "STREAM"}]
           /\ peer' \in [Handler -> PeerState]
           /\ fdmap' \in [Fd -> Handler \cup {Nobody}]
           /\ fileno' \in [Handler -> Fd \cup {NoFd}]
           /\ hstate' \in [Handler -> HandlerState]
           /\ crash' \in CrashReason
<1>1. stage' \in [Conn -> {"INIT", "ADDR", "STREAM"}] /\ peer' \in [Handler -> PeerState]
  BY AfterSendType, Names DEF Resolved, TypeOK
<1>2. crash' \in CrashReason
  BY DEF Resolved, TypeOK, CrashReason
<1>3. /\ fdmap' \in [Fd -> Handler \cup {Nobody}] /\ fileno' \in [Handler -> Fd \cup {NoFd}]
      /\ hstate' \in [Handler -> HandlerState]
  BY CloseType DEF Resolved, TypeOK, fdVars
<1>. QED BY <1>1, <1>2, <1>3

(* A read of a local handler.                                               *)
LEMMA LocalType ==
    ASSUME TypeOK, NEW e \in batch, NEW b \in Conn, NEW n \in 0 .. inflight[RecvSock(e)],
           Greeting(e, b, n) \/ RequestGarbled(e, b, n) \/ Request(e, b, n) \/ StreamData(e, b, n)
    PROVE  TypeOK'
<1>1. Recv(e, L(b), n)
  BY DEF Greeting, RequestGarbled, Request, StreamData
<1>2. /\ n \in Nat /\ inflight' \in [Handler -> Nat] /\ batch' \subseteq Event
      /\ acceptReady' \in BOOLEAN /\ dnsReady' \in BOOLEAN
  BY <1>1, RecvType DEF TypeOK
<1>3. CASE Greeting(e, b, n)
  <2>1. peer' \in [Handler -> PeerState]
    BY <1>3, AfterSendType, Names DEF Greeting, TypeOK
  <2>. QED BY <1>2, <1>3, <2>1 DEF Greeting, TypeOK, fdVars, upVars, downVars, browserVars,
              serverVars
<1>4. CASE RequestGarbled(e, b, n)
  BY <1>2, <1>4 DEF RequestGarbled, TypeOK, fdVars, stageVars, downVars, browserVars, serverVars,
     CrashReason
<1>5. CASE Request(e, b, n)
  <2>1. /\ stage' \in [Conn -> {"INIT", "ADDR", "STREAM"}]
        /\ lookup' \in [Conn -> {"none", "asked", "answered"}]
        /\ peer' \in [Handler -> PeerState]
        /\ fdmap' \in [Fd -> Handler \cup {Nobody}]
        /\ fileno' \in [Handler -> Fd \cup {NoFd}]
        /\ hstate' \in [Handler -> HandlerState]
        /\ crash' \in CrashReason
    BY <1>5, ResolvedType DEF Request, TypeOK, fdVars, stageVars, CrashReason
  <2>. QED BY <1>2, <1>5, <2>1 DEF Request, TypeOK, downVars, browserVars, serverVars
<1>6. CASE StreamData(e, b, n)
  <2>1. peer' \in [Handler -> PeerState]
    BY <1>6, AfterSendType, Names DEF StreamData, TypeOK
  <2>2. owner' \in [Key -> Conn \cup {Nobody}]
    BY <1>6, LocalAssumption DEF StreamData, Own, TypeOK, LocalAssumption
  <2>3. dataToSend' \in [Conn -> Nat] /\ stale' \in [Conn -> BOOLEAN]
    <3>1. \/ /\ dataToSend' = [dataToSend EXCEPT ![b] = 0]
             /\ stale' = [stale EXCEPT ![b] = FALSE]
          \/ /\ dataToSend' = [dataToSend EXCEPT ![b] = @ + n]
             /\ stale' = [stale EXCEPT ![b] = TRUE]
      BY <1>6 DEF StreamData, FrameTaken, FrameLeft
    <3>2. dataToSend[b] + n \in Nat
      BY <1>2 DEF TypeOK
    <3>3. CASE dataToSend' = [dataToSend EXCEPT ![b] = 0] /\ stale' = [stale EXCEPT ![b] = FALSE]
      BY <3>3 DEF TypeOK
    <3>4. CASE /\ dataToSend' = [dataToSend EXCEPT ![b] = @ + n]
               /\ stale' = [stale EXCEPT ![b] = TRUE]
      BY <3>2, <3>4 DEF TypeOK
    <3>. QED BY <3>1, <3>3, <3>4
  <2>4. uplink' \in [Conn -> Seq(UpFrame)]
    <3> DEFINE frame == [seq |-> enc, units |-> dataToSend[b] + n, stale |-> stale[b]]
    <3>1. frame \in UpFrame
      BY <1>2 DEF UpFrame, TypeOK
    <3>2. uplink' = uplink \/ uplink' = [uplink EXCEPT ![b] = Append(@, frame)]
      BY <1>6 DEF StreamData, FrameTaken, FrameLeft
    <3>3. \A d \in Conn : Append(uplink[d], frame) \in Seq(UpFrame)
      BY <3>1 DEF TypeOK
    <3> HIDE DEF frame
    <3>. QED BY <3>2, <3>3 DEF TypeOK
  <2>5. enc' \in Nat /\ UNCHANGED <<fdVars, stageVars, downVars, crash, browserVars, serverVars>>
    BY <1>6 DEF StreamData, TypeOK
  <2>. QED BY <1>2, <2>1, <2>2, <2>3, <2>4, <2>5 DEF TypeOK, fdVars, stageVars, downVars,
              browserVars, serverVars
<1>. QED BY <1>3, <1>4, <1>5, <1>6

(* A read of a remote handler.                                              *)
LEMMA RemoteType ==
    ASSUME TypeOK, NEW e \in batch, NEW b \in Conn, NEW n \in 0 .. inflight[RecvSock(e)],
           \/ PrefixCut(e, b, n) \/ FrameIncomplete(e, b, n) \/ FrameGarbled(e, b, n)
           \/ \E taken \in {"all", "part", "none"} : FrameBack(e, b, n, taken)
    PROVE  TypeOK'
<1>1. Recv(e, R(b), n)
  BY DEF PrefixCut, FrameIncomplete, FrameGarbled, FrameBack, TunnelData
<1>2. /\ n \in Nat /\ inflight' \in [Handler -> Nat] /\ batch' \subseteq Event
      /\ acceptReady' \in BOOLEAN /\ dnsReady' \in BOOLEAN
  BY <1>1, RecvType DEF TypeOK
<1>3. CASE PrefixCut(e, b, n) \/ FrameIncomplete(e, b, n) \/ FrameGarbled(e, b, n)
  <2>1. buffered' \in [Conn -> Nat]
    <3>1. buffered' = [buffered EXCEPT ![b] = @ + n]
      BY <1>3, Zenon DEF PrefixCut, FrameIncomplete, FrameGarbled
    <3>2. buffered \in [Conn -> Nat]
      BY DEF TypeOK
    <3>. QED BY <1>2, <3>1, <3>2
  <2>2. dec' \in Nat /\ crash' \in CrashReason
    BY <1>3 DEF PrefixCut, FrameIncomplete, FrameGarbled, TypeOK, CrashReason
  <2>3. UNCHANGED <<fdVars, stageVars, upVars, parsed, received, peer, browserVars, serverVars>>
    BY <1>3 DEF PrefixCut, FrameIncomplete, FrameGarbled
  <2>. QED BY <1>2, <2>1, <2>2, <2>3 DEF TypeOK, fdVars, stageVars, upVars, browserVars, serverVars
<1>4. ASSUME NEW taken \in {"all", "part", "none"}, FrameBack(e, b, n, taken) PROVE TypeOK'
  <2> DEFINE t == owner[KeyOf[b]]
  <2>1. t \in Conn
    BY <1>4, LocalAssumption DEF FrameBack, TypeOK, LocalAssumption
  <2>2. peer' \in [Handler -> PeerState]
    BY <1>4, <2>1, AfterSendType, Names DEF FrameBack, TypeOK
  <2>3. buffered[b] + n - FrameUnits \in Nat /\ buffered[b] + n \in Nat /\ buffered[b] \in Nat
    <3>1. buffered[b] \in Nat
      BY DEF TypeOK
    <3>2. buffered[b] + n >= FrameUnits
      BY <1>4, Zenon DEF FrameBack
    <3>3. n \in Nat
      BY <1>2, Zenon
    <3>4. ASSUME NEW m \in Nat, NEW i \in Nat, m + i >= FrameUnits
          PROVE  m + i - FrameUnits \in Nat /\ m + i \in Nat
      BY <3>4 DEF FrameUnits
    <3>. QED BY <3>1, <3>2, <3>3, <3>4, Zenon
  <2>4. buffered' \in [Conn -> Nat] /\ parsed' \in [Conn -> Nat]
    <3>1. CASE buffered' = [buffered EXCEPT ![b] = @ + n] /\ parsed' = parsed
      BY <2>3, <3>1 DEF TypeOK
    <3>2. CASE /\ buffered' = [buffered EXCEPT ![b] = @ + n - FrameUnits]
               /\ parsed' = [parsed EXCEPT ![b] = @ + 1]
      <4>1. buffered \in [Conn -> Nat] /\ parsed \in [Conn -> Nat]
        BY DEF TypeOK
      <4>. PICK left \in Nat : left = buffered[b] + n - FrameUnits
        BY <2>3, Zenon
      <4>2. buffered' = [buffered EXCEPT ![b] = left]
        BY <3>2, Zenon
      <4>3. parsed[b] + 1 \in Nat
        BY <4>1
      <4>. QED BY <3>2, <4>1, <4>2, <4>3
    <3>3. \/ buffered' = [buffered EXCEPT ![b] = @ + n] /\ parsed' = parsed
          \/ /\ buffered' = [buffered EXCEPT ![b] = @ + n - FrameUnits]
             /\ parsed' = [parsed EXCEPT ![b] = @ + 1]
      BY <1>4 DEF FrameBack, FrameKept, FramePassed
    <3>. QED BY <3>1, <3>2, <3>3
  <2>5. received' \in [Conn -> Seq(Conn \X Nat \X {"all", "part"})]
    <3> DEFINE r == <<b, parsed[b] + 1, taken>>
    <3>1. CASE taken = "none"
      BY <1>4, <3>1 DEF FrameBack, FrameKept, TypeOK
    <3>2. CASE taken # "none"
      <4>1. received' = [received EXCEPT ![t] = Append(@, r)]
        BY <1>4, <3>2 DEF FrameBack, FramePassed
      <4>2. r \in Conn \X Nat \X {"all", "part"}
        BY <3>2 DEF TypeOK
      <4> DEFINE S == Conn \X Nat \X {"all", "part"}
      <4>3. r \in S /\ received \in [Conn -> Seq(S)]
        BY <4>2 DEF TypeOK
      <4>4. t \in Conn
        BY <2>1
      <4> HIDE DEF r, t, S
      <4>5. Append(received[t], r) \in Seq(S)
        BY <4>3, <4>4
      <4>6. received' \in [Conn -> Seq(S)]
        BY <4>1, <4>3, <4>4, <4>5
      <4>. QED BY <4>6 DEF S
    <3>. QED BY <3>1, <3>2
  <2>6. dec' \in Nat /\ UNCHANGED <<fdVars, stageVars, upVars, crash, browserVars, serverVars>>
    BY <1>4 DEF FrameBack, TypeOK
  <2>. QED BY <1>2, <2>2, <2>4, <2>5, <2>6 DEF TypeOK, fdVars, stageVars, upVars, browserVars,
              serverVars
<1>. QED BY <1>3, <1>4

LEMMA DispatchType ==
    ASSUME TypeOK, NEW e \in batch, Dispatch(e)
    PROVE  TypeOK'
<1>0. ASSUME Take(e) PROVE batch' \subseteq Event /\ acceptReady' \in BOOLEAN
  BY <1>0 DEF Take, TypeOK
<1>1. CASE EventForNobody(e) \/ EventHangup(e) \/ RecvClosed(e)
  BY <1>0, <1>1 DEF EventForNobody, EventHangup, RecvClosed, TypeOK, relayVars, fdVars,
     stageVars, upVars, downVars, netVars, browserVars, serverVars
<1>2. CASE EventError(e)
  <2>1. Close(Target(e)) /\ Take(e) /\ UNCHANGED <<dnsReady, crash, relayVars>>
    BY <1>2 DEF EventError
  <2>. QED BY <1>0, <2>1, CloseType DEF TypeOK, relayVars, stageVars, upVars, downVars, netVars,
              browserVars, serverVars
<1>3. CASE RecvError(e)
  <2>1. peer' \in [Handler -> PeerState]
    BY <1>3, EventType DEF RecvError, TypeOK, PeerState
  <2>. QED BY <1>0, <1>3, <2>1 DEF RecvError, TypeOK, fdVars, stageVars, upVars, downVars,
              browserVars, serverVars
<1>4. ASSUME NEW h \in Handler, StreamEnd(e, h) PROVE TypeOK'
  <2>1. Recv(e, h, 0) /\ Close(h)
        /\ UNCHANGED <<stageVars, upVars, downVars, crash, peer, browserVars, serverVars>>
    BY <1>4 DEF StreamEnd
  <2>2. 0 \in 0 .. inflight[RecvSock(e)]
    BY EventType DEF TypeOK
  <2>3. /\ inflight' \in [Handler -> Nat] /\ batch' \subseteq Event
        /\ UNCHANGED <<acceptReady, dnsReady>>
    BY <2>1, <2>2, RecvType
  <2>. QED BY <2>1, <2>3, CloseType DEF TypeOK, stageVars, upVars, downVars, browserVars, serverVars
<1>. QED BY <1>1, <1>2, <1>3, <1>4, LocalType, RemoteType DEF Dispatch

LEMMA TypeStep == ASSUME TypeOK, [Next]_vars PROVE TypeOK'
<1>1. CASE UNCHANGED vars
  BY <1>1 DEF TypeOK, vars, loopVars, fdVars, stageVars, upVars, downVars, netVars, browserVars,
     serverVars
<1>2. CASE WorldStep
  <2>1. ASSUME NEW b \in Conn, BrowserConnect(b) PROVE TypeOK'
    BY <2>1, Names DEF TypeOK, BrowserConnect, processVars, loopVars, fdVars, stageVars, upVars,
       downVars, browserVars, serverVars, PeerState
  <2>2. ASSUME NEW b \in Conn, BrowserSend(b) PROVE TypeOK'
    <3>0. /\ \/ said' = said
             \/ said' = [said EXCEPT ![b] = "greeting"]
             \/ said' = [said EXCEPT ![b] = "request"]
          /\ dataSent' = dataSent \/ dataSent' = [dataSent EXCEPT ![b] = @ + 1]
          /\ \/ inflight' = [inflight EXCEPT ![L(b)] = @ + 1]
             \/ inflight' = [inflight EXCEPT ![L(b)] = @ + RequestUnits]
      BY <2>2 DEF BrowserSend
    <3>1. said' \in [Conn -> {"nothing", "greeting", "request"}] /\ dataSent' \in [Conn -> Nat]
      <4>1. said' \in [Conn -> {"nothing", "greeting", "request"}]
        BY <3>0 DEF TypeOK
      <4>2. CASE dataSent' = dataSent
        BY <4>1, <4>2 DEF TypeOK
      <4>3. CASE dataSent' = [dataSent EXCEPT ![b] = @ + 1]
        BY <4>1, <4>3 DEF TypeOK
      <4>. QED BY <3>0, <4>2, <4>3
    <3>2. inflight' \in [Handler -> Nat]
      <4>1. L(b) \in Handler /\ inflight[L(b)] \in Nat
        BY Names DEF TypeOK
      <4>2. CASE inflight' = [inflight EXCEPT ![L(b)] = @ + 1]
        BY <4>1, <4>2 DEF TypeOK
      <4>3. CASE inflight' = [inflight EXCEPT ![L(b)] = @ + RequestUnits]
        BY <4>1, <4>3 DEF TypeOK, RequestUnits
      <4>. QED BY <3>0, <4>2, <4>3
    <3>3. UNCHANGED <<processVars, peer, serverVars>>
      BY <2>2 DEF BrowserSend
    <3>. QED BY <3>1, <3>2, <3>3 DEF TypeOK, processVars, loopVars, fdVars, stageVars, upVars,
                downVars, serverVars
  <2>3. ASSUME NEW b \in Conn, ServerSend(b) PROVE TypeOK'
    <3>1. downlink' \in [Conn -> Seq(Nat)] /\ serverEnc' \in Nat
      BY <2>3 DEF TypeOK, ServerSend
    <3>2. inflight' \in [Handler -> Nat]
      BY <2>3, Names DEF TypeOK, ServerSend, FrameUnits
    <3>3. UNCHANGED <<processVars, peer, browserVars>>
      BY <2>3 DEF ServerSend
    <3>. QED BY <3>1, <3>2, <3>3 DEF TypeOK, processVars, loopVars, fdVars, stageVars, upVars,
                downVars, browserVars
  <2>4. ASSUME NEW b \in Conn, DnsArrives(b) PROVE TypeOK'
    BY <2>4 DEF TypeOK, DnsArrives, loopVars, fdVars, upVars, downVars, netVars, browserVars,
       serverVars
  <2>5. ASSUME NEW h \in Handler, PeerFin(h) \/ PeerReset(h) PROVE TypeOK'
    <3>1. peer' \in [Handler -> PeerState]
      BY <2>5 DEF TypeOK, PeerFin, PeerReset, PeerState
    <3>. QED BY <2>5, <3>1 DEF TypeOK, PeerFin, PeerReset, processVars, loopVars, fdVars,
                stageVars, upVars, downVars, browserVars, serverVars
  <2>. QED BY <1>2, <2>1, <2>2, <2>3, <2>4, <2>5 DEF WorldStep
<1>3. CASE Poll
  <2>1. ReadyEvents \subseteq Event
    BY DEF ReadyEvents, Event, TypeOK, FlagsOf, Flag
  <2>. QED BY <1>3, <2>1 DEF Poll, TypeOK, relayVars, fdVars, stageVars, upVars, downVars,
              netVars, browserVars, serverVars
<1>4. ASSUME NEW b \in Conn, Accept(b) PROVE TypeOK'
  <2>1. PICK f \in FreeFd, g \in FreeFd :
            /\ fileno' = [fileno EXCEPT ![L(b)] = f, ![R(b)] = g]
            /\ fdmap' = [fdmap EXCEPT ![f] = L(b), ![g] = R(b)]
    BY <1>4 DEF Accept
  <2>2. fileno' \in [Handler -> Fd \cup {NoFd}] /\ fdmap' \in [Fd -> Handler \cup {Nobody}]
    BY <2>1, Names DEF TypeOK, FreeFd, FreeBut
  <2>3. hstate' \in [Handler -> HandlerState] /\ peer' \in [Handler -> PeerState]
    BY <1>4, Names DEF Accept, TypeOK, HandlerState, PeerState
  <2>. QED BY <1>4, <2>2, <2>3 DEF Accept, TypeOK, stageVars, upVars, downVars, browserVars,
              serverVars
<1>5. CASE AcceptFails
  BY <1>5 DEF AcceptFails, TypeOK, relayVars, fdVars, stageVars, upVars, downVars, netVars,
     browserVars, serverVars, CrashReason
<1>6. ASSUME NEW b \in Conn, DnsAnswer(b) PROVE TypeOK'
  <2>1. /\ stage' \in [Conn -> {"INIT", "ADDR", "STREAM"}]
        /\ peer' \in [Handler -> PeerState]
        /\ fdmap' \in [Fd -> Handler \cup {Nobody}]
        /\ fileno' \in [Handler -> Fd \cup {NoFd}]
        /\ hstate' \in [Handler -> HandlerState]
        /\ crash' \in CrashReason
    BY <1>6, ResolvedType DEF DnsAnswer, TypeOK, fdVars, CrashReason
  <2>. QED BY <1>6, <2>1 DEF DnsAnswer, TypeOK, upVars, downVars, browserVars, serverVars
<1>7. ASSUME NEW e \in batch, Dispatch(e) PROVE TypeOK'
  BY <1>7, DispatchType
<1>. QED BY <1>1, <1>2, <1>3, <1>4, <1>5, <1>6, <1>7 DEF Next, LoopStep

(* The type invariant of the client process.                                *)
THEOREM TypeCorrect == Spec => []TypeOK
<1>1. Init => TypeOK
  BY TypeInit
<1>2. TypeOK /\ [Next]_vars => TypeOK'
  BY TypeStep
<1>. QED BY <1>1, <1>2, PTL DEF Spec

-----------------------------------------------------------------------------
(* The handlers and their descriptors.                                      *)

(* Both handlers of a connection come at once.                              *)
PairsAccepted == \A b \in Conn : hstate[L(b)] = "absent" <=> hstate[R(b)] = "absent"

(* The inductive invariant of the registration: a handler that is accepted  *)
(* has no descriptor yet, so that none is left in _fdmap when its number is *)
(* written.                                                                 *)
IInv == TypeOK /\ RegistrationExact /\ OpenLocalHasOpenRemote /\ PairsAccepted

(* What a step does to the descriptors: nothing, one close() of a handler   *)
(* that is open, or the two handlers of a new connection.                   *)
LEMMA FdStep ==
    ASSUME TypeOK, RegistrationExact, [Next]_vars
    PROVE  \/ UNCHANGED fdVars
           \/ \E h \in Handler : Open(h) /\ Close(h)
           \/ \E b \in Conn : Accept(b)
<1>0. ASSUME NEW e \in batch, Target(e) # Nobody PROVE Target(e) \in Handler /\ Open(Target(e))
  BY <1>0, EventType, Names DEF RegistrationExact, Target, Event
<1>1. CASE UNCHANGED vars
  BY <1>1 DEF vars
<1>2. CASE WorldStep
  BY <1>2 DEF WorldStep, BrowserConnect, BrowserSend, ServerSend, DnsArrives, PeerFin, PeerReset,
     processVars
<1>3. CASE Poll \/ AcceptFails
  BY <1>3 DEF Poll, AcceptFails
<1>4. ASSUME NEW b \in Conn, Resolved(b) PROVE \/ UNCHANGED fdVars
                                              \/ \E h \in Handler : Open(h) /\ Close(h)
  BY <1>4, Names DEF Resolved
<1>5. ASSUME NEW b \in Conn, DnsAnswer(b) PROVE \/ UNCHANGED fdVars
                                               \/ \E h \in Handler : Open(h) /\ Close(h)
  BY <1>4, <1>5 DEF DnsAnswer
<1>6. ASSUME NEW e \in batch, Dispatch(e) PROVE \/ UNCHANGED fdVars
                                               \/ \E h \in Handler : Open(h) /\ Close(h)
  <2>1. CASE EventForNobody(e) \/ EventHangup(e) \/ RecvClosed(e) \/ RecvError(e)
    BY <2>1 DEF EventForNobody, EventHangup, RecvClosed, RecvError
  <2>2. CASE EventError(e)
    BY <1>0, <2>2 DEF EventError
  <2>3. ASSUME NEW h \in Handler, StreamEnd(e, h) PROVE Open(h) /\ Close(h)
    BY <1>0, <2>3 DEF StreamEnd, Recv, Receives
  <2>4. ASSUME NEW b \in Conn, NEW n \in 0 .. inflight[RecvSock(e)],
               \/ Greeting(e, b, n) \/ RequestGarbled(e, b, n) \/ StreamData(e, b, n)
               \/ PrefixCut(e, b, n) \/ FrameIncomplete(e, b, n) \/ FrameGarbled(e, b, n)
               \/ \E taken \in {"all", "part", "none"} : FrameBack(e, b, n, taken)
        PROVE  UNCHANGED fdVars
    BY <2>4 DEF Greeting, RequestGarbled, StreamData, PrefixCut, FrameIncomplete, FrameGarbled,
       FrameBack
  <2>5. ASSUME NEW b \in Conn, NEW n \in 0 .. inflight[RecvSock(e)], Request(e, b, n)
        PROVE  UNCHANGED fdVars \/ \E h \in Handler : Open(h) /\ Close(h)
    BY <1>4, <2>5 DEF Request
  <2>. QED BY <1>6, <2>1, <2>2, <2>3, <2>4, <2>5 DEF Dispatch
<1>. QED BY <1>1, <1>2, <1>3, <1>5, <1>6 DEF Next, LoopStep

LEMMA CloseRegistration ==
    ASSUME IInv, NEW h \in Handler, Open(h), Close(h)
    PROVE  RegistrationExact' /\ OpenLocalHasOpenRemote' /\ PairsAccepted'
<1>1. CloseSet(h) \subseteq Handler /\ h \in CloseSet(h) /\ \A g \in CloseSet(h) : Open(g)
  BY Names DEF CloseSet
<1>2. \A g \in Handler : /\ fileno'[g] = IF g \in CloseSet(h) THEN NoFd ELSE fileno[g]
                         /\ hstate'[g] = IF g \in CloseSet(h) THEN "closed" ELSE hstate[g]
  BY DEF Close, IInv, TypeOK
<1>3. \A f \in Fd : fdmap'[f] = IF \E g \in CloseSet(h) : fileno[g] = f THEN Nobody ELSE fdmap[f]
  BY DEF Close
<1>4. RegistrationExact'
  <2>1. ASSUME NEW g \in Handler PROVE (Open(g) <=> fileno[g] # NoFd)'
    BY <1>2 DEF IInv, RegistrationExact, Open
  <2>2. ASSUME NEW f \in Fd, NEW g \in Handler PROVE fdmap'[f] = g <=> fileno'[g] = f
    BY <1>1, <1>2, <1>3, Names DEF IInv, RegistrationExact
  <2>. QED BY <2>1, <2>2 DEF RegistrationExact
<1>5. OpenLocalHasOpenRemote'
  <2>1. ASSUME NEW b \in Conn, hstate'[L(b)] = "open" PROVE hstate'[R(b)] = "open"
    <3>1. hstate[L(b)] = "open" /\ L(b) \notin CloseSet(h)
      BY <1>2, <2>1, Names
    <3>2. h # R(b)
      BY <3>1 DEF CloseSet, Open
    <3>3. R(b) \notin CloseSet(h)
      BY <3>2, Names DEF CloseSet
    <3>. QED BY <1>2, <3>1, <3>3, Names DEF IInv, OpenLocalHasOpenRemote, Open
  <2>. QED BY <2>1 DEF OpenLocalHasOpenRemote, Open
<1>6. PairsAccepted'
  BY <1>1, <1>2, Names DEF IInv, PairsAccepted, Open
<1>. QED BY <1>4, <1>5, <1>6

LEMMA AcceptRegistration ==
    ASSUME IInv, NEW b \in Conn, Accept(b)
    PROVE  RegistrationExact' /\ OpenLocalHasOpenRemote' /\ PairsAccepted'
<1>1. PICK f \in FreeFd, g \in FreeFd :
            /\ f # g
            /\ fileno' = [fileno EXCEPT ![L(b)] = f, ![R(b)] = g]
            /\ fdmap' = [fdmap EXCEPT ![f] = L(b), ![g] = R(b)]
  BY DEF Accept, IsLowest
<1>2. f \in Fd /\ g \in Fd /\ f # g /\ fdmap[f] = Nobody /\ fdmap[g] = Nobody
  BY <1>1 DEF FreeFd, FreeBut
<1>3. /\ L(b) \in Handler /\ R(b) \in Handler /\ L(b) # R(b)
      /\ hstate[L(b)] = "absent" /\ hstate[R(b)] = "absent"
  BY Names DEF Accept, Pending, IInv, PairsAccepted
<1>4. fileno[L(b)] = NoFd /\ fileno[R(b)] = NoFd
  BY <1>3 DEF IInv, RegistrationExact, Open
<1>5. hstate' = [hstate EXCEPT ![L(b)] = "open", ![R(b)] = "open"]
  BY DEF Accept
<1>6. \A h \in Handler : /\ fileno'[h] = IF h = L(b) THEN f ELSE IF h = R(b) THEN g ELSE fileno[h]
                         /\ hstate'[h] = IF h \in {L(b), R(b)} THEN "open" ELSE hstate[h]
  BY <1>1, <1>3, <1>5 DEF IInv, TypeOK
<1>7. \A x \in Fd : fdmap'[x] = IF x = f THEN L(b) ELSE IF x = g THEN R(b) ELSE fdmap[x]
  BY <1>1, <1>2 DEF IInv, TypeOK
<1>8. RegistrationExact'
  <2>1. ASSUME NEW h \in Handler PROVE (Open(h) <=> fileno[h] # NoFd)'
    BY <1>2, <1>6, Names DEF IInv, RegistrationExact, Open
  <2>2. ASSUME NEW x \in Fd, NEW h \in Handler PROVE fdmap'[x] = h <=> fileno'[h] = x
    BY <1>2, <1>3, <1>4, <1>6, <1>7, Names DEF IInv, RegistrationExact
  <2>. QED BY <2>1, <2>2 DEF RegistrationExact
<1>9. OpenLocalHasOpenRemote'
  <2>1. ASSUME NEW d \in Conn, hstate'[L(d)] = "open" PROVE hstate'[R(d)] = "open"
    BY <1>6, <2>1, Names DEF IInv, OpenLocalHasOpenRemote, Open
  <2>. QED BY <2>1 DEF OpenLocalHasOpenRemote, Open
<1>10. PairsAccepted'
  <2>1. ASSUME NEW d \in Conn PROVE hstate'[L(d)] = "absent" <=> hstate'[R(d)] = "absent"
    BY <1>6, Names DEF IInv, PairsAccepted
  <2>. QED BY <2>1 DEF PairsAccepted
<1>. QED BY <1>8, <1>9, <1>10

LEMMA IInvInit == ASSUME Init PROVE IInv
BY TypeInit, Names DEF Init, IInv, RegistrationExact, OpenLocalHasOpenRemote, PairsAccepted, Open

LEMMA IInvStep == ASSUME IInv, [Next]_vars PROVE IInv'
<1>1. TypeOK'
  BY TypeStep DEF IInv
<1>2. CASE UNCHANGED fdVars
  BY <1>1, <1>2 DEF fdVars, IInv, RegistrationExact, OpenLocalHasOpenRemote, PairsAccepted, Open
<1>3. ASSUME NEW h \in Handler, Open(h), Close(h) PROVE IInv'
  BY <1>1, <1>3, CloseRegistration DEF IInv
<1>4. ASSUME NEW b \in Conn, Accept(b) PROVE IInv'
  BY <1>1, <1>4, AcceptRegistration DEF IInv
<1>. QED BY <1>2, <1>3, <1>4, FdStep DEF IInv

LEMMA IInvHolds == Spec => []IInv
<1>1. Init => IInv
  BY IInvInit
<1>2. IInv /\ [Next]_vars => IInv'
  BY IInvStep
<1>. QED BY <1>1, <1>2, PTL DEF Spec

(* _fdmap, the descriptors and self.closed agree in the client too, whoever *)
(* of a pair is closed first.                                               *)
THEOREM RegistrationCorrect == Spec => []RegistrationExact
<1>1. IInv => RegistrationExact
  BY DEF IInv
<1>. QED BY <1>1, IInvHolds, PTL

(* update_stream may use self.remote_sock without looking: as long as the   *)
(* local handler is open, so is its tunnel.                                 *)
THEOREM LocalHasRemote == Spec => []OpenLocalHasOpenRemote
<1>1. IInv => OpenLocalHasOpenRemote
  BY DEF IInv
<1>. QED BY <1>1, IInvHolds, PTL

-----------------------------------------------------------------------------
(* Events and their sockets.                                                *)

(* A handler that has been accepted stays so, and while it is open it keeps *)
(* its descriptor.                                                          *)
LEMMA HandlersAdvance ==
    ASSUME IInv, [Next]_vars, NEW h \in Handler, hstate[h] # "absent"
    PROVE  /\ hstate'[h] # "absent"
           /\ hstate[h] = "closed" => hstate'[h] = "closed"
           /\ Open(h)' => Open(h) /\ fileno'[h] = fileno[h]
<1>0. fileno \in [Handler -> Fd \cup {NoFd}] /\ hstate \in [Handler -> HandlerState]
  BY DEF IInv, TypeOK
<1>1. CASE UNCHANGED fdVars
  BY <1>1 DEF fdVars, Open
<1>2. ASSUME NEW g, Close(g)
      PROVE  /\ hstate'[h] \in {hstate[h], "closed"}
             /\ hstate'[h] = "open" => fileno'[h] = fileno[h]
  BY <1>2 DEF Close
<1>3. ASSUME NEW b \in Conn, Accept(b)
      PROVE  hstate'[h] = hstate[h] /\ fileno'[h] = fileno[h]
  <2>1. hstate[L(b)] = "absent" /\ hstate[R(b)] = "absent"
    BY <1>3 DEF Accept, Pending, IInv, PairsAccepted
  <2>2. h # L(b) /\ h # R(b)
    BY <2>1
  <2>3. PICK f, g : fileno' = [fileno EXCEPT ![L(b)] = f, ![R(b)] = g]
    BY <1>3 DEF Accept
  <2>4. hstate' = [hstate EXCEPT ![L(b)] = "open", ![R(b)] = "open"]
    BY <1>3 DEF Accept
  <2>. QED BY <1>0, <2>2, <2>3, <2>4
<1>. QED BY <1>0, <1>1, <1>2, <1>3, FdStep DEF IInv, Open, HandlerState

(* An event of the next batch is one of this batch, or just polled.         *)
LEMMA BatchStep ==
    ASSUME [Next]_vars
    PROVE  batch' \subseteq batch \/ (batch' = ReadyEvents /\ UNCHANGED fdVars)
<1>1. ASSUME NEW e \in batch, Dispatch(e) PROVE batch' \subseteq batch
  <2>1. Take(e)
    BY <1>1 DEF Dispatch, EventForNobody, EventError, EventHangup, RecvClosed, RecvError,
       StreamEnd, Greeting, RequestGarbled, Request, StreamData, PrefixCut, FrameIncomplete,
       FrameGarbled, FrameBack, TunnelData, Recv
  <2>. QED BY <2>1 DEF Take
<1>2. CASE UNCHANGED vars \/ WorldStep \/ AcceptFails \/ \E b \in Conn : Accept(b) \/ DnsAnswer(b)
  BY <1>2 DEF vars, loopVars, WorldStep, BrowserConnect, BrowserSend, ServerSend, DnsArrives,
     PeerFin, PeerReset, processVars, AcceptFails, Accept, DnsAnswer
<1>3. CASE Poll
  BY <1>3 DEF Poll
<1>. QED BY <1>1, <1>2, <1>3 DEF Next, LoopStep

(* While the socket of an event is open it has the event's descriptor, and  *)
(* so the handler found is its owner.                                       *)
EventsOfSockets ==
    \A e \in batch : hstate[e.sock] # "absent" /\ (Open(e.sock) => fileno[e.sock] = e.fd)

LEMMA EventOwner ==
    ASSUME IInv, EventsOfSockets, NEW e \in batch, Open(RecvSock(e))
    PROVE  Target(e) = RecvSock(e)
<1>1. e.sock \in Handler /\ e.fd \in Fd
  BY DEF IInv, TypeOK, Event
<1>2. fileno[e.sock] = e.fd
  BY DEF EventsOfSockets, RecvSock
<1>. QED BY <1>1, <1>2 DEF IInv, RegistrationExact, Target, RecvSock

LEMMA PolledEvents ==
    ASSUME IInv, NEW e \in ReadyEvents
    PROVE  e.sock \in Handler /\ Open(e.sock) /\ fileno[e.sock] = e.fd
<1>1. PICK f \in Fd : /\ fdmap[f] # Nobody
                      /\ e = [sock |-> fdmap[f], fd |-> f, flags |-> FlagsOf(fdmap[f])]
  BY DEF ReadyEvents
<1>2. fdmap[f] \in Handler
  BY <1>1 DEF IInv, TypeOK
<1>3. fileno[fdmap[f]] = f /\ f # NoFd
  BY <1>1, <1>2, Names DEF IInv, RegistrationExact
<1>. QED BY <1>1, <1>2, <1>3 DEF IInv, RegistrationExact

LEMMA EventsStep ==
    ASSUME IInv, EventsOfSockets, [Next]_vars
    PROVE  EventsOfSockets'
<1>1. CASE batch' \subseteq batch
  <2>1. ASSUME NEW e \in batch
        PROVE  hstate'[e.sock] # "absent" /\ (Open(e.sock)' => fileno'[e.sock] = e.fd)
    <3>1. e.sock \in Handler /\ hstate[e.sock] # "absent"
      BY DEF IInv, TypeOK, Event, EventsOfSockets
    <3>. QED BY <3>1, HandlersAdvance DEF EventsOfSockets
  <2>. QED BY <1>1, <2>1 DEF EventsOfSockets, Open
<1>2. CASE batch' = ReadyEvents /\ UNCHANGED fdVars
  BY <1>2, PolledEvents DEF EventsOfSockets, fdVars, Open
<1>. QED BY <1>1, <1>2, BatchStep

(* What a recv of an open handler takes from its own socket.                *)
LEMMA OwnRecv ==
    ASSUME IInv, EventsOfSockets, NEW e \in batch, NEW h \in Handler, NEW n, Recv(e, h, n)
    PROVE  /\ RecvSock(e) = h /\ Open(h)
           /\ n \in Nat /\ n <= inflight[h]
           /\ n = 0 => inflight[h] = 0 /\ peer[h] \in {"fin", "finrst", "dead"}
           /\ inflight' = [inflight EXCEPT ![h] = @ - n]
<1>1. Target(e) = RecvSock(e) /\ Target(e) = h
  BY EventOwner DEF Recv
<1>2. inflight[h] \in Nat
  BY DEF IInv, TypeOK
<1>. QED BY <1>1, <1>2 DEF Recv

-----------------------------------------------------------------------------
(* Frames on their way back.                                                *)

(* Every frame the server sent on a tunnel is handed on, or in data_to_back *)
(* or in the socket with all its units.                                     *)
TunnelAccounting ==
    \A b \in Conn : FrameUnits * (Len(downlink[b]) - parsed[b]) = inflight[R(b)] + buffered[b]

LEMMA DownTypes ==
    ASSUME IInv, TunnelAccounting
    PROVE  /\ downlink \in [Conn -> Seq(Nat)] /\ parsed \in [Conn -> Nat] /\ buffered \in [Conn -> Nat]
           /\ received \in [Conn -> Seq(Conn \X Nat \X {"all", "part"})]
           /\ dec \in Nat /\ serverEnc \in Nat
           /\ \A b \in Conn : /\ Len(downlink[b]) \in Nat /\ parsed[b] <= Len(downlink[b])
                              /\ inflight[R(b)] \in Nat
<1>1. /\ downlink \in [Conn -> Seq(Nat)] /\ parsed \in [Conn -> Nat] /\ buffered \in [Conn -> Nat]
      /\ received \in [Conn -> Seq(Conn \X Nat \X {"all", "part"})]
      /\ dec \in Nat /\ serverEnc \in Nat
  BY DEF IInv, TypeOK
<1>2. ASSUME NEW b \in Conn
      PROVE  Len(downlink[b]) \in Nat /\ parsed[b] <= Len(downlink[b]) /\ inflight[R(b)] \in Nat
  <2> DEFINE l == Len(downlink[b])
             p == parsed[b]
             u == inflight[R(b)] + buffered[b]
  <2>1. inflight[R(b)] \in Nat
    BY Names DEF IInv, TypeOK
  <2>2. l \in Nat /\ p \in Nat /\ u \in Nat
    BY <1>1, <2>1
  <2>3. 3 * (l - p) = u
    BY DEF TunnelAccounting, FrameUnits
  <2> HIDE DEF l, p, u
  <2>4. p <= l
    BY <2>2, <2>3
  <2>. QED BY <2>1, <2>2, <2>4 DEF l, p
<1>. QED BY <1>1, <1>2

(* A frame is taken off the front only if there is one.                     *)
LEMMA FrontFrame ==
    ASSUME IInv, TunnelAccounting, NEW b \in Conn, NEW n \in Nat, n <= inflight[R(b)],
           buffered[b] + n >= FrameUnits
    PROVE  parsed[b] + 1 \in 1 .. Len(downlink[b])
<1> DEFINE l == Len(downlink[b])
           p == parsed[b]
           u == inflight[R(b)] + buffered[b]
<1>0. l \in Nat /\ p \in Nat /\ inflight[R(b)] \in Nat /\ buffered[b] \in Nat
  BY DownTypes
<1>3. u \in Nat /\ u >= 3
  BY <1>0 DEF FrameUnits
<1>4. 3 * (l - p) = u
  BY DEF FrameUnits, TunnelAccounting
<1>1. l \in Nat /\ p \in Nat /\ u \in Nat /\ u >= 3 /\ 3 * (l - p) = u
  BY <1>0, <1>3, <1>4
<1> HIDE DEF l, p, u
<1>2. p + 1 \in 1 .. l
  BY <1>1
<1>. QED BY <1>2 DEF l, p

LEMMA TunnelKept ==
    ASSUME TunnelAccounting, UNCHANGED <<buffered, parsed, downlink>>,
           \A b \in Conn : inflight'[R(b)] = inflight[R(b)]
    PROVE  TunnelAccounting'
BY DEF TunnelAccounting, R

LEMMA TunnelDispatch ==
    ASSUME IInv, EventsOfSockets, TunnelAccounting, NEW e \in batch, Dispatch(e)
    PROVE  TunnelAccounting'
<1>0. inflight \in [Handler -> Nat]
  BY DEF IInv, TypeOK
<1>1. CASE EventForNobody(e) \/ EventError(e) \/ EventHangup(e) \/ RecvClosed(e) \/ RecvError(e)
  <2>1. UNCHANGED <<buffered, parsed, downlink, inflight>>
    BY <1>1 DEF EventForNobody, EventError, EventHangup, RecvClosed, RecvError, relayVars, downVars,
       netVars, serverVars
  <2>. QED BY <2>1, TunnelKept
<1>2. ASSUME NEW h \in Handler, StreamEnd(e, h) PROVE TunnelAccounting'
  <2>1. Recv(e, h, 0) /\ UNCHANGED <<buffered, parsed, downlink>>
    BY <1>2 DEF StreamEnd, downVars, serverVars
  <2>2. inflight' = [inflight EXCEPT ![h] = @ - 0] /\ inflight[h] \in Nat
    BY <1>0, <2>1, OwnRecv
  <2>3. inflight' = inflight
    BY <1>0, <2>2
  <2>. QED BY <2>1, <2>3, TunnelKept
<1>3. ASSUME NEW b \in Conn, NEW n,
             Greeting(e, b, n) \/ RequestGarbled(e, b, n) \/ Request(e, b, n) \/ StreamData(e, b, n)
      PROVE  TunnelAccounting'
  <2>1. Recv(e, L(b), n) /\ UNCHANGED <<buffered, parsed, downlink>>
    BY <1>3 DEF Greeting, RequestGarbled, Request, StreamData, downVars, serverVars
  <2>2. inflight' = [inflight EXCEPT ![L(b)] = @ - n]
    BY <2>1, OwnRecv, Names
  <2>3. \A d \in Conn : inflight'[R(d)] = inflight[R(d)]
    BY <1>0, <2>2, Names
  <2>. QED BY <2>1, <2>3, TunnelKept
<1>4. ASSUME NEW b \in Conn, NEW n,
             \/ PrefixCut(e, b, n) \/ FrameIncomplete(e, b, n) \/ FrameGarbled(e, b, n)
             \/ \E taken \in {"all", "part", "none"} : FrameBack(e, b, n, taken)
      PROVE  TunnelAccounting'
  <2>1. Recv(e, R(b), n) /\ UNCHANGED downlink
    BY <1>4 DEF PrefixCut, FrameIncomplete, FrameGarbled, FrameBack, TunnelData, serverVars
  <2>2. /\ n \in Nat /\ n <= inflight[R(b)] /\ R(b) \in Handler
        /\ inflight' = [inflight EXCEPT ![R(b)] = @ - n]
    BY <2>1, OwnRecv, Names
  <2>3. \/ buffered' = [buffered EXCEPT ![b] = @ + n] /\ parsed' = parsed
        \/ /\ buffered' = [buffered EXCEPT ![b] = @ + n - FrameUnits]
           /\ parsed' = [parsed EXCEPT ![b] = @ + 1]
    BY <1>4 DEF PrefixCut, FrameIncomplete, FrameGarbled, FrameBack, FrameKept, FramePassed
  <2> SUFFICES ASSUME NEW d \in Conn
               PROVE  FrameUnits * (Len(downlink[d]) - parsed'[d]) = inflight'[R(d)] + buffered'[d]
    BY <2>1 DEF TunnelAccounting, R
  <2>4. FrameUnits * (Len(downlink[d]) - parsed[d]) = inflight[R(d)] + buffered[d]
    BY DEF TunnelAccounting
  <2>5. CASE d # b
    <3>1. inflight'[R(d)] = inflight[R(d)]
      BY <1>0, <2>2, <2>5, Names
    <3>2. buffered'[d] = buffered[d] /\ parsed'[d] = parsed[d]
      BY <2>3, <2>5, DownTypes
    <3>. QED BY <2>4, <3>1, <3>2
  <2>6. CASE d = b
    <3>1. inflight'[R(b)] = inflight[R(b)] - n
      BY <1>0, <2>2
    <3>2. \/ buffered'[b] = buffered[b] + n /\ parsed'[b] = parsed[b]
          \/ buffered'[b] = buffered[b] + n - FrameUnits /\ parsed'[b] = parsed[b] + 1
      BY <2>3, DownTypes
    <3> DEFINE l == Len(downlink[b])
               p == parsed[b]
               q == parsed'[b]
               u == inflight[R(b)] + buffered[b]
               v == inflight'[R(b)] + buffered'[b]
    <3>3. l \in Nat /\ p \in Nat /\ u \in Nat /\ 3 * (l - p) = u
      BY <2>4, <2>6, DownTypes DEF FrameUnits
    <3>0. inflight[R(b)] \in Nat /\ buffered[b] \in Nat /\ p \in Nat
      BY DownTypes
    <3>4. (v = u /\ q = p) \/ (v = u - 3 /\ q = p + 1)
      BY <2>2, <3>0, <3>1, <3>2 DEF FrameUnits
    <3> HIDE DEF l, p, q, u, v
    <3>5. q \in Int /\ v \in Int
      BY <3>3, <3>4
    <3>6. 3 * (l - q) = v
      BY <3>3, <3>4, <3>5
    <3>. QED BY <2>6, <3>6 DEF l, p, q, u, v, FrameUnits
  <2>. QED BY <2>5, <2>6
<1>. QED BY <1>1, <1>2, <1>3, <1>4 DEF Dispatch

LEMMA TunnelStep ==
    ASSUME IInv, EventsOfSockets, TunnelAccounting, [Next]_vars
    PROVE  TunnelAccounting'
<1>0. inflight \in [Handler -> Nat]
  BY DEF IInv, TypeOK
<1>1. CASE UNCHANGED vars \/ Poll \/ AcceptFails \/ \E b \in Conn : Accept(b) \/ DnsAnswer(b)
  <2>1. UNCHANGED <<buffered, parsed, downlink, inflight>>
    BY <1>1 DEF vars, Poll, AcceptFails, Accept, DnsAnswer, relayVars, downVars, netVars, serverVars
  <2>. QED BY <2>1, TunnelKept
<1>2. ASSUME NEW b \in Conn, ServerSend(b) PROVE TunnelAccounting'
  <2>1. /\ downlink' = [downlink EXCEPT ![b] = Append(@, serverEnc)]
        /\ inflight' = [inflight EXCEPT ![R(b)] = @ + FrameUnits]
        /\ UNCHANGED <<buffered, parsed>>
    BY <1>2 DEF ServerSend, processVars, downVars
  <2>2. \A d \in Conn : Len(downlink'[d]) = IF d = b THEN Len(downlink[d]) + 1 ELSE Len(downlink[d])
    BY <2>1, DownTypes
  <2>3. \A d \in Conn : inflight'[R(d)] = IF d = b THEN inflight[R(d)] + FrameUnits ELSE inflight[R(d)]
    BY <1>0, <2>1, Names
  <2> SUFFICES ASSUME NEW d \in Conn
               PROVE  FrameUnits * (Len(downlink'[d]) - parsed[d]) = inflight'[R(d)] + buffered[d]
    BY <2>1 DEF TunnelAccounting, R
  <2> DEFINE l == Len(downlink[d])
             m == Len(downlink'[d])
             p == parsed[d]
             u == inflight[R(d)] + buffered[d]
             v == inflight'[R(d)] + buffered[d]
  <2>4. l \in Nat /\ p \in Nat /\ u \in Nat /\ 3 * (l - p) = u
    <3>1. l \in Nat /\ p \in Nat /\ inflight[R(d)] \in Nat /\ buffered[d] \in Nat
      BY DownTypes
    <3>2. FrameUnits * (l - p) = u
      BY Zenon DEF TunnelAccounting
    <3>. QED BY <3>1, <3>2 DEF FrameUnits
  <2>5. (v = u /\ m = l) \/ (v = u + 3 /\ m = l + 1)
    BY <2>2, <2>3, DownTypes DEF FrameUnits
  <2> HIDE DEF l, m, p, u, v
  <2>6. 3 * (m - p) = v
    BY <2>4, <2>5
  <2>. QED BY <2>6 DEF l, m, p, u, v, FrameUnits
<1>3. ASSUME NEW b \in Conn, BrowserSend(b) PROVE TunnelAccounting'
  <2>1. UNCHANGED <<buffered, parsed, downlink>>
    BY <1>3 DEF BrowserSend, processVars, downVars, serverVars
  <2>2. \A d \in Conn : inflight'[R(d)] = inflight[R(d)]
    BY <1>0, <1>3, Names DEF BrowserSend
  <2>. QED BY <2>1, <2>2, TunnelKept
<1>4. CASE \/ \E b \in Conn : BrowserConnect(b) \/ DnsArrives(b)
           \/ \E h \in Handler : PeerFin(h) \/ PeerReset(h)
  <2>1. UNCHANGED <<buffered, parsed, downlink, inflight>>
    BY <1>4 DEF BrowserConnect, DnsArrives, PeerFin, PeerReset, processVars, downVars, netVars,
       serverVars
  <2>. QED BY <2>1, TunnelKept
<1>5. ASSUME NEW e \in batch, Dispatch(e) PROVE TunnelAccounting'
  BY <1>5, TunnelDispatch
<1>. QED BY <1>1, <1>2, <1>3, <1>4, <1>5 DEF Next, LoopStep, WorldStep

LEMMA TunnelInvariant == Spec => [](IInv /\ EventsOfSockets /\ TunnelAccounting)
<1>1. Init => EventsOfSockets /\ TunnelAccounting
  BY Names DEF Init, EventsOfSockets, TunnelAccounting, FrameUnits
<1>2. (IInv /\ EventsOfSockets /\ TunnelAccounting) /\ [Next]_vars
      => (EventsOfSockets /\ TunnelAccounting)'
  BY EventsStep, TunnelStep
<1>. QED BY <1>1, <1>2, IInvHolds, PTL DEF Spec

-----------------------------------------------------------------------------
(* source_dest_map.                                                         *)

(* A key names a connection that has it, and every tunnel that has taken a  *)
(* frame, so every one that can bring one back, has its key there.          *)
OwnerExact ==
    /\ \A k \in Key : owner[k] # Nobody => KeyOf[owner[k]] = k
    /\ \A b \in Conn : uplink[b] # <<>> \/ downlink[b] # <<>> => owner[KeyOf[b]] # Nobody

LEMMA OwnerStep ==
    ASSUME IInv, OwnerExact, [Next]_vars
    PROVE  OwnerExact'
<1>. USE LocalAssumption DEF LocalAssumption
<1>0. /\ owner \in [Key -> Conn \cup {Nobody}] /\ uplink \in [Conn -> Seq(UpFrame)]
      /\ downlink \in [Conn -> Seq(Nat)]
  BY DEF IInv, TypeOK
<1>1. CASE UNCHANGED <<owner, uplink, downlink>>
  BY <1>1 DEF OwnerExact
<1>2. CASE UNCHANGED vars \/ Poll \/ AcceptFails \/ \E b \in Conn : Accept(b) \/ DnsAnswer(b)
  BY <1>1, <1>2 DEF vars, Poll, AcceptFails, Accept, DnsAnswer, relayVars, upVars, serverVars
<1>3. CASE \/ \E b \in Conn : BrowserConnect(b) \/ BrowserSend(b) \/ DnsArrives(b)
           \/ \E h \in Handler : PeerFin(h) \/ PeerReset(h)
  BY <1>1, <1>3 DEF BrowserConnect, BrowserSend, DnsArrives, PeerFin, PeerReset, processVars,
     upVars, serverVars
<1>4. ASSUME NEW b \in Conn, ServerSend(b) PROVE OwnerExact'
  <2>1. /\ uplink[b] # <<>> /\ downlink' = [downlink EXCEPT ![b] = Append(@, serverEnc)]
        /\ UNCHANGED <<owner, uplink>>
    BY <1>4 DEF ServerSend, processVars, upVars
  <2>. QED BY <1>0, <2>1 DEF OwnerExact
<1>5. ASSUME NEW e \in batch, NEW b \in Conn, NEW n, StreamData(e, b, n) PROVE OwnerExact'
  <2>1. owner' = [owner EXCEPT ![KeyOf[b]] = IF @ = Nobody THEN b ELSE @]
    BY <1>5 DEF StreamData, Own
  <2>2. /\ uplink' = uplink \/ \E x : uplink' = [uplink EXCEPT ![b] = x]
        /\ downlink' = downlink
    BY <1>5 DEF StreamData, FrameTaken, FrameLeft, serverVars
  <2>3. \A k \in Key : owner'[k] = IF k = KeyOf[b] /\ owner[k] = Nobody THEN b ELSE owner[k]
    BY <1>0, <2>1
  <2>4. \A k \in Key : owner'[k] # Nobody => KeyOf[owner'[k]] = k
    BY <2>3 DEF OwnerExact
  <2>5. ASSUME NEW d \in Conn, uplink'[d] # <<>> \/ downlink'[d] # <<>>
        PROVE  owner'[KeyOf[d]] # Nobody
    <3>1. CASE d = b
      BY <2>3, <3>1, Names
    <3>2. CASE d # b
      BY <1>0, <2>2, <2>3, <2>5, <3>2, Names DEF OwnerExact
    <3>. QED BY <3>1, <3>2
  <2>. QED BY <2>4, <2>5 DEF OwnerExact
<1>6. ASSUME NEW e \in batch, Dispatch(e) PROVE OwnerExact'
  <2>1. ASSUME \/ EventForNobody(e) \/ EventError(e) \/ EventHangup(e) \/ RecvClosed(e) \/ RecvError(e)
               \/ \E h \in Handler : StreamEnd(e, h)
               \/ \E b \in Conn : \E n \in 0 .. inflight[RecvSock(e)] :
                    \/ Greeting(e, b, n) \/ RequestGarbled(e, b, n) \/ Request(e, b, n)
                    \/ PrefixCut(e, b, n) \/ FrameIncomplete(e, b, n) \/ FrameGarbled(e, b, n)
                    \/ \E taken \in {"all", "part", "none"} : FrameBack(e, b, n, taken)
        PROVE  UNCHANGED <<owner, uplink, downlink>>
    BY <2>1 DEF EventForNobody, EventError, EventHangup, RecvClosed, RecvError, StreamEnd, Greeting,
       RequestGarbled, Request, PrefixCut, FrameIncomplete, FrameGarbled, FrameBack, relayVars,
       upVars, serverVars
  <2>. QED BY <1>1, <1>5, <1>6, <2>1 DEF Dispatch
<1>. QED BY <1>2, <1>3, <1>4, <1>6 DEF Next, LoopStep, WorldStep

-----------------------------------------------------------------------------
(* The server's cipher stream.                                              *)

(* The frames of all tunnels together are the stream of the server, and     *)
(* each tunnel has its part of it in order.                                 *)
StreamSplit ==
    /\ \A b \in Conn : \A i \in 1 .. Len(downlink[b]) : downlink[b][i] \in 0 .. serverEnc - 1
    /\ \A b \in Conn : \A i, j \in 1 .. Len(downlink[b]) : i < j => downlink[b][i] < downlink[b][j]
    /\ \A b, d \in Conn : \A i \in 1 .. Len(downlink[b]), j \in 1 .. Len(downlink[d]) :
          downlink[b][i] = downlink[d][j] => b = d /\ i = j
    /\ \A p \in 0 .. serverEnc - 1 : \E b \in Conn : \E i \in 1 .. Len(downlink[b]) : downlink[b][i] = p

(* What was handed on has been deciphered.                                  *)
Deciphered ==
    \A b \in Conn : \A i \in 1 .. Len(downlink[b]) : i <= parsed[b] => downlink[b][i] < dec

(* A browser is sent what was handed on by a tunnel of its key.             *)
ReceivedParsed ==
    \A b \in Conn : \A m \in 1 .. Len(received[b]) :
        /\ received[b][m][1] \in Conn
        /\ received[b][m][2] \in 1 .. parsed[received[b][m][1]]
        /\ KeyOf[received[b][m][1]] = KeyOf[b]

TunnelInv == EventsOfSockets /\ TunnelAccounting
StreamInv == OwnerExact /\ StreamSplit /\ Deciphered /\ ReceivedParsed /\ StreamKept

(* What a step does to the stream: the server sends a frame; a frame is     *)
(* garbage; a frame is handed on; a frame is kept; or nothing.              *)
StreamUntouched ==
    UNCHANGED <<downlink, serverEnc, parsed, dec, received>> /\ crash' # "ValueError"
FrameSends(b) ==
    /\ downlink' = [downlink EXCEPT ![b] = Append(@, serverEnc)]
    /\ serverEnc' = serverEnc + 1
    /\ UNCHANGED <<parsed, dec, received, crash>>
FrameFails(b) ==
    /\ parsed[b] + 1 \in 1 .. Len(downlink[b])
    /\ FrontSeq(b) # dec
    /\ dec' = dec + 1
    /\ UNCHANGED <<downlink, serverEnc, parsed, received>>
FrameOpens(b) ==
    /\ parsed[b] + 1 \in 1 .. Len(downlink[b])
    /\ FrontSeq(b) = dec
    /\ dec' = dec + 1
    /\ UNCHANGED <<downlink, serverEnc, crash>>
FrameGoes(b, t, taken) ==
    /\ FrameOpens(b)
    /\ KeyOf[t] = KeyOf[b]
    /\ parsed' = [parsed EXCEPT ![b] = @ + 1]
    /\ received' = [received EXCEPT ![t] = Append(@, <<b, parsed[b] + 1, taken>>)]
FrameStays(b) ==
    /\ FrameOpens(b)
    /\ UNCHANGED <<parsed, received>>
HandedOn(b) == \E t \in Conn : \E taken \in {"all", "part"} : FrameGoes(b, t, taken)

LEMMA StreamStep ==
    ASSUME IInv, TunnelInv, OwnerExact, Next
    PROVE  \/ StreamUntouched
           \/ \E b \in Conn : FrameSends(b) \/ FrameFails(b) \/ HandedOn(b) \/ FrameStays(b)
<1>0. crash = "none"
  BY DEF Next, LoopStep, WorldStep
<1>1. ASSUME NEW b \in Conn, ServerSend(b) PROVE FrameSends(b)
  BY <1>1 DEF ServerSend, FrameSends, processVars, downVars
<1>2. CASE \/ Poll \/ AcceptFails \/ \E b \in Conn : Accept(b) \/ BrowserConnect(b) \/ BrowserSend(b)
           \/ \E b \in Conn : DnsArrives(b)
           \/ \E h \in Handler : PeerFin(h) \/ PeerReset(h)
  BY <1>0, <1>2 DEF Poll, AcceptFails, Accept, BrowserConnect, BrowserSend, DnsArrives, PeerFin,
     PeerReset, processVars, relayVars, downVars, serverVars, StreamUntouched
<1>3. ASSUME NEW b \in Conn, DnsAnswer(b) PROVE StreamUntouched
  BY <1>0, <1>3 DEF DnsAnswer, Resolved, downVars, serverVars, StreamUntouched
<1>4. ASSUME NEW e \in batch, Dispatch(e)
      PROVE  \/ StreamUntouched
             \/ \E b \in Conn : FrameFails(b) \/ HandedOn(b) \/ FrameStays(b)
  <2>1. CASE \/ EventForNobody(e) \/ EventError(e) \/ EventHangup(e) \/ RecvClosed(e)
             \/ RecvError(e) \/ \E h \in Handler : StreamEnd(e, h)
    BY <1>0, <2>1 DEF EventForNobody, EventError, EventHangup, RecvClosed, RecvError, StreamEnd,
       relayVars, downVars, serverVars, StreamUntouched
  <2>2. ASSUME NEW b \in Conn, NEW n,
               Greeting(e, b, n) \/ RequestGarbled(e, b, n) \/ Request(e, b, n) \/ StreamData(e, b, n)
        PROVE  StreamUntouched
    BY <1>0, <2>2 DEF Greeting, RequestGarbled, Request, Resolved, StreamData, downVars, serverVars,
       StreamUntouched
  <2>3. ASSUME NEW b \in Conn, NEW n, PrefixCut(e, b, n) \/ FrameIncomplete(e, b, n)
        PROVE  StreamUntouched
    BY <1>0, <2>3 DEF PrefixCut, FrameIncomplete, serverVars, StreamUntouched
  <2>4. ASSUME NEW b \in Conn, NEW n, TunnelData(e, b, n), buffered[b] + n >= FrameUnits
        PROVE  parsed[b] + 1 \in 1 .. Len(downlink[b])
    <3>1. n \in Nat /\ n <= inflight[R(b)]
      BY <2>4, OwnRecv, Names DEF TunnelData, TunnelInv
    <3>. QED BY <2>4, <3>1, FrontFrame DEF TunnelInv
  <2>5. ASSUME NEW b \in Conn, NEW n, FrameGarbled(e, b, n) PROVE FrameFails(b)
    BY <2>4, <2>5 DEF FrameGarbled, FrameFails, serverVars
  <2>6. ASSUME NEW b \in Conn, NEW n, NEW taken \in {"all", "part", "none"}, FrameBack(e, b, n, taken)
        PROVE  HandedOn(b) \/ FrameStays(b)
    <3> DEFINE t == owner[KeyOf[b]]
    <3>1. FrameOpens(b)
      BY <2>4, <2>6 DEF FrameBack, FrameOpens, serverVars
    <3>2. t \in Conn /\ KeyOf[t] = KeyOf[b]
      BY <2>6, LocalAssumption DEF FrameBack, OwnerExact, IInv, TypeOK, LocalAssumption
    <3>3. CASE taken = "none"
      BY <2>6, <3>1, <3>3 DEF FrameBack, FrameKept, FrameStays
    <3>4. CASE taken # "none"
      <4>1. FramePassed(b, n, t, taken)
        BY <2>6, <3>4 DEF FrameBack
      <4>2. FrameGoes(b, t, taken)
        BY <3>1, <3>2, <4>1 DEF FramePassed, FrameGoes
      <4>. QED BY <3>2, <3>4, <4>2 DEF HandedOn
    <3>. QED BY <3>3, <3>4
  <2>. QED BY <1>4, <2>1, <2>2, <2>3, <2>5, <2>6 DEF Dispatch
<1>. QED BY <1>1, <1>2, <1>3, <1>4 DEF Next, LoopStep, WorldStep

(* What the server adds to a tunnel leaves the rest of it in place.         *)
LEMMA SendKeepsPlaces ==
    ASSUME IInv, TunnelInv, NEW b \in Conn, FrameSends(b)
    PROVE  \A d \in Conn :
             /\ Len(downlink'[d]) = IF d = b THEN Len(downlink[d]) + 1 ELSE Len(downlink[d])
             /\ \A i \in 1 .. Len(downlink[d]) : downlink'[d][i] = downlink[d][i]
             /\ \A i \in 1 .. Len(downlink'[d]) :
                   \/ i \in 1 .. Len(downlink[d])
                   \/ d = b /\ i = Len(downlink[b]) + 1 /\ downlink'[d][i] = serverEnc
<1>0. downlink \in [Conn -> Seq(Nat)] /\ serverEnc \in Nat
  BY DEF IInv, TypeOK
<1>1. downlink' = [downlink EXCEPT ![b] = Append(@, serverEnc)]
  BY DEF FrameSends
<1>. QED BY <1>0, <1>1

LEMMA StreamSplitStep ==
    ASSUME IInv, TunnelInv, OwnerExact, StreamSplit, [Next]_vars
    PROVE  StreamSplit'
<1>1. CASE UNCHANGED <<downlink, serverEnc>>
  BY <1>1 DEF StreamSplit
<1>2. ASSUME NEW b \in Conn, FrameSends(b) PROVE StreamSplit'
  <2>1. serverEnc' = serverEnc + 1 /\ serverEnc \in Nat
    BY <1>2, DownTypes DEF TunnelInv, FrameSends
  <2>2. \A d \in Conn : \A i \in 1 .. Len(downlink[d]) : downlink[d][i] \in 0 .. serverEnc - 1
    BY DEF StreamSplit
  <2>3. /\ \A d \in Conn : Len(downlink[d]) \in Nat
        /\ \A d \in Conn :
             /\ Len(downlink'[d]) = IF d = b THEN Len(downlink[d]) + 1 ELSE Len(downlink[d])
             /\ \A i \in 1 .. Len(downlink[d]) : downlink'[d][i] = downlink[d][i]
             /\ \A i \in 1 .. Len(downlink'[d]) :
                   i \in 1 .. Len(downlink[d]) \/ (d = b /\ i = Len(downlink[b]) + 1 /\ downlink'[d][i] = serverEnc)
    BY <1>2, DownTypes, SendKeepsPlaces DEF TunnelInv
  <2>4. \A d \in Conn : \A i \in 1 .. Len(downlink'[d]) : downlink'[d][i] \in 0 .. serverEnc' - 1
    <3> SUFFICES ASSUME NEW d \in Conn, NEW i \in 1 .. Len(downlink'[d])
                 PROVE  downlink'[d][i] \in 0 .. serverEnc' - 1
      OBVIOUS
    <3>1. CASE i \in 1 .. Len(downlink[d])
      <4>1. downlink'[d][i] = downlink[d][i] /\ downlink[d][i] \in 0 .. serverEnc - 1
        BY <2>2, <2>3, <3>1
      <4>. QED BY <2>1, <4>1
    <3>2. CASE downlink'[d][i] = serverEnc
      BY <2>1, <3>2
    <3>. QED BY <2>3, <3>1, <3>2
  <2>5. \A d \in Conn : \A i, j \in 1 .. Len(downlink'[d]) : i < j => downlink'[d][i] < downlink'[d][j]
    <3> SUFFICES ASSUME NEW d \in Conn, NEW i \in 1 .. Len(downlink'[d]), NEW j \in 1 .. Len(downlink'[d]), i < j
                 PROVE  downlink'[d][i] < downlink'[d][j]
      OBVIOUS
    <3>1. CASE j \in 1 .. Len(downlink[d])
      <4>1. i \in 1 .. Len(downlink[d])
        BY <2>3, <3>1
      <4>. QED BY <2>3, <3>1, <4>1 DEF StreamSplit
    <3>2. CASE d = b /\ j = Len(downlink[b]) + 1 /\ downlink'[d][j] = serverEnc
      <4>1. i \in 1 .. Len(downlink[d])
        BY <2>3, <3>2
      <4>2. downlink'[d][i] = downlink[d][i] /\ downlink[d][i] \in 0 .. serverEnc - 1
        BY <2>2, <2>3, <4>1
      <4>. QED BY <2>1, <3>2, <4>2
    <3>. QED BY <2>3, <3>1, <3>2
  <2>6. \A d, g \in Conn : \A i \in 1 .. Len(downlink'[d]), j \in 1 .. Len(downlink'[g]) :
           downlink'[d][i] = downlink'[g][j] => d = g /\ i = j
    <3> SUFFICES ASSUME NEW d \in Conn, NEW g \in Conn, NEW i \in 1 .. Len(downlink'[d]),
                        NEW j \in 1 .. Len(downlink'[g]), downlink'[d][i] = downlink'[g][j]
                 PROVE  d = g /\ i = j
      OBVIOUS
    <3>1. CASE i \in 1 .. Len(downlink[d]) /\ j \in 1 .. Len(downlink[g])
      BY <2>3, <3>1 DEF StreamSplit
    <3>2. ASSUME NEW h \in Conn, NEW m \in 1 .. Len(downlink[h]) PROVE downlink'[h][m] # serverEnc
      <4>1. downlink'[h][m] = downlink[h][m] /\ downlink[h][m] \in 0 .. serverEnc - 1
        BY <2>2, <2>3
      <4>. QED BY <2>1, <4>1
    <3>. QED BY <2>3, <3>1, <3>2
  <2>7. \A p \in 0 .. serverEnc' - 1 : \E d \in Conn : \E i \in 1 .. Len(downlink'[d]) : downlink'[d][i] = p
    <3> SUFFICES ASSUME NEW p \in 0 .. serverEnc' - 1
                 PROVE  \E d \in Conn : \E i \in 1 .. Len(downlink'[d]) : downlink'[d][i] = p
      OBVIOUS
    <3>1. CASE p \in 0 .. serverEnc - 1
      <4>1. PICK d \in Conn : \E i \in 1 .. Len(downlink[d]) : downlink[d][i] = p
        BY <3>1 DEF StreamSplit
      <4>2. PICK i \in 1 .. Len(downlink[d]) : downlink[d][i] = p
        BY <4>1
      <4>3. i \in 1 .. Len(downlink'[d]) /\ downlink'[d][i] = p
        BY <2>3, <4>2
      <4>. QED BY <4>3
    <3>2. CASE p = serverEnc
      <4>1. Len(downlink[b]) + 1 \in 1 .. Len(downlink'[b]) /\ Len(downlink[b]) + 1 \notin 1 .. Len(downlink[b])
        BY <2>3
      <4>2. downlink'[b][Len(downlink[b]) + 1] = serverEnc
        BY <2>3, <4>1
      <4>. QED BY <3>2, <4>1, <4>2
    <3>. QED BY <2>1, <3>1, <3>2
  <2>. QED BY <2>4, <2>5, <2>6, <2>7 DEF StreamSplit
<1>3. CASE UNCHANGED vars
  BY <1>1, <1>3 DEF vars, serverVars
<1>. QED BY <1>1, <1>2, <1>3, StreamStep
     DEF StreamUntouched, FrameFails, HandedOn, FrameGoes, FrameStays, FrameOpens

LEMMA DecipheredStep ==
    ASSUME IInv, TunnelInv, OwnerExact, Deciphered, [Next]_vars
    PROVE  Deciphered'
<1>0. /\ parsed \in [Conn -> Nat] /\ dec \in Nat /\ downlink \in [Conn -> Seq(Nat)]
      /\ \A b \in Conn : Len(downlink[b]) \in Nat /\ parsed[b] <= Len(downlink[b])
  BY DownTypes DEF TunnelInv
<1>1. CASE UNCHANGED <<downlink, parsed, dec>>
  BY <1>1 DEF Deciphered
<1>2. ASSUME NEW b \in Conn, FrameSends(b) PROVE Deciphered'
  <2>1. UNCHANGED <<parsed, dec>>
    BY <1>2 DEF FrameSends
  <2>2. ASSUME NEW d \in Conn, NEW i \in 1 .. Len(downlink'[d]), i <= parsed[d]
        PROVE  downlink'[d][i] < dec
    <3>1. i \in 1 .. Len(downlink[d])
      BY <1>0, <2>2
    <3>2. downlink'[d][i] = downlink[d][i]
      BY <1>2, <3>1, SendKeepsPlaces
    <3>. QED BY <2>2, <3>1, <3>2 DEF Deciphered
  <2>. QED BY <2>1, <2>2 DEF Deciphered
<1>3. ASSUME dec' = dec + 1, UNCHANGED <<downlink, parsed>> PROVE Deciphered'
  <2>1. ASSUME NEW d \in Conn, NEW i \in 1 .. Len(downlink[d]), i <= parsed[d]
        PROVE  downlink[d][i] < dec + 1
    <3>1. downlink[d][i] < dec /\ downlink[d][i] \in Nat
      BY <1>0, <2>1 DEF Deciphered
    <3>. QED BY <1>0, <3>1
  <2>. QED BY <1>3, <2>1 DEF Deciphered
<1>4. ASSUME NEW b \in Conn, FrameOpens(b), parsed' = [parsed EXCEPT ![b] = @ + 1] PROVE Deciphered'
  <2>1. dec' = dec + 1 /\ UNCHANGED downlink /\ downlink[b][parsed[b] + 1] = dec
    BY <1>4 DEF FrameOpens, FrontSeq
  <2>2. ASSUME NEW d \in Conn, NEW i \in 1 .. Len(downlink[d]), i <= parsed'[d]
        PROVE  downlink[d][i] < dec + 1
    <3>1. i <= parsed[d] \/ (d = b /\ i = parsed[b] + 1)
      BY <1>0, <1>4, <2>2
    <3>2. downlink[d][i] \in Nat
      BY <1>0
    <3>3. i <= parsed[d] => downlink[d][i] < dec
      BY DEF Deciphered
    <3>. QED BY <1>0, <2>1, <3>1, <3>2, <3>3
  <2>. QED BY <2>1, <2>2 DEF Deciphered
<1>5. CASE UNCHANGED vars
  BY <1>1, <1>5 DEF vars, downVars, serverVars
<1>. QED BY <1>1, <1>2, <1>3, <1>4, <1>5, StreamStep
     DEF StreamUntouched, FrameFails, HandedOn, FrameGoes, FrameStays, FrameOpens

LEMMA ReceivedParsedStep ==
    ASSUME IInv, TunnelInv, OwnerExact, ReceivedParsed, [Next]_vars
    PROVE  ReceivedParsed'
<1> DEFINE S == Conn \X Nat \X {"all", "part"}
<1>0. parsed \in [Conn -> Nat] /\ received \in [Conn -> Seq(S)]
  BY DEF IInv, TypeOK
<1>1. CASE UNCHANGED <<parsed, received>>
  BY <1>1 DEF ReceivedParsed
<1>2. ASSUME NEW b \in Conn, NEW t \in Conn, NEW taken \in {"all", "part"}, FrameGoes(b, t, taken)
      PROVE  ReceivedParsed'
  <2> DEFINE r == <<b, parsed[b] + 1, taken>>
  <2>1. /\ parsed' = [parsed EXCEPT ![b] = @ + 1] /\ KeyOf[t] = KeyOf[b]
        /\ received' = [received EXCEPT ![t] = Append(@, r)]
    BY <1>2 DEF FrameGoes
  <2>2. \A d \in Conn : parsed[d] \in Nat /\ parsed'[d] \in Nat /\ parsed[d] <= parsed'[d]
    BY <1>0, <2>1
  <2>3. r[1] = b /\ r[2] = parsed'[b] /\ r[2] \in 1 .. parsed'[b] /\ r \in S
    BY <1>0, <2>1
  <2> HIDE DEF r, S
  <2> SUFFICES ASSUME NEW d \in Conn, NEW m \in 1 .. Len(received'[d])
               PROVE  /\ received'[d][m][1] \in Conn
                      /\ received'[d][m][2] \in 1 .. parsed'[received'[d][m][1]]
                      /\ KeyOf[received'[d][m][1]] = KeyOf[d]
    BY DEF ReceivedParsed
  <2>4. \/ m \in 1 .. Len(received[d]) /\ received'[d][m] = received[d][m]
        \/ d = t /\ received'[d][m] = r
    BY <1>0, <2>1, <2>3
  <2>5. CASE m \in 1 .. Len(received[d]) /\ received'[d][m] = received[d][m]
    <3>1. /\ received[d][m][1] \in Conn /\ received[d][m][2] \in 1 .. parsed[received[d][m][1]]
          /\ KeyOf[received[d][m][1]] = KeyOf[d]
      BY <2>5 DEF ReceivedParsed
    <3>. QED BY <2>2, <2>5, <3>1
  <2>6. CASE d = t /\ received'[d][m] = r
    BY <2>1, <2>3, <2>6
  <2>. QED BY <2>4, <2>5, <2>6
<1>3. CASE UNCHANGED vars
  BY <1>1, <1>3 DEF vars, downVars
<1>. QED BY <1>1, <1>2, <1>3, StreamStep
     DEF StreamUntouched, FrameFails, FrameSends, HandedOn, FrameStays, FrameOpens

(* What a browser is sent is deciphered later than all it was sent before.  *)
LEMMA OrderStep ==
    ASSUME IInv, TunnelInv, StreamInv, [Next]_vars
    PROVE  DownlinkInStreamOrder'
<1> DEFINE S == Conn \X Nat \X {"all", "part"}
           place(a) == downlink[a[1]][a[2]]
<1>0. /\ parsed \in [Conn -> Nat] /\ dec \in Nat /\ received \in [Conn -> Seq(S)]
      /\ \A b \in Conn : Len(downlink[b]) \in Nat /\ parsed[b] <= Len(downlink[b])
  BY DownTypes DEF TunnelInv
<1>1. CASE UNCHANGED <<downlink, received>>
  BY <1>1 DEF DownlinkInStreamOrder, StreamInv, StreamKept
<1>2. ReceivedParsed'
  BY ReceivedParsedStep DEF StreamInv
<1>3. \A b \in Conn : \A m \in 1 .. Len(received'[b]) : KeyOf[received'[b][m][1]] = KeyOf[b]
  BY <1>2 DEF ReceivedParsed
<1>4. \A d \in Conn : \A i, j \in 1 .. Len(received[d]) :
         i < j => place(received[d][i]) < place(received[d][j])
  BY DEF StreamInv, StreamKept, DownlinkInStreamOrder
<1>5. \A d \in Conn : \A m \in 1 .. Len(received[d]) :
        /\ received[d][m][1] \in Conn
        /\ received[d][m][2] \in 1 .. Len(downlink[received[d][m][1]])
        /\ place(received[d][m]) < dec
  <2> SUFFICES ASSUME NEW d \in Conn, NEW m \in 1 .. Len(received[d])
               PROVE  /\ received[d][m][1] \in Conn
                      /\ received[d][m][2] \in 1 .. Len(downlink[received[d][m][1]])
                      /\ place(received[d][m]) < dec
    OBVIOUS
  <2> DEFINE b == received[d][m][1]
             i == received[d][m][2]
  <2>1. b \in Conn /\ i \in 1 .. parsed[b]
    BY DEF ReceivedParsed, StreamInv
  <2> HIDE DEF b, i
  <2>2. i \in 1 .. Len(downlink[b]) /\ i <= parsed[b]
    BY <1>0, <2>1
  <2>3. downlink[b][i] < dec
    BY <2>1, <2>2 DEF Deciphered, StreamInv
  <2>. QED BY <2>1, <2>2, <2>3 DEF b, i
<1>6. ASSUME NEW b \in Conn, FrameSends(b) PROVE DownlinkInStreamOrder'
  <2>1. received' = received
    BY <1>6 DEF FrameSends
  <2>2. \A d \in Conn : \A i \in 1 .. Len(downlink[d]) : downlink'[d][i] = downlink[d][i]
    BY <1>6, SendKeepsPlaces
  <2>3. \A d \in Conn : \A m \in 1 .. Len(received[d]) :
           downlink'[received[d][m][1]][received[d][m][2]] = place(received[d][m])
    BY <1>5, <2>2
  <2>. QED BY <1>3, <1>4, <2>1, <2>3 DEF DownlinkInStreamOrder
<1>7. ASSUME NEW b \in Conn, NEW t \in Conn, NEW taken \in {"all", "part"}, FrameGoes(b, t, taken)
      PROVE  DownlinkInStreamOrder'
  <2> DEFINE r == <<b, parsed[b] + 1, taken>>
  <2>1. /\ downlink' = downlink
        /\ received' = [received EXCEPT ![t] = Append(@, r)]
    BY <1>7 DEF FrameGoes, FrameOpens
  <2>2. r \in S /\ place(r) = dec
    BY <1>0, <1>7 DEF FrameGoes, FrameOpens, FrontSeq
  <2> HIDE DEF r, S, place
  <2>3. \A d \in Conn : \A m \in 1 .. Len(received'[d]) :
           \/ m \in 1 .. Len(received[d]) /\ received'[d][m] = received[d][m]
           \/ m = Len(received'[d]) /\ received'[d][m] = r
    BY <1>0, <2>1, <2>2
  <2>4. \A d \in Conn : Len(received'[d]) \in Nat
    BY <1>0, <2>1, <2>2
  <2>5. ASSUME NEW d \in Conn, NEW i \in 1 .. Len(received'[d]),
               NEW j \in 1 .. Len(received'[d]), i < j
        PROVE  place(received'[d][i]) < place(received'[d][j])
    <3>1. i \in 1 .. Len(received[d]) /\ received'[d][i] = received[d][i]
      BY <2>3, <2>4, <2>5
    <3>2. CASE j \in 1 .. Len(received[d]) /\ received'[d][j] = received[d][j]
      BY <1>4, <2>5, <3>1, <3>2
    <3>3. CASE received'[d][j] = r
      <4>1. place(received[d][i]) < dec
        BY <1>5, <3>1
      <4>2. received'[d][i] = received[d][i]
        BY <3>1
      <4>. QED BY <2>2, <3>3, <4>1, <4>2
    <3>. QED BY <2>3, <3>2, <3>3
  <2>. QED BY <1>3, <2>1, <2>5 DEF DownlinkInStreamOrder, place
<1>8. CASE UNCHANGED vars
  BY <1>1, <1>8 DEF vars, downVars, serverVars
<1>. QED BY <1>1, <1>6, <1>7, <1>8, StreamStep
     DEF StreamInv, StreamUntouched, FrameFails, HandedOn, FrameStays, FrameOpens

(* A frame that deciphers to garbage is behind the decipher object, then no *)
(* browser was sent it; or ahead of it, then the frame that is due is on    *)
(* another tunnel.                                                          *)
LEMMA GarbledStep ==
    ASSUME IInv, TunnelInv, StreamInv, [Next]_vars
    PROVE  GarbledOnlyByOvertakingOrKeeping'
<1>0. /\ parsed \in [Conn -> Nat] /\ dec \in Nat /\ serverEnc \in Nat
      /\ \A b \in Conn : Len(downlink[b]) \in Nat /\ parsed[b] <= Len(downlink[b])
      /\ \A b \in Conn : \A i \in 1 .. Len(downlink[b]) : downlink[b][i] \in 0 .. serverEnc - 1
  BY DownTypes DEF StreamSplit, StreamInv, TunnelInv
<1>1. CASE UNCHANGED vars
  BY <1>1 DEF vars, downVars, serverVars, StreamInv, StreamKept,
     GarbledOnlyByOvertakingOrKeeping, FrontSeq
<1>2. CASE crash' # "ValueError"
  BY <1>2 DEF GarbledOnlyByOvertakingOrKeeping
<1>3. ASSUME NEW b \in Conn, FrameFails(b) PROVE GarbledOnlyByOvertakingOrKeeping'
  <2>1. /\ parsed[b] + 1 \in 1 .. Len(downlink[b]) /\ FrontSeq(b) # dec /\ dec' = dec + 1
        /\ UNCHANGED <<downlink, parsed, received>>
    BY <1>3 DEF FrameFails
  <2>2. FrontSeq(b) \in 0 .. serverEnc - 1
    BY <1>0, <2>1 DEF FrontSeq
  <2>3. parsed[b] < Len(downlink[b]) /\ FrontSeq(b)' = FrontSeq(b)
    BY <1>0, <2>1 DEF FrontSeq
  <2>4. CASE FrontSeq(b) < dec
    <3>1. FrontSeq(b) < dec' - 1
      BY <1>0, <2>1, <2>4
    <3>2. ASSUME NEW d \in Conn, NEW i \in 1 .. Len(received[d])
          PROVE  <<received[d][i][1], received[d][i][2]>> # <<b, parsed[b] + 1>>
      BY <1>0 DEF StreamInv, ReceivedParsed
    <3>. QED BY <2>1, <2>3, <3>1, <3>2 DEF GarbledOnlyByOvertakingOrKeeping
  <2>5. CASE FrontSeq(b) > dec
    <3>1. dec \in 0 .. serverEnc - 1
      BY <1>0, <2>2, <2>5
    <3>2. PICK d \in Conn : \E i \in 1 .. Len(downlink[d]) : downlink[d][i] = dec
      BY <3>1 DEF StreamSplit, StreamInv
    <3>3. PICK i \in 1 .. Len(downlink[d]) : downlink[d][i] = dec
      BY <3>2
    <3>4. i > parsed[d]
      BY <1>0, <3>3 DEF Deciphered, StreamInv
    <3>5. d # b
      <4>1. SUFFICES ASSUME d = b PROVE FALSE
        OBVIOUS
      <4>2. i # parsed[b] + 1
        BY <2>1, <3>3, <4>1 DEF FrontSeq
      <4>3. parsed[b] + 1 < i
        BY <1>0, <3>4, <4>1, <4>2
      <4>4. FrontSeq(b) < downlink[b][i]
        BY <2>1, <3>3, <4>1, <4>3 DEF StreamSplit, FrontSeq, StreamInv
      <4>. QED BY <1>0, <2>2, <2>5, <3>3, <4>1, <4>4
    <3>6. i \in parsed[d] + 1 .. Len(downlink[d]) /\ downlink[d][i] < FrontSeq(b)
      BY <1>0, <2>5, <3>3, <3>4
    <3>7. ~(FrontSeq(b) < dec' - 1)
      BY <1>0, <2>1, <2>2, <2>5
    <3>. QED BY <2>1, <2>3, <3>5, <3>6, <3>7 DEF GarbledOnlyByOvertakingOrKeeping
  <2>. QED BY <1>0, <2>1, <2>2, <2>4, <2>5
<1>4. CASE Next
  <2>1. crash = "none"
    BY <1>4 DEF Next, LoopStep, WorldStep
  <2>2. crash' # "ValueError" \/ \E b \in Conn : FrameFails(b)
    BY <1>4, <2>1, StreamStep
       DEF StreamInv, StreamUntouched, FrameSends, HandedOn, FrameGoes, FrameStays, FrameOpens
  <2>. QED BY <1>2, <1>3, <2>2
<1>. QED BY <1>1, <1>4

LEMMA StreamInvariant == Spec => [](IInv /\ TunnelInv /\ StreamInv)
<1>1. Init => StreamInv
  <2> SUFFICES ASSUME Init PROVE StreamInv
    OBVIOUS
  <2>1. OwnerExact
    BY LocalAssumption DEF Init, OwnerExact, LocalAssumption
  <2>2. StreamSplit /\ Deciphered /\ ReceivedParsed /\ StreamKept
    BY DEF Init, StreamSplit, Deciphered, ReceivedParsed, StreamKept, DownlinkInStreamOrder,
       GarbledOnlyByOvertakingOrKeeping
  <2>. QED BY <2>1, <2>2 DEF StreamInv
<1>2. (IInv /\ TunnelInv /\ StreamInv) /\ [Next]_vars => StreamInv'
  BY OwnerStep, StreamSplitStep, DecipheredStep, ReceivedParsedStep, OrderStep, GarbledStep
     DEF StreamInv, StreamKept
<1>. QED BY <1>1, <1>2, TunnelInvariant, PTL DEF Spec, TunnelInv

(* One cipher stream back over many tunnels: a browser is sent contents of  *)
(* its own key in the order the server encrypted them, and only an          *)
(* overtaken or a kept frame is garbage.                                    *)
THEOREM StreamHolds == Spec => []StreamKept
BY StreamInvariant, PTL DEF StreamInv

(* decryptoSendBack always finds a handler for the key of a frame it can    *)
(* decipher: self.source_dest_map has the key of every tunnel with frames.  *)
FramesHaveOwner == \A b \in Conn : downlink[b] # <<>> => owner[KeyOf[b]] \in Conn

THEOREM OwnerFound == Spec => []FramesHaveOwner
<1>1. IInv /\ StreamInv => FramesHaveOwner
  BY LocalAssumption DEF IInv, TypeOK, StreamInv, OwnerExact, FramesHaveOwner, LocalAssumption
<1>. QED BY <1>1, StreamInvariant, PTL

-----------------------------------------------------------------------------
(* From the browser to the tunnel.                                          *)

(* A sequence of frames that carries all of top units but rest: their       *)
(* partial sums, as UplinkExact has them.                                   *)
Carries(frames, top, rest) ==
    \E taken \in [0 .. Len(frames) -> 0 .. top] :
        /\ taken[0] = 0
        /\ \A i \in 1 .. Len(frames) : taken[i] = taken[i - 1] + frames[i].units
        /\ top = rest + taken[Len(frames)]

(* Where a browser and its handler are in the handshake, as long as the     *)
(* process runs: what the socket holds is what the stage is about to read,  *)
(* and no data comes before STAGE_STREAM.                                   *)
Handshake(b) ==
    /\ stage[b] = "INIT" => \/ said[b] = "nothing" /\ inflight[L(b)] = 0
                            \/ said[b] = "greeting" /\ inflight[L(b)] = 1
    /\ stage[b] = "ADDR" => \/ said[b] = "nothing" /\ inflight[L(b)] = 0
                                 /\ peer[L(b)] \notin {"none", "up"}
                            \/ said[b] = "greeting" /\ inflight[L(b)] = 0
                            \/ said[b] = "request" /\ inflight[L(b)] \in {0, RequestUnits}
    /\ stage[b] = "STREAM" => said[b] = "request"
    /\ lookup[b] # "none" => stage[b] = "ADDR" /\ said[b] = "request" /\ inflight[L(b)] = 0
    /\ stage[b] # "STREAM" => dataSent[b] = 0 /\ dataToSend[b] = 0 /\ uplink[b] = <<>>

(* data_to_send keeps an encrypted frame only when the tunnel will never    *)
(* take anything again.                                                     *)
TunnelGone(b) == hstate[R(b)] # "absent" /\ ~Writable(R(b))

UplinkOf(b) ==
    /\ crash = "none" => Handshake(b)
    /\ stale[b] => TunnelGone(b)
    /\ \A i \in 1 .. Len(uplink[b]) : ~uplink[b][i].stale
    /\ stage[b] = "STREAM" =>
          Carries(uplink[b], dataSent[b], inflight[L(b)] + dataToSend[b])

UplinkInv == \A b \in Conn : UplinkOf(b)

LEMMA CarriesNothing == Carries(<<>>, 0, 0)
<1> DEFINE taken == [i \in 0 .. 0 |-> 0]
<1>1. Len(<<>>) = 0 /\ taken \in [0 .. Len(<<>>) -> 0 .. 0] /\ taken[0] = 0 /\ taken[Len(<<>>)] = 0
  OBVIOUS
<1>2. \A i \in 1 .. Len(<<>>) : taken[i] = taken[i - 1] + <<>>[i].units
  OBVIOUS
<1> HIDE DEF taken
<1>. QED BY <1>1, <1>2 DEF Carries

LEMMA CarriesMore ==
    ASSUME NEW frames \in Seq(UpFrame), NEW top \in Nat, NEW rest \in Nat, NEW k \in Nat,
           Carries(frames, top, rest)
    PROVE  Carries(frames, top + k, rest + k)
<1>1. PICK taken \in [0 .. Len(frames) -> 0 .. top] :
        /\ taken[0] = 0
        /\ \A i \in 1 .. Len(frames) : taken[i] = taken[i - 1] + frames[i].units
        /\ top = rest + taken[Len(frames)]
  BY DEF Carries
<1>2. taken \in [0 .. Len(frames) -> 0 .. top + k]
  BY <1>1
<1>3. Len(frames) \in 0 .. Len(frames) /\ taken[Len(frames)] \in 0 .. top
  BY <1>1
<1>4. top + k = (rest + k) + taken[Len(frames)]
  BY <1>1, <1>3
<1>. QED BY <1>1, <1>2, <1>4 DEF Carries

LEMMA CarriesFrame ==
    ASSUME NEW frames \in Seq(UpFrame), NEW top \in Nat, NEW rest \in Nat, NEW f \in UpFrame,
           f.units <= rest, Carries(frames, top, rest)
    PROVE  Carries(Append(frames, f), top, rest - f.units)
<1> DEFINE n == Len(frames)
           g == Append(frames, f)
<1>0. n \in Nat /\ f.units \in Nat /\ Len(g) = n + 1 /\ g[n + 1] = f
      /\ \A i \in 1 .. n : g[i] = frames[i]
  BY DEF UpFrame
<1>1. PICK taken \in [0 .. n -> 0 .. top] :
        /\ taken[0] = 0
        /\ \A i \in 1 .. n : taken[i] = taken[i - 1] + frames[i].units
        /\ top = rest + taken[n]
  BY DEF Carries
<1> HIDE DEF n, g
<1> DEFINE more == [i \in 0 .. n + 1 |-> IF i = n + 1 THEN taken[n] + f.units ELSE taken[i]]
<1>2. taken[n] \in Nat /\ taken[n] + f.units <= top
  BY <1>0, <1>1
<1>3. more \in [0 .. n + 1 -> 0 .. top]
  BY <1>0, <1>1, <1>2
<1>4. more[0] = 0 /\ more[n + 1] = taken[n] + f.units
  BY <1>0, <1>1
<1>5. ASSUME NEW i \in 1 .. n + 1 PROVE more[i] = more[i - 1] + g[i].units
  <2>1. CASE i = n + 1
    BY <1>0, <2>1
  <2>2. CASE i # n + 1
    <3>1. i \in 1 .. n /\ i - 1 \in 0 .. n /\ i - 1 # n + 1 /\ i \in 0 .. n + 1 /\ i - 1 \in 0 .. n + 1
      BY <1>0, <2>2
    <3>. QED BY <1>0, <1>1, <2>2, <3>1
  <2>. QED BY <2>1, <2>2
<1>6. top = (rest - f.units) + more[n + 1]
  BY <1>0, <1>1, <1>2, <1>4
<1> HIDE DEF more
<1>7. Carries(g, top, rest - f.units)
  BY <1>0, <1>3, <1>4, <1>5, <1>6 DEF Carries
<1>. QED BY <1>7 DEF g

(* A browser that has ended does not come back, and a tunnel that takes     *)
(* nothing more does not either.                                            *)
LEMMA PeersAdvance ==
    ASSUME IInv, [Next]_vars, NEW b \in Conn
    PROVE  /\ peer[L(b)] \notin {"none", "up"} => peer'[L(b)] \notin {"none", "up"}
           /\ hstate[R(b)] # "absent" /\ peer[R(b)] \notin {"up", "fin"}
                => peer'[R(b)] \notin {"up", "fin"}
<1> DEFINE P == /\ peer[L(b)] \notin {"none", "up"} => peer'[L(b)] \notin {"none", "up"}
                /\ hstate[R(b)] # "absent" /\ peer[R(b)] \notin {"up", "fin"}
                     => peer'[R(b)] \notin {"up", "fin"}
<1>0. peer \in [Handler -> PeerState] /\ L(b) \in Handler /\ R(b) \in Handler /\ L(b) # R(b)
  BY Names DEF IInv, TypeOK
<1>1. ASSUME UNCHANGED peer PROVE P
  BY <1>1
<1>2. ASSUME NEW g, NEW x, peer' = [peer EXCEPT ![g] = x],
             \/ x = peer[g]
             \/ x = "dead"
             \/ peer[g] = "up" /\ x \in {"fin", "rst"}
             \/ peer[g] = "fin" /\ x = "finrst"
      PROVE  P
  BY <1>0, <1>2
<1>3. ASSUME NEW g PROVE AfterSend(g) \in {peer[g], "dead"}
  BY DEF AfterSend
<1>4. CASE UNCHANGED vars \/ Poll \/ AcceptFails
  BY <1>1, <1>4 DEF vars, netVars, Poll, AcceptFails, relayVars
<1>5. CASE \E d \in Conn : BrowserSend(d) \/ ServerSend(d) \/ DnsArrives(d)
  BY <1>1, <1>5 DEF BrowserSend, ServerSend, DnsArrives, netVars
<1>6. ASSUME NEW d \in Conn, BrowserConnect(d) PROVE P
  <2>1. peer[L(d)] = "none" /\ peer' = [peer EXCEPT ![L(d)] = "up"]
    BY <1>6 DEF BrowserConnect
  <2>. QED BY <1>0, <2>1, Names
<1>7. ASSUME NEW h \in Handler, PeerFin(h) \/ PeerReset(h) PROVE P
  <2>1. \E x : /\ peer' = [peer EXCEPT ![h] = x]
               /\ \/ peer[h] = "up" /\ x \in {"fin", "rst"}
                  \/ peer[h] = "fin" /\ x = "finrst"
    BY <1>7 DEF PeerFin, PeerReset
  <2>. QED BY <1>2, <2>1
<1>8. ASSUME NEW d \in Conn, Accept(d) PROVE P
  <2>1. hstate[R(d)] = "absent" /\ peer' = [peer EXCEPT ![R(d)] = "up"]
    BY <1>8 DEF Accept, Pending, IInv, PairsAccepted
  <2>. QED BY <1>0, <2>1, Names
<1>9. ASSUME NEW d \in Conn, Resolved(d) PROVE P
  BY <1>2, <1>3, <1>9 DEF Resolved
<1>10. ASSUME NEW d \in Conn, DnsAnswer(d) PROVE P
  BY <1>1, <1>9, <1>10 DEF DnsAnswer
<1>11. ASSUME NEW e \in batch, Dispatch(e) PROVE P
  <2>1. CASE \/ EventForNobody(e) \/ EventError(e) \/ EventHangup(e) \/ RecvClosed(e)
             \/ \E h \in Handler : StreamEnd(e, h)
    BY <1>1, <2>1 DEF EventForNobody, EventError, EventHangup, RecvClosed, StreamEnd, relayVars,
       netVars
  <2>2. CASE RecvError(e)
    BY <1>2, <2>2 DEF RecvError
  <2>3. ASSUME NEW d \in Conn, NEW n,
               Greeting(e, d, n) \/ RequestGarbled(e, d, n) \/ Request(e, d, n) \/ StreamData(e, d, n)
        PROVE  P
    <3>1. CASE RequestGarbled(e, d, n)
      BY <1>1, <3>1 DEF RequestGarbled
    <3>2. CASE Request(e, d, n)
      BY <1>1, <1>9, <3>2 DEF Request
    <3>3. CASE Greeting(e, d, n)
      BY <1>2, <1>3, <3>3 DEF Greeting
    <3>4. CASE StreamData(e, d, n)
      BY <1>2, <1>3, <3>4 DEF StreamData
    <3>. QED BY <2>3, <3>1, <3>2, <3>3, <3>4
  <2>4. ASSUME NEW d \in Conn, NEW n,
               PrefixCut(e, d, n) \/ FrameIncomplete(e, d, n) \/ FrameGarbled(e, d, n)
        PROVE  P
    BY <1>1, <2>4 DEF PrefixCut, FrameIncomplete, FrameGarbled
  <2>5. ASSUME NEW d \in Conn, NEW n, NEW taken, FrameBack(e, d, n, taken) PROVE P
    BY <1>2, <1>3, <2>5 DEF FrameBack
  <2>. QED BY <1>11, <2>1, <2>2, <2>3, <2>4, <2>5 DEF Dispatch
<1>. QED BY <1>4, <1>5, <1>6, <1>7, <1>8, <1>10, <1>11 DEF Next, LoopStep, WorldStep

LEMMA TunnelGoneStays ==
    ASSUME IInv, [Next]_vars, NEW b \in Conn, TunnelGone(b)
    PROVE  TunnelGone(b)'
<1>1. R(b) \in Handler /\ hstate[R(b)] # "absent" /\ ~Writable(R(b))
  BY Names DEF TunnelGone
<1>2. hstate'[R(b)] # "absent" /\ (Open(R(b))' => Open(R(b)))
  BY <1>1, HandlersAdvance
<1>3. Open(R(b)) => peer'[R(b)] \notin {"up", "fin"}
  BY <1>1, PeersAdvance DEF Writable
<1>. QED BY <1>2, <1>3 DEF TunnelGone, Writable

(* What a step does to the way up of one connection.                        *)
UpUntouched(b) ==
    /\ stage'[b] = stage[b] /\ lookup'[b] = lookup[b] /\ said'[b] = said[b]
    /\ dataSent'[b] = dataSent[b] /\ dataToSend'[b] = dataToSend[b] /\ stale'[b] = stale[b]
    /\ uplink'[b] = uplink[b] /\ inflight'[L(b)] = inflight[L(b)]

UpRead(e, b, n) ==
    Greeting(e, b, n) \/ RequestGarbled(e, b, n) \/ Request(e, b, n) \/ StreamData(e, b, n)

LEMMA UpStep ==
    ASSUME IInv, EventsOfSockets, Next, NEW b \in Conn
    PROVE  \/ UpUntouched(b) \/ BrowserSend(b) \/ DnsArrives(b) \/ DnsAnswer(b)
           \/ \E e \in batch : \E n \in 0 .. inflight[RecvSock(e)] : UpRead(e, b, n)
<1>0. /\ stage \in [Conn -> {"INIT", "ADDR", "STREAM"}]
      /\ lookup \in [Conn -> {"none", "asked", "answered"}]
      /\ said \in [Conn -> {"nothing", "greeting", "request"}]
      /\ dataSent \in [Conn -> Nat] /\ dataToSend \in [Conn -> Nat] /\ stale \in [Conn -> BOOLEAN]
      /\ uplink \in [Conn -> Seq(UpFrame)] /\ inflight \in [Handler -> Nat]
  BY DEF IInv, TypeOK
<1>1. ASSUME UNCHANGED <<stage, lookup, said, dataSent, dataToSend, stale, uplink>>,
             inflight'[L(b)] = inflight[L(b)]
      PROVE  UpUntouched(b)
  BY <1>1 DEF UpUntouched
<1>2. CASE \/ Poll \/ AcceptFails \/ \E d \in Conn : Accept(d) \/ BrowserConnect(d)
           \/ \E h \in Handler : PeerFin(h) \/ PeerReset(h)
  BY <1>1, <1>2 DEF Poll, AcceptFails, Accept, BrowserConnect, PeerFin, PeerReset, processVars,
     relayVars, stageVars, upVars, netVars, browserVars
<1>3. ASSUME NEW d \in Conn, ServerSend(d) PROVE UpUntouched(b)
  <2>1. inflight'[L(b)] = inflight[L(b)]
    BY <1>0, <1>3, Names DEF ServerSend
  <2>. QED BY <1>1, <1>3, <2>1 DEF ServerSend, processVars, stageVars, upVars, browserVars
<1>4. ASSUME NEW d \in Conn, d # b, BrowserSend(d) PROVE UpUntouched(b)
  <2>1. inflight'[L(b)] = inflight[L(b)]
    BY <1>0, <1>4, Names DEF BrowserSend
  <2>2. said'[b] = said[b] /\ dataSent'[b] = dataSent[b]
    BY <1>0, <1>4 DEF BrowserSend
  <2>3. UNCHANGED <<stage, lookup, dataToSend, stale, uplink>>
    BY <1>4 DEF BrowserSend, processVars, stageVars, upVars
  <2>. QED BY <2>1, <2>2, <2>3 DEF UpUntouched
<1>5. ASSUME NEW d \in Conn, d # b, DnsArrives(d) \/ DnsAnswer(d) PROVE UpUntouched(b)
  <2>1. UNCHANGED <<said, dataSent, dataToSend, stale, uplink, inflight>>
    BY <1>5 DEF DnsArrives, DnsAnswer, upVars, netVars, browserVars
  <2>2. stage'[b] = stage[b] /\ lookup'[b] = lookup[b]
    BY <1>0, <1>5 DEF DnsArrives, DnsAnswer, Resolved
  <2>. QED BY <2>1, <2>2 DEF UpUntouched
<1>6. ASSUME NEW e \in batch, Dispatch(e)
      PROVE  UpUntouched(b) \/ \E n \in 0 .. inflight[RecvSock(e)] : UpRead(e, b, n)
  <2>1. CASE EventForNobody(e) \/ EventError(e) \/ EventHangup(e) \/ RecvClosed(e) \/ RecvError(e)
    BY <1>1, <2>1 DEF EventForNobody, EventError, EventHangup, RecvClosed, RecvError, relayVars,
       stageVars, upVars, netVars, browserVars
  <2>2. ASSUME NEW h \in Handler, StreamEnd(e, h) PROVE UpUntouched(b)
    <3>1. inflight' = [inflight EXCEPT ![h] = @ - 0]
      BY <2>2, OwnRecv DEF StreamEnd
    <3>2. inflight'[L(b)] = inflight[L(b)]
      BY <1>0, <3>1, Names
    <3>. QED BY <1>1, <2>2, <3>2 DEF StreamEnd, stageVars, upVars, browserVars
  <2>3. ASSUME NEW d \in Conn, d # b, NEW n, UpRead(e, d, n) PROVE UpUntouched(b)
    <3>1. Recv(e, L(d), n) /\ UNCHANGED <<said, dataSent>>
      BY <2>3 DEF UpRead, Greeting, RequestGarbled, Request, StreamData, browserVars
    <3>2. inflight' = [inflight EXCEPT ![L(d)] = @ - n]
      BY <3>1, OwnRecv, Names
    <3>3. inflight'[L(b)] = inflight[L(b)]
      BY <1>0, <2>3, <3>2, Names
    <3>4. stage'[b] = stage[b] /\ lookup'[b] = lookup[b]
      BY <1>0, <2>3 DEF UpRead, Greeting, RequestGarbled, Request, Resolved, StreamData, stageVars
    <3>5. dataToSend'[b] = dataToSend[b] /\ stale'[b] = stale[b] /\ uplink'[b] = uplink[b]
      BY <1>0, <2>3 DEF UpRead, Greeting, RequestGarbled, Request, StreamData, FrameTaken, FrameLeft,
         upVars
    <3>. QED BY <3>1, <3>3, <3>4, <3>5 DEF UpUntouched
  <2>4. ASSUME NEW d \in Conn, NEW n,
               \/ PrefixCut(e, d, n) \/ FrameIncomplete(e, d, n) \/ FrameGarbled(e, d, n)
               \/ \E taken \in {"all", "part", "none"} : FrameBack(e, d, n, taken)
        PROVE  UpUntouched(b)
    <3>1. /\ Recv(e, R(d), n)
          /\ UNCHANGED <<stage, lookup, said, dataSent, dataToSend, stale, uplink>>
      BY <2>4 DEF PrefixCut, FrameIncomplete, FrameGarbled, FrameBack, TunnelData, stageVars, upVars,
         browserVars
    <3>2. inflight' = [inflight EXCEPT ![R(d)] = @ - n]
      BY <3>1, OwnRecv, Names
    <3>3. inflight'[L(b)] = inflight[L(b)]
      BY <1>0, <3>2, Names
    <3>. QED BY <1>1, <3>1, <3>3
  <2>. QED BY <1>6, <2>1, <2>2, <2>3, <2>4 DEF Dispatch, UpRead
<1>. QED BY <1>2, <1>3, <1>4, <1>5, <1>6 DEF Next, LoopStep, WorldStep

LEMMA UpTypes ==
    ASSUME IInv, NEW b \in Conn
    PROVE  /\ stage[b] \in {"INIT", "ADDR", "STREAM"}
           /\ dataSent[b] \in Nat /\ dataToSend[b] \in Nat /\ inflight[L(b)] \in Nat
           /\ uplink[b] \in Seq(UpFrame) /\ stale[b] \in BOOLEAN
BY Names DEF IInv, TypeOK

(* The steps of a browser and of the resolver.                              *)
LEMMA UplinkUntouched ==
    ASSUME IInv, Next, NEW b \in Conn, UplinkOf(b), UpUntouched(b)
    PROVE  UplinkOf(b)'
<1>0. crash = "none"
  BY DEF Next, LoopStep, WorldStep
<1>1. Handshake(b)'
  <2>1. Handshake(b)
    BY <1>0 DEF UplinkOf
  <2>2. peer[L(b)] \notin {"none", "up"} => peer'[L(b)] \notin {"none", "up"}
    BY PeersAdvance
  <2>. QED BY <2>1, <2>2 DEF Handshake, UpUntouched
<1>2. stale'[b] => TunnelGone(b)'
  BY TunnelGoneStays DEF UplinkOf, UpUntouched
<1>. QED BY <1>1, <1>2 DEF UplinkOf, UpUntouched

LEMMA UplinkBrowserSend ==
    ASSUME IInv, Next, NEW b \in Conn, UplinkOf(b), BrowserSend(b)
    PROVE  UplinkOf(b)'
<1>0. /\ said \in [Conn -> {"nothing", "greeting", "request"}] /\ dataSent \in [Conn -> Nat]
      /\ inflight \in [Handler -> Nat] /\ L(b) \in Handler
  BY Names DEF IInv, TypeOK
<1>1. crash = "none" /\ peer[L(b)] = "up" /\ UNCHANGED <<stage, lookup, dataToSend, stale, uplink, peer>>
  BY DEF BrowserSend, Next, LoopStep, WorldStep, processVars, stageVars, upVars
<1>2. Handshake(b)
  BY <1>1 DEF UplinkOf
<1>3. \/ /\ said[b] = "nothing" /\ said'[b] = "greeting"
         /\ inflight'[L(b)] = inflight[L(b)] + 1 /\ dataSent'[b] = dataSent[b]
      \/ /\ said[b] = "greeting" /\ stage[b] = "ADDR" /\ said'[b] = "request"
         /\ inflight'[L(b)] = inflight[L(b)] + RequestUnits /\ dataSent'[b] = dataSent[b]
      \/ /\ stage[b] = "STREAM" /\ said'[b] = said[b]
         /\ inflight'[L(b)] = inflight[L(b)] + 1 /\ dataSent'[b] = dataSent[b] + 1
  BY <1>0 DEF BrowserSend
<1>4. Handshake(b)'
  <2>1. CASE stage[b] = "INIT"
    BY <1>1, <1>2, <1>3, <2>1 DEF Handshake
  <2>2. CASE stage[b] = "ADDR"
    BY <1>1, <1>2, <1>3, <2>2 DEF Handshake, RequestUnits
  <2>3. CASE stage[b] = "STREAM"
    BY <1>1, <1>2, <1>3, <2>3 DEF Handshake
  <2>. QED BY <2>1, <2>2, <2>3, UpTypes
<1>5. stale'[b] => TunnelGone(b)'
  BY <1>1, TunnelGoneStays DEF UplinkOf
<1>6. ASSUME stage[b] = "STREAM"
      PROVE  Carries(uplink[b], dataSent'[b], inflight'[L(b)] + dataToSend[b])
  <2>1. /\ said[b] = "request" /\ Carries(uplink[b], dataSent[b], inflight[L(b)] + dataToSend[b])
    BY <1>2, <1>6 DEF Handshake, UplinkOf
  <2>2. inflight'[L(b)] = inflight[L(b)] + 1 /\ dataSent'[b] = dataSent[b] + 1
    BY <1>3, <1>6, <2>1
  <2>3. Carries(uplink[b], dataSent[b] + 1, (inflight[L(b)] + dataToSend[b]) + 1)
    BY <2>1, UpTypes, CarriesMore
  <2>4. inflight'[L(b)] + dataToSend[b] = (inflight[L(b)] + dataToSend[b]) + 1
    BY <2>2, UpTypes
  <2>. QED BY <2>2, <2>3, <2>4
<1>. QED BY <1>1, <1>4, <1>5, <1>6 DEF UplinkOf

(* The stage after the second reply, with nothing sent and nothing taken.   *)
LEMMA StreamEntered ==
    ASSUME IInv, [Next]_vars, NEW b \in Conn, UplinkOf(b), Handshake(b),
           stage[b] = "ADDR", said[b] = "request", stage'[b] = "STREAM", said'[b] = said[b],
           inflight'[L(b)] = 0, dataToSend'[b] = 0, dataSent'[b] = dataSent[b],
           uplink'[b] = uplink[b], stale'[b] = stale[b], lookup'[b] = "none"
    PROVE  UplinkOf(b)'
<1>1. dataSent'[b] = 0 /\ uplink'[b] = <<>>
  BY DEF Handshake
<1>2. Carries(uplink'[b], dataSent'[b], inflight'[L(b)] + dataToSend'[b])
  BY <1>1, CarriesNothing
<1>3. stale'[b] => TunnelGone(b)'
  BY TunnelGoneStays DEF UplinkOf
<1>4. Handshake(b)'
  BY DEF Handshake
<1>. QED BY <1>1, <1>2, <1>3, <1>4 DEF UplinkOf

LEMMA UplinkResolver ==
    ASSUME IInv, Next, NEW b \in Conn, UplinkOf(b), DnsArrives(b) \/ DnsAnswer(b)
    PROVE  UplinkOf(b)'
<1>0. /\ stage \in [Conn -> {"INIT", "ADDR", "STREAM"}]
      /\ lookup \in [Conn -> {"none", "asked", "answered"}]
  BY DEF IInv, TypeOK
<1>1. /\ crash = "none" /\ lookup[b] # "none"
      /\ UNCHANGED <<said, dataSent, dataToSend, stale, uplink, inflight>>
  BY DEF DnsArrives, DnsAnswer, Next, LoopStep, WorldStep, upVars, netVars, browserVars
<1>2. /\ Handshake(b) /\ stage[b] = "ADDR" /\ said[b] = "request" /\ inflight[L(b)] = 0
      /\ dataSent[b] = 0 /\ dataToSend[b] = 0 /\ uplink[b] = <<>>
  BY <1>1 DEF UplinkOf, Handshake
<1>3. stale'[b] => TunnelGone(b)'
  BY <1>1, TunnelGoneStays DEF UplinkOf
<1>4. CASE stage'[b] = "ADDR"
  <2>1. Handshake(b)'
    BY <1>1, <1>2, <1>4 DEF Handshake
  <2>. QED BY <1>1, <1>2, <1>3, <1>4, <2>1 DEF UplinkOf
<1>5. CASE DnsAnswer(b) /\ stage'[b] = "STREAM"
  <2>1. lookup'[b] = "none"
    BY <1>0, <1>5 DEF DnsAnswer
  <2>. QED BY <1>1, <1>2, <1>5, <2>1, StreamEntered
<1>6. stage'[b] = "ADDR" \/ (DnsAnswer(b) /\ stage'[b] = "STREAM")
  BY <1>0, <1>2 DEF DnsArrives, DnsAnswer, Resolved
<1>. QED BY <1>4, <1>5, <1>6

(* The reads of a local handler.                                            *)
LEMMA UplinkRead ==
    ASSUME IInv, EventsOfSockets, Next, NEW b \in Conn, UplinkOf(b),
           NEW e \in batch, NEW n, UpRead(e, b, n)
    PROVE  UplinkOf(b)'
<1>0. /\ stage \in [Conn -> {"INIT", "ADDR", "STREAM"}]
      /\ lookup \in [Conn -> {"none", "asked", "answered"}]
      /\ dataToSend \in [Conn -> Nat] /\ stale \in [Conn -> BOOLEAN] /\ enc \in Nat
      /\ uplink \in [Conn -> Seq(UpFrame)] /\ inflight \in [Handler -> Nat] /\ L(b) \in Handler
      /\ peer \in [Handler -> PeerState] /\ R(b) \in Handler
  BY Names DEF IInv, TypeOK
<1>1. crash = "none" /\ Handshake(b)
  BY DEF Next, LoopStep, WorldStep, UplinkOf
<1>2. Recv(e, L(b), n) /\ UNCHANGED <<said, dataSent>>
  BY DEF UpRead, Greeting, RequestGarbled, Request, StreamData, browserVars
<1>3. /\ Open(L(b)) /\ n \in Nat /\ n <= inflight[L(b)]
      /\ n = 0 => inflight[L(b)] = 0 /\ peer[L(b)] \in {"fin", "finrst", "dead"}
      /\ inflight'[L(b)] = inflight[L(b)] - n
  BY <1>0, <1>2, OwnRecv
<1>4. stale[b] => TunnelGone(b)'
  BY TunnelGoneStays DEF UplinkOf
<1>5. CASE Greeting(e, b, n)
  <2>1. /\ stage[b] = "INIT" /\ stage'[b] = "ADDR"
        /\ UNCHANGED <<lookup, dataToSend, stale, uplink>>
    BY <1>0, <1>5 DEF Greeting, upVars
  <2>2. \/ said[b] = "nothing" /\ n = 0 /\ inflight'[L(b)] = 0
        \/ said[b] = "greeting" /\ inflight'[L(b)] = 0
    BY <1>1, <1>3, <2>1 DEF Handshake
  <2>3. n = 0 => peer'[L(b)] \notin {"none", "up"}
    BY <1>3, PeersAdvance
  <2>4. Handshake(b)'
    BY <1>1, <1>2, <2>1, <2>2, <2>3 DEF Handshake
  <2>. QED BY <1>4, <2>1, <2>4 DEF UplinkOf
<1>6. CASE RequestGarbled(e, b, n)
  <2>1. crash' # "none" /\ stage'[b] # "STREAM" /\ UNCHANGED <<stale, uplink>>
    BY <1>6 DEF RequestGarbled, stageVars
  <2>. QED BY <1>4, <2>1 DEF UplinkOf
<1>7. CASE Request(e, b, n)
  <2>1. /\ stage[b] = "ADDR" /\ n = RequestUnits /\ dataToSend'[b] = 0
        /\ UNCHANGED <<stale, uplink>>
    BY <1>0, <1>7 DEF Request
  <2>2. said[b] = "request" /\ inflight'[L(b)] = 0 /\ lookup[b] = "none"
    BY <1>1, <1>3, <2>1 DEF Handshake, RequestUnits
  <2>3. CASE stage'[b] = "STREAM" /\ lookup'[b] = lookup[b]
    BY <1>1, <1>2, <2>1, <2>2, <2>3, StreamEntered
  <2>4. CASE stage'[b] = "ADDR"
    <3>1. Handshake(b)'
      BY <1>1, <1>2, <2>1, <2>2, <2>4 DEF Handshake
    <3>. QED BY <1>4, <2>1, <2>4, <3>1 DEF UplinkOf
  <2>5. (stage'[b] = "STREAM" /\ lookup'[b] = lookup[b]) \/ stage'[b] = "ADDR"
    BY <1>0, <1>7, <2>1 DEF Request, Resolved, stageVars
  <2>. QED BY <2>3, <2>4, <2>5
<1>8. CASE StreamData(e, b, n)
  <2>1. /\ stage[b] = "STREAM" /\ n > 0 /\ UNCHANGED <<stage, lookup>>
        /\ IF Writable(R(b)) THEN FrameTaken(b, n) ELSE FrameLeft(b, n)
        /\ peer' = [peer EXCEPT ![R(b)] = AfterSend(R(b))]
        /\ UNCHANGED hstate
    BY <1>8 DEF StreamData, stageVars, fdVars
  <2>2. Handshake(b)'
    BY <1>1, <1>2, <2>1 DEF Handshake
  <2>3. /\ dataSent[b] \in Nat /\ inflight[L(b)] \in Nat /\ dataToSend[b] \in Nat
        /\ uplink[b] \in Seq(UpFrame)
        /\ Carries(uplink[b], dataSent[b], inflight[L(b)] + dataToSend[b])
    BY <2>1, UpTypes DEF UplinkOf
  <2>4. CASE Writable(R(b))
    <3> DEFINE f == [seq |-> enc, units |-> dataToSend[b] + n, stale |-> stale[b]]
    <3>1. uplink'[b] = Append(uplink[b], f) /\ dataToSend'[b] = 0 /\ stale'[b] = FALSE
      BY <1>0, <2>1, <2>4 DEF FrameTaken
    <3>2. f \in UpFrame /\ f.units = dataToSend[b] + n /\ ~f.stale
      BY <1>0, <1>3, <2>4 DEF UpFrame, UplinkOf, TunnelGone
    <3> HIDE DEF f
    <3>3. f.units <= inflight[L(b)] + dataToSend[b]
      BY <1>3, <2>3, <3>2
    <3>4. Carries(Append(uplink[b], f), dataSent[b], (inflight[L(b)] + dataToSend[b]) - f.units)
      BY <2>3, <3>2, <3>3, CarriesFrame
    <3>5. (inflight[L(b)] + dataToSend[b]) - f.units = inflight'[L(b)] + dataToSend'[b]
      BY <1>3, <2>3, <3>1, <3>2
    <3>6. Carries(uplink'[b], dataSent'[b], inflight'[L(b)] + dataToSend'[b])
      BY <1>2, <3>1, <3>4, <3>5
    <3>7. \A i \in 1 .. Len(uplink'[b]) : ~uplink'[b][i].stale
      <4>1. \A i \in 1 .. Len(uplink[b]) : ~uplink[b][i].stale
        BY DEF UplinkOf
      <4>2. \A i \in 1 .. Len(uplink'[b]) : uplink'[b][i] = f \/ (i \in 1 .. Len(uplink[b]) /\ uplink'[b][i] = uplink[b][i])
        BY <2>3, <3>1, <3>2
      <4>. QED BY <3>2, <4>1, <4>2
    <3>. QED BY <2>2, <3>1, <3>6, <3>7 DEF UplinkOf
  <2>5. CASE ~Writable(R(b))
    <3>1. uplink'[b] = uplink[b] /\ dataToSend'[b] = dataToSend[b] + n
      BY <1>0, <2>1, <2>5 DEF FrameLeft
    <3>2. inflight[L(b)] + dataToSend[b] = inflight'[L(b)] + dataToSend'[b]
      BY <1>3, <2>3, <3>1
    <3>3. Carries(uplink'[b], dataSent'[b], inflight'[L(b)] + dataToSend'[b])
      BY <1>2, <2>3, <3>1, <3>2
    <3>4. TunnelGone(b)
      BY <1>3, <2>5 DEF TunnelGone, IInv, OpenLocalHasOpenRemote, Open
    <3>5. TunnelGone(b)'
      BY <3>4, TunnelGoneStays
    <3>. QED BY <2>2, <3>1, <3>3, <3>5 DEF UplinkOf
  <2>. QED BY <2>4, <2>5
<1>. QED BY <1>5, <1>6, <1>7, <1>8 DEF UpRead

LEMMA UplinkStep ==
    ASSUME IInv, EventsOfSockets, UplinkInv, [Next]_vars
    PROVE  UplinkInv'
<1>1. CASE UNCHANGED vars
  BY <1>1 DEF vars, stageVars, upVars, netVars, browserVars, fdVars, UplinkInv, UplinkOf, Handshake,
     TunnelGone, Writable, Open
<1>2. ASSUME Next, NEW b \in Conn PROVE UplinkOf(b)'
  BY <1>2, UpStep, UplinkUntouched, UplinkBrowserSend, UplinkResolver, UplinkRead DEF UplinkInv
<1>. QED BY <1>1, <1>2 DEF UplinkInv

LEMMA UplinkInvariant == Spec => [](IInv /\ EventsOfSockets /\ UplinkInv)
<1>1. Init => UplinkInv
  BY Names DEF Init, UplinkInv, UplinkOf, Handshake
<1>2. (IInv /\ EventsOfSockets /\ UplinkInv) /\ [Next]_vars => UplinkInv'
  BY UplinkStep
<1>. QED BY <1>1, <1>2, TunnelInvariant, PTL DEF Spec

(* The tunnel is given the browser's data, every unit once, in frames of    *)
(* which none was encrypted twice.                                          *)
THEOREM UplinkHolds == Spec => []UplinkExact
<1>1. UplinkInv => UplinkExact
  BY DEF UplinkInv, UplinkOf, UplinkExact, Carries
<1>. QED BY <1>1, UplinkInvariant, PTL
=============================================================================

------------------------- MODULE ServerRelay_proofs -------------------------
(* Theorems about ServerRelay, for every set of connections, keys and      *)
(* descriptors and without a bound on frames or chunks.                    *)
EXTENDS ServerRelay, FiniteSetTheorems, TLAPS

LEMMA TypeInit == ASSUME Init PROVE TypeOK
<1>1. wire \in [Conn -> Seq(Nat)] /\ back \in [Conn -> Seq(BackFrame)]
  BY DEF Init
<1>2. delivered \in [Key -> Seq(Conn \X Nat)]
  BY DEF Init
<1>3. peer \in [Handler -> PeerState] /\ crash \in CrashReason
  BY DEF Init, PeerState, CrashReason
<1>. QED BY <1>1, <1>2, <1>3 DEF Init, TypeOK, HandlerState

(* Every operator that an action shares with others keeps the part of the  *)
(* type invariant that it assigns.                                          *)
LEMMA CloseType ==
    ASSUME TypeOK, NEW h \in Handler, Close(h)
    PROVE  /\ fdmap' \in [Fd -> Handler \cup {Nobody}]
           /\ fileno' \in [Handler -> Fd \cup {NoFd}]
           /\ hstate' \in [Handler -> HandlerState]
BY DEF TypeOK, Close, HandlerState

LEMMA EventType ==
    ASSUME TypeOK, NEW e \in batch
    PROVE  e \in Event /\ Target(e) \in Handler \cup {Nobody} /\ RecvSock(e) \in Handler
BY DEF TypeOK, Event, Target, RecvSock

(* What recv and the frame operators do to their variables.                 *)
LEMMA RecvDataType ==
    ASSUME TypeOK, NEW e \in batch, NEW n \in Nat, RecvData(e, n)
    PROVE  /\ inflight' \in [Handler -> Nat]
           /\ batch' \subseteq Event /\ acceptReady' \in BOOLEAN
           /\ n \in Nat \ {0}
<1>1. RecvSock(e) \in Handler
  BY EventType
<1>2. n \in 1 .. inflight[RecvSock(e)] /\ inflight[RecvSock(e)] \in Nat
  BY <1>1 DEF RecvData, TypeOK
<1>3. inflight[RecvSock(e)] - n \in Nat
  BY <1>2
<1>. QED BY <1>1, <1>2, <1>3 DEF RecvData, Take, TypeOK

LEMMA FrameType ==
    ASSUME TypeOK, NEW e \in batch, NEW c \in Conn, NEW n \in Nat, FrameRead(e, c, n),
           FrameSent(c, n) \/ FrameKept(c, n)
    PROVE  /\ delivered' \in [Key -> Seq(Conn \X Nat)]
           /\ parsed' \in [Conn -> Nat]
           /\ buffered' \in [Conn -> Nat]
<1>. USE ServerAssumption DEF ServerAssumption, TypeOK
<1>1. buffered[c] + n >= FrameUnits
  BY DEF FrameRead
<1>2. buffered[c] + n - FrameUnits \in Nat /\ buffered[c] + n \in Nat
  BY <1>1 DEF FrameUnits
<1>3. CASE FrameSent(c, n)
  <2>1. <<c, parsed[c] + 1>> \in Conn \X Nat /\ KeyOf[c] \in Key
    OBVIOUS
  <2>2. delivered' \in [Key -> Seq(Conn \X Nat)]
    BY <1>3, <2>1 DEF FrameSent
  <2>3. buffered' \in [Conn -> Nat]
    BY <1>2, <1>3 DEF FrameSent, FrameUnits
  <2>. QED BY <1>3, <2>2, <2>3 DEF FrameSent
<1>4. CASE FrameKept(c, n)
  BY <1>2, <1>4 DEF FrameKept
<1>. QED BY <1>3, <1>4

LEMMA DispatchType ==
    ASSUME TypeOK, NEW e \in batch, Dispatch(e)
    PROVE  TypeOK'
<1>. USE ServerAssumption DEF ServerAssumption
<1>0. batch' \subseteq Event /\ acceptReady' \in BOOLEAN
  <2>1. Take(e)
    <3>1. ASSUME NEW c \in Conn, NEW n \in 1 .. inflight[RecvSock(e)],
                 \/ PrefixCut(e, c, n) \/ FrameIncomplete(e, c, n) \/ FrameGarbled(e, c, n)
                 \/ SendToKnown(e, c, n) \/ NoSocketForKey(e, c, n)
                 \/ \E result \in {"up", "unconnected", "dead"} :
                       ConnectKey(e, c, n, result)
          PROVE RecvData(e, n)
      BY <3>1 DEF PrefixCut, FrameIncomplete, FrameGarbled, SendToKnown, NoSocketForKey,
         ConnectKey, FrameRead, TunnelData
    <3>2. ASSUME NEW k \in Key, NEW n \in 1 .. inflight[RecvSock(e)],
                 NEW sent \in {"all", "part", "none"}, ReturnData(e, k, n, sent)
          PROVE RecvData(e, n)
      BY <3>2 DEF ReturnData
    <3>3. ASSUME NEW n, RecvData(e, n) PROVE Take(e)
      BY <3>3 DEF RecvData
    <3>4. ASSUME \/ EventForNobody(e) \/ EventError(e) \/ TunnelInit(e)
                 \/ DestHangup(e) \/ RecvClosed(e) \/ RecvError(e) \/ RecvEof(e)
          PROVE Take(e)
      BY <3>4 DEF EventForNobody, EventError, TunnelInit, DestHangup, RecvClosed,
         RecvError, RecvEof
    <3>. QED BY <3>1, <3>2, <3>3, <3>4 DEF Dispatch
  <2>. QED BY <2>1 DEF Take, TypeOK
<1>t. e \in Event /\ Target(e) \in Handler \cup {Nobody} /\ RecvSock(e) \in Handler
  BY EventType
<1>1. CASE EventForNobody(e) \/ EventError(e) \/ RecvClosed(e)
  BY <1>0, <1>1 DEF EventForNobody, EventError, RecvClosed, TypeOK, relayVars, fdVars,
     handlerVars, frameVars, cryptoVars, netVars, clientVars, destVars
<1>2. CASE TunnelInit(e)
  BY <1>0, <1>2 DEF TunnelInit, TypeOK, fdVars, cryptoVars, netVars, clientVars, destVars
<1>3. CASE DestHangup(e) \/ RecvEof(e)
  <2>1. Target(e) \in Handler
    BY <1>3 DEF DestHangup, RecvEof, Receives, Handler
  <2>2. Close(Target(e))
    BY <1>3 DEF DestHangup, RecvEof
  <2>3. UNCHANGED <<spare, stage, localRelay, frameVars, cryptoVars, crash, netVars,
                    clientVars, destVars>>
    BY <1>3 DEF DestHangup, RecvEof, Close
  <2>. QED
    BY <1>0, <2>1, <2>2, <2>3, CloseType DEF TypeOK, frameVars, cryptoVars, netVars,
       clientVars, destVars
<1>4. CASE RecvError(e)
  BY <1>0, <1>t, <1>4 DEF RecvError, TypeOK, fdVars, handlerVars, frameVars, cryptoVars,
     clientVars, destVars, PeerState
<1>5. ASSUME NEW c \in Conn, NEW n \in 1 .. inflight[RecvSock(e)],
             PrefixCut(e, c, n) \/ FrameIncomplete(e, c, n) \/ FrameGarbled(e, c, n)
      PROVE TypeOK'
  <2>1. n \in Nat /\ RecvData(e, n)
    BY <1>5, <1>t DEF PrefixCut, FrameIncomplete, FrameGarbled, TunnelData, TypeOK
  <2>2. inflight' \in [Handler -> Nat]
    BY <2>1, RecvDataType
  <2>3. buffered' \in [Conn -> Nat]
    <3>1. buffered' = [buffered EXCEPT ![c] = @ + n]
      BY <1>5 DEF PrefixCut, FrameIncomplete, FrameGarbled
    <3>2. buffered \in [Conn -> Nat] /\ buffered[c] + n \in Nat
      BY <2>1 DEF TypeOK
    <3>. QED BY <3>1, <3>2
  <2>5. dec' \in Nat /\ crash' \in CrashReason
    BY <1>5 DEF PrefixCut, FrameIncomplete, FrameGarbled, TypeOK, CrashReason, cryptoVars
  <2>4. UNCHANGED <<fdVars, handlerVars, parsed, enc, peer, clientVars, destVars>>
    BY <1>5 DEF PrefixCut, FrameIncomplete, FrameGarbled, cryptoVars
  <2>. QED
    BY <1>0, <2>2, <2>3, <2>4, <2>5 DEF TypeOK, fdVars, handlerVars, clientVars, destVars
<1>6. ASSUME NEW c \in Conn, NEW n \in 1 .. inflight[RecvSock(e)],
             NEW result \in {"up", "unconnected", "dead"},
             SendToKnown(e, c, n) \/ NoSocketForKey(e, c, n) \/ ConnectKey(e, c, n, result)
      PROVE TypeOK'
  <2>1. n \in Nat /\ RecvData(e, n) /\ FrameRead(e, c, n)
    BY <1>6, <1>t DEF SendToKnown, NoSocketForKey, ConnectKey, FrameRead, TunnelData, TypeOK
  <2>2. inflight' \in [Handler -> Nat]
    BY <2>1, RecvDataType
  <2>3. FrameSent(c, n) \/ FrameKept(c, n)
    BY <1>6 DEF SendToKnown, NoSocketForKey, ConnectKey
  <2>4. /\ delivered' \in [Key -> Seq(Conn \X Nat)]
        /\ parsed' \in [Conn -> Nat]
        /\ buffered' \in [Conn -> Nat]
    BY <2>1, <2>3, FrameType
  <2>5. dec' \in Nat /\ UNCHANGED <<enc, crash, clientVars, got, back, stage>>
    BY <2>1 DEF FrameRead, TypeOK
  <2>6. KeyOf[c] \in Key /\ KeyOf[c] \in Handler
    BY DEF Handler
  <2>7. peer' \in [Handler -> PeerState]
    BY <1>6, <2>6 DEF SendToKnown, NoSocketForKey, ConnectKey, TypeOK, PeerState
  <2>8. /\ fdmap' \in [Fd -> Handler \cup {Nobody}]
        /\ fileno' \in [Handler -> Fd \cup {NoFd}]
        /\ spare' \in [Conn -> Fd \cup {NoFd}]
        /\ hstate' \in [Handler -> HandlerState]
        /\ localRelay' \in [Key -> Conn \cup {Nobody}]
    <3>1. CASE SendToKnown(e, c, n) \/ NoSocketForKey(e, c, n)
      BY <3>1 DEF SendToKnown, NoSocketForKey, ReleaseSpare, TypeOK, fdVars
    <3>2. CASE ConnectKey(e, c, n, result)
      <4>1. PICK f \in FreeFd : /\ fileno' = [fileno EXCEPT ![KeyOf[c]] = f]
                                /\ fdmap' = [fdmap EXCEPT ![f] = KeyOf[c]]
        BY <3>2 DEF ConnectKey
      <4>2. f \in Fd
        BY DEF FreeFd, FreeBut
      <4>. QED BY <2>6, <3>2, <4>1, <4>2 DEF ConnectKey, ReleaseSpare, TypeOK, HandlerState
    <3>. QED BY <1>6, <3>1, <3>2
  <2>. QED
    BY <1>0, <2>2, <2>4, <2>5, <2>7, <2>8 DEF TypeOK, clientVars
<1>7. ASSUME NEW k \in Key, NEW n \in 1 .. inflight[RecvSock(e)],
             NEW sent \in {"all", "part", "none"}, ReturnData(e, k, n, sent)
      PROVE TypeOK'
  <2>1. n \in Nat /\ RecvData(e, n)
    BY <1>7, <1>t DEF ReturnData, TypeOK
  <2>2. inflight' \in [Handler -> Nat]
    BY <2>1, RecvDataType
  <2>3. got' \in [Key -> Nat] /\ enc' \in Nat
    BY <1>7, <2>1 DEF ReturnData, TypeOK
  <2>4. [seq |-> enc, key |-> k, upto |-> got'[k], sent |-> sent] \in BackFrame
    BY <2>3 DEF BackFrame, TypeOK
  <2>5. back' \in [Conn -> Seq(BackFrame)]
    <3> DEFINE r == [seq |-> enc, key |-> k, upto |-> got'[k], sent |-> sent]
    <3>1. back' = [back EXCEPT ![localRelay[k]] = Append(@, r)]
      BY <1>7 DEF ReturnData
    <3>2. \A c \in Conn : Append(back[c], r) \in Seq(BackFrame)
      BY <2>4 DEF TypeOK
    <3> HIDE DEF r
    <3>. QED BY <3>1, <3>2 DEF TypeOK
  <2>6. peer' \in [Handler -> PeerState]
    BY <1>7 DEF ReturnData, TypeOK, PeerState
  <2>7. UNCHANGED <<fdVars, handlerVars, frameVars, dec, crash, clientVars, delivered>>
    BY <1>7 DEF ReturnData
  <2>. QED
    BY <1>0, <2>2, <2>3, <2>5, <2>6, <2>7 DEF TypeOK, fdVars, handlerVars, frameVars, clientVars
<1>. QED BY <1>1, <1>2, <1>3, <1>4, <1>5, <1>6, <1>7 DEF Dispatch

LEMMA TypeStep == ASSUME TypeOK, [Next]_vars PROVE TypeOK'
<1>. USE ServerAssumption DEF ServerAssumption
<1>1. CASE UNCHANGED vars
  BY <1>1 DEF TypeOK, vars, loopVars, fdVars, handlerVars, frameVars, cryptoVars,
              netVars, clientVars, destVars
<1>2. CASE WorldStep
  <2>1. ASSUME NEW c \in Conn, PeerConnect(c) PROVE TypeOK'
    BY <2>1 DEF TypeOK, PeerConnect, serverVars, loopVars, fdVars, handlerVars,
                frameVars, cryptoVars, clientVars, destVars, PeerState, Handler
  <2>2. ASSUME NEW c \in Conn, PeerSend(c) PROVE TypeOK'
    <3>1. wire' \in [Conn -> Seq(Nat)] /\ peerEnc' \in Nat
      BY <2>2 DEF TypeOK, PeerSend
    <3>2. inflight' \in [Handler -> Nat]
      BY <2>2 DEF TypeOK, PeerSend, FrameUnits, Handler
    <3>3. UNCHANGED <<serverVars, peer>>
      BY <2>2 DEF PeerSend
    <3>. QED
      BY <3>1, <3>2, <3>3 DEF TypeOK, serverVars, loopVars, fdVars, handlerVars,
         frameVars, cryptoVars, destVars
  <2>3. ASSUME NEW k \in Key, DestSend(k) PROVE TypeOK'
    BY <2>3 DEF TypeOK, DestSend, serverVars, loopVars, fdVars, handlerVars,
                frameVars, cryptoVars, clientVars, destVars, Handler
  <2>4. ASSUME NEW h \in Handler, PeerFin(h) PROVE TypeOK'
    BY <2>4 DEF TypeOK, PeerFin, serverVars, loopVars, fdVars, handlerVars,
                frameVars, cryptoVars, clientVars, destVars, PeerState
  <2>5. ASSUME NEW h \in Handler, PeerReset(h) PROVE TypeOK'
    BY <2>5 DEF TypeOK, PeerReset, serverVars, loopVars, fdVars, handlerVars,
                frameVars, cryptoVars, clientVars, destVars, PeerState
  <2>. QED BY <1>2, <2>1, <2>2, <2>3, <2>4, <2>5 DEF WorldStep
<1>3. CASE Poll
  <2>1. ReadyEvents \subseteq Event
    BY DEF ReadyEvents, Event, TypeOK, FlagsOf, Flag
  <2>. QED BY <1>3, <2>1 DEF Poll, TypeOK, relayVars, fdVars, handlerVars, frameVars,
              cryptoVars, netVars, clientVars, destVars
<1>4. ASSUME NEW c \in Conn, Accept(c) PROVE TypeOK'
  <2>1. PICK f \in FreeFd, s \in FreeFd :
            /\ fileno' = [fileno EXCEPT ![c] = f]
            /\ fdmap' = [fdmap EXCEPT ![f] = c]
            /\ spare' = [spare EXCEPT ![c] = s]
    BY <1>4 DEF Accept
  <2>2. /\ fileno' \in [Handler -> Fd \cup {NoFd}]
        /\ fdmap' \in [Fd -> Handler \cup {Nobody}]
        /\ spare' \in [Conn -> Fd \cup {NoFd}]
    BY <2>1 DEF TypeOK, FreeFd, FreeBut, Handler
  <2>. QED
    BY <1>4, <2>2 DEF Accept, TypeOK, HandlerState, frameVars, cryptoVars, netVars, clientVars, destVars
<1>5. CASE AcceptOutOfFds
  BY <1>5 DEF AcceptOutOfFds, TypeOK, relayVars, fdVars, handlerVars, frameVars,
              cryptoVars, netVars, clientVars, destVars, CrashReason
<1>6. ASSUME NEW e \in batch, Dispatch(e) PROVE TypeOK'
  BY <1>6, DispatchType
<1>. QED BY <1>1, <1>2, <1>3, <1>4, <1>5, <1>6 DEF Next, LoopStep

(* The type invariant of the server process.                                *)
THEOREM TypeCorrect == Spec => []TypeOK
<1>1. Init => TypeOK
  BY TypeInit
<1>2. TypeOK /\ [Next]_vars => TypeOK'
  BY TypeStep
<1>. QED BY <1>1, <1>2, PTL DEF Spec

-----------------------------------------------------------------------------
(* Registration and the reach of close().  Neither part is inductive alone: *)
(* that close() empties source_dest_map of open handlers needs the creator  *)
(* of the handler to be open, and that the handler an event is dispatched   *)
(* to is open needs the registration to be exact.                           *)

IInv == TypeOK /\ RegistrationExact /\ OpenRemoteHasOpenLocal

LEMMA IInvInit == ASSUME Init PROVE IInv
<1>1. TypeOK
  BY TypeInit
<1>2. Nobody \notin Handler /\ NoFd \notin Fd
  BY ServerAssumption DEF ServerAssumption, NoFd
<1>3. RegistrationExact
  BY <1>2 DEF Init, RegistrationExact, Open
<1>4. OpenRemoteHasOpenLocal
  BY DEF Init, OpenRemoteHasOpenLocal, Open, Handler
<1>. QED BY <1>1, <1>3, <1>4 DEF IInv

(* Only an open handler is dispatched to.                                   *)
LEMMA TargetOpen ==
    ASSUME IInv, NEW e \in batch, Target(e) # Nobody
    PROVE  Target(e) \in Handler /\ Open(Target(e))
<1>0. e \in Event /\ Target(e) \in Handler \cup {Nobody}
  BY EventType DEF IInv
<1>1. e.fd \in Fd /\ Target(e) \in Handler
  BY <1>0 DEF Event
<1>2. fileno[Target(e)] = e.fd /\ e.fd # NoFd
  <2>1. \A f \in Fd, h \in Handler : fdmap[f] = h <=> fileno[h] = f
    BY DEF IInv, RegistrationExact
  <2>2. e.fd # NoFd
    BY <1>1, ServerAssumption DEF ServerAssumption, NoFd
  <2>. QED BY <1>1, <2>1, <2>2 DEF Target
<1>. QED BY <1>1, <1>2 DEF IInv, RegistrationExact

(* A close() that starts at an open handler reaches every open destination. *)
LEMMA CloseReachesRemotes ==
    ASSUME IInv, NEW h \in Handler, Open(h)
    PROVE  /\ CloseSet(h) \subseteq {g \in Handler : Open(g)}
           /\ \A k \in Key : Open(k) => k \in CloseSet(h)
           /\ \A c \in Conn : c \in CloseSet(h) =>
                c = h \/ \E k \in Key : Open(k) /\ localRelay[k] = c
<1>1. h \in Key => localRelay[h] \in Conn /\ Open(localRelay[h])
  BY DEF IInv, OpenRemoteHasOpenLocal
<1> DEFINE remotes == {k \in Key : Open(k)}
           locals == {c \in Conn : Open(c) /\ \E k \in remotes : localRelay[k] = c}
<1>2. h \in Key => localRelay[h] \in locals
  BY <1>1
<1>3. CloseSet(h) = {h} \cup remotes \cup locals
  BY <1>2 DEF CloseSet
<1>. QED BY <1>3, ServerAssumption DEF Handler, Open, ServerAssumption

LEMMA CloseStep ==
    ASSUME IInv, NEW h \in Handler, Open(h), Close(h)
    PROVE  RegistrationExact' /\ OpenRemoteHasOpenLocal'
<1> DEFINE C == CloseSet(h)
<1>1. C \subseteq Handler
  BY CloseReachesRemotes
<1>2. \A k \in Key : Open(k) => k \in C
  BY CloseReachesRemotes
<1>3. /\ fdmap' = [f \in Fd |-> IF \E g \in C : fileno[g] = f THEN Nobody ELSE fdmap[f]]
      /\ fileno' = [g \in Handler |-> IF g \in C THEN NoFd ELSE fileno[g]]
      /\ hstate' = [g \in Handler |-> IF g \in C THEN "closed" ELSE hstate[g]]
      /\ UNCHANGED <<spare, localRelay>>
  BY DEF Close
<1>4. Nobody \notin Handler /\ NoFd \notin Fd
  BY ServerAssumption DEF ServerAssumption, NoFd
<1> HIDE DEF C
<1>5. \A g \in Handler : Open(g)' <=> fileno'[g] # NoFd
  BY <1>1, <1>3, <1>4 DEF IInv, RegistrationExact, Open
<1>6. \A f \in Fd, g \in Handler : fdmap'[f] = g <=> fileno'[g] = f
  BY <1>1, <1>3, <1>4 DEF IInv, RegistrationExact, TypeOK
<1>7. \A c \in Conn : spare'[c] # NoFd =>
        /\ fdmap'[spare'[c]] = Nobody
        /\ \A d \in Conn \ {c} : spare'[d] # spare'[c]
  BY <1>3 DEF IInv, RegistrationExact, TypeOK
<1>8. \A k \in Key : ~Open(k)'
  BY <1>2, <1>3 DEF Open, Handler
<1>. QED BY <1>5, <1>6, <1>7, <1>8 DEF RegistrationExact, OpenRemoteHasOpenLocal

LEMMA AcceptStep ==
    ASSUME IInv, NEW c \in Conn, Accept(c)
    PROVE  RegistrationExact' /\ OpenRemoteHasOpenLocal'
<1>1. PICK f \in FreeFd, s \in FreeFd :
          /\ f # s
          /\ fileno' = [fileno EXCEPT ![c] = f]
          /\ fdmap' = [fdmap EXCEPT ![f] = c]
          /\ spare' = [spare EXCEPT ![c] = s]
  BY DEF Accept, IsLowest
<1>2. /\ hstate' = [hstate EXCEPT ![c] = "open"]
      /\ localRelay' = localRelay
      /\ hstate[c] = "absent"
  BY DEF Accept, Pending
<1>3. /\ f \in Fd /\ s \in Fd /\ f # s /\ fdmap[f] = Nobody /\ fdmap[s] = Nobody
      /\ \A d \in Conn : spare[d] # f /\ spare[d] # s
  BY <1>1 DEF FreeFd, FreeBut
<1>4. Nobody \notin Handler /\ NoFd \notin Fd /\ c \in Handler
  BY ServerAssumption DEF ServerAssumption, NoFd, Handler
<1>5. fileno[c] = NoFd
  BY <1>2, <1>4 DEF IInv, RegistrationExact, Open
<1>6. \A g \in Handler : Open(g)' <=> fileno'[g] # NoFd
  BY <1>1, <1>2, <1>3, <1>4 DEF IInv, RegistrationExact, Open, TypeOK
<1>7. \A p \in Fd, g \in Handler : fdmap'[p] = g <=> fileno'[g] = p
  BY <1>1, <1>3, <1>4, <1>5 DEF IInv, RegistrationExact, TypeOK
<1>8. \A x \in Conn : spare'[x] # NoFd =>
        /\ fdmap'[spare'[x]] = Nobody
        /\ \A d \in Conn \ {x} : spare'[d] # spare'[x]
  BY <1>1, <1>3, <1>4 DEF IInv, RegistrationExact, TypeOK
<1>9. \A k \in Key : Open(k)' => localRelay'[k] \in Conn /\ Open(localRelay[k])'
  BY <1>2, <1>4, ServerAssumption
     DEF IInv, OpenRemoteHasOpenLocal, Open, TypeOK, ServerAssumption, Handler
<1>. QED BY <1>2, <1>6, <1>7, <1>8, <1>9 DEF RegistrationExact, OpenRemoteHasOpenLocal, Open

LEMMA ConnectStep ==
    ASSUME IInv, NEW e \in batch, NEW c \in Conn, NEW n, NEW result,
           ConnectKey(e, c, n, result), Open(c)
    PROVE  RegistrationExact' /\ OpenRemoteHasOpenLocal'
<1> DEFINE k == KeyOf[c]
<1>1. k \in Key /\ k \in Handler /\ c \in Handler /\ k # c
  BY ServerAssumption DEF ServerAssumption, Handler
<1>2. PICK f \in FreeFd : /\ fileno' = [fileno EXCEPT ![k] = f]
                          /\ fdmap' = [fdmap EXCEPT ![f] = k]
  BY DEF ConnectKey
<1>3. /\ hstate[k] = "absent"
      /\ hstate' = [hstate EXCEPT ![k] = "open"]
      /\ localRelay' = [localRelay EXCEPT ![k] = c]
      /\ spare' = [spare EXCEPT ![c] = NoFd]
  BY DEF ConnectKey, ReleaseSpare
<1>4. /\ f \in Fd /\ fdmap[f] = Nobody
      /\ \A d \in Conn : spare[d] # f
  BY DEF FreeFd, FreeBut
<1>5. Nobody \notin Handler /\ NoFd \notin Fd
  BY ServerAssumption DEF ServerAssumption, NoFd
<1> HIDE DEF k
<1>6. fileno[k] = NoFd
  BY <1>1, <1>3 DEF IInv, RegistrationExact, Open
<1>7. \A g \in Handler : Open(g)' <=> fileno'[g] # NoFd
  BY <1>1, <1>2, <1>3, <1>4, <1>5 DEF IInv, RegistrationExact, Open, TypeOK
<1>8. \A p \in Fd, g \in Handler : fdmap'[p] = g <=> fileno'[g] = p
  BY <1>1, <1>2, <1>4, <1>5, <1>6 DEF IInv, RegistrationExact, TypeOK
<1>9. \A x \in Conn : spare'[x] # NoFd =>
        /\ fdmap'[spare'[x]] = Nobody
        /\ \A d \in Conn \ {x} : spare'[d] # spare'[x]
  BY <1>2, <1>3, <1>4, <1>5 DEF IInv, RegistrationExact, TypeOK
<1>10. \A j \in Key : hstate'[j] = "open" =>
         localRelay'[j] \in Conn /\ hstate'[localRelay'[j]] = "open"
  BY <1>1, <1>3, ServerAssumption
     DEF IInv, OpenRemoteHasOpenLocal, Open, TypeOK, ServerAssumption, Handler
<1>. QED BY <1>7, <1>8, <1>9, <1>10 DEF RegistrationExact, OpenRemoteHasOpenLocal, Open

LEMMA UnchangedRegistration ==
    ASSUME IInv, UNCHANGED <<fdmap, fileno, hstate, localRelay>>,
           \A c \in Conn : spare'[c] \in {spare[c], NoFd}
    PROVE  RegistrationExact' /\ OpenRemoteHasOpenLocal'
BY DEF IInv, RegistrationExact, OpenRemoteHasOpenLocal, Open

LEMMA DispatchStep ==
    ASSUME IInv, NEW e \in batch, Dispatch(e)
    PROVE  RegistrationExact' /\ OpenRemoteHasOpenLocal'
<1>1. CASE \/ EventForNobody(e) \/ EventError(e) \/ RecvClosed(e) \/ TunnelInit(e)
           \/ RecvError(e)
  BY <1>1, UnchangedRegistration DEF EventForNobody, EventError, RecvClosed, TunnelInit,
     RecvError, relayVars, fdVars, handlerVars
<1>2. CASE DestHangup(e) \/ RecvEof(e)
  <2>1. Target(e) # Nobody /\ Close(Target(e))
    BY <1>2, ServerAssumption DEF DestHangup, RecvEof, Receives, ServerAssumption, Handler
  <2>. QED BY <2>1, TargetOpen, CloseStep
<1>3. ASSUME NEW c \in Conn, NEW n \in 1 .. inflight[RecvSock(e)],
             \/ PrefixCut(e, c, n) \/ FrameIncomplete(e, c, n) \/ FrameGarbled(e, c, n)
             \/ NoSocketForKey(e, c, n) \/ SendToKnown(e, c, n)
      PROVE RegistrationExact' /\ OpenRemoteHasOpenLocal'
  <2>1. UNCHANGED <<fdmap, fileno, hstate, localRelay>>
    BY <1>3 DEF PrefixCut, FrameIncomplete, FrameGarbled, NoSocketForKey, SendToKnown,
       fdVars, handlerVars
  <2>2. \A d \in Conn : spare'[d] \in {spare[d], NoFd}
    BY <1>3 DEF PrefixCut, FrameIncomplete, FrameGarbled, NoSocketForKey, SendToKnown,
       fdVars, ReleaseSpare, IInv, TypeOK
  <2>. QED BY <2>1, <2>2, UnchangedRegistration
<1>4. ASSUME NEW c \in Conn, NEW n \in 1 .. inflight[RecvSock(e)],
             NEW result \in {"up", "unconnected", "dead"}, ConnectKey(e, c, n, result)
      PROVE RegistrationExact' /\ OpenRemoteHasOpenLocal'
  <2>1. Target(e) = c /\ c # Nobody
    BY <1>4, ServerAssumption
       DEF ConnectKey, FrameRead, TunnelData, ServerAssumption, Handler
  <2>2. Open(c)
    BY <2>1, TargetOpen
  <2>. QED BY <1>4, <2>2, ConnectStep
<1>5. ASSUME NEW k \in Key, NEW n \in 1 .. inflight[RecvSock(e)],
             NEW sent \in {"all", "part", "none"}, ReturnData(e, k, n, sent)
      PROVE RegistrationExact' /\ OpenRemoteHasOpenLocal'
  BY <1>5, UnchangedRegistration DEF ReturnData, fdVars, handlerVars
<1>. QED BY <1>1, <1>2, <1>3, <1>4, <1>5 DEF Dispatch

LEMMA IInvStep == ASSUME IInv, [Next]_vars PROVE IInv'
<1>1. TypeOK'
  BY TypeStep DEF IInv
<1>2. RegistrationExact' /\ OpenRemoteHasOpenLocal'
  <2>1. CASE UNCHANGED vars
    BY <2>1, UnchangedRegistration DEF vars, fdVars, handlerVars
  <2>2. CASE WorldStep
    BY <2>2, UnchangedRegistration DEF WorldStep, PeerConnect, PeerSend, DestSend, PeerFin,
       PeerReset, serverVars, fdVars, handlerVars
  <2>3. CASE Poll \/ AcceptOutOfFds
    BY <2>3, UnchangedRegistration DEF Poll, AcceptOutOfFds, relayVars, fdVars, handlerVars
  <2>4. ASSUME NEW c \in Conn, Accept(c) PROVE RegistrationExact' /\ OpenRemoteHasOpenLocal'
    BY <2>4, AcceptStep
  <2>5. ASSUME NEW e \in batch, Dispatch(e) PROVE RegistrationExact' /\ OpenRemoteHasOpenLocal'
    BY <2>5, DispatchStep
  <2>. QED BY <2>1, <2>2, <2>3, <2>4, <2>5 DEF Next, LoopStep
<1>. QED BY <1>1, <1>2 DEF IInv

LEMMA InductiveInvariant == Spec => []IInv
<1>1. Init => IInv
  BY IInvInit
<1>2. IInv /\ [Next]_vars => IInv'
  BY IInvStep
<1>. QED BY <1>1, <1>2, PTL DEF Spec

(* _fdmap, the sockets' descriptors and self.closed agree in every state of *)
(* the process, so EventLoop.remove never raises KeyError.                  *)
THEOREM RegistrationCorrect == Spec => []RegistrationExact
<1>1. IInv => RegistrationExact
  BY DEF IInv
<1>. QED BY <1>1, InductiveInvariant, PTL

(* update_back_stream always finds the tunnel handler of an open            *)
(* destination handler open.                                                *)
THEOREM LocalOutlivesRemote == Spec => []OpenRemoteHasOpenLocal
<1>1. IInv => OpenRemoteHasOpenLocal
  BY DEF IInv
<1>. QED BY <1>1, InductiveInvariant, PTL

(* No event, however stale, is dispatched to a closed handler.              *)
THEOREM NoEventAfterClose == Spec => []EventsReachOpenHandlers
<1>1. IInv => EventsReachOpenHandlers
  BY TargetOpen DEF EventsReachOpenHandlers
<1>. QED BY <1>1, InductiveInvariant, PTL

-----------------------------------------------------------------------------
(* Effects of a dispatched event that several invariants need.              *)

(* Every event taken leaves the batch, nothing else does, and a handler is  *)
(* reached only while it is open.                                           *)
LEMMA RecvDataOf ==
    ASSUME NEW e \in batch, Dispatch(e)
    PROVE  /\ Take(e)
           /\ \A c \in Conn : \A n \in 1 .. inflight[RecvSock(e)] :
                 PrefixCut(e, c, n) \/ FrameIncomplete(e, c, n) \/ FrameGarbled(e, c, n)
                   \/ FrameRead(e, c, n)
                 => Target(e) = c /\ RecvData(e, n)
<1>1. \A n : RecvData(e, n) => Take(e)
  BY DEF RecvData
<1>2. ASSUME NEW c \in Conn, NEW n,
             PrefixCut(e, c, n) \/ FrameIncomplete(e, c, n) \/ FrameGarbled(e, c, n)
               \/ FrameRead(e, c, n)
      PROVE  Target(e) = c /\ RecvData(e, n)
  BY <1>2 DEF PrefixCut, FrameIncomplete, FrameGarbled, FrameRead, TunnelData
<1>3. ASSUME NEW c \in Conn, NEW n \in 1 .. inflight[RecvSock(e)],
             \/ PrefixCut(e, c, n) \/ FrameIncomplete(e, c, n) \/ FrameGarbled(e, c, n)
             \/ SendToKnown(e, c, n) \/ NoSocketForKey(e, c, n)
             \/ \E result \in {"up", "unconnected", "dead"} : ConnectKey(e, c, n, result)
      PROVE  Take(e)
  <2>1. \/ PrefixCut(e, c, n) \/ FrameIncomplete(e, c, n) \/ FrameGarbled(e, c, n)
        \/ FrameRead(e, c, n)
    BY <1>3 DEF SendToKnown, NoSocketForKey, ConnectKey
  <2>. QED BY <2>1, <1>1, <1>2
<1>4. ASSUME NEW k \in Key, NEW n, NEW sent, ReturnData(e, k, n, sent)
      PROVE  Take(e)
  BY <1>4, <1>1 DEF ReturnData
<1>5. ASSUME \/ EventForNobody(e) \/ EventError(e) \/ TunnelInit(e) \/ DestHangup(e)
             \/ RecvClosed(e) \/ RecvError(e) \/ RecvEof(e)
      PROVE  Take(e)
  BY <1>5 DEF EventForNobody, EventError, TunnelInit, DestHangup, RecvClosed, RecvError, RecvEof
<1>6. Take(e)
  BY <1>3, <1>4, <1>5 DEF Dispatch
<1>. QED BY <1>2, <1>6

(* A handler is opened once and closed once.                                *)
LEMMA HandlersAdvance ==
    ASSUME IInv, [Next]_vars, NEW h \in Handler
    PROVE  /\ hstate[h] # "absent" => hstate'[h] # "absent"
           /\ hstate[h] = "closed" => hstate'[h] = "closed"
           /\ hstate'[h] = "open" /\ hstate[h] # "open" => hstate[h] = "absent"
<1>. USE ServerAssumption DEF ServerAssumption
<1>0. hstate \in [Handler -> HandlerState]
  BY DEF IInv, TypeOK
<1>1. CASE hstate' = hstate
  BY <1>1
<1>2. ASSUME NEW g, hstate' = [hstate EXCEPT ![g] = "open"], hstate[g] = "absent"
      PROVE  /\ hstate[h] # "absent" => hstate'[h] # "absent"
             /\ hstate[h] = "closed" => hstate'[h] = "closed"
             /\ hstate'[h] = "open" /\ hstate[h] # "open" => hstate[h] = "absent"
  BY <1>0, <1>2
<1>3. ASSUME NEW g, Close(g)
      PROVE  /\ hstate[h] # "absent" => hstate'[h] # "absent"
             /\ hstate[h] = "closed" => hstate'[h] = "closed"
             /\ hstate'[h] = "open" /\ hstate[h] # "open" => hstate[h] = "absent"
  BY <1>3 DEF Close
<1>4. CASE UNCHANGED vars \/ WorldStep \/ Poll \/ AcceptOutOfFds
  BY <1>1, <1>4 DEF vars, handlerVars, WorldStep, PeerConnect, PeerSend, DestSend, PeerFin,
     PeerReset, serverVars, Poll, AcceptOutOfFds, relayVars
<1>5. ASSUME NEW c \in Conn, Accept(c) PROVE hstate' = [hstate EXCEPT ![c] = "open"] /\ hstate[c] = "absent"
  BY <1>5 DEF Accept, Pending
<1>6. ASSUME NEW e \in batch, Dispatch(e)
      PROVE  \/ hstate' = hstate
             \/ \E g : Close(g)
             \/ \E g : hstate' = [hstate EXCEPT ![g] = "open"] /\ hstate[g] = "absent"
  <2>1. CASE \/ EventForNobody(e) \/ EventError(e) \/ TunnelInit(e) \/ RecvClosed(e) \/ RecvError(e)
    BY <2>1 DEF EventForNobody, EventError, TunnelInit, RecvClosed, RecvError, relayVars, handlerVars
  <2>2. CASE DestHangup(e) \/ RecvEof(e)
    BY <2>2 DEF DestHangup, RecvEof
  <2>3. ASSUME NEW c \in Conn, NEW n,
               \/ PrefixCut(e, c, n) \/ FrameIncomplete(e, c, n) \/ FrameGarbled(e, c, n)
               \/ SendToKnown(e, c, n) \/ NoSocketForKey(e, c, n)
        PROVE  hstate' = hstate
    BY <2>3 DEF PrefixCut, FrameIncomplete, FrameGarbled, SendToKnown, NoSocketForKey, handlerVars
  <2>4. ASSUME NEW c \in Conn, NEW n, NEW result, ConnectKey(e, c, n, result)
        PROVE  hstate' = [hstate EXCEPT ![KeyOf[c]] = "open"] /\ hstate[KeyOf[c]] = "absent"
    BY <2>4 DEF ConnectKey
  <2>5. ASSUME NEW k \in Key, NEW n, NEW sent, ReturnData(e, k, n, sent) PROVE hstate' = hstate
    BY <2>5 DEF ReturnData, handlerVars
  <2>. QED BY <1>6, <2>1, <2>2, <2>3, <2>4, <2>5 DEF Dispatch
<1>. QED BY <1>1, <1>2, <1>3, <1>4, <1>5, <1>6 DEF Next, LoopStep

(* What TCP has reported once stays so.                                     *)
LEMMA PeersAdvance ==
    ASSUME IInv, [Next]_vars, NEW h \in Handler
    PROVE  /\ peer[h] # "none" /\ hstate[h] # "absent" => peer'[h] # "none"
           /\ peer[h] \in {"dead", "unconnected"} /\ hstate[h] # "absent" => peer'[h] = peer[h]
           /\ peer[h] \in {"fin", "dead"} \cup Broken /\ hstate[h] # "absent"
                => peer'[h] \in {"fin", "dead"} \cup Broken
           /\ peer'[h] = "unconnected" => h \in Key \/ peer[h] = "unconnected"
           /\ hstate'[h] = "open" /\ hstate[h] # "open" => peer'[h] # "none"
<1> DEFINE P ==
           /\ peer[h] # "none" /\ hstate[h] # "absent" => peer'[h] # "none"
           /\ peer[h] \in {"dead", "unconnected"} /\ hstate[h] # "absent" => peer'[h] = peer[h]
           /\ peer[h] \in {"fin", "dead"} \cup Broken /\ hstate[h] # "absent"
                => peer'[h] \in {"fin", "dead"} \cup Broken
           /\ peer'[h] = "unconnected" => h \in Key \/ peer[h] = "unconnected"
           /\ hstate'[h] = "open" /\ hstate[h] # "open" => peer'[h] # "none"
<1>. USE ServerAssumption DEF ServerAssumption
<1>0. peer \in [Handler -> PeerState] /\ hstate \in [Handler -> HandlerState]
  BY DEF IInv, TypeOK
<1>1. ASSUME NEW g, hstate'[h] = hstate[h],
             \/ peer' = peer
             \/ peer' = [peer EXCEPT ![g] = IF Open(g) /\ @ \in Broken THEN "dead" ELSE @]
             \/ peer[g] = "none" /\ peer' = [peer EXCEPT ![g] = "up"]
             \/ peer[g] = "up" /\ peer' = [peer EXCEPT ![g] = "fin"]
             \/ peer[g] = "rst" /\ peer' = [peer EXCEPT ![g] = "dead"]
             \/ peer[g] \in {"up", "fin"}
                  /\ peer' = [peer EXCEPT ![g] = IF @ = "up" THEN "rst" ELSE "finrst"]
      PROVE  P
  BY <1>0, <1>1 DEF Broken, PeerState
<1>2. ASSUME UNCHANGED peer, hstate'[h] \in {hstate[h], "closed"}
      PROVE  P
  BY <1>0, <1>2 DEF Broken
<1>3. CASE UNCHANGED vars \/ Poll \/ AcceptOutOfFds
  BY <1>2, <1>3 DEF vars, handlerVars, netVars, Poll, AcceptOutOfFds, relayVars
<1>4. CASE WorldStep
  BY <1>1, <1>4 DEF WorldStep, PeerConnect, PeerSend, DestSend, PeerFin, PeerReset, serverVars,
     handlerVars
<1>5. ASSUME NEW c \in Conn, Accept(c) PROVE P
  BY <1>0, <1>5 DEF Accept, Pending, netVars, Broken
<1>6. ASSUME NEW e \in batch, Dispatch(e) PROVE P
  <2>1. CASE \/ EventForNobody(e) \/ EventError(e) \/ TunnelInit(e) \/ RecvClosed(e)
    BY <1>2, <2>1 DEF EventForNobody, EventError, TunnelInit, RecvClosed, relayVars, handlerVars,
       netVars
  <2>2. CASE RecvError(e)
    BY <1>1, <2>2 DEF RecvError, handlerVars
  <2>3. CASE DestHangup(e) \/ RecvEof(e)
    <3>1. UNCHANGED peer /\ hstate'[h] \in {hstate[h], "closed"}
      BY <2>3 DEF DestHangup, RecvEof, Close, netVars
    <3>. QED BY <1>2, <3>1
  <2>4. ASSUME NEW c \in Conn, NEW n,
               PrefixCut(e, c, n) \/ FrameIncomplete(e, c, n) \/ FrameGarbled(e, c, n)
                 \/ NoSocketForKey(e, c, n)
        PROVE  P
    BY <1>2, <2>4 DEF PrefixCut, FrameIncomplete, FrameGarbled, NoSocketForKey, handlerVars
  <2>5. ASSUME NEW c \in Conn, NEW n, SendToKnown(e, c, n) PROVE P
    BY <1>1, <2>5 DEF SendToKnown
  <2>6. ASSUME NEW c \in Conn, NEW n, NEW result \in {"up", "unconnected", "dead"},
               ConnectKey(e, c, n, result)
        PROVE  P
    <3>1. /\ hstate[KeyOf[c]] = "absent"
          /\ hstate' = [hstate EXCEPT ![KeyOf[c]] = "open"]
          /\ peer' = [peer EXCEPT ![KeyOf[c]] = result]
          /\ KeyOf[c] \in Key
      BY <2>6 DEF ConnectKey
    <3>. QED BY <1>0, <3>1 DEF Broken
  <2>7. ASSUME NEW k \in Key, NEW n, NEW sent, ReturnData(e, k, n, sent) PROVE P
    BY <1>1, <2>7 DEF ReturnData, handlerVars
  <2>. QED BY <1>6, <2>1, <2>2, <2>3, <2>4, <2>5, <2>6, <2>7 DEF Dispatch
<1>. QED BY <1>3, <1>4, <1>5, <1>6 DEF Next, LoopStep

(* Units leave a socket only by a recv on it.                               *)
LEMMA UnitsLeaveByRecv ==
    ASSUME IInv, [Next]_vars, NEW h \in Handler
    PROVE  \/ inflight'[h] >= inflight[h] /\ inflight'[h] \in Nat /\ inflight[h] \in Nat
           \/ \E e \in batch : Dispatch(e) /\ RecvSock(e) = h
<1>. USE ServerAssumption DEF ServerAssumption
<1>0. inflight \in [Handler -> Nat] /\ inflight' \in [Handler -> Nat]
  BY TypeStep DEF IInv, TypeOK
<1>1. CASE UNCHANGED inflight
  BY <1>0, <1>1
<1>2. CASE UNCHANGED vars \/ Poll \/ AcceptOutOfFds \/ \E c \in Conn : Accept(c)
  BY <1>1, <1>2 DEF vars, netVars, Poll, AcceptOutOfFds, relayVars, Accept
<1>3. CASE WorldStep
  <2>1. \/ UNCHANGED inflight
        \/ \E g : inflight' = [inflight EXCEPT ![g] = @ + FrameUnits]
        \/ \E g : inflight' = [inflight EXCEPT ![g] = @ + 1]
    BY <1>3 DEF WorldStep, PeerConnect, PeerSend, DestSend, PeerFin, PeerReset
  <2>. QED BY <1>0, <1>1, <2>1 DEF FrameUnits
<1>4. ASSUME NEW e \in batch, Dispatch(e), RecvSock(e) # h PROVE inflight'[h] = inflight[h]
  <2>1. CASE \/ EventForNobody(e) \/ EventError(e) \/ TunnelInit(e) \/ RecvClosed(e)
             \/ RecvError(e) \/ DestHangup(e) \/ RecvEof(e)
    BY <2>1 DEF EventForNobody, EventError, TunnelInit, RecvClosed, relayVars,
       netVars, RecvError, DestHangup, RecvEof
  <2>2. ASSUME NEW n, RecvData(e, n) PROVE inflight'[h] = inflight[h]
    BY <1>0, <1>4, <2>2 DEF RecvData
  <2>3. ASSUME NEW c \in Conn, NEW n,
               \/ PrefixCut(e, c, n) \/ FrameIncomplete(e, c, n) \/ FrameGarbled(e, c, n)
               \/ SendToKnown(e, c, n) \/ NoSocketForKey(e, c, n)
               \/ \E result \in {"up", "unconnected", "dead"} : ConnectKey(e, c, n, result)
        PROVE  RecvData(e, n)
    BY <2>3 DEF PrefixCut, FrameIncomplete, FrameGarbled, SendToKnown, NoSocketForKey,
       ConnectKey, FrameRead, TunnelData
  <2>4. ASSUME NEW k \in Key, NEW n, NEW sent, ReturnData(e, k, n, sent) PROVE RecvData(e, n)
    BY <2>4 DEF ReturnData
  <2>. QED BY <1>4, <2>1, <2>2, <2>3, <2>4 DEF Dispatch
<1>. QED BY <1>0, <1>2, <1>3, <1>4 DEF Next, LoopStep

-----------------------------------------------------------------------------
(* Events and their sockets.                                                *)

(* A batch holds one event of a descriptor, and while its socket is open the *)
(* socket has that descriptor still.                                        *)
EventsOfSockets ==
    /\ \A e \in batch : hstate[e.sock] # "absent" /\ (Open(e.sock) => fileno[e.sock] = e.fd)
    /\ \A e, g \in batch : e.fd = g.fd => e = g

(* The socket of an event that leads to recv has something to report.       *)
EventsReady ==
    \A e \in batch :
        Open(e.sock) /\ "ERR" \notin e.flags /\ ("HUP" \notin e.flags \/ e.sock \in Conn)
        => inflight[e.sock] > 0 \/ peer[e.sock] \in {"fin", "dead"} \cup Broken

PeersConnected ==
    /\ \A h \in Handler : Open(h) => peer[h] # "none"
    /\ \A c \in Conn : peer[c] # "unconnected"

EventInv == EventsOfSockets /\ EventsReady /\ PeersConnected

(* What an event is dispatched to is the owner of the socket it came from,  *)
(* as long as that socket is open.                                          *)
LEMMA EventOwner ==
    ASSUME IInv, EventsOfSockets, NEW e \in batch, Open(RecvSock(e))
    PROVE  Target(e) = RecvSock(e)
<1>1. e.sock \in Handler /\ e.fd \in Fd
  BY DEF IInv, TypeOK, Event
<1>2. fileno[e.sock] = e.fd
  BY DEF EventsOfSockets, RecvSock
<1>. QED BY <1>1, <1>2 DEF IInv, RegistrationExact, Target, RecvSock

(* An event of the next batch is one of this batch, or just polled.         *)
LEMMA BatchStep ==
    ASSUME [Next]_vars
    PROVE  \/ batch' \subseteq batch
           \/ batch' = ReadyEvents /\ UNCHANGED <<fdVars, relayVars>>
<1>1. ASSUME NEW e \in batch, Dispatch(e) PROVE batch' \subseteq batch
  BY <1>1, RecvDataOf DEF Take
<1>2. CASE UNCHANGED vars \/ WorldStep \/ AcceptOutOfFds \/ \E c \in Conn : Accept(c)
  BY <1>2 DEF vars, loopVars, WorldStep, PeerConnect, PeerSend, DestSend, PeerFin, PeerReset,
     serverVars, AcceptOutOfFds, Accept
<1>3. CASE Poll
  BY <1>3 DEF Poll
<1>. QED BY <1>1, <1>2, <1>3 DEF Next, LoopStep

(* An open socket keeps its descriptor until it is closed.                  *)
LEMMA FilenoKept ==
    ASSUME IInv, [Next]_vars, NEW h \in Handler, Open(h), Open(h)'
    PROVE  fileno'[h] = fileno[h]
<1>. USE ServerAssumption DEF ServerAssumption
<1>0. fileno \in [Handler -> Fd \cup {NoFd}] /\ hstate \in [Handler -> HandlerState]
  BY DEF IInv, TypeOK
<1>1. CASE UNCHANGED fileno
  BY <1>1
<1>2. ASSUME NEW g, Close(g) PROVE fileno'[h] = fileno[h]
  BY <1>2 DEF Close, Open
<1>3. ASSUME NEW g, hstate[g] = "absent", NEW f, fileno' = [fileno EXCEPT ![g] = f]
      PROVE  fileno'[h] = fileno[h]
  BY <1>0, <1>3 DEF Open
<1>4. CASE UNCHANGED vars \/ Poll \/ AcceptOutOfFds \/ WorldStep
  BY <1>1, <1>4 DEF vars, fdVars, Poll, AcceptOutOfFds, WorldStep, PeerConnect, PeerSend,
     DestSend, PeerFin, PeerReset, serverVars
<1>5. ASSUME NEW c \in Conn, Accept(c) PROVE fileno'[h] = fileno[h]
  BY <1>3, <1>5 DEF Accept, Pending
<1>6. ASSUME NEW e \in batch, Dispatch(e) PROVE fileno'[h] = fileno[h]
  <2>1. CASE \/ EventForNobody(e) \/ EventError(e) \/ TunnelInit(e) \/ RecvClosed(e)
             \/ RecvError(e)
    BY <1>1, <2>1 DEF EventForNobody, EventError, TunnelInit, RecvClosed, RecvError, fdVars
  <2>2. CASE DestHangup(e) \/ RecvEof(e)
    BY <1>2, <2>2 DEF DestHangup, RecvEof
  <2>3. ASSUME NEW c \in Conn, NEW n,
               \/ PrefixCut(e, c, n) \/ FrameIncomplete(e, c, n) \/ FrameGarbled(e, c, n)
               \/ SendToKnown(e, c, n) \/ NoSocketForKey(e, c, n)
        PROVE  UNCHANGED fileno
    BY <2>3 DEF PrefixCut, FrameIncomplete, FrameGarbled, SendToKnown, NoSocketForKey, fdVars
  <2>4. ASSUME NEW c \in Conn, NEW n, NEW result, ConnectKey(e, c, n, result)
        PROVE  fileno'[h] = fileno[h]
    BY <1>3, <2>4 DEF ConnectKey
  <2>5. ASSUME NEW k \in Key, NEW n, NEW sent, ReturnData(e, k, n, sent) PROVE UNCHANGED fileno
    BY <2>5 DEF ReturnData, fdVars
  <2>. QED BY <1>1, <1>6, <2>1, <2>2, <2>3, <2>4, <2>5 DEF Dispatch
<1>. QED BY <1>4, <1>5, <1>6 DEF Next, LoopStep

LEMMA PolledEvents ==
    ASSUME IInv, PeersConnected, NEW e \in ReadyEvents
    PROVE  /\ e.sock \in Handler /\ Open(e.sock) /\ fileno[e.sock] = e.fd
           /\ e.sock = fdmap[e.fd] /\ e.flags = FlagsOf(e.sock)
           /\ "ERR" \notin e.flags /\ ("HUP" \notin e.flags \/ e.sock \in Conn)
              => inflight[e.sock] > 0 \/ peer[e.sock] \in {"fin", "dead"} \cup Broken
<1>1. PICK f \in Fd : /\ fdmap[f] # Nobody /\ FlagsOf(fdmap[f]) # {}
                      /\ e = [sock |-> fdmap[f], fd |-> f, flags |-> FlagsOf(fdmap[f])]
  BY DEF ReadyEvents
<1>2. fdmap[f] \in Handler
  BY <1>1 DEF IInv, TypeOK
<1>3. fileno[fdmap[f]] = f /\ f # NoFd
  BY <1>1, <1>2, ServerAssumption DEF IInv, RegistrationExact, ServerAssumption, NoFd
<1>4. Open(fdmap[f])
  BY <1>2, <1>3 DEF IInv, RegistrationExact
<1>5. e.sock = fdmap[f] /\ e.fd = f /\ e.flags = FlagsOf(fdmap[f])
  BY <1>1
<1>6. ASSUME "ERR" \notin e.flags, "HUP" \notin e.flags \/ e.sock \in Conn
      PROVE  inflight[e.sock] > 0 \/ peer[e.sock] \in {"fin", "dead"} \cup Broken
  <2>1. e.flags # {} /\ e.flags = FlagsOf(e.sock)
    BY <1>1, <1>5
  <2>2. "HUP" \in FlagsOf(e.sock) => peer[e.sock] \in {"fin", "dead"} \cup Broken \/ e.sock \notin Conn
    BY DEF FlagsOf, PeersConnected
  <2>3. "IN" \in FlagsOf(e.sock) => inflight[e.sock] > 0 \/ peer[e.sock] \in {"fin", "dead"} \cup Broken
    BY DEF FlagsOf
  <2>4. FlagsOf(e.sock) \subseteq {"IN", "ERR", "HUP"}
    BY DEF FlagsOf
  <2>. QED BY <1>6, <2>1, <2>2, <2>3, <2>4
<1>. QED BY <1>1, <1>2, <1>3, <1>4, <1>5, <1>6

LEMMA EventInvStep ==
    ASSUME IInv, EventInv, [Next]_vars
    PROVE  EventInv'
<1>. USE DEF EventInv
<1>0. TypeOK /\ TypeOK' /\ batch \subseteq Event
  BY TypeStep DEF IInv, TypeOK
<1>1. PeersConnected'
  BY <1>0, PeersAdvance, ServerAssumption
     DEF PeersConnected, ServerAssumption, Handler, Open, TypeOK, HandlerState
<1>2. CASE batch' = ReadyEvents /\ UNCHANGED <<fdVars, relayVars>>
  <2>1. UNCHANGED <<fdmap, fileno, hstate, peer, inflight>>
    BY <1>2 DEF fdVars, relayVars, handlerVars, netVars
  <2>2. EventsOfSockets'
    BY <1>2, <2>1, PolledEvents DEF EventsOfSockets, Open, ReadyEvents
  <2>3. EventsReady'
    BY <1>2, <2>1, PolledEvents DEF EventsReady, Open
  <2>. QED BY <1>1, <2>2, <2>3
<1>3. CASE batch' \subseteq batch
  <2>1. EventsOfSockets'
    <3>1. ASSUME NEW e \in batch PROVE
             hstate'[e.sock] # "absent" /\ (Open(e.sock)' => fileno'[e.sock] = e.fd)
      <4>1. e.sock \in Handler /\ hstate[e.sock] # "absent"
        BY <1>0 DEF Event, EventsOfSockets
      <4>2. hstate'[e.sock] # "absent"
        BY <4>1, HandlersAdvance
      <4>3. Open(e.sock)' => Open(e.sock)
        BY <4>1, HandlersAdvance DEF Open
      <4>. QED BY <4>1, <4>2, <4>3, FilenoKept DEF EventsOfSockets
    <3>2. \A e, g \in batch' : e.fd = g.fd => e = g
      BY <1>3 DEF EventsOfSockets
    <3>3. \A e \in batch' : hstate'[e.sock] # "absent" /\ (Open(e.sock)' => fileno'[e.sock] = e.fd)
      BY <1>3, <3>1
    <3>. QED BY <3>2, <3>3 DEF EventsOfSockets, Open
  <2>2. EventsReady'
    <3> SUFFICES ASSUME NEW e \in batch', Open(e.sock)', "ERR" \notin e.flags,
                        "HUP" \notin e.flags \/ e.sock \in Conn
                 PROVE  inflight'[e.sock] > 0 \/ peer'[e.sock] \in {"fin", "dead"} \cup Broken
      BY DEF EventsReady, Open
    <3>1. e \in batch /\ e.sock \in Handler /\ hstate[e.sock] # "absent"
      BY <1>0, <1>3 DEF Event, EventsOfSockets
    <3>2. Open(e.sock)
      BY <3>1, HandlersAdvance DEF Open
    <3>3. inflight[e.sock] > 0 \/ peer[e.sock] \in {"fin", "dead"} \cup Broken
      BY <3>1, <3>2 DEF EventsReady
    <3>4. ASSUME NEW g \in batch, Dispatch(g), RecvSock(g) = e.sock PROVE FALSE
      <4>1. e # g
        BY <3>4, RecvDataOf DEF Take
      <4>2. e.fd = g.fd
        BY <3>1, <3>2, <3>4 DEF EventsOfSockets, RecvSock
      <4>. QED BY <3>1, <4>1, <4>2 DEF EventsOfSockets
    <3>5. inflight'[e.sock] >= inflight[e.sock] /\ inflight'[e.sock] \in Nat /\ inflight[e.sock] \in Nat
      BY <3>1, <3>4, UnitsLeaveByRecv
    <3>6. peer[e.sock] \in {"fin", "dead"} \cup Broken => peer'[e.sock] \in {"fin", "dead"} \cup Broken
      BY <3>1, PeersAdvance
    <3>. QED BY <3>3, <3>5, <3>6
  <2>. QED BY <1>1, <2>1, <2>2
<1>. QED BY <1>2, <1>3, BatchStep

LEMMA EventInvariant == Spec => [](IInv /\ EventInv)
<1>1. Init => IInv /\ EventInv
  <2>1. Init => EventInv
    BY ServerAssumption DEF Init, EventInv, EventsOfSockets, EventsReady, PeersConnected, Open,
       ServerAssumption, Handler
  <2>. QED BY <2>1, IInvInit
<1>2. (IInv /\ EventInv) /\ [Next]_vars => (IInv /\ EventInv)'
  BY IInvStep, EventInvStep
<1>. QED BY <1>1, <1>2, PTL DEF Spec

(* No recv on a socket that has nothing to return.                          *)
THEOREM NeverBlockedInRecv == Spec => []RecvNeverBlocks
<1>1. IInv /\ EventInv => RecvNeverBlocks
  <2> SUFFICES ASSUME IInv, EventInv, NEW e \in batch, Receives(e), Open(RecvSock(e))
               PROVE  \/ inflight[RecvSock(e)] > 0
                      \/ peer[RecvSock(e)] \in {"fin", "dead"} \cup Broken
    BY DEF RecvNeverBlocks
  <2>1. Target(e) = RecvSock(e)
    BY EventOwner DEF EventInv
  <2>. QED BY <2>1 DEF EventInv, EventsReady, Receives, RecvSock
<1>. QED BY <1>1, EventInvariant, PTL

(* A close() takes the destination handlers, all of them, and a tunnel only *)
(* at its own end or along with a destination handler it created.           *)
THEOREM CloseReachHolds == Spec => CloseReach
<1> DEFINE Reach == \A h \in Handler : Open(h) /\ hstate'[h] = "closed" =>
         /\ \A k \in Key : hstate'[k] # "open"
         /\ h \in Conn =>
              \/ inflight[h] = 0 /\ peer[h] \in {"fin", "finrst", "dead"}
              \/ \E k \in Key : Open(k) /\ localRelay[k] = h
<1>1. ASSUME IInv, EventInv, [Next]_vars PROVE Reach
  <2>0. hstate \in [Handler -> HandlerState]
    BY <1>1 DEF IInv, TypeOK
  <2>1. ASSUME NEW e \in batch, DestHangup(e) \/ RecvEof(e) PROVE Reach
    <3>1. Target(e) # Nobody /\ Close(Target(e))
      BY <2>1, ServerAssumption DEF DestHangup, RecvEof, Receives, ServerAssumption, Handler
    <3>2. Target(e) \in Handler /\ Open(Target(e))
      BY <1>1, <3>1, TargetOpen
    <3>3. /\ \A k \in Key : Open(k) => k \in CloseSet(Target(e))
          /\ \A c \in Conn : c \in CloseSet(Target(e)) =>
               c = Target(e) \/ \E k \in Key : Open(k) /\ localRelay[k] = c
      BY <1>1, <3>2, CloseReachesRemotes
    <3>4. hstate' = [g \in Handler |-> IF g \in CloseSet(Target(e)) THEN "closed" ELSE hstate[g]]
      BY <3>1 DEF Close
    <3>5. \A k \in Key : hstate'[k] # "open"
      BY <3>3, <3>4 DEF Open, Handler
    <3>6. Target(e) \in Conn => inflight[Target(e)] = 0 /\ peer[Target(e)] \in {"fin", "finrst", "dead"}
      <4>1. CASE DestHangup(e)
        BY <4>1, ServerAssumption DEF DestHangup, ServerAssumption
      <4>2. CASE RecvEof(e)
        <5>1. Target(e) = RecvSock(e)
          BY <1>1, <4>2, EventOwner DEF RecvEof, EventInv
        <5>. QED BY <4>2, <5>1 DEF RecvEof
      <4>. QED BY <2>1, <4>1, <4>2
    <3>7. \A h \in Conn : Open(h) /\ hstate'[h] = "closed" => h \in CloseSet(Target(e))
      BY <3>4 DEF Open, Handler
    <3>. QED BY <3>3, <3>5, <3>6, <3>7
  <2>2. ASSUME \A h \in Handler : hstate'[h] = hstate[h] \/ hstate'[h] = "open" PROVE Reach
    BY <2>0, <2>2 DEF Open
  <2>3. CASE UNCHANGED vars \/ Poll \/ AcceptOutOfFds \/ WorldStep
    BY <2>2, <2>3 DEF vars, handlerVars, Poll, AcceptOutOfFds, WorldStep, PeerConnect, PeerSend,
       DestSend, PeerFin, PeerReset, serverVars, relayVars
  <2>4. ASSUME NEW c \in Conn, Accept(c) PROVE Reach
    <3>1. \A h \in Handler : hstate'[h] = hstate[h] \/ hstate'[h] = "open"
      BY <2>0, <2>4 DEF Accept
    <3>. QED BY <3>1, <2>2
  <2>5. ASSUME NEW e \in batch, Dispatch(e) PROVE Reach
    <3>1. CASE \/ EventForNobody(e) \/ EventError(e) \/ TunnelInit(e) \/ RecvClosed(e)
               \/ RecvError(e)
      BY <2>2, <3>1 DEF EventForNobody, EventError, TunnelInit, RecvClosed, RecvError,
         handlerVars, relayVars
    <3>2. ASSUME NEW c \in Conn, NEW n,
                 \/ PrefixCut(e, c, n) \/ FrameIncomplete(e, c, n) \/ FrameGarbled(e, c, n)
                 \/ SendToKnown(e, c, n) \/ NoSocketForKey(e, c, n)
          PROVE  UNCHANGED hstate
      BY <3>2 DEF PrefixCut, FrameIncomplete, FrameGarbled, SendToKnown, NoSocketForKey, handlerVars
    <3>3. ASSUME NEW c \in Conn, NEW n, NEW result, ConnectKey(e, c, n, result)
          PROVE  \A h \in Handler : hstate'[h] = hstate[h] \/ hstate'[h] = "open"
      BY <2>0, <3>3 DEF ConnectKey
    <3>4. ASSUME NEW k \in Key, NEW n, NEW sent, ReturnData(e, k, n, sent) PROVE UNCHANGED hstate
      BY <3>4 DEF ReturnData, handlerVars
    <3> HIDE DEF Reach
    <3>. QED BY <2>1, <2>2, <2>5, <3>1, <3>2, <3>3, <3>4 DEF Dispatch
  <2>. QED BY <1>1, <2>3, <2>4, <2>5 DEF Next, LoopStep
<1>2. IInv /\ EventInv /\ [Next]_vars => [Reach]_vars
  BY <1>1
<1>. QED BY <1>2, EventInvariant, PTL DEF Spec, CloseReach

-----------------------------------------------------------------------------
(* Frames.                                                                  *)

(* A tunnel that has had no event holds nothing: its first event empties    *)
(* data_to_send.                                                            *)
FreshTunnelsEmpty == \A c \in Conn : stage[c] = "INIT" => buffered[c] = 0

FrameInv == FrameAccounting /\ FreshTunnelsEmpty

(* What a recv of a tunnel moves from its socket into data_to_send.         *)
LEMMA TunnelRecv ==
    ASSUME IInv, EventsOfSockets, NEW e \in batch, NEW c \in Conn,
           NEW n \in 1 .. inflight[RecvSock(e)], Target(e) = c, RecvData(e, n)
    PROVE  /\ n \in Nat \ {0} /\ n <= inflight[c]
           /\ inflight' = [inflight EXCEPT ![c] = @ - n]
           /\ stage[c] = "STREAM"
<1>1. Target(e) = RecvSock(e)
  BY EventOwner DEF RecvData
<1>2. inflight[c] \in Nat
  BY DEF IInv, TypeOK, Handler
<1>. QED BY <1>1, <1>2, ServerAssumption DEF RecvData, Receives, ServerAssumption

(* A frame is taken off the front only if there is one.                     *)
LEMMA FrontFrame ==
    ASSUME IInv, FrameAccounting, NEW c \in Conn, NEW n \in Nat, n <= inflight[c],
           buffered[c] + n >= FrameUnits
    PROVE  parsed[c] + 1 \in 1 .. Len(wire[c])
<1>1. parsed[c] \in Nat /\ buffered[c] \in Nat /\ inflight[c] \in Nat /\ Len(wire[c]) \in Nat
  BY DEF IInv, TypeOK, Handler
<1>2. FrameUnits * (Len(wire[c]) - parsed[c]) = inflight[c] + buffered[c]
  BY DEF FrameAccounting
<1> DEFINE l == Len(wire[c])
           p == parsed[c]
           u == inflight[c] + buffered[c]
<1>3. l \in Nat /\ p \in Nat /\ u \in Nat /\ u >= 3 /\ 3 * (l - p) = u
  BY <1>1, <1>2 DEF FrameUnits
<1> HIDE DEF l, p, u
<1>4. p + 1 \in 1 .. l
  BY <1>3
<1>. QED BY <1>4 DEF l, p

LEMMA FramesKept ==
    ASSUME FrameInv, UNCHANGED <<buffered, parsed, wire>>,
           \A c \in Conn : inflight'[c] = inflight[c],
           \A c \in Conn : stage'[c] = "INIT" => stage[c] = "INIT"
    PROVE  FrameInv'
BY DEF FrameInv, FrameAccounting, FreshTunnelsEmpty

LEMMA FrameInvDispatch ==
    ASSUME IInv, EventInv, FrameInv, NEW e \in batch, Dispatch(e)
    PROVE  FrameInv'
<1>. USE ServerAssumption DEF ServerAssumption, EventInv
<1>0. /\ buffered \in [Conn -> Nat] /\ parsed \in [Conn -> Nat] /\ wire \in [Conn -> Seq(Nat)]
      /\ inflight \in [Handler -> Nat] /\ stage \in [Conn -> {"INIT", "STREAM"}]
  BY DEF IInv, TypeOK
<1>1. CASE EventForNobody(e) \/ EventError(e) \/ RecvClosed(e) \/ RecvError(e) \/ DestHangup(e) \/ RecvEof(e)
  <2>1. UNCHANGED <<buffered, parsed, wire, inflight, stage>>
    BY <1>1 DEF EventForNobody, EventError, RecvClosed, RecvError, DestHangup, RecvEof, Close,
       relayVars, handlerVars, frameVars, netVars, clientVars
  <2>. QED BY <2>1, FramesKept
<1>2. CASE TunnelInit(e)
  <2>1. buffered' = buffered
    BY <1>0, <1>2 DEF TunnelInit, FrameInv, FreshTunnelsEmpty
  <2>2. UNCHANGED <<parsed, wire, inflight>>
    BY <1>2 DEF TunnelInit, netVars, clientVars
  <2>3. \A c \in Conn : stage'[c] = "INIT" => stage[c] = "INIT"
    BY <1>0, <1>2 DEF TunnelInit
  <2>. QED BY <2>1, <2>2, <2>3, FramesKept
<1>3. ASSUME NEW c \in Conn, NEW n \in 1 .. inflight[RecvSock(e)],
             \/ PrefixCut(e, c, n) \/ FrameIncomplete(e, c, n) \/ FrameGarbled(e, c, n)
             \/ SendToKnown(e, c, n) \/ NoSocketForKey(e, c, n)
             \/ \E result \in {"up", "unconnected", "dead"} : ConnectKey(e, c, n, result)
      PROVE  FrameInv'
  <2>1. Target(e) = c /\ RecvData(e, n)
    BY <1>3 DEF PrefixCut, FrameIncomplete, FrameGarbled, SendToKnown, NoSocketForKey,
       ConnectKey, FrameRead, TunnelData
  <2>2. /\ n \in Nat \ {0} /\ n <= inflight[c]
        /\ inflight' = [inflight EXCEPT ![c] = @ - n]
        /\ stage[c] = "STREAM"
    BY <2>1, TunnelRecv
  <2>3. UNCHANGED <<wire, stage>>
    BY <1>3 DEF PrefixCut, FrameIncomplete, FrameGarbled, SendToKnown, NoSocketForKey,
       ConnectKey, FrameRead, handlerVars, clientVars
  <2>4. \/ buffered' = [buffered EXCEPT ![c] = @ + n] /\ parsed' = parsed
        \/ /\ buffered' = [buffered EXCEPT ![c] = @ + n - FrameUnits]
           /\ parsed' = [parsed EXCEPT ![c] = @ + 1]
    BY <1>3 DEF PrefixCut, FrameIncomplete, FrameGarbled, SendToKnown, NoSocketForKey,
       ConnectKey, FrameSent, FrameKept
  <2>5. c \in Handler
    BY DEF Handler
  <2>6. FrameAccounting'
    <3> SUFFICES ASSUME NEW d \in Conn
                 PROVE  FrameUnits * (Len(wire[d]) - parsed'[d]) = inflight'[d] + buffered'[d]
      BY <2>3 DEF FrameAccounting
    <3>1. FrameUnits * (Len(wire[d]) - parsed[d]) = inflight[d] + buffered[d]
      BY DEF FrameInv, FrameAccounting
    <3>2. /\ parsed[d] \in Nat /\ buffered[d] \in Nat /\ inflight[d] \in Nat /\ Len(wire[d]) \in Nat
      BY <1>0 DEF Handler
    <3>3. CASE d # c
      <4>1. d \in Handler
        BY DEF Handler
      <4>2. inflight'[d] = inflight[d]
        BY <1>0, <2>2, <3>3, <4>1
      <4>3. buffered'[d] = buffered[d] /\ parsed'[d] = parsed[d]
        BY <1>0, <2>4, <3>3
      <4>. QED BY <3>1, <4>2, <4>3
    <3>4. CASE d = c
      <4>1. inflight'[c] = inflight[c] - n
        BY <1>0, <2>2, <2>5
      <4>2. \/ buffered'[c] = buffered[c] + n /\ parsed'[c] = parsed[c]
            \/ buffered'[c] = buffered[c] + n - FrameUnits /\ parsed'[c] = parsed[c] + 1
        BY <1>0, <2>4
      <4> DEFINE l == Len(wire[c])
                 p == parsed[c]
                 q == parsed'[c]
                 u == inflight[c] + buffered[c]
                 v == inflight'[c] + buffered'[c]
      <4>3. l \in Nat /\ p \in Nat /\ u \in Nat /\ 3 * (l - p) = u
        BY <3>1, <3>2, <3>4 DEF FrameUnits
      <4>4. (v = u /\ q = p) \/ (v = u - 3 /\ q = p + 1)
        BY <2>2, <3>2, <3>4, <4>1, <4>2 DEF FrameUnits
      <4> HIDE DEF l, p, q, u, v
      <4>6. q \in Int /\ v \in Int
        BY <4>3, <4>4
      <4>5. 3 * (l - q) = v
        BY <4>3, <4>4, <4>6
      <4>. QED BY <3>4, <4>5 DEF l, p, q, u, v, FrameUnits
    <3>. QED BY <3>3, <3>4
  <2>7. FreshTunnelsEmpty'
    BY <1>0, <2>2, <2>3, <2>4 DEF FrameInv, FreshTunnelsEmpty
  <2>. QED BY <2>6, <2>7 DEF FrameInv
<1>4. ASSUME NEW k \in Key, NEW n \in 1 .. inflight[RecvSock(e)],
             NEW sent \in {"all", "part", "none"}, ReturnData(e, k, n, sent)
      PROVE  FrameInv'
  <2>1. Target(e) = k /\ RecvData(e, n)
    BY <1>4 DEF ReturnData
  <2>2. RecvSock(e) = k
    BY <2>1, EventOwner DEF RecvData
  <2>3. \A c \in Conn : inflight'[c] = inflight[c]
    BY <1>0, <2>1, <2>2 DEF RecvData, Handler
  <2>4. UNCHANGED <<buffered, parsed, wire, stage>>
    BY <1>4 DEF ReturnData, handlerVars, frameVars, clientVars
  <2>. QED BY <2>3, <2>4, FramesKept
<1>. QED BY <1>1, <1>2, <1>3, <1>4 DEF Dispatch

LEMMA FrameInvStep ==
    ASSUME IInv, EventInv, FrameInv, [Next]_vars
    PROVE  FrameInv'
<1>. USE ServerAssumption DEF ServerAssumption
<1>0. /\ buffered \in [Conn -> Nat] /\ parsed \in [Conn -> Nat] /\ wire \in [Conn -> Seq(Nat)]
      /\ inflight \in [Handler -> Nat]
  BY DEF IInv, TypeOK
<1>1. CASE UNCHANGED vars \/ Poll \/ AcceptOutOfFds \/ \E c \in Conn : Accept(c)
  <2>1. UNCHANGED <<buffered, parsed, wire, inflight, stage>>
    BY <1>1 DEF vars, Poll, AcceptOutOfFds, Accept, relayVars, handlerVars, frameVars, netVars,
       clientVars
  <2>. QED BY <2>1, FramesKept
<1>2. CASE WorldStep
  <2>1. ASSUME NEW c \in Conn, PeerSend(c) PROVE FrameInv'
    <3>1. /\ wire' = [wire EXCEPT ![c] = Append(@, peerEnc)]
          /\ inflight' = [inflight EXCEPT ![c] = @ + FrameUnits]
          /\ UNCHANGED <<buffered, parsed, stage>>
      BY <2>1 DEF PeerSend, serverVars, frameVars, handlerVars
    <3>2. \A d \in Conn : /\ Len(wire'[d]) = IF d = c THEN Len(wire[d]) + 1 ELSE Len(wire[d])
                          /\ inflight'[d] = IF d = c THEN inflight[d] + FrameUnits ELSE inflight[d]
      BY <1>0, <3>1 DEF Handler
    <3>3. \A d \in Conn : parsed[d] \in Nat /\ buffered[d] \in Nat /\ inflight[d] \in Nat
                          /\ Len(wire[d]) \in Nat
      BY <1>0 DEF Handler
    <3>4. FrameAccounting'
      <4> SUFFICES ASSUME NEW d \in Conn
                   PROVE  FrameUnits * (Len(wire'[d]) - parsed[d]) = inflight'[d] + buffered[d]
        BY <3>1 DEF FrameAccounting
      <4>1. FrameUnits * (Len(wire[d]) - parsed[d]) = inflight[d] + buffered[d]
        BY DEF FrameInv, FrameAccounting
      <4> DEFINE l == Len(wire[d])
                 m == Len(wire'[d])
                 p == parsed[d]
                 u == inflight[d] + buffered[d]
                 v == inflight'[d] + buffered[d]
      <4>2. l \in Nat /\ p \in Nat /\ u \in Nat /\ 3 * (l - p) = u
        BY <3>3, <4>1 DEF FrameUnits
      <4>3. (v = u /\ m = l) \/ (v = u + 3 /\ m = l + 1)
        BY <3>2, <3>3 DEF FrameUnits
      <4> HIDE DEF l, m, p, u, v
      <4>4. 3 * (m - p) = v
        BY <4>2, <4>3
      <4>. QED BY <4>4 DEF l, m, p, u, v, FrameUnits
    <3>. QED BY <3>1, <3>4 DEF FrameInv, FreshTunnelsEmpty
  <2>2. ASSUME NEW k \in Key, DestSend(k) PROVE FrameInv'
    <3>1. UNCHANGED <<buffered, parsed, stage, wire>>
      BY <2>2 DEF DestSend, serverVars, frameVars, handlerVars, clientVars
    <3>2. \A c \in Conn : inflight'[c] = inflight[c]
      BY <1>0, <2>2 DEF DestSend, Handler
    <3>. QED BY <3>1, <3>2, FramesKept
  <2>3. ASSUME NEW h, PeerFin(h) \/ PeerReset(h) \/ PeerConnect(h) PROVE FrameInv'
    BY <2>3, FramesKept DEF PeerFin, PeerReset, PeerConnect, serverVars, frameVars, handlerVars,
       clientVars
  <2>. QED BY <1>2, <2>1, <2>2, <2>3 DEF WorldStep
<1>3. ASSUME NEW e \in batch, Dispatch(e) PROVE FrameInv'
  BY <1>3, FrameInvDispatch
<1>. QED BY <1>1, <1>2, <1>3 DEF Next, LoopStep

LEMMA FrameInvariant == Spec => [](IInv /\ EventInv /\ FrameInv)
<1>1. Init => FrameInv
  BY DEF Init, FrameInv, FrameAccounting, FreshTunnelsEmpty, FrameUnits, Handler
<1>2. (IInv /\ EventInv /\ FrameInv) /\ [Next]_vars => FrameInv'
  BY FrameInvStep
<1>. QED BY <1>1, <1>2, EventInvariant, PTL DEF Spec

(* data_to_send neither loses nor repeats a unit, however recv cuts what    *)
(* the local proxy sent.                                                    *)
THEOREM NoUnitLost == Spec => []FrameAccounting
BY FrameInvariant, PTL DEF FrameInv

-----------------------------------------------------------------------------
(* The socket of __init__.                                                  *)

(* A tunnel keeps it until a frame got as far as a destination handler.     *)
SparesHeld ==
    \A c \in Conn :
        /\ hstate[c] = "absent" => spare[c] = NoFd /\ parsed[c] = 0
        /\ spare[c] # NoFd => parsed[c] = 0
        /\ Open(c) /\ hstate[KeyOf[c]] = "absent" => spare[c] # NoFd

(* It is made by accept() and released where a frame was read.              *)
LEMMA SpareStep ==
    ASSUME IInv, [Next]_vars, NEW c \in Conn
    PROVE  \/ spare'[c] = spare[c] /\ parsed'[c] = parsed[c]
           \/ /\ hstate[c] = "absent" /\ hstate'[c] # "absent" /\ spare'[c] # NoFd
              /\ parsed'[c] = parsed[c]
           \/ /\ spare'[c] = NoFd /\ hstate'[KeyOf[c]] # "absent" /\ hstate[c] # "absent"
              /\ FrontSeq(c) = dec
<1>. USE ServerAssumption DEF ServerAssumption
<1>0. /\ spare \in [Conn -> Fd \cup {NoFd}] /\ parsed \in [Conn -> Nat]
      /\ hstate \in [Handler -> HandlerState]
  BY DEF IInv, TypeOK
<1> DEFINE Same == spare'[c] = spare[c] /\ parsed'[c] = parsed[c]
<1>1. CASE UNCHANGED vars \/ Poll \/ AcceptOutOfFds \/ WorldStep
  BY <1>1 DEF vars, fdVars, frameVars, Poll, AcceptOutOfFds, WorldStep, PeerConnect, PeerSend,
     DestSend, PeerFin, PeerReset, serverVars, relayVars
<1>2. ASSUME NEW d \in Conn, Accept(d)
      PROVE  \/ Same
             \/ /\ hstate[c] = "absent" /\ hstate'[c] # "absent" /\ spare'[c] # NoFd
                /\ parsed'[c] = parsed[c]
  <2>1. PICK s \in FreeFd : spare' = [spare EXCEPT ![d] = s]
    BY <1>2 DEF Accept
  <2>2. s # NoFd
    BY DEF FreeFd, FreeBut, NoFd
  <2>3. hstate' = [hstate EXCEPT ![d] = "open"] /\ hstate[d] = "absent" /\ parsed' = parsed
    BY <1>2 DEF Accept, Pending, frameVars
  <2>. QED BY <1>0, <2>1, <2>2, <2>3 DEF Handler
<1>3. ASSUME NEW e \in batch, Dispatch(e)
      PROVE  \/ Same
             \/ /\ spare'[c] = NoFd /\ hstate'[KeyOf[c]] # "absent" /\ hstate[c] # "absent"
                /\ FrontSeq(c) = dec
  <2>1. CASE \/ EventForNobody(e) \/ EventError(e) \/ TunnelInit(e) \/ RecvClosed(e)
             \/ RecvError(e) \/ DestHangup(e) \/ RecvEof(e)
    BY <2>1 DEF EventForNobody, EventError, TunnelInit, RecvClosed, RecvError, DestHangup,
       RecvEof, Close, fdVars, frameVars, relayVars
  <2>2. ASSUME NEW d \in Conn, NEW n,
               PrefixCut(e, d, n) \/ FrameIncomplete(e, d, n) \/ FrameGarbled(e, d, n)
                 \/ NoSocketForKey(e, d, n)
        PROVE  Same
    BY <2>2 DEF PrefixCut, FrameIncomplete, FrameGarbled, NoSocketForKey, FrameKept, fdVars
  <2>3. ASSUME NEW d \in Conn, NEW n, NEW result,
               SendToKnown(e, d, n) \/ ConnectKey(e, d, n, result)
        PROVE  \/ Same
               \/ /\ spare'[c] = NoFd /\ hstate'[KeyOf[c]] # "absent" /\ hstate[c] # "absent"
                  /\ FrontSeq(c) = dec
    <3>1. /\ spare' = [spare EXCEPT ![d] = NoFd]
          /\ parsed' = parsed \/ parsed' = [parsed EXCEPT ![d] = @ + 1]
          /\ FrontSeq(d) = dec /\ Target(e) = d
      BY <2>3 DEF SendToKnown, ConnectKey, FrameRead, FrameSent, FrameKept, ReleaseSpare, TunnelData
    <3>2. hstate[d] # "absent"
      BY <3>1, TargetOpen DEF Open, Handler
    <3>3. hstate'[KeyOf[d]] # "absent"
      BY <1>0, <2>3 DEF SendToKnown, ConnectKey, Handler
    <3>. QED BY <1>0, <3>1, <3>2, <3>3
  <2>4. ASSUME NEW k \in Key, NEW n, NEW sent, ReturnData(e, k, n, sent) PROVE Same
    BY <2>4 DEF ReturnData, fdVars, frameVars
  <2> HIDE DEF Same
  <2>. QED BY <1>3, <2>1, <2>2, <2>3, <2>4 DEF Dispatch
<1>. QED BY <1>1, <1>2, <1>3 DEF Next, LoopStep

LEMMA SparesHeldStep ==
    ASSUME IInv, SparesHeld, [Next]_vars
    PROVE  SparesHeld'
<1> SUFFICES ASSUME NEW c \in Conn
             PROVE  /\ hstate'[c] = "absent" => spare'[c] = NoFd /\ parsed'[c] = 0
                    /\ spare'[c] # NoFd => parsed'[c] = 0
                    /\ Open(c)' /\ hstate'[KeyOf[c]] = "absent" => spare'[c] # NoFd
  BY DEF SparesHeld, Open
<1>1. c \in Handler /\ KeyOf[c] \in Handler
  BY ServerAssumption DEF ServerAssumption, Handler
<1>2. /\ hstate'[c] = "absent" => hstate[c] = "absent"
      /\ hstate'[KeyOf[c]] = "absent" => hstate[KeyOf[c]] = "absent"
      /\ Open(c)' => Open(c) \/ hstate[c] = "absent"
      /\ hstate'[c] \in HandlerState
  BY <1>1, HandlersAdvance, TypeStep DEF Open, IInv, TypeOK
<1>3. ASSUME Open(c)', ~Open(c), hstate'[KeyOf[c]] = "absent" PROVE spare'[c] # NoFd
  <2>1. \E d \in Conn : Accept(d) /\ d = c
    <3>1. hstate[c] = "absent" /\ hstate'[c] = "open"
      BY <1>2, <1>3 DEF Open
    <3>2. hstate \in [Handler -> HandlerState]
      BY DEF IInv, TypeOK
    <3>3. CASE UNCHANGED vars \/ Poll \/ AcceptOutOfFds \/ WorldStep
      BY <3>1, <3>3 DEF vars, handlerVars, Poll, AcceptOutOfFds, WorldStep, PeerConnect, PeerSend,
         DestSend, PeerFin, PeerReset, serverVars, relayVars
    <3>4. ASSUME NEW d \in Conn, Accept(d) PROVE d = c
      BY <3>1, <3>2, <3>4 DEF Accept, Handler
    <3>5. ASSUME NEW e \in batch, Dispatch(e) PROVE FALSE
      <4>1. CASE \/ EventForNobody(e) \/ EventError(e) \/ TunnelInit(e) \/ RecvClosed(e)
                 \/ RecvError(e)
        BY <3>1, <4>1 DEF EventForNobody, EventError, TunnelInit, RecvClosed, RecvError,
           handlerVars, relayVars
      <4>2. CASE DestHangup(e) \/ RecvEof(e)
        BY <1>1, <3>1, <4>2 DEF DestHangup, RecvEof, Close
      <4>3. ASSUME NEW d \in Conn, NEW n,
                   PrefixCut(e, d, n) \/ FrameIncomplete(e, d, n) \/ FrameGarbled(e, d, n)
                     \/ NoSocketForKey(e, d, n) \/ SendToKnown(e, d, n)
            PROVE  FALSE
        BY <3>1, <4>3 DEF PrefixCut, FrameIncomplete, FrameGarbled, NoSocketForKey, SendToKnown,
           handlerVars
      <4>4. ASSUME NEW d \in Conn, NEW n, NEW result, ConnectKey(e, d, n, result) PROVE FALSE
        <5>1. KeyOf[d] # c
          BY ServerAssumption DEF ServerAssumption
        <5>. QED BY <3>1, <3>2, <4>4, <5>1, <1>1 DEF ConnectKey
      <4>5. ASSUME NEW k \in Key, NEW n, NEW sent, ReturnData(e, k, n, sent) PROVE FALSE
        BY <3>1, <4>5 DEF ReturnData, handlerVars
      <4>. QED BY <3>5, <4>1, <4>2, <4>3, <4>4, <4>5 DEF Dispatch
    <3>. QED BY <3>3, <3>4, <3>5 DEF Next, LoopStep
  <2>2. PICK s \in FreeFd : spare' = [spare EXCEPT ![c] = s]
    BY <2>1 DEF Accept
  <2>3. s # NoFd /\ spare \in [Conn -> Fd \cup {NoFd}]
    BY ServerAssumption DEF ServerAssumption, FreeFd, FreeBut, NoFd, IInv, TypeOK
  <2>. QED BY <2>2, <2>3
<1>. QED BY <1>2, <1>3, SpareStep DEF SparesHeld

-----------------------------------------------------------------------------
(* The cipher stream.                                                       *)

(* The frames of all connections together are the stream of the local       *)
(* proxy, and each connection has its part of it in order.                  *)
StreamSplit ==
    /\ \A c \in Conn : \A i \in 1 .. Len(wire[c]) : wire[c][i] \in 0 .. peerEnc - 1
    /\ \A c \in Conn : \A i, j \in 1 .. Len(wire[c]) : i < j => wire[c][i] < wire[c][j]
    /\ \A c, d \in Conn : \A i \in 1 .. Len(wire[c]), j \in 1 .. Len(wire[d]) :
          wire[c][i] = wire[d][j] => c = d /\ i = j
    /\ \A p \in 0 .. peerEnc - 1 : \E c \in Conn : \E i \in 1 .. Len(wire[c]) : wire[c][i] = p

(* Why a frame that was deciphered stays in data_to_send.                   *)
KeptReason(c) ==
    \/ spare[c] # NoFd
    \/ hstate[KeyOf[c]] = "closed"
    \/ hstate[KeyOf[c]] # "absent" /\ peer[KeyOf[c]] \in {"unconnected", "dead"}

(* The decipher object has passed what was handed on, and of the rest only  *)
(* frames at the front that were kept; until one of those fails it is not   *)
(* ahead of the local proxy.                                                *)
Deciphered ==
    /\ crash = "none" => dec <= peerEnc
    /\ \A c \in Conn : \A i \in 1 .. Len(wire[c]) : i <= parsed[c] => wire[c][i] < dec
    /\ crash = "none" =>
         \A c \in Conn : \A i \in 1 .. Len(wire[c]) :
            i > parsed[c] /\ wire[c][i] < dec => i = parsed[c] + 1 /\ KeptReason(c)

(* Contents are delivered from what was handed on.                          *)
DeliveredParsed ==
    \A k \in Key : \A m \in 1 .. Len(delivered[k]) :
        /\ delivered[k][m][1] \in Conn
        /\ delivered[k][m][2] \in 1 .. parsed[delivered[k][m][1]]

StreamInv ==
    SparesHeld /\ StreamSplit /\ Deciphered /\ DeliveredParsed /\ StreamKept

(* What a step does to the stream: the local proxy sends a frame; a frame   *)
(* is garbage; a frame is handed on; a frame is kept; or nothing.           *)
StreamUntouched ==
    UNCHANGED <<wire, peerEnc, parsed, dec, delivered>> /\ crash' # "ValueError"
FrameSends(c) ==
    /\ wire' = [wire EXCEPT ![c] = Append(@, peerEnc)]
    /\ peerEnc' = peerEnc + 1
    /\ UNCHANGED <<parsed, dec, delivered, crash, spare, hstate, peer>>
FrameFails(c) ==
    /\ parsed[c] + 1 \in 1 .. Len(wire[c])
    /\ FrontSeq(c) # dec
    /\ dec' = dec + 1
    /\ crash' = "ValueError"
    /\ UNCHANGED <<wire, peerEnc, parsed, delivered, spare, hstate, peer>>
FrameOpens(c) ==
    /\ parsed[c] + 1 \in 1 .. Len(wire[c])
    /\ FrontSeq(c) = dec
    /\ dec' = dec + 1
    /\ UNCHANGED <<wire, peerEnc, crash>>
FrameGoes(c) ==
    /\ FrameOpens(c)
    /\ parsed' = [parsed EXCEPT ![c] = @ + 1]
    /\ delivered' = [delivered EXCEPT ![KeyOf[c]] = Append(@, <<c, parsed[c] + 1>>)]
FrameStays(c) ==
    /\ FrameOpens(c)
    /\ UNCHANGED <<parsed, delivered>>
    /\ KeptReason(c)'

LEMMA StreamStep ==
    ASSUME IInv, EventInv, FrameInv, SparesHeld, Next
    PROVE  \/ StreamUntouched
           \/ \E c \in Conn : FrameSends(c) \/ FrameFails(c) \/ FrameGoes(c) \/ FrameStays(c)
<1>. USE ServerAssumption DEF ServerAssumption
<1>0. crash = "none"
  BY DEF Next, LoopStep, WorldStep
<1>1. ASSUME NEW c \in Conn, PeerSend(c) PROVE FrameSends(c)
  BY <1>1 DEF PeerSend, FrameSends, serverVars, frameVars, cryptoVars, destVars, fdVars, handlerVars
<1>2. CASE \/ Poll \/ AcceptOutOfFds \/ \E c \in Conn : Accept(c) \/ PeerConnect(c)
           \/ \E k \in Key : DestSend(k)
           \/ \E h \in Handler : PeerFin(h) \/ PeerReset(h)
  BY <1>0, <1>2 DEF Poll, AcceptOutOfFds, Accept, PeerConnect, DestSend, PeerFin, PeerReset,
     serverVars, relayVars, frameVars, cryptoVars, clientVars, destVars, StreamUntouched
<1>3. ASSUME NEW e \in batch, Dispatch(e)
      PROVE  \/ StreamUntouched
             \/ \E c \in Conn : FrameFails(c) \/ FrameGoes(c) \/ FrameStays(c)
  <2>1. CASE \/ EventForNobody(e) \/ EventError(e) \/ TunnelInit(e) \/ RecvClosed(e)
             \/ RecvError(e) \/ DestHangup(e) \/ RecvEof(e)
    BY <1>0, <2>1 DEF EventForNobody, EventError, TunnelInit, RecvClosed, RecvError, DestHangup,
       RecvEof, relayVars, frameVars, cryptoVars, clientVars, destVars, StreamUntouched
  <2>2. ASSUME NEW c \in Conn, NEW n, PrefixCut(e, c, n) \/ FrameIncomplete(e, c, n)
        PROVE  StreamUntouched
    BY <1>0, <2>2 DEF PrefixCut, FrameIncomplete, cryptoVars, clientVars, destVars, StreamUntouched
  <2>3. ASSUME NEW k \in Key, NEW n, NEW sent, ReturnData(e, k, n, sent) PROVE StreamUntouched
    BY <1>0, <2>3 DEF ReturnData, frameVars, clientVars, StreamUntouched
  <2>4. ASSUME NEW c \in Conn, NEW n \in 1 .. inflight[RecvSock(e)],
               FrameGarbled(e, c, n) \/ FrameRead(e, c, n)
        PROVE  parsed[c] + 1 \in 1 .. Len(wire[c])
    <3>1. Target(e) = c /\ RecvData(e, n) /\ buffered[c] + n >= FrameUnits
      BY <2>4 DEF FrameGarbled, FrameRead, TunnelData
    <3>2. n \in Nat /\ n <= inflight[c]
      BY <3>1, TunnelRecv DEF EventInv
    <3>. QED BY <3>1, <3>2, FrontFrame DEF FrameInv
  <2>5. ASSUME NEW c \in Conn, NEW n \in 1 .. inflight[RecvSock(e)], FrameGarbled(e, c, n)
        PROVE  FrameFails(c)
    BY <2>4, <2>5 DEF FrameGarbled, FrameFails, fdVars, handlerVars, clientVars, destVars
  <2>6. ASSUME NEW c \in Conn, NEW n \in 1 .. inflight[RecvSock(e)], FrameRead(e, c, n)
        PROVE  FrameOpens(c)
    BY <2>4, <2>6 DEF FrameRead, FrameOpens, clientVars
  <2>7. ASSUME NEW c \in Conn, NEW n \in 1 .. inflight[RecvSock(e)], SendToKnown(e, c, n)
        PROVE  FrameGoes(c) \/ FrameStays(c)
    <3>1. FrameOpens(c)
      BY <2>6, <2>7 DEF SendToKnown
    <3>2. CASE Open(KeyOf[c]) /\ peer[KeyOf[c]] \in {"up", "fin"}
      BY <2>7, <3>1, <3>2 DEF SendToKnown, FrameSent, FrameGoes
    <3>3. CASE ~(Open(KeyOf[c]) /\ peer[KeyOf[c]] \in {"up", "fin"})
      <4>1. UNCHANGED <<parsed, delivered, hstate>>
        BY <2>7, <3>3 DEF SendToKnown, FrameKept
      <4>2. /\ KeyOf[c] \in Handler /\ peer \in [Handler -> PeerState]
            /\ hstate \in [Handler -> HandlerState]
        BY DEF IInv, TypeOK, Handler
      <4>3. /\ hstate[KeyOf[c]] # "absent"
            /\ peer' = [peer EXCEPT ![KeyOf[c]] = IF Open(KeyOf[c]) /\ @ \in Broken THEN "dead" ELSE @]
        BY <2>7 DEF SendToKnown
      <4>4. CASE hstate[KeyOf[c]] = "closed"
        BY <3>1, <4>1, <4>4 DEF FrameStays, KeptReason
      <4>5. CASE Open(KeyOf[c])
        <5>1. peer[KeyOf[c]] \in {"unconnected", "dead"} \cup Broken
          BY <3>3, <4>2, <4>5 DEF EventInv, PeersConnected, PeerState, Broken
        <5>2. peer'[KeyOf[c]] \in {"unconnected", "dead"}
          BY <4>2, <4>3, <4>5, <5>1
        <5>. QED BY <3>1, <4>1, <4>3, <5>2 DEF FrameStays, KeptReason
      <4>. QED BY <4>2, <4>3, <4>4, <4>5 DEF Open, HandlerState
    <3>. QED BY <3>2, <3>3
  <2>8. ASSUME NEW c \in Conn, NEW n \in 1 .. inflight[RecvSock(e)], NoSocketForKey(e, c, n)
        PROVE  FrameStays(c)
    <3>1. FrameOpens(c) /\ Target(e) = c
      BY <2>6, <2>8 DEF NoSocketForKey, FrameRead, TunnelData
    <3>2. Open(c)
      BY <3>1, TargetOpen DEF Handler
    <3>3. spare'[c] # NoFd
      BY <2>8, <3>2 DEF NoSocketForKey, SparesHeld, fdVars
    <3>. QED BY <2>8, <3>1, <3>3 DEF NoSocketForKey, FrameKept, FrameStays, KeptReason
  <2>9. ASSUME NEW c \in Conn, NEW n \in 1 .. inflight[RecvSock(e)],
               NEW result \in {"up", "unconnected", "dead"}, ConnectKey(e, c, n, result)
        PROVE  FrameGoes(c) \/ FrameStays(c)
    <3>1. FrameOpens(c)
      BY <2>6, <2>9 DEF ConnectKey
    <3>2. CASE result = "up"
      BY <2>9, <3>1, <3>2 DEF ConnectKey, FrameSent, FrameGoes
    <3>3. CASE result # "up"
      <4>1. UNCHANGED <<parsed, delivered>>
        BY <2>9, <3>3 DEF ConnectKey, FrameKept
      <4>2. /\ KeyOf[c] \in Handler /\ peer \in [Handler -> PeerState]
            /\ hstate \in [Handler -> HandlerState]
        BY DEF IInv, TypeOK, Handler
      <4>3. hstate'[KeyOf[c]] = "open" /\ peer'[KeyOf[c]] \in {"unconnected", "dead"}
        BY <2>9, <3>3, <4>2 DEF ConnectKey
      <4>. QED BY <3>1, <4>1, <4>3 DEF FrameStays, KeptReason
    <3>. QED BY <3>2, <3>3
  <2>. QED BY <1>3, <2>1, <2>2, <2>3, <2>5, <2>7, <2>8, <2>9 DEF Dispatch
<1>. QED BY <1>1, <1>2, <1>3 DEF Next, LoopStep, WorldStep

(* The reason stays until the tunnel's next frame.                          *)
LEMMA KeptReasonStays ==
    ASSUME IInv, [Next]_vars, NEW c \in Conn, KeptReason(c), FrontSeq(c) # dec
    PROVE  KeptReason(c)'
<1>1. KeyOf[c] \in Handler
  BY ServerAssumption DEF ServerAssumption, Handler
<1>2. CASE spare[c] # NoFd
  BY <1>2, SpareStep DEF KeptReason
<1>3. CASE hstate[KeyOf[c]] = "closed"
  <2>1. hstate'[KeyOf[c]] = "closed"
    BY <1>1, <1>3, HandlersAdvance
  <2>. QED BY <2>1 DEF KeptReason
<1>4. CASE hstate[KeyOf[c]] # "absent" /\ peer[KeyOf[c]] \in {"unconnected", "dead"}
  <2>1. hstate'[KeyOf[c]] # "absent"
    BY <1>1, <1>4, HandlersAdvance
  <2>2. peer'[KeyOf[c]] = peer[KeyOf[c]]
    BY <1>1, <1>4, PeersAdvance
  <2>. QED BY <1>4, <2>1, <2>2 DEF KeptReason
<1>. QED BY <1>2, <1>3, <1>4 DEF KeptReason

(* What the proofs of this section need of the types, with frames counted.  *)
LEMMA StreamTypes ==
    ASSUME IInv, FrameInv
    PROVE  /\ wire \in [Conn -> Seq(Nat)] /\ parsed \in [Conn -> Nat]
           /\ delivered \in [Key -> Seq(Conn \X Nat)] /\ dec \in Nat /\ peerEnc \in Nat
           /\ \A c \in Conn : Len(wire[c]) \in Nat /\ parsed[c] <= Len(wire[c])
<1>1. /\ wire \in [Conn -> Seq(Nat)] /\ parsed \in [Conn -> Nat]
      /\ delivered \in [Key -> Seq(Conn \X Nat)] /\ dec \in Nat /\ peerEnc \in Nat
  BY DEF IInv, TypeOK
<1>2. ASSUME NEW c \in Conn PROVE Len(wire[c]) \in Nat /\ parsed[c] <= Len(wire[c])
  <2> DEFINE l == Len(wire[c])
             p == parsed[c]
             u == inflight[c] + buffered[c]
  <2>1. u \in Nat
    BY DEF IInv, TypeOK, Handler
  <2>2. l \in Nat /\ p \in Nat
    BY <1>1
  <2>3. 3 * (l - p) = u
    BY DEF FrameInv, FrameAccounting, FrameUnits
  <2> HIDE DEF l, p, u
  <2>4. p <= l
    BY <2>1, <2>2, <2>3
  <2>. QED BY <2>2, <2>4 DEF l, p
<1>. QED BY <1>1, <1>2

(* What the other end adds to a stream leaves the rest of it in place.      *)
LEMMA SendKeepsPlaces ==
    ASSUME IInv, FrameInv, NEW c \in Conn, FrameSends(c)
    PROVE  \A d \in Conn :
             /\ Len(wire'[d]) = IF d = c THEN Len(wire[d]) + 1 ELSE Len(wire[d])
             /\ \A i \in 1 .. Len(wire[d]) : wire'[d][i] = wire[d][i]
             /\ \A i \in 1 .. Len(wire'[d]) :
                   i \in 1 .. Len(wire[d]) \/ (d = c /\ i = Len(wire[c]) + 1 /\ wire'[d][i] = peerEnc)
BY StreamTypes DEF FrameSends

LEMMA StreamSplitStep ==
    ASSUME IInv, EventInv, FrameInv, SparesHeld, StreamSplit, [Next]_vars
    PROVE  StreamSplit'
<1>1. CASE UNCHANGED <<wire, peerEnc>>
  BY <1>1 DEF StreamSplit
<1>2. ASSUME NEW c \in Conn, FrameSends(c) PROVE StreamSplit'
  <2>1. peerEnc' = peerEnc + 1 /\ peerEnc \in Nat
    BY <1>2, StreamTypes DEF FrameSends
  <2>2. \A d \in Conn : \A i \in 1 .. Len(wire[d]) : wire[d][i] \in 0 .. peerEnc - 1
    BY DEF StreamSplit
  <2>3. /\ \A d \in Conn : Len(wire[d]) \in Nat
        /\ \A d \in Conn :
             /\ Len(wire'[d]) = IF d = c THEN Len(wire[d]) + 1 ELSE Len(wire[d])
             /\ \A i \in 1 .. Len(wire[d]) : wire'[d][i] = wire[d][i]
             /\ \A i \in 1 .. Len(wire'[d]) :
                   i \in 1 .. Len(wire[d]) \/ (d = c /\ i = Len(wire[c]) + 1 /\ wire'[d][i] = peerEnc)
    BY <1>2, StreamTypes, SendKeepsPlaces
  <2>4. \A d \in Conn : \A i \in 1 .. Len(wire'[d]) : wire'[d][i] \in 0 .. peerEnc' - 1
    BY <2>1, <2>2, <2>3
  <2>5. \A d \in Conn : \A i, j \in 1 .. Len(wire'[d]) : i < j => wire'[d][i] < wire'[d][j]
    <3> SUFFICES ASSUME NEW d \in Conn, NEW i \in 1 .. Len(wire'[d]), NEW j \in 1 .. Len(wire'[d]), i < j
                 PROVE  wire'[d][i] < wire'[d][j]
      OBVIOUS
    <3>1. CASE j \in 1 .. Len(wire[d])
      <4>1. i \in 1 .. Len(wire[d])
        BY <2>3, <3>1
      <4>. QED BY <2>3, <3>1, <4>1 DEF StreamSplit
    <3>2. CASE d = c /\ j = Len(wire[c]) + 1 /\ wire'[d][j] = peerEnc
      <4>1. i \in 1 .. Len(wire[d])
        BY <2>3, <3>2
      <4>. QED BY <2>1, <2>2, <2>3, <3>2, <4>1
    <3>. QED BY <2>3, <3>1, <3>2
  <2>6. \A d, g \in Conn : \A i \in 1 .. Len(wire'[d]), j \in 1 .. Len(wire'[g]) :
           wire'[d][i] = wire'[g][j] => d = g /\ i = j
    <3> SUFFICES ASSUME NEW d \in Conn, NEW g \in Conn, NEW i \in 1 .. Len(wire'[d]),
                        NEW j \in 1 .. Len(wire'[g]), wire'[d][i] = wire'[g][j]
                 PROVE  d = g /\ i = j
      OBVIOUS
    <3>1. CASE i \in 1 .. Len(wire[d]) /\ j \in 1 .. Len(wire[g])
      BY <2>3, <3>1 DEF StreamSplit
    <3>2. ASSUME NEW h \in Conn, NEW m \in 1 .. Len(wire[h]) PROVE wire'[h][m] # peerEnc
      <4>1. wire'[h][m] = wire[h][m] /\ wire[h][m] \in 0 .. peerEnc - 1
        BY <2>2, <2>3
      <4>. QED BY <2>1, <4>1
    <3>. QED BY <2>3, <3>1, <3>2
  <2>7. \A p \in 0 .. peerEnc' - 1 : \E d \in Conn : \E i \in 1 .. Len(wire'[d]) : wire'[d][i] = p
    <3> SUFFICES ASSUME NEW p \in 0 .. peerEnc' - 1
                 PROVE  \E d \in Conn : \E i \in 1 .. Len(wire'[d]) : wire'[d][i] = p
      OBVIOUS
    <3>1. CASE p \in 0 .. peerEnc - 1
      <4>1. PICK d \in Conn : \E i \in 1 .. Len(wire[d]) : wire[d][i] = p
        BY <3>1 DEF StreamSplit
      <4>2. PICK i \in 1 .. Len(wire[d]) : wire[d][i] = p
        BY <4>1
      <4>3. i \in 1 .. Len(wire'[d]) /\ wire'[d][i] = p
        BY <2>3, <4>2
      <4>. QED BY <4>3
    <3>2. CASE p = peerEnc
      <4>1. Len(wire[c]) + 1 \in 1 .. Len(wire'[c]) /\ Len(wire[c]) + 1 \notin 1 .. Len(wire[c])
        BY <2>3
      <4>2. wire'[c][Len(wire[c]) + 1] = peerEnc
        BY <2>3, <4>1
      <4>. QED BY <3>2, <4>1, <4>2
    <3>. QED BY <2>1, <3>1, <3>2
  <2>. QED BY <2>4, <2>5, <2>6, <2>7 DEF StreamSplit
<1>3. CASE UNCHANGED vars
  BY <1>1, <1>3 DEF vars, clientVars
<1>. QED BY <1>1, <1>2, <1>3, StreamStep
     DEF StreamUntouched, FrameFails, FrameGoes, FrameStays, FrameOpens

LEMMA DecipheredStep ==
    ASSUME IInv, EventInv, FrameInv, SparesHeld, StreamSplit, Deciphered, [Next]_vars
    PROVE  Deciphered'
<1>0. /\ parsed \in [Conn -> Nat] /\ dec \in Nat /\ peerEnc \in Nat
      /\ \A c \in Conn : Len(wire[c]) \in Nat /\ parsed[c] <= Len(wire[c])
      /\ \A c \in Conn : \A i \in 1 .. Len(wire[c]) : wire[c][i] \in 0 .. peerEnc - 1
  BY StreamTypes DEF StreamSplit
(* A frame behind what was handed on was kept, and stays kept.              *)
<1>1. ASSUME crash = "none", NEW d \in Conn, NEW i \in 1 .. Len(wire[d]),
             i > parsed[d], wire[d][i] < dec
      PROVE  i = parsed[d] + 1 /\ KeptReason(d)'
  <2>1. i = parsed[d] + 1 /\ KeptReason(d)
    BY <1>1 DEF Deciphered
  <2>2. FrontSeq(d) # dec
    BY <1>0, <1>1, <2>1 DEF FrontSeq
  <2>. QED BY <2>1, <2>2, KeptReasonStays
<1>2. CASE UNCHANGED vars
  BY <1>2 DEF vars, clientVars, frameVars, cryptoVars, fdVars, handlerVars, netVars, Deciphered,
     KeptReason
<1>3. CASE Next
  <2>0. crash = "none"
    BY <1>3 DEF Next, LoopStep, WorldStep
  <2>1. CASE StreamUntouched
    <3>1. UNCHANGED <<wire, peerEnc, parsed, dec>>
      BY <2>1 DEF StreamUntouched
    <3>2. \A c \in Conn : \A i \in 1 .. Len(wire[c]) :
             i > parsed[c] /\ wire[c][i] < dec => i = parsed[c] + 1 /\ KeptReason(c)'
      BY <1>1, <2>0
    <3>. QED BY <2>0, <3>1, <3>2 DEF Deciphered
  <2>2. ASSUME NEW c \in Conn, FrameSends(c) PROVE Deciphered'
    <3>1. /\ peerEnc' = peerEnc + 1
          /\ UNCHANGED <<parsed, dec, crash, spare, hstate, peer>>
      BY <2>2 DEF FrameSends
    <3>2. \A d \in Conn : \A i \in 1 .. Len(wire'[d]) :
             \/ i \in 1 .. Len(wire[d]) /\ wire'[d][i] = wire[d][i]
             \/ d = c /\ i = Len(wire[c]) + 1 /\ wire'[d][i] = peerEnc
      BY <2>2, SendKeepsPlaces
    <3>3. dec <= peerEnc
      BY <2>0 DEF Deciphered
    <3>4. \A d \in Conn : \A i \in 1 .. Len(wire'[d]) : i <= parsed[d] => wire'[d][i] < dec
      <4> SUFFICES ASSUME NEW d \in Conn, NEW i \in 1 .. Len(wire'[d]), i <= parsed[d]
                   PROVE  wire'[d][i] < dec
        OBVIOUS
      <4>1. i \in 1 .. Len(wire[d]) /\ wire'[d][i] = wire[d][i]
        BY <1>0, <3>2
      <4>. QED BY <4>1 DEF Deciphered
    <3>5. \A d \in Conn : \A i \in 1 .. Len(wire'[d]) :
             i > parsed[d] /\ wire'[d][i] < dec => i = parsed[d] + 1 /\ KeptReason(d)'
      <4> SUFFICES ASSUME NEW d \in Conn, NEW i \in 1 .. Len(wire'[d]), i > parsed[d],
                          wire'[d][i] < dec
                   PROVE  i = parsed[d] + 1 /\ KeptReason(d)'
        OBVIOUS
      <4>1. i \in 1 .. Len(wire[d]) /\ wire'[d][i] = wire[d][i]
        BY <1>0, <3>2, <3>3
      <4>. QED BY <1>1, <2>0, <4>1
    <3>6. dec <= peerEnc + 1
      BY <1>0, <3>3
    <3>. QED BY <3>1, <3>4, <3>5, <3>6 DEF Deciphered
  <2>3. ASSUME NEW c \in Conn, FrameFails(c) PROVE Deciphered'
    <3>1. UNCHANGED <<wire, peerEnc, parsed>> /\ dec' = dec + 1 /\ crash' # "none"
      BY <2>3 DEF FrameFails
    <3>2. \A d \in Conn : \A i \in 1 .. Len(wire[d]) : i <= parsed[d] => wire[d][i] < dec + 1
      BY <1>0 DEF Deciphered
    <3>. QED BY <3>1, <3>2 DEF Deciphered
  <2>4. ASSUME NEW c \in Conn, FrameOpens(c),
               \/ UNCHANGED parsed /\ KeptReason(c)'
               \/ parsed' = [parsed EXCEPT ![c] = @ + 1]
        PROVE  Deciphered'
    <3>1. UNCHANGED <<wire, peerEnc, crash>> /\ dec' = dec + 1
      BY <2>4 DEF FrameOpens
    <3>2. parsed[c] + 1 \in 1 .. Len(wire[c]) /\ wire[c][parsed[c] + 1] = dec
      BY <2>4 DEF FrameOpens, FrontSeq
    <3>3. dec + 1 <= peerEnc
      BY <1>0, <3>2
    <3>4. \A d \in Conn : \A i \in 1 .. Len(wire[d]) : i <= parsed'[d] => wire[d][i] < dec + 1
      <4> SUFFICES ASSUME NEW d \in Conn, NEW i \in 1 .. Len(wire[d]), i <= parsed'[d]
                   PROVE  wire[d][i] < dec + 1
        OBVIOUS
      <4>1. i <= parsed[d] \/ (d = c /\ i = parsed[c] + 1)
        BY <1>0, <2>4
      <4>2. i <= parsed[d] => wire[d][i] < dec
        BY DEF Deciphered
      <4>. QED BY <1>0, <3>2, <4>1, <4>2
    <3>5. \A d \in Conn : \A i \in 1 .. Len(wire[d]) :
             i > parsed'[d] /\ wire[d][i] < dec + 1 => i = parsed'[d] + 1 /\ KeptReason(d)'
      <4> SUFFICES ASSUME NEW d \in Conn, NEW i \in 1 .. Len(wire[d]), i > parsed'[d],
                          wire[d][i] < dec + 1
                   PROVE  i = parsed'[d] + 1 /\ KeptReason(d)'
        OBVIOUS
      <4>0. parsed'[d] \in {parsed[d], parsed[d] + 1} /\ parsed[d] \in Nat /\ i \in Nat
        BY <1>0, <2>4
      <4>1. i > parsed[d]
        BY <4>0
      <4>2. CASE wire[d][i] = dec
        <5>1. d = c /\ i = parsed[c] + 1
          BY <3>2, <4>2 DEF StreamSplit
        <5>. QED BY <1>0, <2>4, <5>1
      <4>3. CASE wire[d][i] < dec
        <5>1. i = parsed[d] + 1 /\ KeptReason(d)'
          BY <1>1, <2>0, <4>1, <4>3
        <5>2. d # c
          BY <1>0, <3>2, <4>3, <5>1
        <5>3. parsed'[d] = parsed[d]
          BY <1>0, <2>4, <5>2
        <5>. QED BY <5>1, <5>3
      <4>. QED BY <1>0, <4>2, <4>3
    <3>. QED BY <3>1, <3>3, <3>4, <3>5 DEF Deciphered
  <2>. QED BY <1>3, <2>1, <2>2, <2>3, <2>4, StreamStep DEF FrameGoes, FrameStays
<1>. QED BY <1>2, <1>3

LEMMA DeliveredParsedStep ==
    ASSUME IInv, EventInv, FrameInv, SparesHeld, DeliveredParsed, [Next]_vars
    PROVE  DeliveredParsed'
<1>0. parsed \in [Conn -> Nat] /\ delivered \in [Key -> Seq(Conn \X Nat)]
  BY StreamTypes
<1>1. CASE UNCHANGED <<parsed, delivered>>
  BY <1>1 DEF DeliveredParsed
<1>2. ASSUME NEW c \in Conn, FrameGoes(c) PROVE DeliveredParsed'
  <2>1. /\ parsed' = [parsed EXCEPT ![c] = @ + 1]
        /\ delivered' = [delivered EXCEPT ![KeyOf[c]] = Append(@, <<c, parsed[c] + 1>>)]
        /\ KeyOf[c] \in Key
    BY <1>2, ServerAssumption DEF FrameGoes, ServerAssumption
  <2>2. \A d \in Conn : parsed[d] \in Nat /\ parsed'[d] \in Nat /\ parsed[d] <= parsed'[d]
    BY <1>0, <2>1
  <2> SUFFICES ASSUME NEW k \in Key, NEW m \in 1 .. Len(delivered'[k])
               PROVE  /\ delivered'[k][m][1] \in Conn
                      /\ delivered'[k][m][2] \in 1 .. parsed'[delivered'[k][m][1]]
    BY DEF DeliveredParsed
  <2>3. CASE m \in 1 .. Len(delivered[k])
    <3>1. delivered'[k][m] = delivered[k][m]
      BY <1>0, <2>1, <2>3
    <3>2. delivered[k][m][1] \in Conn /\ delivered[k][m][2] \in 1 .. parsed[delivered[k][m][1]]
      BY <2>3 DEF DeliveredParsed
    <3>. QED BY <2>2, <3>1, <3>2
  <2>4. CASE m \notin 1 .. Len(delivered[k])
    <3>1. delivered'[k][m] = <<c, parsed[c] + 1>>
      BY <1>0, <2>1, <2>4
    <3>2. parsed'[c] = parsed[c] + 1
      BY <1>0, <2>1
    <3>. QED BY <2>2, <3>1, <3>2
  <2>. QED BY <2>3, <2>4
<1>3. CASE UNCHANGED vars
  BY <1>1, <1>3 DEF vars, destVars, frameVars
<1>. QED BY <1>1, <1>2, <1>3, StreamStep
     DEF StreamUntouched, FrameFails, FrameSends, FrameStays, FrameOpens

(* What is sent to a destination is deciphered later than all that was sent *)
(* to it before.                                                            *)
LEMMA OrderStep ==
    ASSUME IInv, EventInv, FrameInv, SparesHeld, StreamSplit, Deciphered, DeliveredParsed,
           DeliveredInStreamOrder, [Next]_vars
    PROVE  DeliveredInStreamOrder'
<1>0. /\ parsed \in [Conn -> Nat] /\ dec \in Nat /\ delivered \in [Key -> Seq(Conn \X Nat)]
      /\ \A c \in Conn : Len(wire[c]) \in Nat /\ parsed[c] <= Len(wire[c])
  BY StreamTypes
<1>1. CASE UNCHANGED <<wire, delivered>>
  BY <1>1 DEF DeliveredInStreamOrder
<1> DEFINE place(a) == wire[a[1]][a[2]]
<1>2. \A k \in Key : \A m \in 1 .. Len(delivered[k]) :
        /\ delivered[k][m][1] \in Conn
        /\ delivered[k][m][2] \in 1 .. Len(wire[delivered[k][m][1]])
        /\ place(delivered[k][m]) < dec
  <2> SUFFICES ASSUME NEW k \in Key, NEW m \in 1 .. Len(delivered[k])
               PROVE  /\ delivered[k][m][1] \in Conn
                      /\ delivered[k][m][2] \in 1 .. Len(wire[delivered[k][m][1]])
                      /\ place(delivered[k][m]) < dec
    OBVIOUS
  <2> DEFINE c == delivered[k][m][1]
             i == delivered[k][m][2]
  <2>1. c \in Conn /\ i \in 1 .. parsed[c]
    BY DEF DeliveredParsed
  <2> HIDE DEF c, i
  <2>2. i \in 1 .. Len(wire[c]) /\ i <= parsed[c]
    BY <1>0, <2>1
  <2>3. wire[c][i] < dec
    BY <2>1, <2>2 DEF Deciphered
  <2>. QED BY <2>1, <2>2, <2>3 DEF c, i
<1>3. ASSUME NEW c \in Conn, FrameSends(c) PROVE DeliveredInStreamOrder'
  <2>1. delivered' = delivered
    BY <1>3 DEF FrameSends
  <2>2. \A d \in Conn : \A i \in 1 .. Len(wire[d]) : wire'[d][i] = wire[d][i]
    BY <1>3, SendKeepsPlaces
  <2>3. \A k \in Key : \A m \in 1 .. Len(delivered[k]) :
           wire'[delivered[k][m][1]][delivered[k][m][2]] = place(delivered[k][m])
    BY <1>2, <2>2
  <2>. QED BY <2>1, <2>3 DEF DeliveredInStreamOrder
<1>4. ASSUME NEW c \in Conn, FrameGoes(c) PROVE DeliveredInStreamOrder'
  <2>1. /\ wire' = wire
        /\ delivered' = [delivered EXCEPT ![KeyOf[c]] = Append(@, <<c, parsed[c] + 1>>)]
        /\ KeyOf[c] \in Key
        /\ place(<<c, parsed[c] + 1>>) = dec
    BY <1>4, ServerAssumption DEF FrameGoes, FrameOpens, FrontSeq, ServerAssumption
  <2>6. \A k \in Key : \A m \in 1 .. Len(delivered'[k]) :
           \/ m \in 1 .. Len(delivered[k]) /\ delivered'[k][m] = delivered[k][m]
           \/ m = Len(delivered'[k]) /\ delivered'[k][m] = <<c, parsed[c] + 1>>
    <3>1. /\ delivered' = [delivered EXCEPT ![KeyOf[c]] = Append(@, <<c, parsed[c] + 1>>)]
          /\ KeyOf[c] \in Key /\ <<c, parsed[c] + 1>> \in Conn \X Nat
      BY <1>0, <2>1
    <3>2. \A k \in Key : delivered[k] \in Seq(Conn \X Nat)
      BY <1>0
    <3>. QED BY <1>0, <3>1, <3>2
  <2>7. \A k \in Key : Len(delivered'[k]) \in Nat
    BY <1>0, <2>1
  <2> SUFFICES ASSUME NEW k \in Key, NEW i \in 1 .. Len(delivered'[k]),
                      NEW j \in 1 .. Len(delivered'[k]), i < j
               PROVE  place(delivered'[k][i]) < place(delivered'[k][j])
    BY <2>1 DEF DeliveredInStreamOrder
  <2>2. i \in 1 .. Len(delivered[k]) /\ delivered'[k][i] = delivered[k][i]
    BY <2>6, <2>7
  <2>3. delivered'[k][i] = delivered[k][i]
    BY <2>2
  <2>4. CASE j \in 1 .. Len(delivered[k]) /\ delivered'[k][j] = delivered[k][j]
    BY <2>2, <2>4 DEF DeliveredInStreamOrder
  <2>5. CASE delivered'[k][j] = <<c, parsed[c] + 1>>
    <3>1. delivered'[k][j] = <<c, parsed[c] + 1>>
      BY <2>5
    <3>2. place(delivered'[k][i]) < dec
      BY <1>2, <2>2, <2>3
    <3>3. place(delivered'[k][j]) = dec
      BY <2>1, <3>1
    <3> HIDE DEF place
    <3>. QED BY <3>2, <3>3
  <2>. QED BY <2>4, <2>5, <2>6
<1>5. CASE UNCHANGED vars
  BY <1>1, <1>5 DEF vars, destVars, clientVars
<1>. QED BY <1>1, <1>3, <1>4, <1>5, StreamStep DEF StreamUntouched, FrameFails, FrameStays, FrameOpens

(* A frame that deciphers to garbage is behind the decipher object, then it *)
(* was kept; or ahead of it, then the frame that is due is somewhere else.  *)
LEMMA GarbledStep ==
    ASSUME IInv, EventInv, FrameInv, SparesHeld, StreamSplit, Deciphered,
           GarbledOnlyByOvertakingOrKeeping, [Next]_vars
    PROVE  GarbledOnlyByOvertakingOrKeeping'
<1>0. /\ parsed \in [Conn -> Nat] /\ dec \in Nat /\ peerEnc \in Nat
      /\ \A c \in Conn : Len(wire[c]) \in Nat /\ parsed[c] <= Len(wire[c])
      /\ \A c \in Conn : \A i \in 1 .. Len(wire[c]) : wire[c][i] \in 0 .. peerEnc - 1
  BY StreamTypes DEF StreamSplit
<1>1. CASE UNCHANGED vars
  BY <1>1 DEF vars, clientVars, frameVars, cryptoVars, fdVars, handlerVars, netVars,
     GarbledOnlyByOvertakingOrKeeping, FrontSeq
<1>2. CASE crash' # "ValueError"
  BY <1>2 DEF GarbledOnlyByOvertakingOrKeeping
<1>3. ASSUME Next, NEW c \in Conn, FrameFails(c) PROVE GarbledOnlyByOvertakingOrKeeping'
  <2>0. crash = "none"
    BY <1>3 DEF Next, LoopStep, WorldStep
  <2>1. /\ parsed[c] + 1 \in 1 .. Len(wire[c]) /\ FrontSeq(c) # dec /\ dec' = dec + 1
        /\ UNCHANGED <<wire, parsed, spare, hstate, peer>>
    BY <1>3 DEF FrameFails
  <2>2. FrontSeq(c) \in 0 .. peerEnc - 1
    BY <1>0, <2>1 DEF FrontSeq
  <2>3. CASE FrontSeq(c) < dec
    <3>1. KeptReason(c)
      BY <1>0, <2>0, <2>1, <2>3 DEF Deciphered, FrontSeq
    <3>2. \/ spare[c] # NoFd \/ hstate[KeyOf[c]] = "closed"
          \/ peer[KeyOf[c]] \in {"unconnected", "dead"}
      BY <3>1 DEF KeptReason
    <3>3. parsed[c] < Len(wire[c]) /\ FrontSeq(c)' = FrontSeq(c) /\ FrontSeq(c) < dec' - 1
      BY <1>0, <2>1, <2>3 DEF FrontSeq
    <3>. QED BY <2>1, <3>2, <3>3 DEF GarbledOnlyByOvertakingOrKeeping
  <2>4. CASE FrontSeq(c) > dec
    <3>1. dec \in 0 .. peerEnc - 1
      BY <1>0, <2>2, <2>4
    <3>2. PICK d \in Conn : \E i \in 1 .. Len(wire[d]) : wire[d][i] = dec
      BY <3>1 DEF StreamSplit
    <3>3. PICK i \in 1 .. Len(wire[d]) : wire[d][i] = dec
      BY <3>2
    <3>4. i > parsed[d]
      BY <1>0, <3>3 DEF Deciphered
    <3>5. d # c
      <4>1. SUFFICES ASSUME d = c PROVE FALSE
        OBVIOUS
      <4>2. i # parsed[c] + 1
        BY <2>1, <3>3, <4>1 DEF FrontSeq
      <4>3. parsed[c] + 1 < i
        BY <1>0, <3>4, <4>1, <4>2
      <4>4. FrontSeq(c) < wire[c][i]
        BY <2>1, <3>3, <4>1, <4>3 DEF StreamSplit, FrontSeq
      <4>. QED BY <1>0, <2>2, <2>4, <3>3, <4>1, <4>4
    <3>6. i \in parsed[d] + 1 .. Len(wire[d]) /\ wire[d][i] < FrontSeq(c)
      BY <1>0, <2>4, <3>3, <3>4
    <3>7. parsed[c] < Len(wire[c]) /\ FrontSeq(c)' = FrontSeq(c) /\ ~(FrontSeq(c) < dec' - 1)
      BY <1>0, <2>1, <2>2, <2>4 DEF FrontSeq
    <3>. QED BY <2>1, <3>5, <3>6, <3>7 DEF GarbledOnlyByOvertakingOrKeeping
  <2>. QED BY <1>0, <2>1, <2>2, <2>3, <2>4
<1>4. CASE Next
  <2>1. crash = "none"
    BY <1>4 DEF Next, LoopStep, WorldStep
  <2>2. \/ crash' # "ValueError"
        \/ \E c \in Conn : FrameFails(c)
    BY <1>4, <2>1, StreamStep DEF StreamUntouched, FrameSends, FrameGoes, FrameStays, FrameOpens
  <2>. QED BY <1>2, <1>3, <1>4, <2>2
<1>. QED BY <1>1, <1>4

LEMMA StreamInvariant == Spec => [](IInv /\ EventInv /\ FrameInv /\ StreamInv)
<1>1. Init => StreamInv
  <2> SUFFICES ASSUME Init PROVE StreamInv
    OBVIOUS
  <2>1. SparesHeld
    BY ServerAssumption DEF Init, SparesHeld, Open, ServerAssumption, Handler
  <2>2. StreamSplit /\ Deciphered /\ DeliveredParsed /\ StreamKept
    BY DEF Init, StreamSplit, Deciphered, DeliveredParsed, StreamKept, DeliveredInStreamOrder,
       GarbledOnlyByOvertakingOrKeeping
  <2>. QED BY <2>1, <2>2 DEF StreamInv
<1>2. (IInv /\ EventInv /\ FrameInv /\ StreamInv) /\ [Next]_vars => StreamInv'
  BY SparesHeldStep, StreamSplitStep, DecipheredStep, DeliveredParsedStep, OrderStep, GarbledStep
     DEF StreamInv, StreamKept
<1>. QED BY <1>1, <1>2, FrameInvariant, PTL DEF Spec

(* One cipher stream over many connections: destinations are sent contents  *)
(* in its order, and only an overtaken or a kept frame is garbage.          *)
THEOREM StreamHolds == Spec => []StreamKept
BY StreamInvariant, PTL DEF StreamInv

-----------------------------------------------------------------------------
(* Descriptors.                                                             *)

Accepted == {c \in Conn : hstate[c] # "absent"}

LEMMA OneMoreAccepted ==
    ASSUME IInv, [Next]_vars, IsFiniteSet(Accepted)
    PROVE  IsFiniteSet(Accepted')
<1>. USE ServerAssumption DEF ServerAssumption
<1>1. \E x : Accepted' \subseteq Accepted \cup {x}
  <2>1. ASSUME NEW c \in Conn, Accept(c) PROVE Accepted' \subseteq Accepted \cup {c}
    BY <2>1 DEF Accept, Accepted, IInv, TypeOK, Handler
  <2>2. ASSUME ~ \E c \in Conn : Accept(c), NEW d \in Conn, hstate'[d] # "absent"
        PROVE  hstate[d] # "absent"
    <3>0. hstate \in [Handler -> HandlerState] /\ d \in Handler
      BY DEF IInv, TypeOK, Handler
    <3>1. CASE UNCHANGED hstate
      BY <2>2, <3>1
    <3>2. CASE UNCHANGED vars \/ Poll \/ AcceptOutOfFds \/ WorldStep
      BY <3>1, <3>2 DEF vars, handlerVars, Poll, AcceptOutOfFds, WorldStep, PeerConnect, PeerSend,
         DestSend, PeerFin, PeerReset, serverVars, relayVars
    <3>3. ASSUME NEW e \in batch, Dispatch(e) PROVE hstate[d] # "absent"
      <4>1. CASE \/ EventForNobody(e) \/ EventError(e) \/ TunnelInit(e) \/ RecvClosed(e)
                 \/ RecvError(e)
        BY <3>1, <4>1 DEF EventForNobody, EventError, TunnelInit, RecvClosed, RecvError,
           handlerVars, relayVars
      <4>2. CASE DestHangup(e) \/ RecvEof(e)
        <5>1. Target(e) # Nobody /\ Close(Target(e))
          BY <4>2 DEF DestHangup, RecvEof, Receives, Handler
        <5>2. Target(e) \in Handler /\ Open(Target(e))
          BY <5>1, TargetOpen
        <5>3. CloseSet(Target(e)) \subseteq {g \in Handler : Open(g)}
          BY <5>2, CloseReachesRemotes
        <5>. QED BY <2>2, <3>0, <5>1, <5>3 DEF Close, Open
      <4>3. ASSUME NEW c \in Conn, NEW n,
                   PrefixCut(e, c, n) \/ FrameIncomplete(e, c, n) \/ FrameGarbled(e, c, n)
                     \/ NoSocketForKey(e, c, n) \/ SendToKnown(e, c, n)
            PROVE  UNCHANGED hstate
        BY <4>3 DEF PrefixCut, FrameIncomplete, FrameGarbled, NoSocketForKey, SendToKnown,
           handlerVars
      <4>4. ASSUME NEW c \in Conn, NEW n, NEW result, ConnectKey(e, c, n, result)
            PROVE  hstate'[d] = hstate[d]
        <5>1. KeyOf[c] # d
          OBVIOUS
        <5>. QED BY <3>0, <4>4, <5>1 DEF ConnectKey
      <4>5. ASSUME NEW k \in Key, NEW n, NEW sent, ReturnData(e, k, n, sent) PROVE UNCHANGED hstate
        BY <4>5 DEF ReturnData, handlerVars
      <4>. QED BY <2>2, <3>3, <4>1, <4>2, <4>3, <4>4, <4>5 DEF Dispatch
    <3>. QED BY <2>2, <3>2, <3>3 DEF Next, LoopStep
  <2>3. ASSUME ~ \E c \in Conn : Accept(c) PROVE Accepted' \subseteq Accepted
    BY <2>2, <2>3 DEF Accepted
  <2>. QED BY <2>1, <2>3
<1>2. PICK x : Accepted' \subseteq Accepted \cup {x}
  BY <1>1
<1>3. IsFiniteSet(Accepted \cup {x})
  BY FS_AddElement
<1>. QED BY <1>2, <1>3, FS_Subset

(* Every descriptor is free, or an open handler's, or kept by __init__'s    *)
(* socket of a tunnel that no frame got through.                            *)
LEMMA DescriptorsHeld ==
    ASSUME IInv, SparesHeld, IsFiniteSet(Accepted)
    PROVE  /\ IsFiniteSet(FreeFd) /\ Cardinality(FreeFd) \in Nat
           /\ Cardinality(Fd) <= Cardinality(FreeFd)
                + Cardinality({h \in Handler : Open(h)})
                + Cardinality({c \in Conn : hstate[c] # "absent" /\ parsed[c] = 0})
           /\ Cardinality({h \in Handler : Open(h)}) \in Nat
           /\ Cardinality({c \in Conn : hstate[c] # "absent" /\ parsed[c] = 0}) \in Nat
<1>. USE ServerAssumption DEF ServerAssumption
<1> DEFINE Opens == {h \in Handler : Open(h)}
           Stuck == {c \in Conn : hstate[c] # "absent" /\ parsed[c] = 0}
           OfOpen == {f \in Fd : fdmap[f] # Nobody}
           OfSpare == {f \in Fd : \E c \in Conn : spare[c] = f}
           Keeping == {c \in Conn : spare[c] # NoFd}
<1>0. /\ fdmap \in [Fd -> Handler \cup {Nobody}] /\ fileno \in [Handler -> Fd \cup {NoFd}]
      /\ spare \in [Conn -> Fd \cup {NoFd}] /\ NoFd \notin Fd
  BY DEF IInv, TypeOK, NoFd
<1>1. IsFiniteSet(OfOpen) /\ IsFiniteSet(OfSpare) /\ IsFiniteSet(FreeFd) /\ IsFiniteSet(Fd)
  BY FS_Subset DEF FreeFd, FreeBut
<1>2. IsFiniteSet(Opens) /\ Cardinality(Opens) = Cardinality(OfOpen)
  <2> DEFINE owner == [f \in OfOpen |-> fdmap[f]]
  <2>0. /\ \A h \in Handler : Open(h) <=> fileno[h] # NoFd
        /\ \A f \in Fd, h \in Handler : fdmap[f] = h <=> fileno[h] = f
    BY DEF IInv, RegistrationExact
  <2>1. owner \in [OfOpen -> Opens]
    <3>1. ASSUME NEW f \in OfOpen PROVE fdmap[f] \in Opens
      <4>1. f \in Fd /\ fdmap[f] \in Handler
        BY <1>0
      <4>2. fileno[fdmap[f]] = f
        BY <2>0, <4>1
      <4>. QED BY <1>0, <2>0, <4>1, <4>2
    <3>. QED BY <3>1
  <2>2. \A f, g \in OfOpen : owner[f] = owner[g] => f = g
    BY <1>0 DEF IInv, RegistrationExact
  <2>3. ASSUME NEW h \in Opens PROVE \E f \in OfOpen : owner[f] = h
    <3>1. h \in Handler /\ Open(h)
      OBVIOUS
    <3>2. fileno[h] \in Fd
      BY <1>0, <2>0, <3>1
    <3>3. fdmap[fileno[h]] = h
      BY <2>0, <3>1, <3>2
    <3>4. fileno[h] \in OfOpen
      BY <3>1, <3>2, <3>3
    <3>. QED BY <3>3, <3>4
  <2>4. owner \in Bijection(OfOpen, Opens)
    BY <2>1, <2>2, <2>3 DEF Bijection, Injection, Surjection, IsInjective
  <2>5. ExistsBijection(OfOpen, Opens)
    BY <2>4 DEF ExistsBijection
  <2> HIDE DEF Opens, OfOpen, owner
  <2>. QED BY <1>1, <2>5, FS_Bijection
<1>3. IsFiniteSet(Stuck) /\ Cardinality(OfSpare) <= Cardinality(Stuck)
  <2>1. Stuck \subseteq Accepted /\ Keeping \subseteq Stuck
    BY DEF Accepted, SparesHeld
  <2>2. IsFiniteSet(Stuck)
    BY <2>1, FS_Subset
  <2>3. IsFiniteSet(Keeping) /\ Cardinality(Keeping) <= Cardinality(Stuck)
    BY <2>1, <2>2, FS_Subset
  <2> DEFINE held == [c \in Keeping |-> spare[c]]
  <2>4. held \in Surjection(Keeping, OfSpare)
    BY <1>0 DEF Surjection
  <2>5. Cardinality(OfSpare) <= Cardinality(Keeping)
    BY <2>3, <2>4, FS_Surjection
  <2>6. Cardinality(OfSpare) \in Nat /\ Cardinality(Keeping) \in Nat /\ Cardinality(Stuck) \in Nat
    BY <1>1, <2>2, <2>3, FS_CardinalityType
  <2> HIDE DEF Stuck, OfSpare, Keeping
  <2>. QED BY <2>2, <2>3, <2>5, <2>6
<1>4. Fd = FreeFd \cup (OfOpen \cup OfSpare)
  BY <1>0 DEF FreeFd, FreeBut
<1>5. /\ Cardinality(FreeFd) \in Nat /\ Cardinality(OfOpen) \in Nat /\ Cardinality(OfSpare) \in Nat
      /\ Cardinality(Opens) \in Nat /\ Cardinality(Stuck) \in Nat
  BY <1>1, <1>2, <1>3, FS_CardinalityType
<1>6. /\ IsFiniteSet(OfOpen \cup OfSpare) /\ Cardinality(OfOpen \cup OfSpare) \in Nat
      /\ Cardinality(OfOpen \cup OfSpare) <= Cardinality(OfOpen) + Cardinality(OfSpare)
  <2> HIDE DEF OfOpen, OfSpare
  <2>1. /\ IsFiniteSet(OfOpen \cup OfSpare)
        /\ Cardinality(OfOpen \cup OfSpare)
             = Cardinality(OfOpen) + Cardinality(OfSpare) - Cardinality(OfOpen \cap OfSpare)
    BY <1>1, FS_Union
  <2>2. Cardinality(OfOpen \cap OfSpare) \in Nat
    BY <1>1, FS_Intersection, FS_CardinalityType
  <2>. QED BY <1>5, <2>1, <2>2, FS_CardinalityType
<1>7. Cardinality(Fd) <= Cardinality(FreeFd) + Cardinality(OfOpen \cup OfSpare)
  <2> HIDE DEF OfOpen, OfSpare
  <2>1. Cardinality(Fd) = Cardinality(FreeFd) + Cardinality(OfOpen \cup OfSpare)
                             - Cardinality(FreeFd \cap (OfOpen \cup OfSpare))
    BY <1>1, <1>4, <1>6, FS_Union
  <2>2. Cardinality(FreeFd \cap (OfOpen \cup OfSpare)) \in Nat
    BY <1>1, <1>6, FS_Intersection, FS_CardinalityType
  <2>. QED BY <1>5, <1>6, <2>1, <2>2
<1> HIDE DEF Opens, Stuck, OfOpen, OfSpare, Keeping
<1>8. /\ IsFiniteSet(FreeFd) /\ Cardinality(FreeFd) \in Nat
      /\ Cardinality(Fd) <= Cardinality(FreeFd) + Cardinality(Opens) + Cardinality(Stuck)
      /\ Cardinality(Opens) \in Nat /\ Cardinality(Stuck) \in Nat
  <2>1. Cardinality(Fd) \in Nat
    BY <1>1, FS_CardinalityType
  <2>. QED BY <1>1, <1>2, <1>3, <1>5, <1>6, <1>7, <2>1
<1>. QED BY <1>8 DEF Opens, Stuck

LEMMA OutOfFdsStep ==
    ASSUME IInv, SparesHeld, IsFiniteSet(Accepted), OutOfFdsOnlyWhenHeld, [Next]_vars
    PROVE  OutOfFdsOnlyWhenHeld'
<1>. USE ServerAssumption DEF ServerAssumption
<1>1. CASE UNCHANGED vars
  BY <1>1 DEF vars, handlerVars, frameVars, OutOfFdsOnlyWhenHeld, Open
<1>2. CASE AcceptOutOfFds
  <2>1. UNCHANGED <<hstate, parsed>> /\ Cardinality(FreeFd) < 2
    BY <1>2 DEF AcceptOutOfFds, relayVars, handlerVars, frameVars
  <2> DEFINE a == Cardinality({h \in Handler : Open(h)})
             b == Cardinality({c \in Conn : hstate[c] # "absent" /\ parsed[c] = 0})
             n == Cardinality(Fd)
             f == Cardinality(FreeFd)
  <2>2. a \in Nat /\ b \in Nat /\ f \in Nat /\ n \in Nat /\ n <= f + a + b /\ f < 2
    BY <2>1, DescriptorsHeld, FS_CardinalityType
  <2> HIDE DEF a, b, n, f
  <2>3. a + b >= n - 1
    BY <2>2
  <2>4. UNCHANGED <<a, b>>
    BY <2>1 DEF a, b, Open
  <2>. QED BY <2>3, <2>4 DEF OutOfFdsOnlyWhenHeld, a, b, n
<1>3. CASE crash' # "AttributeError"
  BY <1>3 DEF OutOfFdsOnlyWhenHeld
<1>4. ASSUME crash = "none", Poll \/ WorldStep \/ \E c \in Conn : Accept(c)
      PROVE  crash' = "none"
  BY <1>4 DEF Poll, WorldStep, PeerConnect, PeerSend, DestSend, PeerFin, PeerReset, serverVars, Accept
<1>5. ASSUME crash = "none", NEW e \in batch, Dispatch(e) PROVE crash' # "AttributeError"
  <2>1. CASE \/ EventForNobody(e) \/ EventError(e) \/ TunnelInit(e) \/ RecvClosed(e)
             \/ RecvError(e) \/ DestHangup(e) \/ RecvEof(e)
    BY <1>5, <2>1 DEF EventForNobody, EventError, TunnelInit, RecvClosed, RecvError, DestHangup,
       RecvEof
  <2>2. ASSUME NEW c \in Conn, NEW n, NEW result,
               PrefixCut(e, c, n) \/ FrameIncomplete(e, c, n) \/ FrameGarbled(e, c, n)
                 \/ NoSocketForKey(e, c, n) \/ SendToKnown(e, c, n) \/ ConnectKey(e, c, n, result)
        PROVE  crash' # "AttributeError"
    BY <1>5, <2>2 DEF PrefixCut, FrameIncomplete, FrameGarbled, NoSocketForKey, SendToKnown,
       ConnectKey, FrameRead
  <2>3. ASSUME NEW k \in Key, NEW n, NEW sent, ReturnData(e, k, n, sent)
        PROVE  crash' # "AttributeError"
    BY <1>5, <2>3 DEF ReturnData
  <2>. QED BY <1>5, <2>1, <2>2, <2>3 DEF Dispatch
<1>. QED BY <1>1, <1>2, <1>3, <1>4, <1>5 DEF Next, LoopStep, WorldStep

(* accept() runs out of descriptors only when all but one are in use, or    *)
(* kept by tunnels that no frame got through: close() gives the others back.*)
THEOREM DescriptorsDoNotLeak == Spec => []OutOfFdsOnlyWhenHeld
<1> DEFINE FdInv == IsFiniteSet(Accepted) /\ OutOfFdsOnlyWhenHeld
<1>1. Init => FdInv
  <2> SUFFICES ASSUME Init PROVE FdInv
    OBVIOUS
  <2>1. Accepted = {}
    BY DEF Init, Accepted, Handler
  <2>. QED BY <2>1, FS_EmptySet DEF Init, OutOfFdsOnlyWhenHeld
<1>2. (IInv /\ StreamInv /\ FdInv) /\ [Next]_vars => FdInv'
  BY OneMoreAccepted, OutOfFdsStep DEF StreamInv
<1>3. FdInv => OutOfFdsOnlyWhenHeld
  OBVIOUS
<1> HIDE DEF FdInv
<1>. QED BY <1>1, <1>2, <1>3, StreamInvariant, PTL DEF Spec

-----------------------------------------------------------------------------
(* Close is one step here and a recursion in the program, which            *)
(* CloseCascade takes apart.  Cascade(h) is a recursion that starts now.    *)

Opened == {g \in Handler : Open(g)}
CreatorOf == [k \in Key |-> IF Open(k) THEN localRelay[k] ELSE CHOOSE c \in Conn : TRUE]

Cascade(h) == INSTANCE CloseCascade WITH
    Remote <- Key, start <- h, openAtStart <- Opened, creator <- CreatorOf,
    open <- Opened \ {h},
    stack <- <<[self |-> h, at |-> "relay", todo |-> Key]>>,
    removed <- [g \in Handler |-> IF g = h THEN 1 ELSE 0]

LEMMA CreatorsOpen ==
    ASSUME IInv, NEW h \in Handler, Open(h)
    PROVE  /\ CreatorOf \in [Key -> Conn]
           /\ \A k \in Key \cap Opened :
                Open(k) /\ CreatorOf[k] = localRelay[k] /\ CreatorOf[k] \in Opened
<1>1. Conn # {}
  BY DEF IInv, OpenRemoteHasOpenLocal, Handler
<1>. QED BY <1>1 DEF CreatorOf, Opened, IInv, OpenRemoteHasOpenLocal, Handler

LEMMA CascadeStarts ==
    ASSUME IInv, NEW h \in Handler, Open(h)
    PROVE  Cascade(h)!CascadeInit
<1>1. h \in Opened /\ Opened \subseteq Handler /\ Cascade(h)!Handler = Handler
  BY DEF Opened, Handler, Cascade!Handler
<1>. QED BY <1>1, CreatorsOpen DEF Cascade!CascadeInit

LEMMA CascadeReach ==
    ASSUME IInv, NEW h \in Handler, Open(h)
    PROVE  Cascade(h)!CloseSet = CloseSet(h)
BY CreatorsOpen, ServerAssumption
   DEF CloseSet, Cascade!CloseSet, Opened, Handler, IInv, OpenRemoteHasOpenLocal, ServerAssumption

(* Whenever a handler is open, what its close() starts is a cascade of      *)
(* CloseCascade, and a step that closes it leaves open what that cascade     *)
(* leaves open: CascadeHolds is about every close() of the server.          *)
CloseStartsCascade == \A h \in Handler : Open(h) => Cascade(h)!CascadeInit
CloseEndsCascade ==
    [][\A h \in Handler : Open(h) /\ Close(h) => Opened' = Opened \ Cascade(h)!CloseSet]_vars

THEOREM CloseIsCascade == Spec => []CloseStartsCascade /\ CloseEndsCascade
<1> DEFINE Ends == \A h \in Handler : Open(h) /\ Close(h) => Opened' = Opened \ Cascade(h)!CloseSet
<1>1. IInv => CloseStartsCascade
  BY CascadeStarts DEF CloseStartsCascade
<1>2. IInv => Ends
  <2> SUFFICES ASSUME IInv, NEW h \in Handler, Open(h), Close(h)
               PROVE  Opened' = Opened \ Cascade(h)!CloseSet
    OBVIOUS
  <2>1. Cascade(h)!CloseSet = CloseSet(h)
    BY CascadeReach
  <2>2. hstate' = [g \in Handler |-> IF g \in CloseSet(h) THEN "closed" ELSE hstate[g]]
    BY DEF Close
  <2>3. Opened' = Opened \ CloseSet(h)
    BY <2>2 DEF Opened, Open
  <2>. QED BY <2>1, <2>3
<1> HIDE DEF Ends
<1>3. []IInv => [][Ends]_vars
  BY <1>2, PTL
<1>. QED BY <1>1, <1>3, InductiveInvariant, PTL DEF CloseEndsCascade, Ends
=============================================================================

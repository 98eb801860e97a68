---------------------------- MODULE ServerRelay ----------------------------
(***************************************************************************)
(* The process started with `main.py --server`: a single-threaded event    *)
(* loop (ptshadowsocks/eventloop.py) that owns                             *)
(*   - one tunnel handler per connection accepted from the local proxy     *)
(*     (TCPRelayHandler with is_local), named by the connection c \in Conn *)
(*   - one destination handler per key of source_dest_map (is_remote),     *)
(*     named by that key k \in Key: the map never loses an entry, so a key *)
(*     names at most one handler in the life of the process.               *)
(* A key is the string "src:port<-->addr:port" of the metadata that the    *)
(* local proxy puts in every frame; all frames of a connection carry the   *)
(* same one, KeyOf[c].                                                     *)
(*                                                                         *)
(* Bytes are abstracted to units: a frame is HeaderUnits units of length   *)
(* prefix followed by a body, and recv returns any non-empty prefix of     *)
(* what has arrived (TCP keeps no boundaries; recv takes at most 64 KiB).  *)
(* Cipher text is abstracted to its place in the one stream that the       *)
(* process-wide Encryptor of the sender produced: the receiver's decipher  *)
(* object yields the plain text only for the next frame of that stream;    *)
(* for any other frame it yields bytes that json.loads refuses.            *)
(***************************************************************************)
EXTENDS EventLoop

CONSTANTS Conn,        \* tunnel connections the local proxy may open
          Key,         \* keys of source_dest_map
          KeyOf,       \* the key that the frames of a connection carry
          MaxFrames,   \* bound: frames the local proxy sends on a connection
          MaxChunks    \* bound: units a destination sends

Handler == Conn \cup Key

ASSUME ServerAssumption ==
    /\ Conn \cap Key = {}
    /\ Nobody \notin Handler
    /\ KeyOf \in [Conn -> Key]
    /\ Fd \subseteq Nat /\ IsFiniteSet(Fd)
    /\ MaxFrames \in Nat
    /\ MaxChunks \in Nat

(* LENGTH_LENGTH + META_LENGTH_LENGTH bytes of prefix, then the cipher text *)
HeaderUnits == 2
FrameUnits == 3

Event == [sock : Handler, fd : Fd, flags : SUBSET Flag]
BackFrame == [seq : Nat, key : Key, upto : Nat, sent : {"all", "part", "none"}]
CrashReason == {"none", "struct.error", "ValueError", "AttributeError"}

VARIABLES
    spare,       \* descriptor of the unconnected socket of __init__
    stage,       \* self.stage of a tunnel handler
    localRelay,  \* self.local_relay of a destination handler
    buffered,    \* units in self.data_to_send of a tunnel handler
    parsed,      \* frames removed from the front of data_to_send
    dec,         \* frames the process-wide decipher object has consumed
    enc,         \* frames the process-wide cipher object has produced
    crash,       \* exception that ended run(), or "none"
    wire,        \* per connection, the cipher stream places of its frames
    peerEnc,     \* frames the local proxy has encrypted
    got,         \* units received from a destination
    delivered,   \* per key, contents sent to the destination: <<c, i>>
    back         \* per connection, frames sent back to the local proxy

loopVars == <<batch, acceptReady>>
fdVars == <<fdmap, fileno, spare>>
handlerVars == <<hstate, stage, localRelay>>
frameVars == <<buffered, parsed>>
cryptoVars == <<dec, enc>>
netVars == <<peer, inflight>>
clientVars == <<wire, peerEnc>>
destVars == <<got, delivered, back>>
vars == <<loopVars, fdVars, handlerVars, frameVars, cryptoVars, crash,
          netVars, clientVars, destVars>>

TypeOK ==
    /\ batch \subseteq Event
    /\ acceptReady \in BOOLEAN
    /\ fdmap \in [Fd -> Handler \cup {Nobody}]
    /\ fileno \in [Handler -> Fd \cup {NoFd}]
    /\ spare \in [Conn -> Fd \cup {NoFd}]
    /\ hstate \in [Handler -> HandlerState]
    /\ stage \in [Conn -> {"INIT", "STREAM"}]
    /\ localRelay \in [Key -> Conn \cup {Nobody}]
    /\ buffered \in [Conn -> Nat]
    /\ parsed \in [Conn -> Nat]
    /\ dec \in Nat
    /\ enc \in Nat
    /\ crash \in CrashReason
    /\ peer \in [Handler -> PeerState]
    /\ inflight \in [Handler -> Nat]
    /\ wire \in [Conn -> Seq(Nat)]
    /\ peerEnc \in Nat
    /\ got \in [Key -> Nat]
    /\ delivered \in [Key -> Seq(Conn \X Nat)]
    /\ back \in [Conn -> Seq(BackFrame)]

Init ==
    /\ batch = {}
    /\ acceptReady = FALSE
    /\ fdmap = [f \in Fd |-> Nobody]
    /\ fileno = [h \in Handler |-> NoFd]
    /\ spare = [c \in Conn |-> NoFd]
    /\ hstate = [h \in Handler |-> "absent"]
    /\ stage = [c \in Conn |-> "INIT"]
    /\ localRelay = [k \in Key |-> Nobody]
    /\ buffered = [c \in Conn |-> 0]
    /\ parsed = [c \in Conn |-> 0]
    /\ dec = 0
    /\ enc = 0
    /\ crash = "none"
    /\ peer = [h \in Handler |-> "none"]
    /\ inflight = [h \in Handler |-> 0]
    /\ wire = [c \in Conn |-> <<>>]
    /\ peerEnc = 0
    /\ got = [k \in Key |-> 0]
    /\ delivered = [k \in Key |-> <<>>]
    /\ back = [c \in Conn |-> <<>>]

-----------------------------------------------------------------------------
(* The other ends: the local proxy and the destinations.                   *)

serverVars == <<loopVars, fdVars, handlerVars, frameVars, cryptoVars, crash,
                destVars>>

(* The local proxy opens a connection; the kernel queues it for accept().  *)
PeerConnect(c) ==
    /\ peer[c] = "none"
    /\ peer' = [peer EXCEPT ![c] = "up"]
    /\ UNCHANGED <<serverVars, inflight, clientVars>>

(* The local proxy encrypts a frame and sends it on c.  It may do so after *)
(* the server has closed c: the cipher stream moves on all the same.       *)
PeerSend(c) ==
    /\ peer[c] = "up"
    /\ Len(wire[c]) < MaxFrames
    /\ wire' = [wire EXCEPT ![c] = Append(@, peerEnc)]
    /\ peerEnc' = peerEnc + 1
    /\ inflight' = [inflight EXCEPT ![c] = @ + FrameUnits]
    /\ UNCHANGED <<serverVars, peer>>

DestSend(k) ==
    /\ peer[k] = "up"
    /\ hstate[k] = "open"
    /\ got[k] + inflight[k] < MaxChunks
    /\ inflight' = [inflight EXCEPT ![k] = @ + 1]
    /\ UNCHANGED <<serverVars, peer, clientVars>>

PeerFin(h) ==
    /\ peer[h] = "up"
    /\ hstate[h] # "closed"
    /\ peer' = [peer EXCEPT ![h] = "fin"]
    /\ UNCHANGED <<serverVars, inflight, clientVars>>

PeerReset(h) ==
    /\ peer[h] \in {"up", "fin"}
    /\ hstate[h] # "closed"
    /\ peer' = [peer EXCEPT ![h] = IF @ = "up" THEN "rst" ELSE "finrst"]
    /\ UNCHANGED <<serverVars, inflight, clientVars>>

-----------------------------------------------------------------------------
(* EventLoop.                                                              *)

relayVars == <<handlerVars, frameVars, cryptoVars, netVars, clientVars, destVars>>

Pending(c) == peer[c] # "none" /\ hstate[c] = "absent"

Poll ==
    /\ batch = {} /\ ~acceptReady
    /\ batch' = ReadyEvents
    /\ acceptReady' = (\E c \in Conn : Pending(c))
    /\ (batch' # {} \/ acceptReady')
    /\ UNCHANGED <<fdVars, crash, relayVars>>

FreeFd == FreeBut({spare[c] : c \in Conn})

-----------------------------------------------------------------------------
(* TCPRelay: the listening socket.                                         *)

(* A tunnel handler takes two descriptors: the accepted socket and the      *)
(* unconnected socket that __init__ makes for a server's local handler.     *)
Accept(c) ==
    /\ acceptReady
    /\ Pending(c)
    /\ acceptReady' = FALSE
    /\ \E f, s \in FreeFd :
        /\ IsLowest(f, FreeFd) /\ IsLowest(s, FreeFd \ {f})
        /\ fileno' = [fileno EXCEPT ![c] = f]
        /\ fdmap' = [fdmap EXCEPT ![f] = c]
        /\ spare' = [spare EXCEPT ![c] = s]
    /\ hstate' = [hstate EXCEPT ![c] = "open"]
    /\ UNCHANGED <<batch, stage, localRelay, frameVars, cryptoVars, crash,
                   netVars, clientVars, destVars>>

(* accept() or socket() raises OSError; the handler of that error calls     *)
(* self.eventloop.errno_from_exception, which an EventLoop does not have.   *)
AcceptOutOfFds ==
    /\ acceptReady
    /\ Cardinality(FreeFd) < 2
    /\ acceptReady' = FALSE
    /\ crash' = "AttributeError"
    /\ UNCHANGED <<batch, fdVars, relayVars>>

-----------------------------------------------------------------------------
(* TCPRelayHandler.close(): a local handler closes every open handler of    *)
(* source_dest_map, each of which closes its own local handler; a remote    *)
(* handler closes its local handler, if that is still open.                 *)

(* Mutants: close() without the loop over source_dest_map, and a close()    *)
(* that takes every handler of the process with it.                         *)
CloseOwnPair(h) ==
    {h} \cup {c \in Conn : h \in Key /\ localRelay[h] = c /\ Open(c)}
CloseEverything(h) == {g \in Handler : Open(g)}

CloseSet(h) ==
    LET remotes == {k \in Key : Open(k)}
        locals == {c \in Conn : Open(c) /\ \E k \in remotes : localRelay[k] = c}
    IN IF h \in Key /\ localRelay[h] \notin locals
       THEN {h}
       ELSE {h} \cup remotes \cup locals

(* Mutant: close() without EventLoop.remove().                              *)
CloseUnregistered(h) ==
    /\ fileno' = [g \in Handler |-> IF g \in CloseSet(h) THEN NoFd ELSE fileno[g]]
    /\ hstate' = [g \in Handler |-> IF g \in CloseSet(h) THEN "closed" ELSE hstate[g]]
    /\ UNCHANGED <<fdmap, spare, stage, localRelay>>

Close(h) ==
    LET closing == CloseSet(h) IN
    /\ fdmap' = [f \in Fd |-> IF \E g \in closing : fileno[g] = f
                              THEN Nobody ELSE fdmap[f]]
    /\ fileno' = [g \in Handler |-> IF g \in closing THEN NoFd ELSE fileno[g]]
    /\ hstate' = [g \in Handler |-> IF g \in closing THEN "closed" ELSE hstate[g]]
    /\ UNCHANGED <<spare, stage, localRelay>>

-----------------------------------------------------------------------------
(* socks5_handle on the server: what every event starts with.              *)

EventForNobody(e) ==
    /\ Take(e)
    /\ Target(e) = Nobody
    /\ UNCHANGED <<fdVars, crash, relayVars>>

(* POLL_ERR: every branch of the server logs it and returns.                *)
EventError(e) ==
    /\ Take(e)
    /\ Target(e) # Nobody
    /\ "ERR" \in e.flags
    /\ UNCHANGED <<fdVars, crash, relayVars>>

(* The first event of a tunnel reads nothing.                               *)
TunnelInit(e) ==
    /\ Take(e)
    /\ Target(e) \in Conn
    /\ "ERR" \notin e.flags
    /\ stage[Target(e)] = "INIT"
    /\ stage' = [stage EXCEPT ![Target(e)] = "STREAM"]
    /\ buffered' = [buffered EXCEPT ![Target(e)] = 0]
    /\ UNCHANGED <<fdVars, hstate, localRelay, parsed, cryptoVars, crash,
                   netVars, clientVars, destVars>>

DestHangup(e) ==
    /\ Take(e)
    /\ Target(e) \in Key
    /\ "ERR" \notin e.flags
    /\ "HUP" \in e.flags
    /\ Close(Target(e))
    /\ UNCHANGED <<frameVars, cryptoVars, crash, netVars, clientVars, destVars>>

(* The branches that reach sock.recv()                                      *)
Receives(e) ==
    /\ "ERR" \notin e.flags
    /\ \/ Target(e) \in Conn /\ stage[Target(e)] = "STREAM"
       \/ Target(e) \in Key /\ "HUP" \notin e.flags

(* The event is of a socket closed since the poll: recv raises EBADF.       *)
RecvClosed(e) ==
    /\ Take(e)
    /\ Receives(e)
    /\ ~Open(RecvSock(e))
    /\ UNCHANGED <<fdVars, crash, relayVars>>

(* The reset arrived after the poll: recv reports it, run() prints it.      *)
RecvError(e) ==
    /\ Take(e)
    /\ Receives(e)
    /\ Open(RecvSock(e))
    /\ inflight[RecvSock(e)] = 0
    /\ peer[RecvSock(e)] = "rst"
    /\ peer' = [peer EXCEPT ![RecvSock(e)] = "dead"]
    /\ UNCHANGED <<fdVars, handlerVars, frameVars, cryptoVars, crash,
                   inflight, clientVars, destVars>>

(* Mutant: an empty read closes destination handlers only.                  *)
RecvEofOfDest(e) ==
    /\ Take(e)
    /\ Receives(e)
    /\ Open(RecvSock(e))
    /\ inflight[RecvSock(e)] = 0
    /\ peer[RecvSock(e)] \in {"fin", "finrst", "dead"}
    /\ IF Target(e) \in Key THEN Close(Target(e)) ELSE UNCHANGED <<fdVars, handlerVars>>
    /\ UNCHANGED <<frameVars, cryptoVars, crash, netVars, clientVars, destVars>>

RecvEof(e) ==
    /\ Take(e)
    /\ Receives(e)
    /\ Open(RecvSock(e))
    /\ inflight[RecvSock(e)] = 0
    /\ peer[RecvSock(e)] \in {"fin", "finrst", "dead"}
    /\ Close(Target(e))
    /\ UNCHANGED <<frameVars, cryptoVars, crash, netVars, clientVars, destVars>>

(* recv returns n units of what the socket holds.                           *)
RecvData(e, n) ==
    /\ Take(e)
    /\ Receives(e)
    /\ Open(RecvSock(e))
    /\ n \in 1 .. inflight[RecvSock(e)]
    /\ inflight' = [inflight EXCEPT ![RecvSock(e)] = @ - n]

-----------------------------------------------------------------------------
(* A tunnel in STAGE_STREAM: data_to_send grows by what was received and    *)
(* decryptoSend handles at most one frame of it.                            *)

(* e brings n units to tunnel c, which then holds b units.                  *)
TunnelData(e, c, n, b) ==
    /\ Target(e) = c
    /\ RecvData(e, n)
    /\ b = buffered[c] + n

(* unpack_length has fewer bytes than the prefix: struct.error is not an    *)
(* OSError and ends run().                                                  *)
PrefixCut(e, c, n) ==
    /\ TunnelData(e, c, n, buffered[c] + n)
    /\ buffered[c] + n < HeaderUnits
    /\ buffered' = [buffered EXCEPT ![c] = @ + n]
    /\ crash' = "struct.error"
    /\ UNCHANGED <<fdVars, handlerVars, parsed, cryptoVars, peer, clientVars,
                   destVars>>

FrameIncomplete(e, c, n) ==
    /\ TunnelData(e, c, n, buffered[c] + n)
    /\ buffered[c] + n \in HeaderUnits .. FrameUnits - 1
    /\ buffered' = [buffered EXCEPT ![c] = @ + n]
    /\ UNCHANGED <<fdVars, handlerVars, parsed, cryptoVars, crash, peer,
                   clientVars, destVars>>

(* Mutant: a cipher without state deciphers whatever comes.                 *)
AnySeq(c) == dec

(* The place in the cipher stream of the frame at the front of data_to_send *)
FrontSeq(c) == wire[c][parsed[c] + 1]

(* The decipher object is elsewhere in the stream: json.loads raises.       *)
FrameGarbled(e, c, n) ==
    /\ TunnelData(e, c, n, buffered[c] + n)
    /\ buffered[c] + n >= FrameUnits
    /\ FrontSeq(c) # dec
    /\ buffered' = [buffered EXCEPT ![c] = @ + n]
    /\ dec' = dec + 1
    /\ crash' = "ValueError"
    /\ UNCHANGED <<fdVars, handlerVars, parsed, enc, peer, clientVars, destVars>>

(* The frame is deciphered; what follows depends on the key it carries.     *)
FrameRead(e, c, n) ==
    /\ TunnelData(e, c, n, buffered[c] + n)
    /\ buffered[c] + n >= FrameUnits
    /\ FrontSeq(c) = dec
    /\ dec' = dec + 1
    /\ UNCHANGED <<enc, crash, clientVars, got, back, stage>>

(* Mutant: data_to_send is emptied whatever it holds behind the frame.      *)
FrameSentEmpties(c, n) ==
    /\ delivered' = [delivered EXCEPT ![KeyOf[c]] = Append(@, <<c, parsed[c] + 1>>)]
    /\ parsed' = [parsed EXCEPT ![c] = @ + 1]
    /\ buffered' = [buffered EXCEPT ![c] = 0]

(* send() succeeded: the frame leaves data_to_send.                         *)
FrameSent(c, n) ==
    /\ delivered' = [delivered EXCEPT ![KeyOf[c]] = Append(@, <<c, parsed[c] + 1>>)]
    /\ parsed' = [parsed EXCEPT ![c] = @ + 1]
    /\ buffered' = [buffered EXCEPT ![c] = @ + n - FrameUnits]

(* connect() or send() raised OSError: the frame stays at the front of      *)
(* data_to_send although the decipher object has moved past it.             *)
FrameKept(c, n) ==
    /\ buffered' = [buffered EXCEPT ![c] = @ + n]
    /\ UNCHANGED <<parsed, delivered>>

(* Mutant: something else keeps a reference to that socket.                 *)
KeepSpare(c) == UNCHANGED spare

(* self.remote_sock is rebound: nothing else holds the socket of __init__.  *)
ReleaseSpare(c) == spare' = [spare EXCEPT ![c] = NoFd]

SendToKnown(e, c, n) ==
    LET k == KeyOf[c] IN
    /\ FrameRead(e, c, n)
    /\ hstate[k] # "absent"
    /\ IF Open(k) /\ peer[k] \in {"up", "fin"} THEN FrameSent(c, n) ELSE FrameKept(c, n)
    /\ peer' = [peer EXCEPT ![k] = IF Open(k) /\ @ \in Broken THEN "dead" ELSE @]
    /\ ReleaseSpare(c)
    /\ UNCHANGED <<fdmap, fileno, hstate, localRelay>>

(* socket() finds no descriptor: EMFILE before anything was assigned.       *)
NoSocketForKey(e, c, n) ==
    /\ FrameRead(e, c, n)
    /\ hstate[KeyOf[c]] = "absent"
    /\ FreeFd = {}
    /\ FrameKept(c, n)
    /\ UNCHANGED <<fdVars, hstate, localRelay, peer>>

(* A new key: the handler is registered and put into source_dest_map before *)
(* connect(), so it stays there when connect or the first send fails.       *)
ConnectKey(e, c, n, result) ==
    LET k == KeyOf[c] IN
    /\ FrameRead(e, c, n)
    /\ hstate[k] = "absent"
    /\ \E f \in FreeFd :
        /\ IsLowest(f, FreeFd)
        /\ fileno' = [fileno EXCEPT ![k] = f]
        /\ fdmap' = [fdmap EXCEPT ![f] = k]
    /\ hstate' = [hstate EXCEPT ![k] = "open"]
    /\ localRelay' = [localRelay EXCEPT ![k] = c]
    /\ ReleaseSpare(c)
    /\ peer' = [peer EXCEPT ![k] = result]
    /\ IF result = "up" THEN FrameSent(c, n) ELSE FrameKept(c, n)

-----------------------------------------------------------------------------
(* A destination handler: update_back_stream encrypts what was received and *)
(* hands one frame to the non-blocking socket of the tunnel that created it.*)

ReturnData(e, k, n, sent) ==
    LET c == localRelay[k] IN
    /\ Target(e) = k
    /\ RecvData(e, n)
    /\ got' = [got EXCEPT ![k] = @ + n]
    /\ enc' = enc + 1
    /\ sent # "none" => Open(c) /\ peer[c] \in {"up", "fin"}
    /\ back' = [back EXCEPT ![c] = Append(@, [seq |-> enc, key |-> k,
                                             upto |-> got'[k], sent |-> sent])]
    /\ peer' = [peer EXCEPT ![c] = IF Open(c) /\ @ \in Broken THEN "dead" ELSE @]
    /\ UNCHANGED <<fdVars, handlerVars, frameVars, dec, crash, clientVars, delivered>>

-----------------------------------------------------------------------------
Dispatch(e) ==
    \/ EventForNobody(e) \/ EventError(e) \/ TunnelInit(e) \/ DestHangup(e)
    \/ RecvClosed(e) \/ RecvError(e) \/ RecvEof(e)
    \/ \E c \in Conn : \E n \in 1 .. inflight[RecvSock(e)] :
          \/ PrefixCut(e, c, n) \/ FrameIncomplete(e, c, n) \/ FrameGarbled(e, c, n)
          \/ SendToKnown(e, c, n) \/ NoSocketForKey(e, c, n)
          \/ \E result \in {"up", "unconnected", "dead"} : ConnectKey(e, c, n, result)
    \/ \E k \in Key : \E n \in 1 .. inflight[RecvSock(e)] :
          \E sent \in {"all", "part", "none"} : ReturnData(e, k, n, sent)

LoopStep ==
    /\ crash = "none"
    /\ \/ Poll
       \/ \E c \in Conn : Accept(c)
       \/ AcceptOutOfFds
       \/ \E e \in batch : Dispatch(e)

WorldStep ==
    /\ crash = "none"
    /\ \/ \E c \in Conn : PeerConnect(c) \/ PeerSend(c)
       \/ \E k \in Key : DestSend(k)
       \/ \E h \in Handler : PeerFin(h) \/ PeerReset(h)

Next == LoopStep \/ WorldStep

Spec == Init /\ [][Next]_vars

(* The loop runs for as long as the process lives.                          *)
LoopSpec == Spec /\ WF_vars(LoopStep)

-----------------------------------------------------------------------------
(* Safety.                                                                 *)

(* Registration: _fdmap, the descriptors of the sockets and self.closed say *)
(* the same thing, and no two sockets share a descriptor.  A close() that   *)
(* reached a handler twice would raise KeyError in EventLoop.remove.        *)
RegistrationExact ==
    /\ \A h \in Handler : Open(h) <=> fileno[h] # NoFd
    /\ \A f \in Fd, h \in Handler : fdmap[f] = h <=> fileno[h] = f
    /\ \A c \in Conn : spare[c] # NoFd =>
          /\ fdmap[spare[c]] = Nobody
          /\ \A d \in Conn \ {c} : spare[d] # spare[c]

(* A destination handler never outlives the tunnel handler it answers on:   *)
(* update_back_stream writes to self.local_relay.sock without looking.      *)
OpenRemoteHasOpenLocal ==
    \A k \in Key : Open(k) => localRelay[k] \in Conn /\ Open(localRelay[k])

(* An event polled before a close() never reaches the closed handler, even  *)
(* when the descriptor has been given to another socket since: handle_event *)
(* of a closed handler would call close() again.                            *)
EventsReachOpenHandlers ==
    \A e \in batch : Target(e) # Nobody => Open(Target(e))

(* The loop never blocks in recv: whenever a handler is about to receive on *)
(* an open socket there is something to return.  Destination sockets are in *)
(* blocking mode, so a recv on a stale event would stop every connection.   *)
RecvNeverBlocks ==
    \A e \in batch : Receives(e) /\ Open(RecvSock(e)) =>
        \/ inflight[RecvSock(e)] > 0
        \/ peer[RecvSock(e)] \in {"fin", "dead"} \cup Broken

(* data_to_send starts at a frame boundary and holds, with what the socket  *)
(* still has, exactly the frames not yet handed on, however recv cut them.  *)
FrameAccounting ==
    \A c \in Conn :
        FrameUnits * (Len(wire[c]) - parsed[c]) = inflight[c] + buffered[c]

(* What a destination is sent are the contents in the order in which the    *)
(* local proxy encrypted them, each at most once, whichever connections     *)
(* carried them, because the cipher stream is one for the whole process.    *)
DeliveredInStreamOrder ==
    \A k \in Key : \A i, j \in 1 .. Len(delivered[k]) : i < j =>
        LET a == delivered[k][i]
            b == delivered[k][j]
        IN wire[a[1]][a[2]] < wire[b[1]][b[2]]

(* A frame deciphers to garbage only if an earlier frame is still on its    *)
(* way on another connection, or the frame itself was deciphered before and *)
(* kept: there was no descriptor for a socket to its destination, so that   *)
(* the tunnel still holds the one of __init__, or the destination cannot be *)
(* written to any more.  The bytes of a single connection with a working    *)
(* destination never end the process.                                       *)
GarbledOnlyByOvertakingOrKeeping ==
    crash = "ValueError" => \E c \in Conn :
        /\ parsed[c] < Len(wire[c])
        /\ LET k == KeyOf[c] IN
           IF FrontSeq(c) < dec - 1
           THEN \/ spare[c] # NoFd
                \/ hstate[k] = "closed"
                \/ peer[k] \in {"unconnected", "dead"}
           ELSE \E d \in Conn \ {c} : \E i \in parsed[d] + 1 .. Len(wire[d]) :
                    wire[d][i] < FrontSeq(c)

(* The two together: what comes of one cipher stream on many connections.   *)
StreamKept == DeliveredInStreamOrder /\ GarbledOnlyByOvertakingOrKeeping

(* Descriptors do not leak but for one kind: accept() finds none only when  *)
(* all but one are held by open handlers or by the sockets that __init__    *)
(* made for tunnels whose first frame never got to a destination.           *)
OutOfFdsOnlyWhenHeld ==
    crash = "AttributeError" =>
        Cardinality({h \in Handler : Open(h)})
          + Cardinality({c \in Conn : hstate[c] # "absent" /\ parsed[c] = 0})
        >= Cardinality(Fd) - 1

(* How far one close() reaches: it leaves no destination handler open, and  *)
(* it takes a tunnel with it only if the tunnel's own end was reached or it *)
(* was the creator of an open destination handler.                          *)
CloseReach ==
    [][\A h \in Handler : Open(h) /\ hstate'[h] = "closed" =>
         /\ \A k \in Key : hstate'[k] # "open"
         /\ h \in Conn =>
              \/ inflight[h] = 0 /\ peer[h] \in {"fin", "finrst", "dead"}
              \/ \E k \in Key : Open(k) /\ localRelay[k] = h]_vars

-----------------------------------------------------------------------------
(* Liveness.                                                               *)

(* After a peer has ended its connection, or a destination could not be     *)
(* connected to, the handler is closed, unless a reset reaches the socket   *)
(* first or the process dies: the error branch of the server returns before *)
(* recv can see the end.                                                    *)
EndedHandlersClose ==
    \A h \in Conn \cup Key :
        (Open(h) /\ peer[h] \in {"fin", "dead"} \cup (IF h \in Key THEN {"unconnected"} ELSE {}))
            ~> (~Open(h) \/ peer[h] = "finrst" \/ crash # "none")

(* main.py takes a --timeout in seconds and handle_periodic is there to     *)
(* close a handler that was idle for longer; nothing registers it.          *)
IdleTunnelCloses ==
    \A c \in Conn :
        (Open(c) /\ peer[c] = "up") ~> (~Open(c) \/ peer[c] # "up" \/ crash # "none")
=============================================================================

----------------------------- MODULE LocalRelay -----------------------------
(* The process started with `main.py --local`: the event loop, and for each *)
(* browser connection b accepted a local handler L(b) on that connection    *)
(* and a remote handler R(b) on a tunnel connection of its own to the       *)
(* server.  The local handler goes through STAGE_INIT (greeting), STAGE_ADDR*)
(* (request, then the DNS lookup) and STAGE_STREAM, in which every read     *)
(* becomes one encrypted frame; the remote handler turns frames back into   *)
(* reads of the browser whose key they carry.                               *)
(*                                                                         *)
(* Browsers follow the protocol: a greeting, after the reply a request,     *)
(* after the second reply data; they may end or reset at any time.          *)
(* Units and cipher places are those of ServerRelay.                        *)
EXTENDS EventLoop

CONSTANTS Conn,      \* browser connections
          Key,       \* keys of source_dest_map
          KeyOf,     \* "src:port<-->addr:port" of a browser connection
          MaxData,   \* bound: units a browser sends as data
          MaxDown,   \* bound: frames the server sends on a tunnel
          MaxEnds    \* bound: sockets whose other end goes away

L(b) == <<"local", b>>
R(b) == <<"remote", b>>
Local == {L(b) : b \in Conn}
Handler == Local \cup {R(b) : b \in Conn}

ASSUME LocalAssumption ==
    /\ Nobody \notin Handler \cup Conn
    /\ KeyOf \in [Conn -> Key]
    /\ Fd \subseteq Nat
    /\ MaxData \in Nat
    /\ MaxDown \in Nat
    /\ MaxEnds \in Nat

HeaderUnits == 2
FrameUnits == 3
RequestUnits == 2   \* the JSON request, which TCP may deliver in two pieces

Event == [sock : Handler, fd : Fd, flags : SUBSET Flag]
UpFrame == [seq : Nat, units : Nat, stale : BOOLEAN]
CrashReason == {"none", "struct.error", "ValueError", "AttributeError",
                "TypeError", "KeyError", "JSONDecodeError"}

VARIABLES
    stage,      \* self.stage of L(b)
    lookup,     \* the resolver's query for L(b): "none", "asked", "answered"
    dnsReady,   \* whether the resolver's socket is in the last poll
    owner,      \* source_dest_map: key -> the connection whose L(b) it names
    dataToSend, \* units in data_to_send of L(b)
    stale,      \* whether they are an encrypted frame that was not sent
    buffered,   \* units in data_to_back of R(b)
    parsed,     \* frames removed from the front of data_to_back
    dec, enc,   \* frames the decipher / the cipher object has processed
    crash,      \* exception that ended run(), or "none"
    said,       \* what the browser has sent: "nothing", "greeting", "request"
    dataSent,   \* units of data the browser has sent
    uplink,     \* frames taken by the tunnel connection of b
    downlink,   \* places in the server's cipher stream of the frames sent to b
    serverEnc,  \* frames the server has encrypted
    received    \* per browser, contents it was sent: <<tunnel, i, all or part>>

loopVars == <<batch, acceptReady, dnsReady>>
fdVars == <<fdmap, fileno, hstate>>
stageVars == <<stage, lookup>>
upVars == <<owner, dataToSend, stale, enc, uplink>>
downVars == <<buffered, parsed, dec, received>>
netVars == <<peer, inflight>>
browserVars == <<said, dataSent>>
serverVars == <<downlink, serverEnc>>
vars == <<loopVars, fdVars, stageVars, upVars, downVars, crash, netVars,
          browserVars, serverVars>>
processVars == <<loopVars, fdVars, stageVars, upVars, downVars, crash>>

TypeOK ==
    /\ batch \subseteq Event /\ acceptReady \in BOOLEAN /\ dnsReady \in BOOLEAN
    /\ fdmap \in [Fd -> Handler \cup {Nobody}]
    /\ fileno \in [Handler -> Fd \cup {NoFd}]
    /\ hstate \in [Handler -> HandlerState]
    /\ stage \in [Conn -> {"INIT", "ADDR", "STREAM"}]
    /\ lookup \in [Conn -> {"none", "asked", "answered"}]
    /\ owner \in [Key -> Conn \cup {Nobody}]
    /\ dataToSend \in [Conn -> Nat] /\ stale \in [Conn -> BOOLEAN]
    /\ buffered \in [Conn -> Nat] /\ parsed \in [Conn -> Nat]
    /\ dec \in Nat /\ enc \in Nat
    /\ crash \in CrashReason
    /\ peer \in [Handler -> PeerState] /\ inflight \in [Handler -> Nat]
    /\ said \in [Conn -> {"nothing", "greeting", "request"}]
    /\ dataSent \in [Conn -> Nat]
    /\ uplink \in [Conn -> Seq(UpFrame)]
    /\ downlink \in [Conn -> Seq(Nat)] /\ serverEnc \in Nat
    /\ received \in [Conn -> Seq(Conn \X Nat \X {"all", "part"})]

Init ==
    /\ batch = {} /\ acceptReady = FALSE /\ dnsReady = FALSE
    /\ fdmap = [f \in Fd |-> Nobody]
    /\ fileno = [h \in Handler |-> NoFd]
    /\ hstate = [h \in Handler |-> "absent"]
    /\ stage = [b \in Conn |-> "INIT"]
    /\ lookup = [b \in Conn |-> "none"]
    /\ owner = [k \in Key |-> Nobody]
    /\ dataToSend = [b \in Conn |-> 0] /\ stale = [b \in Conn |-> FALSE]
    /\ buffered = [b \in Conn |-> 0] /\ parsed = [b \in Conn |-> 0]
    /\ dec = 0 /\ enc = 0
    /\ crash = "none"
    /\ peer = [h \in Handler |-> "none"] /\ inflight = [h \in Handler |-> 0]
    /\ said = [b \in Conn |-> "nothing"]
    /\ dataSent = [b \in Conn |-> 0]
    /\ uplink = [b \in Conn |-> <<>>]
    /\ downlink = [b \in Conn |-> <<>>] /\ serverEnc = 0
    /\ received = [b \in Conn |-> <<>>]

-----------------------------------------------------------------------------
(* Browsers and the server.                                                *)

BrowserConnect(b) ==
    /\ peer[L(b)] = "none"
    /\ peer' = [peer EXCEPT ![L(b)] = "up"]
    /\ UNCHANGED <<processVars, inflight, browserVars, serverVars>>

(* Greeting, request and data, each once the handler is in the stage that   *)
(* the reply to the one before leads to.                                    *)
BrowserSend(b) ==
    /\ peer[L(b)] = "up"
    /\ hstate[L(b)] # "closed"
    /\ \/ /\ said[b] = "nothing"
          /\ said' = [said EXCEPT ![b] = "greeting"]
          /\ inflight' = [inflight EXCEPT ![L(b)] = @ + 1]
          /\ UNCHANGED dataSent
       \/ /\ said[b] = "greeting" /\ stage[b] = "ADDR"
          /\ said' = [said EXCEPT ![b] = "request"]
          /\ inflight' = [inflight EXCEPT ![L(b)] = @ + RequestUnits]
          /\ UNCHANGED dataSent
       \/ /\ stage[b] = "STREAM"
          /\ dataSent[b] < MaxData
          /\ dataSent' = [dataSent EXCEPT ![b] = @ + 1]
          /\ inflight' = [inflight EXCEPT ![L(b)] = @ + 1]
          /\ UNCHANGED said
    /\ UNCHANGED <<processVars, peer, serverVars>>

(* The server answers on the tunnel that brought it a frame of the key.     *)
ServerSend(b) ==
    /\ peer[R(b)] = "up"
    /\ hstate[R(b)] = "open"
    /\ uplink[b] # <<>>
    /\ Len(downlink[b]) < MaxDown
    /\ downlink' = [downlink EXCEPT ![b] = Append(@, serverEnc)]
    /\ serverEnc' = serverEnc + 1
    /\ inflight' = [inflight EXCEPT ![R(b)] = @ + FrameUnits]
    /\ UNCHANGED <<processVars, peer, browserVars>>

(* The answer to the one query of b arrives, or never does.                 *)
DnsArrives(b) ==
    /\ lookup[b] = "asked"
    /\ lookup' = [lookup EXCEPT ![b] = "answered"]
    /\ UNCHANGED <<loopVars, fdVars, stage, upVars, downVars, crash, netVars,
                   browserVars, serverVars>>

Ended(h) == peer[h] \notin {"none", "up"}
MayEnd(h) == Cardinality({g \in Handler : Ended(g)} \cup {h}) <= MaxEnds

PeerFin(h) ==
    /\ peer[h] = "up"
    /\ MayEnd(h)
    /\ hstate[h] # "closed"
    /\ peer' = [peer EXCEPT ![h] = "fin"]
    /\ UNCHANGED <<processVars, inflight, browserVars, serverVars>>

PeerReset(h) ==
    /\ peer[h] \in {"up", "fin"}
    /\ MayEnd(h)
    /\ hstate[h] # "closed"
    /\ peer' = [peer EXCEPT ![h] = IF @ = "up" THEN "rst" ELSE "finrst"]
    /\ UNCHANGED <<processVars, inflight, browserVars, serverVars>>

-----------------------------------------------------------------------------
(* The event loop and the listening socket.                                *)

relayVars == <<stageVars, upVars, downVars, netVars, browserVars, serverVars>>

Pending(b) == peer[L(b)] # "none" /\ hstate[L(b)] = "absent"

Poll ==
    /\ batch = {} /\ ~acceptReady /\ ~dnsReady
    /\ batch' = ReadyEvents
    /\ acceptReady' = (\E b \in Conn : Pending(b))
    /\ dnsReady' = (\E b \in Conn : lookup[b] = "answered")
    /\ (batch' # {} \/ acceptReady' \/ dnsReady')
    /\ UNCHANGED <<fdVars, crash, relayVars>>

FreeFd == FreeBut({})

(* __init__ of L(b) makes the relay socket, connects it to the server and   *)
(* constructs R(b), which is registered first.                              *)
Accept(b) ==
    /\ acceptReady
    /\ Pending(b)
    /\ acceptReady' = FALSE
    /\ \E f, g \in FreeFd :
        /\ IsLowest(f, FreeFd) /\ IsLowest(g, FreeFd \ {f})
        /\ fileno' = [fileno EXCEPT ![L(b)] = f, ![R(b)] = g]
        /\ fdmap' = [fdmap EXCEPT ![f] = L(b), ![g] = R(b)]
    /\ hstate' = [hstate EXCEPT ![L(b)] = "open", ![R(b)] = "open"]
    /\ peer' = [peer EXCEPT ![R(b)] = "up"]
    /\ UNCHANGED <<batch, dnsReady, stageVars, upVars, downVars, crash, inflight,
                   browserVars, serverVars>>

(* No descriptor, or a server that refuses: the handler of the OSError      *)
(* calls self.eventloop.errno_from_exception, which does not exist.         *)
AcceptFails ==
    /\ acceptReady
    /\ acceptReady' = FALSE
    /\ crash' = "AttributeError"
    /\ UNCHANGED <<batch, dnsReady, fdVars, relayVars>>

(* Mutant: a remote handler does not close its local handler.               *)
CloseOne(h) == {h}

(* Mutant: close() without EventLoop.remove().                              *)
CloseUnregistered(h) ==
    /\ fileno' = [g \in Handler |-> IF g = h THEN NoFd ELSE fileno[g]]
    /\ hstate' = [g \in Handler |-> IF g = h THEN "closed" ELSE hstate[g]]
    /\ UNCHANGED fdmap

(* close() on the client: a local handler leaves its remote handler alone.  *)
CloseSet(h) == {h} \cup {L(b) : b \in {c \in Conn : h = R(c) /\ Open(L(c))}}

Close(h) ==
    LET closing == CloseSet(h) IN
    /\ fdmap' = [f \in Fd |-> IF \E g \in closing : fileno[g] = f
                              THEN Nobody ELSE fdmap[f]]
    /\ fileno' = [g \in Handler |-> IF g \in closing THEN NoFd ELSE fileno[g]]
    /\ hstate' = [g \in Handler |-> IF g \in closing THEN "closed" ELSE hstate[g]]

-----------------------------------------------------------------------------
(* socks5_handle on the client: what every event starts with.              *)

EventForNobody(e) ==
    /\ Take(e) /\ UNCHANGED dnsReady
    /\ Target(e) = Nobody
    /\ UNCHANGED <<fdVars, crash, relayVars>>

(* Whichever socket the event was polled for, the handler found is closed.  *)
EventError(e) ==
    /\ Take(e) /\ UNCHANGED dnsReady
    /\ Target(e) # Nobody
    /\ "ERR" \in e.flags
    /\ Close(Target(e))
    /\ UNCHANGED <<crash, relayVars>>

EventHangup(e) ==
    /\ Take(e) /\ UNCHANGED dnsReady
    /\ Target(e) # Nobody
    /\ "ERR" \notin e.flags /\ "HUP" \in e.flags
    /\ UNCHANGED <<fdVars, crash, relayVars>>

Receives(e) == Target(e) # Nobody /\ e.flags = {"IN"}

RecvClosed(e) ==
    /\ Take(e) /\ UNCHANGED dnsReady
    /\ Receives(e)
    /\ ~Open(RecvSock(e))
    /\ UNCHANGED <<fdVars, crash, relayVars>>

RecvError(e) ==
    /\ Take(e) /\ UNCHANGED dnsReady
    /\ Receives(e)
    /\ Open(RecvSock(e))
    /\ inflight[RecvSock(e)] = 0 /\ peer[RecvSock(e)] = "rst"
    /\ peer' = [peer EXCEPT ![RecvSock(e)] = "dead"]
    /\ UNCHANGED <<fdVars, crash, stageVars, upVars, downVars, inflight, browserVars,
                   serverVars>>

(* recv returns n units, or none at the end of the stream.                  *)
Recv(e, h, n) ==
    /\ Take(e) /\ UNCHANGED dnsReady
    /\ Receives(e)
    /\ Target(e) = h
    /\ Open(RecvSock(e))
    /\ \/ n \in 1 .. inflight[RecvSock(e)]
       \/ n = 0 /\ inflight[RecvSock(e)] = 0 /\ peer[RecvSock(e)] \in {"fin", "finrst", "dead"}
    /\ inflight' = [inflight EXCEPT ![RecvSock(e)] = @ - n]

(* What a send to an open or closed handler h does to its socket.           *)
Writable(h) == Open(h) /\ peer[h] \in {"up", "fin"}
AfterSend(h) == IF Open(h) /\ peer[h] \in Broken THEN "dead" ELSE peer[h]

(* STAGE_INIT: whatever recv returned, the method reply is sent.            *)
Greeting(e, b, n) ==
    /\ Recv(e, L(b), n)
    /\ stage[b] = "INIT"
    /\ stage' = [stage EXCEPT ![b] = "ADDR"]
    /\ peer' = [peer EXCEPT ![L(b)] = AfterSend(L(b))]
    /\ UNCHANGED <<fdVars, lookup, upVars, downVars, crash, browserVars, serverVars>>

(* STAGE_ADDR: the end of the stream or a part of the request is not JSON.  *)
RequestGarbled(e, b, n) ==
    /\ Recv(e, L(b), n)
    /\ stage[b] = "ADDR"
    /\ n < RequestUnits
    /\ dataToSend' = [dataToSend EXCEPT ![b] = 0]
    /\ crash' = "JSONDecodeError"
    /\ UNCHANGED <<fdVars, stageVars, owner, stale, enc, uplink, downVars, peer,
                   browserVars, serverVars>>

(* dnsresolver_callback with an address: the reply is sent, and the handler *)
(* closed if that fails.  On a closed handler close() raises KeyError.      *)
Resolved(b) ==
    /\ stage' = [stage EXCEPT ![b] = "STREAM"]
    /\ peer' = [peer EXCEPT ![L(b)] = AfterSend(L(b))]
    /\ \/ Writable(L(b)) /\ UNCHANGED <<fdVars, crash>>
       \/ Open(L(b)) /\ ~Writable(L(b)) /\ Close(L(b)) /\ UNCHANGED crash
       \/ ~Open(L(b)) /\ crash' = "KeyError" /\ UNCHANGED fdVars

(* A complete request.  The resolver answers at once from hosts or cache,   *)
(* refuses the name with a result of None, raises OSError because the query *)
(* cannot be sent, or keeps the callback.                                   *)
Request(e, b, n) ==
    /\ Recv(e, L(b), n)
    /\ stage[b] = "ADDR"
    /\ n = RequestUnits
    /\ dataToSend' = [dataToSend EXCEPT ![b] = 0]
    /\ \/ Resolved(b) /\ UNCHANGED lookup
       \/ crash' = "TypeError" /\ UNCHANGED <<fdVars, stageVars, peer>>
       \/ UNCHANGED <<fdVars, crash, stageVars, peer>>
       \/ lookup' = [lookup EXCEPT ![b] = "asked"] /\ UNCHANGED <<fdVars, crash, stage, peer>>
    /\ UNCHANGED <<owner, stale, enc, uplink, downVars, browserVars, serverVars>>

(* The resolver's socket, dispatched in any order with the other events of  *)
(* the poll: an address, or an error that the callback raises again.        *)
DnsAnswer(b) ==
    /\ dnsReady /\ dnsReady' = FALSE
    /\ lookup[b] = "answered"
    /\ lookup' = [lookup EXCEPT ![b] = "none"]
    /\ \/ Resolved(b)
       \/ crash' = "AttributeError" /\ UNCHANGED <<fdVars, stage, peer>>
    /\ UNCHANGED <<batch, acceptReady, upVars, downVars, inflight, browserVars, serverVars>>

(* Mutant: only a remote handler closes at the end of its stream.           *)
StreamEndOfTunnel(e, h) ==
    /\ Recv(e, h, 0)
    /\ h \notin Local
    /\ Close(h)
    /\ UNCHANGED <<stageVars, upVars, downVars, crash, peer, browserVars, serverVars>>

(* An empty read in STAGE_STREAM, or of a remote handler.                   *)
StreamEnd(e, h) ==
    /\ Recv(e, h, 0)
    /\ h \in Local => \E b \in Conn : h = L(b) /\ stage[b] = "STREAM"
    /\ Close(h)
    /\ UNCHANGED <<stageVars, upVars, downVars, crash, peer, browserVars, serverVars>>

-----------------------------------------------------------------------------
(* From the browser to the server: update_stream.                          *)

(* Mutant: data_to_send keeps the frame that was sent.                      *)
FrameTakenKept(b, n) ==
    /\ uplink' = [uplink EXCEPT ![b] = Append(@,
                     [seq |-> enc, units |-> dataToSend[b] + n, stale |-> stale[b]])]
    /\ dataToSend' = [dataToSend EXCEPT ![b] = @ + n]
    /\ UNCHANGED stale

FrameTaken(b, n) ==
    /\ uplink' = [uplink EXCEPT ![b] = Append(@,
                     [seq |-> enc, units |-> dataToSend[b] + n, stale |-> stale[b]])]
    /\ dataToSend' = [dataToSend EXCEPT ![b] = 0]
    /\ stale' = [stale EXCEPT ![b] = FALSE]

(* send() raised: data_to_send now holds the encrypted frame.               *)
FrameLeft(b, n) ==
    /\ dataToSend' = [dataToSend EXCEPT ![b] = @ + n]
    /\ stale' = [stale EXCEPT ![b] = TRUE]
    /\ UNCHANGED uplink

(* The first connection with a key is entered, and never replaced.          *)
Own(b) ==
    owner' = [owner EXCEPT ![KeyOf[b]] = IF @ = Nobody THEN b ELSE @]

StreamData(e, b, n) ==
    /\ Recv(e, L(b), n)
    /\ stage[b] = "STREAM" /\ n > 0
    /\ enc' = enc + 1
    /\ Own(b)
    /\ IF Writable(R(b)) THEN FrameTaken(b, n) ELSE FrameLeft(b, n)
    /\ peer' = [peer EXCEPT ![R(b)] = AfterSend(R(b))]
    /\ UNCHANGED <<fdVars, stageVars, downVars, crash, browserVars, serverVars>>

-----------------------------------------------------------------------------
(* From the server to the browser: decryptoSendBack, one frame per event.  *)

TunnelData(e, b, n) == n > 0 /\ Recv(e, R(b), n)

PrefixCut(e, b, n) ==
    /\ TunnelData(e, b, n)
    /\ buffered[b] + n < HeaderUnits
    /\ buffered' = [buffered EXCEPT ![b] = @ + n]
    /\ crash' = "struct.error"
    /\ UNCHANGED <<fdVars, stageVars, upVars, parsed, dec, received, peer, browserVars,
                   serverVars>>

FrameIncomplete(e, b, n) ==
    /\ TunnelData(e, b, n)
    /\ buffered[b] + n \in HeaderUnits .. FrameUnits - 1
    /\ buffered' = [buffered EXCEPT ![b] = @ + n]
    /\ UNCHANGED <<fdVars, stageVars, upVars, parsed, dec, received, crash, peer,
                   browserVars, serverVars>>

(* Mutant: a cipher without state.                                          *)
AnySeq(b) == dec

FrontSeq(b) == downlink[b][parsed[b] + 1]

FrameGarbled(e, b, n) ==
    /\ TunnelData(e, b, n)
    /\ buffered[b] + n >= FrameUnits
    /\ FrontSeq(b) # dec
    /\ buffered' = [buffered EXCEPT ![b] = @ + n]
    /\ dec' = dec + 1
    /\ crash' = "ValueError"
    /\ UNCHANGED <<fdVars, stageVars, upVars, parsed, received, peer, browserVars,
                   serverVars>>

FramePassed(b, n, t, taken) ==
    /\ received' = [received EXCEPT ![t] = Append(@, <<b, parsed[b] + 1, taken>>)]
    /\ buffered' = [buffered EXCEPT ![b] = @ + n - FrameUnits]
    /\ parsed' = [parsed EXCEPT ![b] = @ + 1]

(* send() raised: the frame stays although it has been deciphered.          *)
FrameKept(b, n) ==
    /\ buffered' = [buffered EXCEPT ![b] = @ + n]
    /\ UNCHANGED <<parsed, received>>

(* The frame goes to the handler that source_dest_map has for its key: the  *)
(* first that used the key, open or not.  There is one: the server answers  *)
(* on a tunnel that has brought it a frame of the key.                      *)
(* The browser's socket takes all of it, a part (send's result is not       *)
(* looked at) or nothing (EAGAIN).                                          *)
FrameBack(e, b, n, taken) ==
    LET t == owner[KeyOf[b]] IN
    /\ TunnelData(e, b, n)
    /\ buffered[b] + n >= FrameUnits
    /\ FrontSeq(b) = dec
    /\ dec' = dec + 1
    /\ t # Nobody
    /\ taken # "none" => Writable(L(t))
    /\ IF taken = "none" THEN FrameKept(b, n) ELSE FramePassed(b, n, t, taken)
    /\ peer' = [peer EXCEPT ![L(t)] = AfterSend(L(t))]
    /\ UNCHANGED <<fdVars, stageVars, upVars, crash, browserVars, serverVars>>

-----------------------------------------------------------------------------
Dispatch(e) ==
    \/ EventForNobody(e) \/ EventError(e) \/ EventHangup(e)
    \/ RecvClosed(e) \/ RecvError(e)
    \/ \E h \in Handler : StreamEnd(e, h)
    \/ \E b \in Conn : \E n \in 0 .. inflight[RecvSock(e)] :
          \/ Greeting(e, b, n) \/ RequestGarbled(e, b, n) \/ Request(e, b, n)
          \/ StreamData(e, b, n)
          \/ PrefixCut(e, b, n) \/ FrameIncomplete(e, b, n) \/ FrameGarbled(e, b, n)
          \/ \E taken \in {"all", "part", "none"} : FrameBack(e, b, n, taken)

LoopStep ==
    /\ crash = "none"
    /\ \/ Poll
       \/ \E b \in Conn : Accept(b) \/ DnsAnswer(b)
       \/ AcceptFails
       \/ \E e \in batch : Dispatch(e)

WorldStep ==
    /\ crash = "none"
    /\ \/ \E b \in Conn : BrowserConnect(b) \/ BrowserSend(b) \/ ServerSend(b)
       \/ \E b \in Conn : DnsArrives(b)
       \/ \E h \in Handler : PeerFin(h) \/ PeerReset(h)

Next == LoopStep \/ WorldStep

Spec == Init /\ [][Next]_vars

LoopSpec == Spec /\ WF_vars(LoopStep)

-----------------------------------------------------------------------------
(* Safety.                                                                 *)

(* _fdmap, the descriptors of the sockets and self.closed agree, whichever  *)
(* of the pair is closed first and whoever gets the descriptor next.        *)
RegistrationExact ==
    /\ \A h \in Handler : Open(h) <=> fileno[h] # NoFd
    /\ \A f \in Fd, h \in Handler : fdmap[f] = h <=> fileno[h] = f

(* A local handler is never left without its tunnel: update_stream sends on *)
(* self.remote_sock without looking.                                        *)
OpenLocalHasOpenRemote ==
    \A b \in Conn : Open(L(b)) => Open(R(b))

(* The frames a tunnel has taken are the browser's data, each unit once and *)
(* none of it encrypted twice: a frame that could not be sent stays in      *)
(* data_to_send, and whatever is read later is added to it, but no later    *)
(* send succeeds.  taken[i] is the sum of the units of the first i frames.  *)
UplinkExact ==
    \A b \in Conn :
        /\ \A i \in 1 .. Len(uplink[b]) : ~uplink[b][i].stale
        /\ stage[b] = "STREAM" =>
             \E taken \in [0 .. Len(uplink[b]) -> 0 .. dataSent[b]] :
                /\ taken[0] = 0
                /\ \A i \in 1 .. Len(uplink[b]) :
                      taken[i] = taken[i - 1] + uplink[b][i].units
                /\ dataSent[b] = inflight[L(b)] + dataToSend[b] + taken[Len(uplink[b])]

(* A browser is sent what the server encrypted in that order, each content  *)
(* at most once, and only contents of its own key.                          *)
DownlinkInStreamOrder ==
    \A b \in Conn :
        /\ \A i \in 1 .. Len(received[b]) : KeyOf[received[b][i][1]] = KeyOf[b]
        /\ \A i, j \in 1 .. Len(received[b]) : i < j =>
             downlink[received[b][i][1]][received[b][i][2]]
               < downlink[received[b][j][1]][received[b][j][2]]

(* The process dies of a garbled frame only if an earlier one is still on   *)
(* its way on another tunnel, or the frame was deciphered before and kept   *)
(* because no browser's socket took any of it.                              *)
GarbledOnlyByOvertakingOrKeeping ==
    crash = "ValueError" => \E b \in Conn :
        /\ parsed[b] < Len(downlink[b])
        /\ IF FrontSeq(b) < dec - 1
           THEN \A d \in Conn : \A i \in 1 .. Len(received[d]) :
                    <<received[d][i][1], received[d][i][2]>> # <<b, parsed[b] + 1>>
           ELSE \E d \in Conn \ {b} : \E i \in parsed[d] + 1 .. Len(downlink[d]) :
                    downlink[d][i] < FrontSeq(b)

(* The two together: what comes of one cipher stream on many tunnels.       *)
StreamKept == DownlinkInStreamOrder /\ GarbledOnlyByOvertakingOrKeeping

-----------------------------------------------------------------------------
(* Liveness.                                                               *)

(* A browser that ends its connection after the reply loses its handler,    *)
(* and a tunnel that the server ends takes both handlers with it, unless    *)
(* the socket has already reported an error to a send.                      *)
EndedHandlersClose ==
    \A b \in Conn :
        /\ (Open(L(b)) /\ stage[b] = "STREAM" /\ peer[L(b)] \in {"fin"} \cup Broken)
             ~> (~Open(L(b)) \/ peer[L(b)] = "dead" \/ crash # "none")
        /\ (Open(R(b)) /\ peer[R(b)] \in {"fin"} \cup Broken)
             ~> ((~Open(R(b)) /\ ~Open(L(b))) \/ peer[R(b)] = "dead" \/ crash # "none")

(* README.md, todo 2: when the client ends its connection the server has to *)
(* be told to end its own, which the tunnel's end would do.                 *)
BrowserEndEndsTunnel ==
    \A b \in Conn : (hstate[L(b)] = "closed") ~> (~Open(R(b)) \/ crash # "none")
=============================================================================

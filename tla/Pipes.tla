---------------------------------- MODULE Pipes ---------------------------------
(* The client process and the server process together, with the browsers, the  *)
(* destinations and the tunnels between them; either process may end and be    *)
(* started again.  Browser connection b has the local handler L(b) and the     *)
(* remote handler R(b) on the client, and on the server the handler T(b) of    *)
(* its tunnel and the handler D(b) of its destination.  The modules LocalRelay *)
(* and ServerRelay have each process in detail; here a frame is whole and the  *)
(* handshake with the browser is over, and what is kept is what crosses from   *)
(* one process to the other: frames, places in the cipher streams, and ends.   *)
EXTENDS Naturals, Sequences, FiniteSets

CONSTANTS
    Conns,       \* browser connections
    MaxStarts,   \* bound: times the two processes are started
    MaxSent,     \* bound: frames a life of the client makes
    MaxAnswers   \* bound: frames a life of the server makes

ASSUME PipesAssumption ==
    /\ MaxStarts \in Nat
    /\ MaxSent \in Nat
    /\ MaxAnswers \in Nat

VARIABLES
    client,     \* the client process: running, its life, cipher and decipher
    server,     \* the server process
    made,       \* handlers that were ever created
    open,       \* handlers that are not closed
    startups,   \* client lives whose start-up connection the server holds
    reset,      \* tunnels whose remaining end has POLL_ERR
    up,         \* per tunnel, frames the server has not handled
    upRead,     \* how many of them are in T(b).data_to_send
    down,       \* per tunnel, frames the client has not handled
    downRead,   \* how many of them are in R(b).data_to_back
    sent,       \* per connection, reads of the browser so far
    answered,   \* per connection, reads of the destination so far
    delivered,  \* per connection, contents the destination was sent
    got,        \* per connection, contents the browser was sent
    served,     \* <<client life, server life>> of delivered contents
    causes      \* what went wrong outside the programs so far

wires == <<up, upRead, down, downRead>>
ends == <<sent, answered, delivered, got>>
vars == <<client, server, made, open, startups, reset, wires, ends, served, causes>>

L(b) == <<"L", b>>
R(b) == <<"R", b>>
T(b) == <<"T", b>>
D(b) == <<"D", b>>
ClientHandler == {L(b) : b \in Conns} \cup {R(b) : b \in Conns}
ServerHandler == {T(b) : b \in Conns} \cup {D(b) : b \in Conns}
Life == 1 .. MaxStarts

(* A decipher object is None, follows the stream of a life of the other        *)
(* process, or was fed bytes that were not the next of it.                     *)
None == [life |-> 0, next |-> 0]
Spoiled == [life |-> 0, next |-> 1]

Process == [running : BOOLEAN, life : Nat, enc : Nat,
            dec : [life : Nat, next : Nat]]
Frame == [life : Nat, seq : Nat, item : Nat, whole : BOOLEAN]
Bad == 0    \* content other than what the destination sent

TypeOK ==
    /\ client \in Process
    /\ server \in Process
    /\ made \subseteq ClientHandler \cup ServerHandler
    /\ open \subseteq made
    /\ startups \subseteq Nat
    /\ reset \subseteq Conns
    /\ up \in [Conns -> Seq(Frame)]
    /\ down \in [Conns -> Seq(Frame)]
    /\ upRead \in [Conns -> Nat]
    /\ downRead \in [Conns -> Nat]
    /\ sent \in [Conns -> Nat]
    /\ answered \in [Conns -> Nat]
    /\ delivered \in [Conns -> Seq(Nat)]
    /\ got \in [Conns -> Seq(Nat)]
    /\ served \subseteq Nat \X Nat
    /\ causes \subseteq {"kill", "kept", "part"}

NotStarted == [running |-> FALSE, life |-> 0, enc |-> 0, dec |-> None]

Init ==
    /\ client = NotStarted
    /\ server = NotStarted
    /\ made = {}
    /\ open = {}
    /\ startups = {}
    /\ reset = {}
    /\ up = [b \in Conns |-> <<>>]
    /\ down = [b \in Conns |-> <<>>]
    /\ upRead = [b \in Conns |-> 0]
    /\ downRead = [b \in Conns |-> 0]
    /\ sent = [b \in Conns |-> 0]
    /\ answered = [b \in Conns |-> 0]
    /\ delivered = [b \in Conns |-> <<>>]
    /\ got = [b \in Conns |-> <<>>]
    /\ served = {}
    /\ causes = {}

-----------------------------------------------------------------------------
(* Ends of handlers and of processes.                                          *)

(* The handlers in closing are closed, and what their sockets held is gone.    *)
Closes(closing) ==
    /\ open' = open \ closing
    /\ up' = [b \in Conns |-> IF T(b) \in closing THEN <<>> ELSE up[b]]
    /\ upRead' = [b \in Conns |-> IF T(b) \in closing THEN 0 ELSE upRead[b]]
    /\ down' = [b \in Conns |-> IF R(b) \in closing THEN <<>> ELSE down[b]]
    /\ downRead' = [b \in Conns |-> IF R(b) \in closing THEN 0 ELSE downRead[b]]

(* close() on the server: with any handler go all the destinations, and with   *)
(* each of them the tunnel that created it.                                    *)
ServerCloseSet(own) ==
    own \cup {D(b) : b \in Conns}
        \cup {T(b) : b \in {a \in Conns : D(a) \in open}}

(* The process ends: the kernel closes its sockets.                            *)
ServerStops ==
    /\ server' = [server EXCEPT !.running = FALSE]
    /\ Closes(ServerHandler)
    /\ startups' = {}

ClientStops ==
    /\ client' = [client EXCEPT !.running = FALSE]
    /\ Closes(ClientHandler)

-----------------------------------------------------------------------------
(* main.py: Initer and exit_handler.                                           *)

(* A new Encryptor: its IV has not been sent and it has no decipher object.    *)
Started(p) == [running |-> TRUE, life |-> p.life + 1, enc |-> 0, dec |-> None]

ServerStarts ==
    /\ ~server.running
    /\ client.life + server.life < MaxStarts
    /\ server' = Started(server)
    /\ UNCHANGED <<client, made, open, startups, reset, wires, ends, served, causes>>

(* Initer connects to the server before anything else and keeps that           *)
(* connection; without a server the client does not start.                     *)
ClientStarts ==
    /\ ~client.running
    /\ server.running
    /\ client.life + server.life < MaxStarts
    /\ client' = Started(client)
    /\ startups' = startups \cup {client.life + 1}
    /\ UNCHANGED <<server, made, open, reset, wires, ends, served, causes>>

(* A signal; destory() finds nothing in handle_to_handle.                      *)
ServerKilled ==
    /\ server.running
    /\ ServerStops
    /\ causes' = causes \cup {"kill"}
    /\ UNCHANGED <<client, made, reset, ends, served>>

ClientKilled ==
    /\ client.running
    /\ ClientStops
    /\ causes' = causes \cup {"kill"}
    /\ UNCHANGED <<server, made, startups, reset, ends, served>>

(* The server sees the end of the start-up connection of a client that is gone *)
(* and closes it, as it does any tunnel.                                       *)
StartupEnds(life) ==
    /\ server.running
    /\ life \in startups
    /\ ~(client.running /\ client.life = life)
    /\ startups' = startups \ {life}
    /\ Closes(ServerCloseSet({}))
    /\ UNCHANGED <<client, server, made, reset, ends, served, causes>>

-----------------------------------------------------------------------------
(* Connections.                                                                *)

(* The client accepts a browser and connects a tunnel for it.                  *)
BrowserOpens(b) ==
    /\ client.running
    /\ server.running
    /\ L(b) \notin made
    /\ made' = made \cup {L(b), R(b), T(b)}
    /\ open' = open \cup {L(b), R(b), T(b)}
    /\ UNCHANGED <<client, server, startups, reset, wires, ends, served, causes>>

(* connect() is refused inside TCPRelay.handle_event, whose handler of the     *)
(* OSError raises an AttributeError: the client ends.                          *)
BrowserRefused(b) ==
    /\ client.running
    /\ ~server.running
    /\ L(b) \notin made
    /\ ClientStops
    /\ made' = made \cup {L(b)}
    /\ UNCHANGED <<server, startups, reset, ends, served, causes>>

(* The browser leaves; close() of L(b) on the client closes L(b) only.         *)
BrowserEnds(b) ==
    /\ L(b) \in open
    /\ Closes({L(b)})
    /\ UNCHANGED <<client, server, made, startups, reset, ends, served, causes>>

(* The destination leaves, or D(b) was never connected: POLL_HUP.              *)
DestinationEnds(b) ==
    /\ D(b) \in open
    /\ Closes(ServerCloseSet({D(b)}))
    /\ UNCHANGED <<client, server, made, startups, reset, ends, served, causes>>

(* T(b) reads the end of its tunnel.                                           *)
TunnelEndsAtServer(b) ==
    /\ T(b) \in open
    /\ R(b) \notin open
    /\ b \notin reset
    /\ Len(up[b]) = upRead[b]
    /\ Closes(ServerCloseSet({T(b)}))
    /\ UNCHANGED <<client, server, made, startups, reset, ends, served, causes>>

(* R(b) reads the end of its tunnel, or has POLL_ERR: it takes L(b) with it.   *)
TunnelEndsAtClient(b) ==
    /\ R(b) \in open
    /\ T(b) \notin open
    /\ b \in reset \/ Len(down[b]) = downRead[b]
    /\ Closes({R(b), L(b)})
    /\ UNCHANGED <<client, server, made, startups, reset, ends, served, causes>>

(* The kernel of a closed end answers what it was still sent with a reset.     *)
TunnelResets(b) ==
    /\ b \notin reset
    /\ (R(b) \in open) # (T(b) \in open)
    /\ reset' = reset \cup {b}
    /\ UNCHANGED <<client, server, made, open, startups, wires, ends, served, causes>>

-----------------------------------------------------------------------------
(* Frames.                                                                     *)

(* Mutant: the IV is taken from whatever frame comes first.                    *)
InStepAnyIV(f, dec) ==
    \/ dec = None
    \/ f.life = dec.life /\ f.seq = dec.next

(* decrypt() of f gives its plain text: f is the beginning of a stream and     *)
(* brings its IV, or is the next of the stream that is followed.  Otherwise    *)
(* the metadata is damaged and json.loads raises a ValueError.                 *)
InStep(f, dec) ==
    \/ dec = None /\ f.seq = 0
    \/ f.life = dec.life /\ f.seq = dec.next

After(f) == [life |-> f.life, next |-> f.seq + 1]

(* Mutant: data_to_send is not emptied after a read that was sent.             *)
UplinkFrameAgain(b) ==
    [life |-> client.life, seq |-> client.enc, whole |-> TRUE,
     item |-> IF sent[b] = 0 THEN 1 ELSE sent[b]]

UplinkFrame(b) ==
    [life |-> client.life, seq |-> client.enc, whole |-> TRUE, item |-> sent[b] + 1]

(* L(b) reads its browser and writes one frame to the tunnel; it is lost when  *)
(* the other end has gone, and its place in the stream is used all the same.   *)
BrowserSends(b) ==
    /\ L(b) \in open
    /\ client.enc < MaxSent
    /\ sent' = [sent EXCEPT ![b] = @ + 1]
    /\ client' = [client EXCEPT !.enc = @ + 1]
    /\ up' = [up EXCEPT ![b] = IF T(b) \in open THEN Append(@, UplinkFrame(b)) ELSE @]
    /\ UNCHANGED <<server, made, open, startups, reset, upRead, down, downRead,
                   answered, delivered, got, served, causes>>

(* T(b) receives n frames more and turns to the first of those it has.         *)
TunnelReads(b, n) ==
    /\ T(b) \in open
    /\ b \notin reset
    /\ n > 0
    /\ upRead[b] + n <= Len(up[b])

(* Mutant: data_to_send is emptied whatever it holds behind the frame.         *)
FrameDeliveredEmpties(b, n) ==
    LET f == Head(up[b]) IN
    /\ TunnelReads(b, n)
    /\ InStep(f, server.dec)
    /\ server' = [server EXCEPT !.dec = After(f)]
    /\ up' = [up EXCEPT ![b] = SubSeq(@, upRead[b] + n + 1, Len(@))]
    /\ upRead' = [upRead EXCEPT ![b] = 0]
    /\ made' = made \cup {D(b)}
    /\ open' = open \cup {D(b)}
    /\ delivered' = [delivered EXCEPT ![b] = Append(@, f.item)]
    /\ served' = served \cup {<<f.life, server.life>>}
    /\ UNCHANGED <<client, startups, reset, down, downRead, sent, answered, got, causes>>

(* Deciphered and sent to the destination, which the first frame connects to.  *)
FrameDelivered(b, n) ==
    LET f == Head(up[b]) IN
    /\ TunnelReads(b, n)
    /\ InStep(f, server.dec)
    /\ server' = [server EXCEPT !.dec = After(f)]
    /\ up' = [up EXCEPT ![b] = Tail(@)]
    /\ upRead' = [upRead EXCEPT ![b] = @ + n - 1]
    /\ made' = made \cup {D(b)}
    /\ open' = open \cup {D(b)}
    /\ delivered' = [delivered EXCEPT ![b] = Append(@, f.item)]
    /\ served' = served \cup {<<f.life, server.life>>}
    /\ UNCHANGED <<client, startups, reset, down, downRead, sent, answered, got, causes>>

(* connect() or send() raised: the frame was deciphered and stays.             *)
FrameKept(b, n) ==
    LET f == Head(up[b]) IN
    /\ TunnelReads(b, n)
    /\ InStep(f, server.dec)
    /\ server' = [server EXCEPT !.dec = After(f)]
    /\ upRead' = [upRead EXCEPT ![b] = @ + n]
    /\ made' = made \cup {D(b)}
    /\ open' = open \cup {D(b)}
    /\ causes' = causes \cup {"kept"}
    /\ UNCHANGED <<client, startups, reset, up, down, downRead, ends, served>>

FrameGarbled(b, n) ==
    /\ TunnelReads(b, n)
    /\ ~InStep(Head(up[b]), server.dec)
    /\ ServerStops
    /\ UNCHANGED <<client, made, reset, ends, served, causes>>

-----------------------------------------------------------------------------
(* Frames of the other direction.                                              *)

(* D(b) reads its destination and sends one frame to its tunnel, whose socket  *)
(* does not block: it takes all of the frame, a part of it or nothing.         *)
DestinationSends(b, takes) ==
    LET f == [life |-> server.life, seq |-> server.enc, whole |-> takes = "all",
              item |-> answered[b] + 1] IN
    /\ D(b) \in open
    /\ delivered[b] # <<>>
    /\ server.enc < MaxAnswers
    /\ answered' = [answered EXCEPT ![b] = @ + 1]
    /\ server' = [server EXCEPT !.enc = @ + 1]
    /\ down' = [down EXCEPT ![b] = IF R(b) \in open /\ takes # "none"
                                   THEN Append(@, f) ELSE @]
    /\ causes' = IF takes = "all" THEN causes ELSE causes \cup {"part"}
    /\ UNCHANGED <<client, made, open, startups, reset, up, upRead, downRead,
                   sent, delivered, got, served>>

(* R(b) receives n frames more.                                                *)
AnswerReads(b, n) ==
    /\ R(b) \in open
    /\ b \notin reset
    /\ n > 0
    /\ downRead[b] + n <= Len(down[b])

AnswerPassed(b, n) ==
    LET f == Head(down[b]) IN
    /\ AnswerReads(b, n)
    /\ f.whole
    /\ InStep(f, client.dec)
    /\ L(b) \in open
    /\ client' = [client EXCEPT !.dec = After(f)]
    /\ down' = [down EXCEPT ![b] = Tail(@)]
    /\ downRead' = [downRead EXCEPT ![b] = @ + n - 1]
    /\ got' = [got EXCEPT ![b] = Append(@, f.item)]
    /\ UNCHANGED <<server, made, open, startups, reset, up, upRead, sent, answered,
                   delivered, served, causes>>

(* send() to the browser raised: L(b) is closed, or its socket takes nothing.  *)
AnswerKept(b, n) ==
    LET f == Head(down[b]) IN
    /\ AnswerReads(b, n)
    /\ f.whole \/ downRead[b] + n > 1
    /\ InStep(f, client.dec)
    /\ client' = [client EXCEPT !.dec = IF f.whole THEN After(f) ELSE Spoiled]
    /\ downRead' = [downRead EXCEPT ![b] = @ + n]
    /\ causes' = causes \cup {"kept"}
    /\ UNCHANGED <<server, made, open, startups, reset, up, upRead, down, ends, served>>

AnswerGarbled(b, n) ==
    /\ AnswerReads(b, n)
    /\ Head(down[b]).whole => ~InStep(Head(down[b]), client.dec)
    /\ ClientStops
    /\ UNCHANGED <<server, made, startups, reset, ends, served, causes>>

(* The front of data_to_back is a part of a frame: the client waits for the    *)
(* length its prefix gives.                                                    *)
AnswerAwaited(b, n) ==
    /\ AnswerReads(b, n)
    /\ ~Head(down[b]).whole
    /\ downRead' = [downRead EXCEPT ![b] = @ + n]
    /\ UNCHANGED <<client, server, made, open, startups, reset, up, upRead, down,
                   ends, served, causes>>

(* Mutant: the part is taken for a frame of its own.                           *)
AnswerCutShort(b, n) ==
    LET f == Head(down[b]) IN
    /\ AnswerReads(b, n)
    /\ ~f.whole
    /\ downRead[b] + n > 1
    /\ InStep(f, client.dec)
    /\ L(b) \in open
    /\ got' = [got EXCEPT ![b] = Append(@, Bad)]
    /\ client' = [client EXCEPT !.dec = After(f)]
    /\ down' = [down EXCEPT ![b] = Tail(@)]
    /\ downRead' = [downRead EXCEPT ![b] = @ + n - 1]
    /\ UNCHANGED <<server, made, open, startups, reset, up, upRead, sent, answered,
                   delivered, served, causes>>

(* What the part lacks is taken from the frame behind it: the metadata was in  *)
(* the part, the content is not what was sent, and what is left of the frame   *)
(* behind begins with no prefix.                                               *)
AnswerMixed(b, n) ==
    LET f == Head(down[b]) IN
    /\ AnswerReads(b, n)
    /\ ~f.whole
    /\ downRead[b] + n > 1
    /\ InStep(f, client.dec)
    /\ L(b) \in open
    /\ got' = [got EXCEPT ![b] = Append(@, Bad)]
    /\ client' = [client EXCEPT !.dec = Spoiled]
    /\ down' = [down EXCEPT ![b] = <<[@[2] EXCEPT !.whole = FALSE]>> \o Tail(Tail(@))]
    /\ downRead' = [downRead EXCEPT ![b] = @ + n - 1]
    /\ UNCHANGED <<server, made, open, startups, reset, up, upRead, sent, answered,
                   delivered, served, causes>>

-----------------------------------------------------------------------------
Next ==
    \/ ServerStarts \/ ClientStarts \/ ServerKilled \/ ClientKilled
    \/ \E life \in Life : StartupEnds(life)
    \/ \E b \in Conns :
        \/ BrowserOpens(b) \/ BrowserRefused(b) \/ BrowserEnds(b)
        \/ DestinationEnds(b) \/ TunnelEndsAtServer(b) \/ TunnelEndsAtClient(b)
        \/ TunnelResets(b) \/ BrowserSends(b)
        \/ \E takes \in {"all", "part", "none"} : DestinationSends(b, takes)
        \/ \E n \in 1 .. MaxSent :
            FrameDelivered(b, n) \/ FrameKept(b, n) \/ FrameGarbled(b, n)
        \/ \E n \in 1 .. MaxAnswers :
            \/ AnswerPassed(b, n) \/ AnswerKept(b, n) \/ AnswerGarbled(b, n)
            \/ AnswerAwaited(b, n) \/ AnswerMixed(b, n)

Spec == Init /\ [][Next]_vars

-----------------------------------------------------------------------------
(* Properties.                                                                 *)

(* One server life hands on data of one client life only, and the data of one  *)
(* client life reach destinations through one server life only: after either   *)
(* process was restarted nothing passes until the other one was as well        *)
(* (tcprelay.py 111, crypto.py 119-130).                                       *)
LivesPaired ==
    \A p, q \in served : p[1] = q[1] <=> p[2] = q[2]

(* Left to themselves both processes go on: they end only if one of them was   *)
(* killed, a send or connect failed, a frame was sent in part, or frames of    *)
(* two connections could overtake each other (tcprelay.py 263, 300, 475).      *)
EndsOnlyForCause ==
    (causes = {} /\ Cardinality({b \in Conns : L(b) \in made}) <= 1) =>
        /\ server.life > 0 => server.running
        /\ client.life > 0 => client.running

(* What destinations were sent is what the browsers sent, in order and once,   *)
(* for as long as the tunnel is open and never after it (tcprelay.py 286-349). *)
UpPipe == INSTANCE Pipe WITH
    src <- sent,
    dst <- delivered,
    cut <- {b \in Conns : T(b) \in made \ open}
ImplementsUpPipe == UpPipe!PipeSpec

(* The same of the answers, until the first one whose frame was sent in part:  *)
(* what the browser is sent in its place is the last thing it gets             *)
(* (tcprelay.py 252-283, 353-367).                                             *)
WasMixed(b) == \E i \in 1 .. Len(got[b]) : got[b][i] = Bad
Passed(b) == IF WasMixed(b) THEN SubSeq(got[b], 1, Len(got[b]) - 1) ELSE got[b]
DownPipe == INSTANCE Pipe WITH
    src <- answered,
    dst <- [b \in Conns |-> Passed(b)],
    cut <- {b \in Conns : L(b) \in made \ open \/ WasMixed(b)}
ImplementsDownPipe == DownPipe!PipeSpec
=================================================================================

------------------------------ MODULE Pipes_proofs ------------------------------
(* Theorems about Pipes, for any number of connections, starts and frames.     *)
EXTENDS Pipes, FiniteSetTheorems, TLAPS

-----------------------------------------------------------------------------
(* Types.                                                                      *)

LEMMA TypeInit == ASSUME Init PROVE TypeOK
<1>1. client \in Process /\ server \in Process
  BY DEF Init, NotStarted, None, Process
<1>2. up \in [Conns -> Seq(Frame)] /\ down \in [Conns -> Seq(Frame)]
  BY DEF Init
<1>3. delivered \in [Conns -> Seq(Nat)] /\ got \in [Conns -> Seq(Nat)]
  BY DEF Init
<1>. QED BY <1>1, <1>2, <1>3 DEF Init, TypeOK

LEMMA ProcessChanges ==
    ASSUME NEW p \in Process
    PROVE  /\ [p EXCEPT !.running = FALSE] \in Process
           /\ [p EXCEPT !.enc = p.enc + 1] \in Process
           /\ \A d \in [life : Nat, next : Nat] : [p EXCEPT !.dec = d] \in Process
           /\ p.life \in Nat /\ p.enc \in Nat
<1>1. p.life \in Nat /\ p.enc \in Nat /\ p.enc + 1 \in Nat
  BY DEF Process
<1>2. [p EXCEPT !.running = FALSE] \in Process
  BY DEF Process
<1>3. [p EXCEPT !.enc = p.enc + 1] \in Process
  BY <1>1 DEF Process
<1>4. ASSUME NEW d \in [life : Nat, next : Nat] PROVE [p EXCEPT !.dec = d] \in Process
  BY DEF Process
<1>. QED BY <1>1, <1>2, <1>3, <1>4

LEMMA StartedType == ASSUME NEW p \in Process PROVE Started(p) \in Process
BY DEF Started, None, Process

(* Closing handlers keeps the types of what it changes.                        *)
LEMMA ClosesType ==
    ASSUME TypeOK, NEW S, Closes(S)
    PROVE  /\ open' \subseteq made
           /\ up' \in [Conns -> Seq(Frame)] /\ down' \in [Conns -> Seq(Frame)]
           /\ upRead' \in [Conns -> Nat] /\ downRead' \in [Conns -> Nat]
<1>1. <<>> \in Seq(Frame)
  OBVIOUS
<1>2. \A b \in Conns : up[b] \in Seq(Frame) /\ down[b] \in Seq(Frame)
  BY DEF TypeOK
<1>3. up' \in [Conns -> Seq(Frame)] /\ down' \in [Conns -> Seq(Frame)]
  BY <1>1, <1>2 DEF Closes
<1>4. upRead' \in [Conns -> Nat] /\ downRead' \in [Conns -> Nat]
  BY DEF Closes, TypeOK
<1>. QED BY <1>3, <1>4 DEF Closes, TypeOK

(* The steps that start, stop and end things without touching a frame.         *)
LEMMA ProcessType ==
    ASSUME TypeOK,
           ServerStarts \/ ClientStarts \/ ServerKilled \/ ClientKilled
             \/ \E life \in Life : StartupEnds(life)
    PROVE  TypeOK'
<1>1. CASE ServerStarts \/ ClientStarts
  <2>1. client' \in Process /\ server' \in Process
    BY <1>1, StartedType DEF ServerStarts, ClientStarts, TypeOK
  <2>2. client.life + 1 \in Nat
    BY DEF TypeOK, Process
  <2>3. startups' \subseteq Nat
    BY <1>1, <2>2 DEF ServerStarts, ClientStarts, TypeOK
  <2>. QED BY <1>1, <2>1, <2>3 DEF ServerStarts, ClientStarts, TypeOK, wires, ends
<1>2. CASE ServerKilled
  <2>1. server' \in Process /\ causes' \subseteq {"kill", "kept", "part"}
    BY <1>2 DEF ServerKilled, ServerStops, TypeOK, Process
  <2>2. Closes(ServerHandler) /\ startups' \subseteq Nat
    BY <1>2 DEF ServerKilled, ServerStops
  <2>. QED BY <1>2, <2>1, <2>2, ClosesType DEF ServerKilled, TypeOK, ends
<1>3. CASE ClientKilled
  <2>1. client' \in Process /\ causes' \subseteq {"kill", "kept", "part"}
    BY <1>3 DEF ClientKilled, ClientStops, TypeOK, Process
  <2>2. Closes(ClientHandler)
    BY <1>3 DEF ClientKilled, ClientStops
  <2>. QED BY <1>3, <2>1, <2>2, ClosesType DEF ClientKilled, TypeOK, ends
<1>4. CASE \E life \in Life : StartupEnds(life)
  <2>1. Closes(ServerCloseSet({})) /\ startups' \subseteq Nat
    BY <1>4 DEF StartupEnds, TypeOK
  <2>. QED BY <1>4, <2>1, ClosesType DEF StartupEnds, TypeOK, ends
<1>. QED BY <1>1, <1>2, <1>3, <1>4

LEMMA ConnectionType ==
    ASSUME TypeOK, NEW b \in Conns,
           \/ BrowserOpens(b) \/ BrowserRefused(b) \/ BrowserEnds(b)
           \/ DestinationEnds(b) \/ TunnelEndsAtServer(b) \/ TunnelEndsAtClient(b)
           \/ TunnelResets(b)
    PROVE  TypeOK'
<1>1. L(b) \in ClientHandler /\ R(b) \in ClientHandler /\ T(b) \in ServerHandler
  BY DEF ClientHandler, ServerHandler
<1>2. CASE BrowserOpens(b)
  BY <1>1, <1>2 DEF BrowserOpens, TypeOK, wires, ends
<1>3. CASE BrowserRefused(b)
  <2>1. client' \in Process /\ Closes(ClientHandler)
    BY <1>3 DEF BrowserRefused, ClientStops, TypeOK, Process
  <2>2. made' \subseteq ClientHandler \cup ServerHandler /\ made \subseteq made'
    BY <1>1, <1>3 DEF BrowserRefused, TypeOK
  <2>. QED BY <1>3, <2>1, <2>2, ClosesType DEF BrowserRefused, TypeOK, ends
<1>4. CASE BrowserEnds(b) \/ DestinationEnds(b) \/ TunnelEndsAtServer(b) \/ TunnelEndsAtClient(b)
  <2>1. PICK S : Closes(S)
    BY <1>4 DEF BrowserEnds, DestinationEnds, TunnelEndsAtServer, TunnelEndsAtClient
  <2>. QED BY <1>4, <2>1, ClosesType
           DEF BrowserEnds, DestinationEnds, TunnelEndsAtServer, TunnelEndsAtClient, TypeOK, ends
<1>5. CASE TunnelResets(b)
  BY <1>5 DEF TunnelResets, TypeOK, wires, ends
<1>. QED BY <1>2, <1>3, <1>4, <1>5

(* What is sent and handled of frames.                                         *)
LEMMA AfterType == ASSUME NEW f \in Frame PROVE After(f) \in [life : Nat, next : Nat]
BY DEF After, Frame

LEMMA UplinkFrameType ==
    ASSUME TypeOK, NEW b \in Conns PROVE UplinkFrame(b) \in Frame
BY DEF UplinkFrame, TypeOK, Process, Frame

LEMMA UplinkType ==
    ASSUME TypeOK, NEW b \in Conns, BrowserSends(b)
    PROVE  TypeOK'
<1>1. client' \in Process
  BY ProcessChanges DEF BrowserSends, TypeOK
<1>2. up' \in [Conns -> Seq(Frame)]
  <2>1. up[b] \in Seq(Frame)
    BY DEF TypeOK
  <2>2. Append(up[b], UplinkFrame(b)) \in Seq(Frame)
    BY <2>1, UplinkFrameType
  <2>. QED BY <2>1, <2>2 DEF BrowserSends, TypeOK
<1>3. sent' \in [Conns -> Nat]
  BY DEF BrowserSends, TypeOK
<1>. QED BY <1>1, <1>2, <1>3 DEF BrowserSends, TypeOK

(* The frame that T(b) turns to.                                               *)
LEMMA HeadOfUp ==
    ASSUME TypeOK, NEW b \in Conns, NEW n \in 1 .. MaxSent, TunnelReads(b, n)
    PROVE  /\ up[b] \in Seq(Frame) /\ up[b] # <<>>
           /\ Head(up[b]) \in Frame /\ Tail(up[b]) \in Seq(Frame)
           /\ upRead[b] + n - 1 \in Nat /\ upRead[b] + n \in Nat
<1>1. up[b] \in Seq(Frame) /\ upRead[b] \in Nat
  BY DEF TypeOK
<1>2. Len(up[b]) >= 1
  BY <1>1, PipesAssumption DEF TunnelReads, PipesAssumption
<1>. QED BY <1>1, <1>2, PipesAssumption DEF PipesAssumption

LEMMA FrameType ==
    ASSUME TypeOK, NEW b \in Conns, NEW n \in 1 .. MaxSent,
           FrameDelivered(b, n) \/ FrameKept(b, n) \/ FrameGarbled(b, n)
    PROVE  TypeOK'
<1>1. TunnelReads(b, n)
  BY DEF FrameDelivered, FrameKept, FrameGarbled
<1>2. D(b) \in ServerHandler
  BY DEF ServerHandler
<1>3. After(Head(up[b])) \in [life : Nat, next : Nat]
  BY <1>1, HeadOfUp, AfterType
<1>4. CASE FrameDelivered(b, n)
  <2>1. server' \in Process
    BY <1>3, <1>4, ProcessChanges DEF FrameDelivered, TypeOK
  <2>2. up' \in [Conns -> Seq(Frame)] /\ upRead' \in [Conns -> Nat]
    BY <1>1, <1>4, HeadOfUp DEF FrameDelivered, TypeOK
  <2>3. Head(up[b]).item \in Nat /\ Head(up[b]).life \in Nat /\ server.life \in Nat
    BY <1>1, HeadOfUp DEF Frame, TypeOK, Process
  <2>4. delivered' \in [Conns -> Seq(Nat)]
    <3>1. Append(delivered[b], Head(up[b]).item) \in Seq(Nat)
      BY <2>3 DEF TypeOK
    <3>. QED BY <1>4, <3>1 DEF FrameDelivered, TypeOK
  <2>5. served' \subseteq Nat \X Nat
    <3>1. <<Head(up[b]).life, server.life>> \in Nat \X Nat
      BY <2>3
    <3>2. served' = served \cup {<<Head(up[b]).life, server.life>>}
      BY <1>4 DEF FrameDelivered
    <3>. QED BY <3>1, <3>2 DEF TypeOK
  <2>. QED BY <1>2, <1>4, <2>1, <2>2, <2>4, <2>5 DEF FrameDelivered, TypeOK
<1>5. CASE FrameKept(b, n)
  <2>1. server' \in Process
    BY <1>3, <1>5, ProcessChanges DEF FrameKept, TypeOK
  <2>2. upRead' \in [Conns -> Nat]
    BY <1>1, <1>5, HeadOfUp DEF FrameKept, TypeOK
  <2>. QED BY <1>2, <1>5, <2>1, <2>2 DEF FrameKept, TypeOK, ends
<1>6. CASE FrameGarbled(b, n)
  <2>1. server' \in Process
    BY <1>6 DEF FrameGarbled, ServerStops, TypeOK, Process
  <2>2. Closes(ServerHandler) /\ startups' \subseteq Nat
    BY <1>6 DEF FrameGarbled, ServerStops
  <2>. QED BY <1>6, <2>1, <2>2, ClosesType DEF FrameGarbled, TypeOK, ends
<1>. QED BY <1>4, <1>5, <1>6

LEMMA DownlinkType ==
    ASSUME TypeOK, NEW b \in Conns, NEW takes \in {"all", "part", "none"},
           DestinationSends(b, takes)
    PROVE  TypeOK'
<1>. DEFINE f == [life |-> server.life, seq |-> server.enc, whole |-> takes = "all",
                  item |-> answered[b] + 1]
<1>1. f \in Frame
  <2>1. server.life \in Nat /\ server.enc \in Nat /\ answered[b] + 1 \in Nat
    BY DEF TypeOK, Process
  <2>2. (takes = "all") \in BOOLEAN
    OBVIOUS
  <2>. QED BY <2>1, <2>2 DEF Frame
<1>2. server' \in Process
  BY ProcessChanges DEF DestinationSends, TypeOK
<1>5. answered' \in [Conns -> Nat]
  BY DEF DestinationSends, TypeOK
<1>3. down' = [down EXCEPT ![b] = IF R(b) \in open /\ takes # "none" THEN Append(@, f) ELSE @]
  BY DEF DestinationSends
<1>4. down' \in [Conns -> Seq(Frame)]
  <2>. HIDE DEF f
  <2>. QED BY <1>1, <1>3 DEF TypeOK
<1>. QED BY <1>2, <1>4, <1>5 DEF DestinationSends, TypeOK

LEMMA HeadOfDown ==
    ASSUME TypeOK, NEW b \in Conns, NEW n \in 1 .. MaxAnswers, AnswerReads(b, n)
    PROVE  /\ down[b] \in Seq(Frame) /\ down[b] # <<>>
           /\ Head(down[b]) \in Frame /\ Tail(down[b]) \in Seq(Frame)
           /\ downRead[b] + n - 1 \in Nat /\ downRead[b] + n \in Nat
<1>1. down[b] \in Seq(Frame) /\ downRead[b] \in Nat
  BY DEF TypeOK
<1>2. Len(down[b]) >= 1
  BY <1>1, PipesAssumption DEF AnswerReads, PipesAssumption
<1>. QED BY <1>1, <1>2, PipesAssumption DEF PipesAssumption

LEMMA TailOfTail ==
    ASSUME NEW S, NEW s \in Seq(S), Len(s) >= 2
    PROVE  Tail(Tail(s)) \in Seq(S)
<1>1. s # <<>>
  OBVIOUS
<1>2. Tail(s) \in Seq(S) /\ Len(Tail(s)) = Len(s) - 1
  BY <1>1
<1>3. Tail(s) # <<>>
  <2>1. Len(Tail(s)) # 0
    BY <1>2
  <2>2. Len(<<>>) = 0
    OBVIOUS
  <2>. QED BY <2>1, <2>2
<1>. QED BY <1>2, <1>3

LEMMA AnswerType ==
    ASSUME TypeOK, NEW b \in Conns, NEW n \in 1 .. MaxAnswers,
           \/ AnswerPassed(b, n) \/ AnswerKept(b, n) \/ AnswerGarbled(b, n)
           \/ AnswerAwaited(b, n) \/ AnswerMixed(b, n)
    PROVE  TypeOK'
<1>1. AnswerReads(b, n)
  BY DEF AnswerPassed, AnswerKept, AnswerGarbled, AnswerAwaited, AnswerMixed
<1>2. After(Head(down[b])) \in [life : Nat, next : Nat] /\ Spoiled \in [life : Nat, next : Nat]
  BY <1>1, HeadOfDown, AfterType DEF Spoiled
<1>3. CASE AnswerPassed(b, n)
  <2>1. client' \in Process
    BY <1>2, <1>3, ProcessChanges DEF AnswerPassed, TypeOK
  <2>2. down' \in [Conns -> Seq(Frame)] /\ downRead' \in [Conns -> Nat]
    BY <1>1, <1>3, HeadOfDown DEF AnswerPassed, TypeOK
  <2>3. Append(got[b], Head(down[b]).item) \in Seq(Nat)
    <3>1. Head(down[b]).item \in Nat
      BY <1>1, HeadOfDown DEF Frame
    <3>2. got[b] \in Seq(Nat)
      BY DEF TypeOK
    <3>. QED BY <3>1, <3>2
  <2>4. got' \in [Conns -> Seq(Nat)]
    BY <1>3, <2>3 DEF AnswerPassed, TypeOK
  <2>. QED BY <1>3, <2>1, <2>2, <2>4 DEF AnswerPassed, TypeOK
<1>4. CASE AnswerKept(b, n)
  <2>1. client' \in Process
    BY <1>2, <1>4, ProcessChanges DEF AnswerKept, TypeOK
  <2>2. downRead' \in [Conns -> Nat]
    BY <1>1, <1>4, HeadOfDown DEF AnswerKept, TypeOK
  <2>. QED BY <1>4, <2>1, <2>2 DEF AnswerKept, TypeOK, ends
<1>5. CASE AnswerGarbled(b, n)
  <2>1. client' \in Process /\ Closes(ClientHandler)
    BY <1>5, ProcessChanges DEF AnswerGarbled, ClientStops, TypeOK
  <2>. QED BY <1>5, <2>1, ClosesType DEF AnswerGarbled, TypeOK, ends
<1>6. CASE AnswerAwaited(b, n)
  <2>1. downRead' \in [Conns -> Nat]
    BY <1>1, <1>6, HeadOfDown DEF AnswerAwaited, TypeOK
  <2>. QED BY <1>6, <2>1 DEF AnswerAwaited, TypeOK, ends
<1>7. CASE AnswerMixed(b, n)
  <2>1. client' \in Process
    BY <1>2, <1>7, ProcessChanges DEF AnswerMixed, TypeOK
  <2>2. down[b] \in Seq(Frame) /\ Len(down[b]) >= 2 /\ down[b][2] \in Frame
    <3>1. downRead[b] + n > 1 /\ downRead[b] + n <= Len(down[b])
      BY <1>1, <1>7 DEF AnswerMixed, AnswerReads
    <3>. QED BY <1>1, <3>1, HeadOfDown
  <2>3. Tail(Tail(down[b])) \in Seq(Frame)
    BY <2>2, TailOfTail
  <2>4. [down[b][2] EXCEPT !.whole = FALSE] \in Frame
    BY <2>2 DEF Frame
  <2>5. <<[down[b][2] EXCEPT !.whole = FALSE]>> \o Tail(Tail(down[b])) \in Seq(Frame)
    BY <2>3, <2>4
  <2>6. down' \in [Conns -> Seq(Frame)] /\ downRead' \in [Conns -> Nat]
    BY <1>1, <1>7, <2>5, HeadOfDown DEF AnswerMixed, TypeOK
  <2>7. got' \in [Conns -> Seq(Nat)]
    BY <1>7 DEF AnswerMixed, TypeOK, Bad
  <2>. QED BY <1>7, <2>1, <2>6, <2>7 DEF AnswerMixed, TypeOK
<1>. QED BY <1>3, <1>4, <1>5, <1>6, <1>7

(* Every variable of the two processes keeps its type.                         *)
THEOREM TypeCorrect == Spec => []TypeOK
<1>1. Init => TypeOK
  BY TypeInit
<1>2. TypeOK /\ [Next]_vars => TypeOK'
  <2>. SUFFICES ASSUME TypeOK, [Next]_vars PROVE TypeOK'
    OBVIOUS
  <2>1. CASE UNCHANGED vars
    BY <2>1 DEF vars, wires, ends, TypeOK
  <2>2. CASE Next
    BY <2>2, ProcessType, ConnectionType, UplinkType, FrameType, DownlinkType, AnswerType
    DEF Next
  <2>. QED BY <2>1, <2>2
<1>. QED BY <1>1, <1>2, PTL DEF Spec

-----------------------------------------------------------------------------
(* Which lives of the two processes meet.                                      *)

LEMMA HandlersDiffer ==
    ASSUME NEW b, NEW c
    PROVE  /\ T(b) # D(c) /\ T(b) # L(c) /\ T(b) # R(c)
           /\ L(b) # R(c) /\ L(b) # D(c) /\ L(b) # T(c)
           /\ T(b) = T(c) => b = c
           /\ L(b) = L(c) => b = c
BY DEF T, D, L, R

(* The frames on their way to the server.                                      *)
InFlight == UNION {{up[b][i] : i \in 1 .. Len(up[b])} : b \in Conns}

ProcessesAlive ==
    /\ client.running => client.life > 0
    /\ ~client.running => \A b \in Conns : L(b) \notin open
    /\ ~server.running => \A b \in Conns : T(b) \notin open /\ up[b] = <<>>

(* A life of the client whose first frame was not made has no frame anywhere.  *)
LifeBegun(life) ==
    /\ life \in 1 .. client.life
    /\ life = client.life => client.enc > 0

FramesBegun ==
    /\ \A f \in InFlight : LifeBegun(f.life)
    /\ \A p \in served : LifeBegun(p[1]) /\ p[2] <= server.life

(* While the first frame of a life is on its way no earlier server had it.     *)
FirstFrameOnce ==
    \A f \in InFlight : f.seq = 0 =>
        \A p \in served : p[1] = f.life => p[2] = server.life

(* The server that runs serves the life its decipher object follows.           *)
ServerFollows ==
    \A p \in served : p[2] = server.life <=> p[1] = server.dec.life

LivesInv ==
    TypeOK /\ ProcessesAlive /\ FramesBegun /\ FirstFrameOnce /\ ServerFollows /\ LivesPaired

LEMMA LivesInit == ASSUME Init PROVE LivesInv
<1>1. InFlight = {}
  BY DEF Init, InFlight
<1>. QED BY <1>1, TypeInit
  DEF Init, LivesInv, ProcessesAlive, FramesBegun, FirstFrameOnce, ServerFollows, LivesPaired,
      NotStarted

(* Closing handlers adds nothing to what is on its way and opens nothing.      *)
LEMMA ClosesInFlight ==
    ASSUME TypeOK, NEW S, Closes(S)
    PROVE  /\ InFlight' \subseteq InFlight
           /\ open' \subseteq open
           /\ \A b \in Conns : up[b] = <<>> => up'[b] = <<>>
           /\ \A b \in Conns : T(b) \in S => up'[b] = <<>> /\ T(b) \notin open'
           /\ \A b \in Conns : L(b) \in S => L(b) \notin open'
<1>1. \A b \in Conns : up'[b] = <<>> \/ up'[b] = up[b]
  BY DEF Closes, TypeOK
<1>2. InFlight' \subseteq InFlight
  BY <1>1 DEF InFlight
<1>. QED BY <1>1, <1>2 DEF Closes, TypeOK

(* A step that makes and delivers no frame keeps what is known of frames.      *)
LEMMA NothingDelivered ==
    ASSUME LivesInv, InFlight' \subseteq InFlight, served' = served,
           client'.life = client.life, client'.enc = client.enc,
           server'.life = server.life, server'.dec = server.dec
    PROVE  (FramesBegun /\ FirstFrameOnce /\ ServerFollows /\ LivesPaired)'
BY DEF LivesInv, FramesBegun, LifeBegun, FirstFrameOnce, ServerFollows, LivesPaired

LEMMA ServedType ==
    ASSUME TypeOK, NEW p \in served
    PROVE  p[1] \in Nat /\ p[2] \in Nat
BY DEF TypeOK

LEMMA LivesStarts ==
    ASSUME LivesInv, TypeOK', ServerStarts \/ ClientStarts
    PROVE  LivesInv'
<1>. USE DEF LivesInv
<1>1. CASE ServerStarts
  <2>1. /\ server'.life = server.life + 1 /\ server'.dec = None /\ server'.running
        /\ client' = client /\ served' = served /\ up' = up /\ open' = open
    BY <1>1 DEF ServerStarts, Started, wires, ends
  <2>2. InFlight = {} /\ InFlight' = {}
    BY <1>1, <2>1 DEF ServerStarts, ProcessesAlive, InFlight
  <2>3. server.life \in Nat
    BY DEF TypeOK, Process
  <2>4. FramesBegun'
    <3>. SUFFICES ASSUME NEW p \in served PROVE LifeBegun(p[1])' /\ p[2] <= server'.life
      BY <2>1, <2>2 DEF FramesBegun
    <3>. QED BY <2>1, <2>3, ServedType DEF FramesBegun, LifeBegun
  <2>5. ServerFollows'
    <3>. SUFFICES ASSUME NEW p \in served
                  PROVE  p[2] = server'.life <=> p[1] = server'.dec.life
      BY <2>1 DEF ServerFollows
    <3>1. p[2] # server.life + 1
      BY <2>3, ServedType DEF FramesBegun
    <3>2. p[1] # 0
      BY DEF FramesBegun, LifeBegun
    <3>. QED BY <2>1, <3>1, <3>2 DEF None
  <2>6. ProcessesAlive'
    BY <2>1 DEF ProcessesAlive
  <2>. QED BY <2>1, <2>2, <2>4, <2>5, <2>6 DEF FirstFrameOnce, LivesPaired
<1>2. CASE ClientStarts
  <2>1. /\ client'.life = client.life + 1 /\ client'.enc = 0 /\ client'.running
        /\ server' = server /\ served' = served /\ up' = up /\ open' = open
    BY <1>2 DEF ClientStarts, Started, wires, ends
  <2>2. client.life \in Nat /\ InFlight' = InFlight
    BY <2>1 DEF TypeOK, Process, InFlight
  <2>3. \A life : LifeBegun(life) => LifeBegun(life)'
    BY <2>1, <2>2 DEF LifeBegun
  <2>4. FramesBegun'
    BY <2>1, <2>2, <2>3 DEF FramesBegun
  <2>5. ProcessesAlive'
    BY <2>1, <2>2 DEF ProcessesAlive
  <2>. QED BY <2>1, <2>2, <2>4, <2>5 DEF FirstFrameOnce, ServerFollows, LivesPaired
<1>. QED BY <1>1, <1>2

LEMMA LivesEnds ==
    ASSUME LivesInv, TypeOK', NEW b,
           \/ ServerKilled \/ ClientKilled \/ \E life \in Life : StartupEnds(life)
           \/ BrowserRefused(b) \/ BrowserEnds(b) \/ DestinationEnds(b)
           \/ TunnelEndsAtServer(b) \/ TunnelEndsAtClient(b) \/ TunnelResets(b)
           \/ \E n \in 1 .. MaxSent : FrameGarbled(b, n)
           \/ \E n \in 1 .. MaxAnswers : AnswerGarbled(b, n)
    PROVE  LivesInv'
<1>. USE DEF LivesInv
<1>1. /\ served' = served
      /\ client'.life = client.life /\ client'.enc = client.enc
      /\ server'.life = server.life /\ server'.dec = server.dec
  <2>1. client' = client \/ client' = [client EXCEPT !.running = FALSE]
    BY DEF ServerKilled, ClientKilled, StartupEnds, BrowserRefused, BrowserEnds,
           DestinationEnds, TunnelEndsAtServer, TunnelEndsAtClient, TunnelResets,
           FrameGarbled, AnswerGarbled, ServerStops, ClientStops
  <2>2. server' = server \/ server' = [server EXCEPT !.running = FALSE]
    BY DEF ServerKilled, ClientKilled, StartupEnds, BrowserRefused, BrowserEnds,
           DestinationEnds, TunnelEndsAtServer, TunnelEndsAtClient, TunnelResets,
           FrameGarbled, AnswerGarbled, ServerStops, ClientStops
  <2>3. served' = served
    BY DEF ServerKilled, ClientKilled, StartupEnds, BrowserRefused, BrowserEnds,
           DestinationEnds, TunnelEndsAtServer, TunnelEndsAtClient, TunnelResets,
           FrameGarbled, AnswerGarbled
  <2>. QED BY <2>1, <2>2, <2>3 DEF TypeOK, Process
<1>2. CASE TunnelResets(b)
  <2>1. /\ client' = client /\ server' = server /\ open' = open /\ up' = up
        /\ InFlight' = InFlight
    BY <1>2 DEF TunnelResets, wires, InFlight
  <2>. QED BY <1>1, <2>1, NothingDelivered DEF ProcessesAlive
<1>3. CASE ServerKilled \/ \E n \in 1 .. MaxSent : FrameGarbled(b, n)
  <2>1. ServerStops /\ client' = client
    BY <1>3 DEF ServerKilled, FrameGarbled
  <2>2. Closes(ServerHandler)
    BY <2>1 DEF ServerStops
  <2>3. \A c \in Conns : T(c) \in ServerHandler
    BY DEF ServerHandler
  <2>4. ProcessesAlive'
    BY <2>1, <2>2, <2>3, ClosesInFlight DEF ProcessesAlive
  <2>. QED BY <1>1, <2>2, <2>4, ClosesInFlight, NothingDelivered
<1>4. CASE ClientKilled \/ BrowserRefused(b) \/ \E n \in 1 .. MaxAnswers : AnswerGarbled(b, n)
  <2>1. ClientStops /\ server' = server
    BY <1>4 DEF ClientKilled, BrowserRefused, AnswerGarbled
  <2>2. Closes(ClientHandler) /\ ~client'.running
    BY <2>1 DEF ClientStops, TypeOK, Process
  <2>3. \A c \in Conns : L(c) \in ClientHandler
    BY DEF ClientHandler
  <2>4. ProcessesAlive'
    BY <2>1, <2>2, <2>3, ClosesInFlight DEF ProcessesAlive
  <2>. QED BY <1>1, <2>2, <2>4, ClosesInFlight, NothingDelivered
<1>5. CASE \/ \E life \in Life : StartupEnds(life)
           \/ BrowserEnds(b) \/ DestinationEnds(b)
           \/ TunnelEndsAtServer(b) \/ TunnelEndsAtClient(b)
  <2>1. client' = client /\ server' = server
    BY <1>5 DEF StartupEnds, BrowserEnds, DestinationEnds, TunnelEndsAtServer,
                TunnelEndsAtClient
  <2>2. PICK S : Closes(S)
    BY <1>5 DEF StartupEnds, BrowserEnds, DestinationEnds, TunnelEndsAtServer,
                TunnelEndsAtClient
  <2>3. ProcessesAlive'
    BY <2>1, <2>2, ClosesInFlight DEF ProcessesAlive
  <2>. QED BY <1>1, <2>2, <2>3, ClosesInFlight, NothingDelivered
<1>. QED BY <1>2, <1>3, <1>4, <1>5

LEMMA LivesOpens ==
    ASSUME LivesInv, TypeOK', NEW b \in Conns, BrowserOpens(b)
    PROVE  LivesInv'
<1>. USE DEF LivesInv
<1>1. client' = client /\ server' = server /\ served' = served /\ up' = up
  BY DEF BrowserOpens, wires, ends
<1>2. InFlight' = InFlight
  BY <1>1 DEF InFlight
<1>3. ProcessesAlive'
  BY <1>1 DEF BrowserOpens, ProcessesAlive
<1>. QED BY <1>1, <1>2, <1>3, NothingDelivered

(* The steps that move or make frames of the answers, and the frames that stay.*)
LEMMA LivesAnswers ==
    ASSUME LivesInv, TypeOK', NEW b \in Conns,
           \/ \E takes \in {"all", "part", "none"} : DestinationSends(b, takes)
           \/ \E n \in 1 .. MaxAnswers :
                 \/ AnswerPassed(b, n) \/ AnswerKept(b, n)
                 \/ AnswerAwaited(b, n) \/ AnswerMixed(b, n)
    PROVE  LivesInv'
<1>. USE DEF LivesInv
<1>1. served' = served /\ up' = up /\ open' = open
  BY DEF DestinationSends, AnswerPassed, AnswerKept, AnswerAwaited, AnswerMixed, ends
<1>2. InFlight' = InFlight
  BY <1>1 DEF InFlight
<1>3. \/ client' = client
      \/ \E d : client' = [client EXCEPT !.dec = d]
  BY DEF DestinationSends, AnswerPassed, AnswerKept, AnswerAwaited, AnswerMixed
<1>4. \/ server' = server
      \/ server' = [server EXCEPT !.enc = @ + 1]
  BY DEF DestinationSends, AnswerPassed, AnswerKept, AnswerAwaited, AnswerMixed
<1>5. client'.life = client.life /\ client'.enc = client.enc /\ client'.running = client.running
  BY <1>3 DEF TypeOK, Process
<1>6. server'.life = server.life /\ server'.dec = server.dec /\ server'.running = server.running
  BY <1>4 DEF TypeOK, Process
<1>7. ProcessesAlive'
  BY <1>1, <1>5, <1>6 DEF ProcessesAlive
<1>. QED BY <1>1, <1>2, <1>5, <1>6, <1>7, NothingDelivered

LEMMA LivesSends ==
    ASSUME LivesInv, TypeOK', NEW b \in Conns, BrowserSends(b)
    PROVE  LivesInv'
<1>. USE DEF LivesInv
<1>. DEFINE f == UplinkFrame(b)
<1>1. /\ server' = server /\ served' = served /\ open' = open
      /\ client' = [client EXCEPT !.enc = @ + 1]
      /\ client.running
  BY DEF BrowserSends, ProcessesAlive
<1>2. /\ client'.life = client.life /\ client'.enc = client.enc + 1
      /\ client'.running /\ client.enc \in Nat /\ client.life \in Nat
  BY <1>1 DEF TypeOK, Process
<1>3. \A c \in Conns : up'[c] = up[c] \/ (T(b) \in open /\ c = b /\ up'[c] = Append(up[c], f))
  BY DEF BrowserSends, TypeOK
<1>4. InFlight' \subseteq InFlight \cup {f}
  <2>. HIDE DEF f
  <2>. SUFFICES ASSUME NEW c \in Conns, NEW i \in 1 .. Len(up'[c])
                PROVE  up'[c][i] \in InFlight \cup {f}
    BY DEF InFlight
  <2>1. CASE up'[c] = up[c]
    BY <2>1 DEF InFlight
  <2>2. CASE up'[c] = Append(up[c], f)
    <3>1. up[c] \in Seq(Frame)
      BY DEF TypeOK
    <3>2. i \in 1 .. Len(up[c]) + 1
      BY <2>2, <3>1
    <3>3. CASE i = Len(up[c]) + 1
      BY <2>2, <3>1, <3>3
    <3>4. CASE i # Len(up[c]) + 1
      <4>1. i \in 1 .. Len(up[c])
        BY <3>1, <3>2, <3>4
      <4>2. up'[c][i] = up[c][i]
        BY <2>2, <3>1, <4>1
      <4>. QED BY <4>1, <4>2 DEF InFlight
    <3>. QED BY <3>3, <3>4
  <2>. QED BY <1>3, <2>1, <2>2
<1>5. f.life = client.life /\ f.seq = client.enc
  BY DEF UplinkFrame
<1>6. \A life : LifeBegun(life) => LifeBegun(life)'
  BY <1>2 DEF LifeBegun
<1>7. \A life : life = client.life => LifeBegun(life)'
  BY <1>1, <1>2 DEF LifeBegun, ProcessesAlive
<1>8. FramesBegun'
  <2>. HIDE DEF f
  <2>1. \A g \in InFlight' : LifeBegun(g.life)'
    BY <1>4, <1>5, <1>6, <1>7 DEF FramesBegun
  <2>. QED BY <1>1, <1>6, <2>1 DEF FramesBegun
<1>9. FirstFrameOnce'
  <2>1. f.seq = 0 => \A p \in served : p[1] # f.life
    BY <1>2, <1>5 DEF FramesBegun, LifeBegun
  <2>. HIDE DEF f
  <2>. QED BY <1>1, <1>4, <2>1 DEF FirstFrameOnce
<1>10. ProcessesAlive'
  <2>1. ~server.running => up' = up
    <3>1. ~server.running => T(b) \notin open
      BY DEF ProcessesAlive
    <3>. QED BY <3>1 DEF BrowserSends, TypeOK
  <2>. QED BY <1>1, <1>2, <2>1 DEF ProcessesAlive
<1>. QED BY <1>1, <1>8, <1>9, <1>10 DEF ServerFollows, LivesPaired

(* A frame deciphered by the server, handed on or kept.                        *)
LEMMA LivesDeciphers ==
    ASSUME LivesInv, TypeOK', NEW b \in Conns, NEW n \in 1 .. MaxSent,
           FrameDelivered(b, n) \/ FrameKept(b, n)
    PROVE  LivesInv'
<1>. USE DEF LivesInv
<1>. DEFINE f == Head(up[b])
            new == <<f.life, server.life>>
<1>1. /\ InStep(f, server.dec)
      /\ server' = [server EXCEPT !.dec = After(f)]
      /\ client' = client
      /\ served' = served \/ served' = served \cup {new}
      /\ open' = open \cup {D(b)}
      /\ T(b) \in open
      /\ up' = up \/ up' = [up EXCEPT ![b] = Tail(@)]
      /\ up[b] # <<>>
  <2>1. TunnelReads(b, n)
    BY DEF FrameDelivered, FrameKept
  <2>2. up[b] # <<>>
    BY <2>1, HeadOfUp
  <2>. QED BY <2>1, <2>2 DEF FrameDelivered, FrameKept, TunnelReads, ends
<1>2. server'.life = server.life /\ server'.dec.life = f.life /\ server'.running = server.running
  BY <1>1 DEF TypeOK, Process, After
<1>3. f \in InFlight
  <2>1. up[b] \in Seq(Frame) /\ Len(up[b]) \in Nat
    BY DEF TypeOK
  <2>2. 1 \in 1 .. Len(up[b])
    BY <1>1, <2>1
  <2>. QED BY <2>1, <2>2 DEF InFlight
<1>4. InFlight' \subseteq InFlight
  <2>. HIDE DEF LivesInv, f, new
  <2>. DEFINE flight == InFlight
  <2>. SUFFICES \A c \in Conns : \A i \in 1 .. Len(up'[c]) : up'[c][i] \in flight
    <3>. HIDE DEF flight
    <3>. SUFFICES ASSUME \A c \in Conns : \A i \in 1 .. Len(up'[c]) : up'[c][i] \in flight
                  PROVE  InFlight' \subseteq flight
      BY DEF flight
    <3>. QED BY DEF InFlight
  <2>. TAKE c \in Conns
  <2>. TAKE i \in 1 .. Len(up'[c])
  <2>0. up[c] \in Seq(Frame)
    BY DEF TypeOK, LivesInv
  <2>1. CASE up'[c] = up[c]
    BY <2>1 DEF InFlight
  <2>2. CASE up'[c] = Tail(up[c]) /\ up[c] # <<>>
    <3>1. i \in 1 .. Len(up[c]) - 1 /\ Len(up[c]) \in Nat
      BY <2>0, <2>2
    <3>2. up'[c][i] = up[c][i + 1]
      BY <2>0, <2>2, <3>1
    <3>3. i + 1 \in 1 .. Len(up[c])
      BY <3>1
    <3>. QED BY <3>2, <3>3 DEF InFlight
  <2>3. up'[c] = up[c] \/ (up'[c] = Tail(up[c]) /\ up[c] # <<>>)
    BY <1>1 DEF TypeOK, LivesInv
  <2>. QED BY <2>1, <2>2, <2>3
<1>5. LifeBegun(f.life) /\ f.life # 0
  BY <1>3 DEF FramesBegun, LifeBegun
<1>6. server.life \in Nat
  BY DEF TypeOK, Process
<1>7. \A p \in served : p[1] = f.life <=> p[2] = server.life
  <2>1. CASE server.dec = None /\ f.seq = 0
    <3>1. \A p \in served : p[2] # server.life
      BY <2>1 DEF ServerFollows, None, FramesBegun, LifeBegun
    <3>2. \A p \in served : p[1] = f.life => p[2] = server.life
      BY <1>3, <2>1 DEF FirstFrameOnce
    <3>. QED BY <3>1, <3>2
  <2>2. CASE f.life = server.dec.life
    BY <2>2 DEF ServerFollows
  <2>. QED BY <1>1, <2>1, <2>2 DEF InStep
<1>8. new[1] = f.life /\ new[2] = server.life
  OBVIOUS
<1>. HIDE DEF f, new
<1>9. FramesBegun'
  <2>1. \A life : LifeBegun(life)' <=> LifeBegun(life)
    BY <1>1 DEF LifeBegun
  <2>. QED BY <1>1, <1>2, <1>4, <1>5, <1>6, <1>8, <2>1 DEF FramesBegun
<1>10. FirstFrameOnce'
  BY <1>1, <1>2, <1>4, <1>8 DEF FirstFrameOnce
<1>11. ServerFollows'
  BY <1>1, <1>2, <1>7, <1>8 DEF ServerFollows
<1>12. LivesPaired'
  BY <1>1, <1>7, <1>8 DEF LivesPaired
<1>13. ProcessesAlive'
  <2>1. server.running
    BY <1>1 DEF ProcessesAlive
  <2>2. \A c \in Conns : L(c) \in open' => L(c) \in open
    BY <1>1, HandlersDiffer
  <2>. QED BY <1>1, <1>2, <2>1, <2>2 DEF ProcessesAlive
<1>. QED BY <1>9, <1>10, <1>11, <1>12, <1>13

(* One server life hands on data of one client life, and the data of one       *)
(* client life go through one server life (tcprelay.py 111, crypto.py 119-130).*)
THEOREM LivesStayPaired == Spec => []LivesPaired
<1>1. Init => LivesInv
  BY LivesInit
<1>2. LivesInv /\ TypeOK' /\ [Next]_vars => LivesInv'
  <2>. SUFFICES ASSUME LivesInv, TypeOK', [Next]_vars PROVE LivesInv'
    OBVIOUS
  <2>1. CASE UNCHANGED vars
    <3>1. client' = client /\ server' = server /\ served' = served /\ up' = up /\ open' = open
      BY <2>1 DEF vars, wires, ends
    <3>2. InFlight' = InFlight
      BY <3>1 DEF InFlight
    <3>3. ProcessesAlive'
      BY <3>1 DEF LivesInv, ProcessesAlive
    <3>. QED BY <3>1, <3>2, <3>3, NothingDelivered DEF LivesInv
  <2>2. CASE ServerStarts \/ ClientStarts
    BY <2>2, LivesStarts
  <2>3. CASE ServerKilled \/ ClientKilled \/ \E life \in Life : StartupEnds(life)
    BY <2>3, LivesEnds
  <2>4. ASSUME NEW b \in Conns,
               \/ BrowserOpens(b) \/ BrowserRefused(b) \/ BrowserEnds(b)
               \/ DestinationEnds(b) \/ TunnelEndsAtServer(b) \/ TunnelEndsAtClient(b)
               \/ TunnelResets(b) \/ BrowserSends(b)
               \/ \E takes \in {"all", "part", "none"} : DestinationSends(b, takes)
               \/ \E n \in 1 .. MaxSent :
                    FrameDelivered(b, n) \/ FrameKept(b, n) \/ FrameGarbled(b, n)
               \/ \E n \in 1 .. MaxAnswers :
                    \/ AnswerPassed(b, n) \/ AnswerKept(b, n) \/ AnswerGarbled(b, n)
                    \/ AnswerAwaited(b, n) \/ AnswerMixed(b, n)
        PROVE  LivesInv'
    BY <2>4, LivesEnds, LivesOpens, LivesSends, LivesDeciphers, LivesAnswers
  <2>. QED BY <2>1, <2>2, <2>3, <2>4 DEF Next
<1>3. LivesInv => LivesPaired
  BY DEF LivesInv
<1>. QED BY <1>1, <1>2, <1>3, TypeCorrect, PTL DEF Spec
-----------------------------------------------------------------------------
(* Contents on their way from a browser to a destination.                      *)

CutUp == {b \in Conns : T(b) \in made \ open}

(* Of n contents the frames carry what the destination was not sent.           *)
IsRest(n, frames, dest) ==
    /\ Len(frames) + Len(dest) = n
    /\ \A i \in 1 .. Len(frames) : frames[i].item = Len(dest) + i

(* What is in an open tunnel is the rest of what its browser sent.             *)
UpTunnel(b) ==
    /\ T(b) \in open => IsRest(sent[b], up[b], delivered[b])
    /\ T(b) \notin open => up[b] = <<>>
    /\ T(b) \notin made => sent[b] = 0 /\ delivered[b] = <<>>
    /\ T(b) \in made => L(b) \in made
    /\ L(b) \in open => T(b) \in made

UpInv == TypeOK /\ \A b \in Conns : UpTunnel(b)

LEMMA RestStarts == IsRest(0, <<>>, <<>>)
BY DEF IsRest

LEMMA OneMore ==
    ASSUME NEW k \in Nat, NEW m \in Nat, NEW n, k + m = n
    PROVE  m + (k + 1) = n + 1
OBVIOUS

LEMMA OneMoved ==
    ASSUME NEW k \in Nat, NEW m \in Nat, NEW n, k + m = n
    PROVE  (k - 1) + (m + 1) = n
OBVIOUS

LEMMA RestGrows ==
    ASSUME NEW n \in Nat, NEW frames \in Seq(Frame), NEW dest \in Seq(Nat),
           IsRest(n, frames, dest), NEW f \in Frame, f.item = n + 1
    PROVE  IsRest(n + 1, Append(frames, f), dest)
<1>. DEFINE more == Append(frames, f)
<1>1. Len(frames) + Len(dest) = n
  BY DEF IsRest
<1>2. Len(more) = Len(frames) + 1 /\ Len(frames) \in Nat /\ Len(dest) \in Nat
  OBVIOUS
<1>3. \A i \in 1 .. Len(frames) : more[i] = frames[i]
  OBVIOUS
<1>4. more[Len(frames) + 1] = f
  OBVIOUS
<1>. HIDE DEF more
<1>5. Len(more) + Len(dest) = n + 1
  BY <1>1, <1>2
<1>6. ASSUME NEW i \in 1 .. Len(more) PROVE more[i].item = Len(dest) + i
  <2>1. CASE i = Len(frames) + 1
    <3>1. Len(dest) + i = n + 1
      BY <1>1, <1>2, <2>1, OneMore
    <3>. QED BY <1>4, <2>1, <3>1
  <2>2. CASE i # Len(frames) + 1
    <3>1. i \in 1 .. Len(frames)
      BY <1>2, <2>2
    <3>. QED BY <1>3, <3>1 DEF IsRest
  <2>. QED BY <2>1, <2>2
<1>. QED BY <1>5, <1>6 DEF IsRest, more

LEMMA RestMoves ==
    ASSUME NEW n \in Nat, NEW frames \in Seq(Frame), NEW dest \in Seq(Nat),
           IsRest(n, frames, dest), frames # <<>>
    PROVE  /\ Head(frames).item = Len(dest) + 1
           /\ Len(dest) < n
           /\ IsRest(n, Tail(frames), Append(dest, Head(frames).item))
<1>. DEFINE rest == Tail(frames)
            more == Append(dest, Head(frames).item)
<1>1. Len(frames) + Len(dest) = n
  BY DEF IsRest
<1>2. Len(frames) \in Nat /\ Len(frames) >= 1 /\ Len(dest) \in Nat
  OBVIOUS
<1>3. Head(frames) = frames[1] /\ 1 \in 1 .. Len(frames)
  BY <1>2
<1>4. Head(frames).item = Len(dest) + 1
  BY <1>3 DEF IsRest
<1>5. Len(rest) = Len(frames) - 1
  OBVIOUS
<1>6. \A i \in 1 .. Len(frames) - 1 : rest[i] = frames[i + 1]
  OBVIOUS
<1>7. Len(more) = Len(dest) + 1
  <2>1. Head(frames).item \in Nat
    <3>1. Head(frames) \in Frame
      OBVIOUS
    <3>. QED BY <3>1 DEF Frame
  <2>. QED BY <2>1
<1>. HIDE DEF rest, more
<1>8. Len(rest) + Len(more) = n
  <2>1. (Len(frames) - 1) + (Len(dest) + 1) = n
    BY <1>1, <1>2, OneMoved, Zenon
  <2>. QED BY <1>5, <1>7, <2>1, Zenon
<1>9. ASSUME NEW i \in 1 .. Len(rest) PROVE rest[i].item = Len(more) + i
  <2>1. i + 1 \in 1 .. Len(frames) /\ rest[i] = frames[i + 1]
    BY <1>2, <1>5, <1>6
  <2>2. frames[i + 1].item = Len(dest) + (i + 1)
    BY <2>1 DEF IsRest
  <2>3. Len(more) + i = Len(dest) + (i + 1)
    BY <1>2, <1>5, <1>7
  <2>. QED BY <2>1, <2>2, <2>3
<1>10. Len(dest) < n
  BY <1>1, <1>2
<1>. QED BY <1>4, <1>8, <1>9, <1>10 DEF IsRest, rest, more

UpStep == UpPipe!PipeNext \/ UNCHANGED UpPipe!pipeVars

LEMMA UpInit == ASSUME Init PROVE UpInv /\ UpPipe!PipeInit
<1>1. UpInv
  BY TypeInit DEF Init, UpInv, UpTunnel
<1>2. UpPipe!PipeInit
  BY DEF Init, UpPipe!PipeInit
<1>. QED BY <1>1, <1>2

(* A step that moves no content is a step of the pipe when it leaves cut what  *)
(* was cut.                                                                    *)
LEMMA UpCutStep ==
    ASSUME sent' = sent, delivered' = delivered, CutUp \subseteq CutUp'
    PROVE  UpStep
<1>1. CutUp' \in SUBSET Conns
  BY DEF CutUp
<1>2. UpPipe!Cut
  BY <1>1 DEF UpPipe!Cut, CutUp
<1>. QED BY <1>2 DEF UpStep, UpPipe!PipeNext

LEMMA UpCloses ==
    ASSUME UpInv, NEW S, Closes(S), sent' = sent, delivered' = delivered,
           NEW b \in Conns, made' = made \/ made' = made \cup {L(b)}
    PROVE  (\A c \in Conns : UpTunnel(c))' /\ UpStep
<1>. USE DEF UpInv
<1>1. open' = open \ S
  BY DEF Closes
<1>2. \A c \in Conns : T(c) \in made' <=> T(c) \in made
  BY HandlersDiffer
<1>3. ASSUME NEW c \in Conns PROVE UpTunnel(c)'
  <2>1. CASE T(c) \in S
    <3>1. up'[c] = <<>> /\ T(c) \notin open'
      BY <2>1, ClosesInFlight
    <3>. QED BY <1>1, <1>2, <3>1 DEF UpTunnel
  <2>2. CASE T(c) \notin S
    <3>1. up'[c] = up[c]
      BY <2>2 DEF Closes, TypeOK
    <3>2. T(c) \in open' <=> T(c) \in open
      BY <1>1, <2>2
    <3>. QED BY <1>1, <1>2, <3>1, <3>2 DEF UpTunnel
  <2>. QED BY <2>1, <2>2
<1>4. CutUp \subseteq CutUp'
  BY <1>1, <1>2 DEF CutUp
<1>. QED BY <1>3, <1>4, UpCutStep

(* A step that leaves tunnels and contents alone.                              *)
LEMMA UpUntouched ==
    ASSUME UpInv, sent' = sent, delivered' = delivered, up' = up, open' = open, made' = made
    PROVE  (\A c \in Conns : UpTunnel(c))' /\ UpStep
<1>1. (\A c \in Conns : UpTunnel(c))'
  BY DEF UpInv, UpTunnel
<1>2. CutUp \subseteq CutUp'
  BY DEF CutUp
<1>. QED BY <1>1, <1>2, UpCutStep

LEMMA UpOpens ==
    ASSUME UpInv, NEW b \in Conns, BrowserOpens(b)
    PROVE  (\A c \in Conns : UpTunnel(c))' /\ UpStep
<1>. USE DEF UpInv
<1>1. /\ sent' = sent /\ delivered' = delivered /\ up' = up
      /\ made' = made \cup {L(b), R(b), T(b)} /\ open' = open \cup {L(b), R(b), T(b)}
      /\ L(b) \notin made
  BY DEF BrowserOpens, wires, ends
<1>2. T(b) \notin made /\ T(b) \notin open
  BY <1>1 DEF UpTunnel, TypeOK
<1>3. ASSUME NEW c \in Conns PROVE UpTunnel(c)'
  <2>1. CASE c = b
    <3>1. up[b] = <<>> /\ sent[b] = 0 /\ delivered[b] = <<>>
      BY <1>2 DEF UpTunnel
    <3>. QED BY <1>1, <2>1, <3>1, RestStarts DEF UpTunnel
  <2>2. CASE c # b
    <3>1. /\ T(c) \in open' <=> T(c) \in open
          /\ T(c) \in made' <=> T(c) \in made
          /\ L(c) \in open' <=> L(c) \in open
          /\ L(c) \in made' <=> L(c) \in made
      BY <1>1, <2>2, HandlersDiffer
    <3>. QED BY <1>1, <3>1 DEF UpTunnel
  <2>. QED BY <2>1, <2>2
<1>4. CutUp \subseteq CutUp'
  <2>. SUFFICES ASSUME NEW c \in Conns, T(c) \in made, T(c) \notin open
                PROVE  T(c) \notin open'
    BY <1>1 DEF CutUp
  <2>1. c # b
    BY <1>2
  <2>. QED BY <1>1, <2>1, HandlersDiffer
<1>. QED BY <1>1, <1>3, <1>4, UpCutStep

LEMMA UpSends ==
    ASSUME UpInv, NEW b \in Conns, BrowserSends(b)
    PROVE  (\A c \in Conns : UpTunnel(c))' /\ UpStep
<1>. USE DEF UpInv
<1>. DEFINE f == UplinkFrame(b)
<1>1. /\ delivered' = delivered /\ open' = open /\ made' = made
      /\ sent' = [sent EXCEPT ![b] = @ + 1]
      /\ up' = [up EXCEPT ![b] = IF T(b) \in open THEN Append(@, f) ELSE @]
      /\ f.item = sent[b] + 1
      /\ T(b) \in made
  BY DEF BrowserSends, UplinkFrame, UpTunnel
<1>. HIDE DEF f
<1>2. ASSUME NEW c \in Conns PROVE UpTunnel(c)'
  <2>1. CASE c # b
    <3>1. up'[c] = up[c] /\ sent'[c] = sent[c]
      BY <1>1, <2>1 DEF TypeOK
    <3>. QED BY <1>1, <3>1 DEF UpTunnel
  <2>2. CASE c = b /\ T(b) \notin open
    <3>1. up'[b] = up[b]
      BY <1>1, <2>2 DEF TypeOK
    <3>. QED BY <1>1, <2>2, <3>1 DEF UpTunnel
  <2>3. CASE c = b /\ T(b) \in open
    <3>1. /\ up'[b] = Append(up[b], f) /\ sent'[b] = sent[b] + 1
          /\ up[b] \in Seq(Frame) /\ sent[b] \in Nat /\ delivered[b] \in Seq(Nat)
      BY <1>1, <2>3 DEF TypeOK
    <3>2. IsRest(sent[b], up[b], delivered[b])
      BY <2>3 DEF UpTunnel
    <3>3. f \in Frame
      BY UplinkFrameType DEF f
    <3>4. IsRest(sent'[b], up'[b], delivered'[b])
      BY <1>1, <3>1, <3>2, <3>3, RestGrows
    <3>. QED BY <1>1, <2>3, <3>4 DEF UpTunnel
  <2>. QED BY <2>1, <2>2, <2>3
<1>3. UpPipe!Put(b)
  BY <1>1 DEF UpPipe!Put
<1>. QED BY <1>2, <1>3 DEF UpStep, UpPipe!PipeNext

(* A destination handler that is created or connected ends no tunnel.          *)
LEMMA UpDestination ==
    ASSUME UpInv, NEW b \in Conns, NEW c \in Conns,
           made' = made \cup {D(b)}, open' = open \cup {D(b)}
    PROVE  /\ T(c) \in open' <=> T(c) \in open
           /\ T(c) \in made' <=> T(c) \in made
           /\ L(c) \in open' <=> L(c) \in open
           /\ L(c) \in made' <=> L(c) \in made
BY HandlersDiffer

LEMMA UpKept ==
    ASSUME UpInv, NEW b \in Conns, NEW n \in 1 .. MaxSent, FrameKept(b, n)
    PROVE  (\A c \in Conns : UpTunnel(c))' /\ UpStep
<1>1. /\ sent' = sent /\ delivered' = delivered /\ up' = up
      /\ made' = made \cup {D(b)} /\ open' = open \cup {D(b)}
  BY DEF FrameKept, ends
<1>2. (\A c \in Conns : UpTunnel(c))'
  BY <1>1, UpDestination DEF UpTunnel, UpInv
<1>3. CutUp \subseteq CutUp'
  BY <1>1, UpDestination DEF CutUp
<1>. QED BY <1>1, <1>2, <1>3, UpCutStep

LEMMA UpDelivers ==
    ASSUME UpInv, NEW b \in Conns, NEW n \in 1 .. MaxSent, FrameDelivered(b, n)
    PROVE  (\A c \in Conns : UpTunnel(c))' /\ UpStep
<1>. USE DEF UpInv
<1>1. /\ sent' = sent /\ T(b) \in open
      /\ up' = [up EXCEPT ![b] = Tail(@)]
      /\ delivered' = [delivered EXCEPT ![b] = Append(@, Head(up[b]).item)]
      /\ made' = made \cup {D(b)} /\ open' = open \cup {D(b)}
  BY DEF FrameDelivered, TunnelReads
<1>2. /\ up[b] \in Seq(Frame) /\ up[b] # <<>> /\ delivered[b] \in Seq(Nat) /\ sent[b] \in Nat
      /\ up'[b] = Tail(up[b]) /\ delivered'[b] = Append(delivered[b], Head(up[b]).item)
  <2>1. TunnelReads(b, n)
    BY DEF FrameDelivered
  <2>. QED BY <1>1, <2>1, HeadOfUp DEF TypeOK
<1>3. IsRest(sent[b], up[b], delivered[b])
  BY <1>1 DEF UpTunnel
<1>4. Head(up[b]).item = Len(delivered[b]) + 1 /\ Len(delivered[b]) < sent[b]
  BY <1>2, <1>3, RestMoves
<1>5. UpTunnel(b)'
  <2>1. IsRest(sent'[b], up'[b], delivered'[b])
    BY <1>1, <1>2, <1>3, RestMoves
  <2>. QED BY <1>1, <2>1, UpDestination DEF UpTunnel, TypeOK
<1>6. ASSUME NEW c \in Conns, c # b PROVE UpTunnel(c)'
  <2>1. up'[c] = up[c] /\ delivered'[c] = delivered[c]
    BY <1>1, <1>6 DEF TypeOK
  <2>. QED BY <1>1, <2>1, UpDestination DEF UpTunnel
<1>7. CutUp' = CutUp /\ b \notin CutUp
  BY <1>1, UpDestination DEF CutUp
<1>8. delivered' = [delivered EXCEPT ![b] = Append(@, Len(@) + 1)]
  BY <1>1, <1>4
<1>9. UpPipe!Move(b)
  BY <1>1, <1>4, <1>7, <1>8 DEF UpPipe!Move, CutUp
<1>. QED BY <1>5, <1>6, <1>9 DEF UpStep, UpPipe!PipeNext

LEMMA UpOthers ==
    ASSUME UpInv, NEW b \in Conns,
           \/ ServerStarts \/ ClientStarts \/ ServerKilled \/ ClientKilled
           \/ \E life \in Life : StartupEnds(life)
           \/ BrowserRefused(b) \/ BrowserEnds(b) \/ DestinationEnds(b)
           \/ TunnelEndsAtServer(b) \/ TunnelEndsAtClient(b) \/ TunnelResets(b)
           \/ \E takes \in {"all", "part", "none"} : DestinationSends(b, takes)
           \/ \E n \in 1 .. MaxSent : FrameGarbled(b, n)
           \/ \E n \in 1 .. MaxAnswers :
                 \/ AnswerPassed(b, n) \/ AnswerKept(b, n) \/ AnswerGarbled(b, n)
                 \/ AnswerAwaited(b, n) \/ AnswerMixed(b, n)
    PROVE  (\A c \in Conns : UpTunnel(c))' /\ UpStep
<1>1. CASE \/ ServerKilled \/ ClientKilled \/ \E life \in Life : StartupEnds(life)
           \/ BrowserRefused(b) \/ BrowserEnds(b) \/ DestinationEnds(b)
           \/ TunnelEndsAtServer(b) \/ TunnelEndsAtClient(b)
           \/ \E n \in 1 .. MaxSent : FrameGarbled(b, n)
           \/ \E n \in 1 .. MaxAnswers : AnswerGarbled(b, n)
  <2>1. PICK S : Closes(S)
    BY <1>1 DEF ServerKilled, ClientKilled, StartupEnds, BrowserRefused, BrowserEnds,
                DestinationEnds, TunnelEndsAtServer, TunnelEndsAtClient, FrameGarbled,
                AnswerGarbled, ServerStops, ClientStops
  <2>2. /\ sent' = sent /\ delivered' = delivered
        /\ made' = made \/ made' = made \cup {L(b)}
    BY <1>1 DEF ServerKilled, ClientKilled, StartupEnds, BrowserRefused, BrowserEnds,
                DestinationEnds, TunnelEndsAtServer, TunnelEndsAtClient, FrameGarbled,
                AnswerGarbled, ends
  <2>. QED BY <2>1, <2>2, UpCloses
<1>2. CASE \/ ServerStarts \/ ClientStarts \/ TunnelResets(b)
           \/ \E takes \in {"all", "part", "none"} : DestinationSends(b, takes)
           \/ \E n \in 1 .. MaxAnswers :
                 \/ AnswerPassed(b, n) \/ AnswerKept(b, n)
                 \/ AnswerAwaited(b, n) \/ AnswerMixed(b, n)
  <2>1. sent' = sent /\ delivered' = delivered /\ up' = up /\ open' = open /\ made' = made
    BY <1>2 DEF ServerStarts, ClientStarts, TunnelResets, DestinationSends, AnswerPassed,
                AnswerKept, AnswerAwaited, AnswerMixed, wires, ends
  <2>. QED BY <2>1, UpUntouched
<1>. QED BY <1>1, <1>2

(* Without a connection only the processes start and end.                      *)
LEMMA UpProcesses ==
    ASSUME UpInv, \/ ServerStarts \/ ClientStarts \/ ServerKilled \/ ClientKilled
                  \/ \E life \in Life : StartupEnds(life)
    PROVE  (\A c \in Conns : UpTunnel(c))' /\ UpStep
<1>1. CASE Conns # {}
  BY <1>1, UpOthers
<1>2. CASE Conns = {}
  <2>1. sent' = sent /\ delivered' = delivered /\ CutUp \subseteq CutUp'
    BY <1>2 DEF ServerStarts, ClientStarts, ServerKilled, ClientKilled, StartupEnds, ends, CutUp
  <2>. QED BY <1>2, <2>1, UpCutStep
<1>. QED BY <1>1, <1>2

(* What a destination was sent is, in order and once, what its browser sent,   *)
(* and after the end of its tunnel nothing more reaches it                     *)
(* (tcprelay.py 286-349).                                                      *)
THEOREM UpPipeImplemented == Spec => ImplementsUpPipe
<1>1. Init => UpInv /\ UpPipe!PipeInit
  BY UpInit
<1>2. UpInv /\ TypeOK' /\ [Next]_vars => UpInv' /\ [UpPipe!PipeNext]_(UpPipe!pipeVars)
  <2>. SUFFICES ASSUME UpInv, TypeOK', [Next]_vars
                PROVE  (\A c \in Conns : UpTunnel(c))' /\ UpStep
    BY DEF UpInv, UpStep
  <2>1. CASE UNCHANGED vars
    <3>1. sent' = sent /\ delivered' = delivered /\ up' = up /\ open' = open /\ made' = made
      BY <2>1 DEF vars, wires, ends
    <3>. QED BY <3>1, UpUntouched
  <2>2. CASE \/ ServerStarts \/ ClientStarts \/ ServerKilled \/ ClientKilled
             \/ \E life \in Life : StartupEnds(life)
    BY <2>2, UpProcesses
  <2>3. ASSUME NEW b \in Conns,
               \/ BrowserOpens(b) \/ BrowserRefused(b) \/ BrowserEnds(b)
               \/ DestinationEnds(b) \/ TunnelEndsAtServer(b) \/ TunnelEndsAtClient(b)
               \/ TunnelResets(b) \/ BrowserSends(b)
               \/ \E takes \in {"all", "part", "none"} : DestinationSends(b, takes)
               \/ \E n \in 1 .. MaxSent :
                    FrameDelivered(b, n) \/ FrameKept(b, n) \/ FrameGarbled(b, n)
               \/ \E n \in 1 .. MaxAnswers :
                    \/ AnswerPassed(b, n) \/ AnswerKept(b, n) \/ AnswerGarbled(b, n)
                    \/ AnswerAwaited(b, n) \/ AnswerMixed(b, n)
        PROVE  (\A c \in Conns : UpTunnel(c))' /\ UpStep
    BY <2>3, UpOpens, UpSends, UpKept, UpDelivers, UpOthers
  <2>. QED BY <2>1, <2>2, <2>3 DEF Next
<1>. QED BY <1>1, <1>2, TypeCorrect, PTL DEF Spec, ImplementsUpPipe, UpPipe!PipeSpec

-----------------------------------------------------------------------------
(* Answers on their way from a destination to its browser.                     *)

(* The frames on their way to the client.                                      *)
InDown == UNION {{down[b][i] : i \in 1 .. Len(down[b])} : b \in Conns}

(* The handlers of a connection, and when they are there.                      *)
HandlersOf(b) ==
    /\ R(b) \in made \/ T(b) \in made => L(b) \in made
    /\ D(b) \in made => T(b) \in made
    /\ T(b) \in open /\ D(b) \in made => D(b) \in open
    /\ D(b) \in open => T(b) \in open
    /\ T(b) \in open => server.running
    /\ R(b) \in open => client.running
    /\ R(b) \notin open => down[b] = <<>>
    /\ D(b) \notin made => answered[b] = 0 /\ down[b] = <<>> /\ got[b] = <<>>

(* The client follows a stream of the server no further than it was made.      *)
StreamsBehind ==
    /\ server.running => server.life > 0
    /\ \A f \in InDown : /\ f.life > 0 /\ f.life <= server.life
                         /\ f.life = server.life => f.seq < server.enc
    /\ client.dec.life <= server.life
    /\ client.dec.life = server.life /\ server.life > 0 => client.dec.next <= server.enc

(* Place s in the stream of a life is lost: it was used, no frame has it, and  *)
(* the client is not past it.  The client never comes past it, then.           *)
Lost(life, s) ==
    /\ life > 0
    /\ life < server.life \/ (life = server.life /\ s < server.enc)
    /\ \A f \in InDown : f.life = life => f.seq # s
    /\ client.dec.life = life => client.dec.next <= s

Blocked(f) == \E s \in Nat : s < f.seq /\ Lost(f.life, s)

(* The answers in an open tunnel are the next ones for its browser, or come    *)
(* after a lost one and are never deciphered.                                  *)
AnswersNext(b) ==
    \A i \in 1 .. Len(down[b]) :
        /\ down[b][i].item <= answered[b]
        /\ down[b][i].item = Len(got[b]) + i \/ Blocked(down[b][i])
AnswersAll(b) ==
    D(b) \in open =>
        \/ answered[b] = Len(got[b]) + Len(down[b])
        \/ \E s \in Nat : s < server.enc /\ Lost(server.life, s)
DownTunnel(b) ==
    R(b) \in open =>
        IF WasMixed(b) THEN client.dec = Spoiled ELSE AnswersNext(b) /\ AnswersAll(b)

DownInv == TypeOK /\ StreamsBehind /\ \A b \in Conns : HandlersOf(b) /\ DownTunnel(b)

CutDown == {b \in Conns : L(b) \in made \ open \/ WasMixed(b)}
DownStep == DownPipe!PipeNext \/ UNCHANGED DownPipe!pipeVars

LEMMA DownInit == ASSUME Init PROVE DownInv /\ DownPipe!PipeInit
<1>0. \A b \in Conns : down[b] = <<>> /\ got[b] = <<>> /\ answered[b] = 0 /\ ~WasMixed(b)
  BY DEF Init, WasMixed
<1>1. StreamsBehind
  BY <1>0 DEF Init, NotStarted, None, StreamsBehind, InDown
<1>2. \A b \in Conns : HandlersOf(b) /\ DownTunnel(b)
  BY <1>0 DEF Init, HandlersOf, DownTunnel
<1>3. DownPipe!PipeInit
  <2>1. [b \in Conns |-> Passed(b)] = [b \in Conns |-> <<>>]
    BY <1>0 DEF Passed
  <2>2. CutDown = {}
    BY <1>0 DEF CutDown, Init
  <2>. QED BY <2>1, <2>2 DEF Init, DownPipe!PipeInit, CutDown
<1>. QED BY <1>1, <1>2, <1>3, TypeInit DEF DownInv

-----------------------------------------------------------------------------
(* What any step does to the stream of the server and to the one the client    *)
(* follows.                                                                    *)
StreamStep ==
    /\ \/ server'.life = server.life /\ server'.enc >= server.enc
       \/ server'.life = server.life + 1
    /\ \A f \in InDown' :
        \/ \E g \in InDown : g.life = f.life /\ g.seq = f.seq
        \/ /\ f.life = server.life /\ f.seq = server.enc /\ server.running
           /\ server'.life = server.life /\ server'.enc = server.enc + 1
    /\ \/ client'.dec \in {client.dec, None, Spoiled}
       \/ \E f \in InDown : InStep(f, client.dec) /\ client'.dec = After(f)
    /\ server'.running => server.running \/ server'.life = server.life + 1

LEMMA InDownType == ASSUME TypeOK PROVE InDown \subseteq Frame
BY DEF TypeOK, InDown

LEMMA ProcessParts ==
    ASSUME TypeOK
    PROVE  /\ server.life \in Nat /\ server.enc \in Nat /\ client.life \in Nat /\ client.enc \in Nat
           /\ client.dec.life \in Nat /\ client.dec.next \in Nat
           /\ server.dec.life \in Nat /\ server.dec.next \in Nat
BY DEF TypeOK, Process

LEMMA BehindStays ==
    ASSUME TypeOK, TypeOK', StreamsBehind, StreamStep PROVE StreamsBehind'
<1>0. /\ server.life \in Nat /\ server.enc \in Nat /\ client.dec.life \in Nat /\ client.dec.next \in Nat
      /\ server'.life \in Nat /\ server'.enc \in Nat
      /\ \A f \in InDown : f.life \in Nat /\ f.seq \in Nat
  BY ProcessParts, InDownType DEF TypeOK, Process, Frame
<1>1. server'.running => server'.life > 0
  BY <1>0 DEF StreamStep, StreamsBehind
<1>2. ASSUME NEW f \in InDown'
      PROVE  f.life > 0 /\ f.life <= server'.life /\ (f.life = server'.life => f.seq < server'.enc)
  <2>1. CASE \E g \in InDown : g.life = f.life /\ g.seq = f.seq
    BY <1>0, <2>1 DEF StreamStep, StreamsBehind
  <2>2. CASE /\ f.life = server.life /\ f.seq = server.enc /\ server.running
             /\ server'.life = server.life /\ server'.enc = server.enc + 1
    BY <1>0, <2>2 DEF StreamsBehind
  <2>. QED BY <2>1, <2>2 DEF StreamStep
<1>3. /\ client'.dec.life <= server'.life
      /\ client'.dec.life = server'.life /\ server'.life > 0 => client'.dec.next <= server'.enc
  <2>1. CASE client'.dec = client.dec
    BY <1>0, <2>1 DEF StreamStep, StreamsBehind
  <2>2. CASE client'.dec \in {None, Spoiled}
    BY <1>0, <2>2 DEF None, Spoiled
  <2>3. ASSUME NEW f \in InDown, client'.dec = After(f)
        PROVE  /\ client'.dec.life <= server'.life
               /\ client'.dec.life = server'.life /\ server'.life > 0 => client'.dec.next <= server'.enc
    <3>1. client'.dec.life = f.life /\ client'.dec.next = f.seq + 1
      BY <2>3 DEF After
    <3>. QED BY <1>0, <3>1 DEF StreamStep, StreamsBehind
  <2>. QED BY <2>1, <2>2, <2>3 DEF StreamStep
<1>. QED BY <1>1, <1>2, <1>3 DEF StreamsBehind

(* A lost place stays lost: it is not made again, and the client, which takes  *)
(* the places one by one, does not come past it.                               *)
LEMMA LostStays ==
    ASSUME TypeOK, TypeOK', StreamStep, NEW life \in Nat, NEW s \in Nat, Lost(life, s)
    PROVE  Lost(life, s)'
<1>0. /\ server.life \in Nat /\ server.enc \in Nat /\ client.dec.life \in Nat /\ client.dec.next \in Nat
      /\ server'.life \in Nat /\ server'.enc \in Nat
      /\ \A f \in InDown : f.life \in Nat /\ f.seq \in Nat
  BY ProcessParts, InDownType DEF TypeOK, Process, Frame
<1>1. life < server'.life \/ (life = server'.life /\ s < server'.enc)
  BY <1>0 DEF StreamStep, Lost
<1>2. ASSUME NEW f \in InDown', f.life = life PROVE f.seq # s
  BY <1>0, <1>2 DEF StreamStep, Lost
<1>3. client'.dec.life = life => client'.dec.next <= s
  <2>1. CASE client'.dec = client.dec
    BY <2>1 DEF Lost
  <2>2. CASE client'.dec \in {None, Spoiled}
    BY <2>2 DEF None, Spoiled, Lost
  <2>3. ASSUME NEW f \in InDown, InStep(f, client.dec), client'.dec = After(f), f.life = life
        PROVE  f.seq + 1 <= s
    <3>1. f.seq # s
      BY <2>3 DEF Lost
    <3>2. f.seq = 0 \/ (f.seq = client.dec.next /\ client.dec.life = life)
      BY <2>3 DEF InStep
    <3>. QED BY <1>0, <3>1, <3>2 DEF Lost
  <2>4. \A f : After(f).life = f.life /\ After(f).next = f.seq + 1
    BY DEF After
  <2>. QED BY <2>1, <2>2, <2>3, <2>4 DEF StreamStep
<1>. QED BY <1>1, <1>2, <1>3 DEF Lost

LEMMA BlockedStays ==
    ASSUME TypeOK, TypeOK', StreamStep, NEW f \in Frame, Blocked(f)
    PROVE  Blocked(f)'
<1>1. f.life \in Nat /\ f.seq \in Nat
  BY DEF Frame
<1>. QED BY <1>1, LostStays DEF Blocked

(* Nothing of a lost place or behind it is deciphered.                         *)
LEMMA BlockedNotInStep ==
    ASSUME TypeOK, NEW f \in Frame, Blocked(f) PROVE ~InStep(f, client.dec)
<1>1. f.life \in Nat /\ f.seq \in Nat /\ client.dec.next \in Nat
  BY ProcessParts DEF Frame
<1>2. PICK s \in Nat : s < f.seq /\ Lost(f.life, s)
  BY DEF Blocked
<1>. QED BY <1>1, <1>2 DEF InStep, Lost

(* A decipher object that was fed the wrong bytes deciphers nothing.           *)
LEMMA SpoiledNotInStep ==
    ASSUME StreamsBehind, NEW f \in InDown, client.dec = Spoiled PROVE ~InStep(f, client.dec)
BY DEF StreamsBehind, InStep, Spoiled, None

(* A connection whose answers the step leaves alone.                           *)
LEMMA TunnelStays ==
    ASSUME DownInv, TypeOK', StreamStep, NEW b \in Conns,
           R(b) \in open' =>
             /\ R(b) \in open /\ down'[b] = down[b] /\ got'[b] = got[b] /\ answered'[b] = answered[b]
             /\ client.dec = Spoiled => client'.dec = Spoiled
             /\ D(b) \in open' => D(b) \in open /\ server'.life = server.life
    PROVE  DownTunnel(b)'
<1> SUFFICES ASSUME R(b) \in open' PROVE DownTunnel(b)'
  BY DEF DownTunnel
<1>1. WasMixed(b)' <=> WasMixed(b)
  BY DEF WasMixed
<1>2. CASE WasMixed(b)
  BY <1>1, <1>2 DEF DownInv, DownTunnel
<1>3. CASE ~WasMixed(b)
  <2>1. AnswersNext(b) /\ AnswersAll(b) /\ TypeOK
    BY <1>3 DEF DownInv, DownTunnel
  <2>2. \A i \in 1 .. Len(down[b]) : down[b][i] \in Frame
    BY <2>1 DEF TypeOK
  <2>3. AnswersNext(b)'
    BY <2>1, <2>2, BlockedStays DEF AnswersNext
  <2>4. AnswersAll(b)'
    <3> SUFFICES ASSUME D(b) \in open', answered[b] # Len(got[b]) + Len(down[b])
                 PROVE  \E s \in Nat : s < server'.enc /\ Lost(server.life, s)'
      BY DEF AnswersAll
    <3>1. PICK s \in Nat : s < server.enc /\ Lost(server.life, s)
      BY <2>1 DEF AnswersAll
    <3>2. PICK life \in Nat : life = server.life
      BY <2>1, ProcessParts
    <3>3. Lost(life, s)'
      BY <2>1, <3>1, <3>2, LostStays
    <3>4. Lost(server.life, s)' /\ s < server'.enc
      BY <3>1, <3>2, <3>3, ProcessParts DEF Lost, StreamStep
    <3>. QED BY <3>4
  <2>. QED BY <1>1, <1>3, <2>3, <2>4 DEF DownTunnel
<1>. QED BY <1>2, <1>3

(* A step that passes no answer is a step of the pipe when it leaves cut what  *)
(* was cut.                                                                    *)
LEMMA DownCutStep ==
    ASSUME answered' = answered, \A b \in Conns : Passed(b)' = Passed(b), CutDown \subseteq CutDown'
    PROVE  DownStep
<1>1. CutDown' \in SUBSET Conns
  BY DEF CutDown
<1>2. [b \in Conns |-> Passed(b)]' = [b \in Conns |-> Passed(b)]
  OBVIOUS
<1>3. DownPipe!Cut
  BY <1>1, <1>2 DEF DownPipe!Cut, CutDown
<1>. QED BY <1>3 DEF DownStep, DownPipe!PipeNext

LEMMA SameGot ==
    ASSUME got' = got, NEW b \in Conns
    PROVE  (WasMixed(b)' <=> WasMixed(b)) /\ Passed(b)' = Passed(b)
BY DEF WasMixed, Passed

(* What the lemmas on the steps show of the next state.                        *)
DownNext == StreamsBehind' /\ (\A c \in Conns : HandlersOf(c) /\ DownTunnel(c))' /\ DownStep

(* Handlers are closed: a tunnel of the server only with its destination       *)
(* handler and the other way round.                                            *)
LEMMA DownCloses ==
    ASSUME DownInv, TypeOK', NEW S, Closes(S), NEW b \in Conns,
           answered' = answered, got' = got, client'.dec = client.dec,
           server'.life = server.life, server'.enc = server.enc,
           made' = made \/ made' = made \cup {L(b)}, L(b) \notin made \/ made' = made,
           \A c \in Conns : /\ T(c) \in S => D(c) \in S
                            /\ D(c) \in S /\ D(c) \in open => T(c) \in S
                            /\ server'.running \/ T(c) \in S \/ T(c) \notin open
                            /\ client'.running \/ R(c) \in S \/ R(c) \notin open,
           server'.running => server.running
    PROVE  DownNext
<1>0. /\ TypeOK /\ open' = open \ S
      /\ \A c \in Conns : down'[c] = IF R(c) \in S THEN <<>> ELSE down[c]
  BY DEF DownInv, Closes
<1>1. /\ \A c, d \in Conns : /\ R(c) \in made' <=> R(c) \in made
                             /\ T(c) \in made' <=> T(c) \in made
                             /\ D(c) \in made' <=> D(c) \in made
                             /\ L(c) \in made => L(c) \in made'
  BY HandlersDiffer DEF R, L, D, T
<1>2. InDown' \subseteq InDown
  BY <1>0 DEF InDown
<1>3. StreamStep
  BY <1>0, <1>2, ProcessParts DEF StreamStep
<1>4. StreamsBehind'
  BY <1>0, <1>3, BehindStays DEF DownInv
<1>5. ASSUME NEW c \in Conns PROVE HandlersOf(c)'
  BY <1>0, <1>1 DEF DownInv, HandlersOf
<1>6. ASSUME NEW c \in Conns PROVE DownTunnel(c)'
  BY <1>0, <1>3, TunnelStays
<1>7. CutDown \subseteq CutDown'
  <2> SUFFICES ASSUME NEW c \in Conns, L(c) \in made, L(c) \notin open
               PROVE  L(c) \in made' \ open'
    BY SameGot DEF CutDown
  <2>. QED BY <1>0, <1>1
<1>. QED BY <1>4, <1>5, <1>6, <1>7, SameGot, DownCutStep DEF DownNext

LEMMA DownEnds ==
    ASSUME DownInv, TypeOK', NEW b \in Conns,
           \/ ServerKilled \/ ClientKilled \/ \E life \in Life : StartupEnds(life)
           \/ BrowserRefused(b) \/ BrowserEnds(b) \/ DestinationEnds(b)
           \/ TunnelEndsAtServer(b) \/ TunnelEndsAtClient(b)
           \/ \E n \in 1 .. MaxSent : FrameGarbled(b, n)
           \/ \E n \in 1 .. MaxAnswers : AnswerGarbled(b, n)
    PROVE  DownNext
<1>0. TypeOK /\ client \in Process /\ server \in Process
      /\ \A c \in Conns : (T(c) \in open => server.running) /\ (R(c) \in open => client.running)
  BY DEF DownInv, TypeOK, HandlersOf
<1>1. \A p \in Process : LET q == [p EXCEPT !.running = FALSE] IN
         q.life = p.life /\ q.enc = p.enc /\ q.dec = p.dec /\ q.running = FALSE
  BY DEF Process
<1>2. CASE ServerKilled \/ \E n \in 1 .. MaxSent : FrameGarbled(b, n)
  <2>1. /\ ServerStops /\ client' = client /\ made' = made /\ answered' = answered /\ got' = got
    BY <1>2 DEF ServerKilled, FrameGarbled, ends
  <2>2. Closes(ServerHandler)
    BY <2>1 DEF ServerStops
  <2>3. /\ server'.life = server.life /\ server'.enc = server.enc /\ ~server'.running
    BY <1>0, <1>1, <2>1 DEF ServerStops
  <2>4. \A c \in Conns : T(c) \in ServerHandler /\ D(c) \in ServerHandler
    BY DEF ServerHandler
  <2>5. \A c \in Conns : client'.running \/ R(c) \notin open
    BY <1>0, <2>1
  <2>. QED BY <2>1, <2>2, <2>3, <2>4, <2>5, DownCloses
<1>3. CASE ClientKilled \/ BrowserRefused(b) \/ \E n \in 1 .. MaxAnswers : AnswerGarbled(b, n)
  <2>1. /\ ClientStops /\ server' = server /\ answered' = answered /\ got' = got
        /\ made' = made \/ (made' = made \cup {L(b)} /\ L(b) \notin made)
    BY <1>3 DEF ClientKilled, BrowserRefused, AnswerGarbled, ends
  <2>2. Closes(ClientHandler) /\ client'.dec = client.dec
    BY <1>0, <1>1, <2>1 DEF ClientStops
  <2>3. \A c \in Conns : /\ T(c) \notin ClientHandler /\ D(c) \notin ClientHandler
                         /\ R(c) \in ClientHandler
    BY DEF ClientHandler, T, D, R, L
  <2>4. \A c \in Conns : server'.running \/ T(c) \notin open
    BY <1>0, <2>1
  <2>. QED BY <2>1, <2>2, <2>3, <2>4, DownCloses
<1>4. CASE (\E life \in Life : StartupEnds(life)) \/ DestinationEnds(b) \/ TunnelEndsAtServer(b)
  <2>1. PICK own \in {{}, {D(b)}, {T(b)}} : Closes(ServerCloseSet(own))
    BY <1>4 DEF StartupEnds, DestinationEnds, TunnelEndsAtServer
  <2>2. client' = client /\ server' = server /\ answered' = answered /\ got' = got /\ made' = made
    BY <1>4 DEF StartupEnds, DestinationEnds, TunnelEndsAtServer, ends
  <2>3. \A c \in Conns : /\ D(c) \in ServerCloseSet(own)
                         /\ D(c) \in open => T(c) \in ServerCloseSet(own)
    BY DEF ServerCloseSet
  <2>4. \A c \in Conns : /\ client'.running \/ R(c) \notin open
                         /\ server'.running \/ T(c) \notin open
    BY <1>0, <2>2
  <2>. QED BY <2>1, <2>2, <2>3, <2>4, DownCloses
<1>5. CASE BrowserEnds(b) \/ TunnelEndsAtClient(b)
  <2>1. PICK S \in {{L(b)}, {R(b), L(b)}} : Closes(S)
    BY <1>5 DEF BrowserEnds, TunnelEndsAtClient
  <2>2. client' = client /\ server' = server /\ answered' = answered /\ got' = got /\ made' = made
    BY <1>5 DEF BrowserEnds, TunnelEndsAtClient, ends
  <2>3. \A c \in Conns : T(c) \notin S /\ D(c) \notin S
    BY <2>1, HandlersDiffer DEF T, D, R, L
  <2>4. \A c \in Conns : /\ client'.running \/ R(c) \notin open
                         /\ server'.running \/ T(c) \notin open
    BY <1>0, <2>2
  <2>. QED BY <2>1, <2>2, <2>3, <2>4, DownCloses
<1>. QED BY <1>2, <1>3, <1>4, <1>5

(* A step that leaves the answers and the handlers alone.                      *)
LEMMA DownUntouched ==
    ASSUME DownInv, TypeOK', answered' = answered, got' = got, down' = down, open' = open,
           made' = made, client'.dec = client.dec, client'.running = client.running,
           server'.life = server.life, server'.enc = server.enc, server'.running = server.running
    PROVE  DownNext
<1>1. TypeOK /\ InDown' = InDown
  BY DEF DownInv, InDown
<1>2. StreamStep
  BY <1>1, ProcessParts DEF StreamStep
<1>3. StreamsBehind'
  BY <1>1, <1>2, BehindStays DEF DownInv
<1>4. ASSUME NEW c \in Conns PROVE HandlersOf(c)' /\ DownTunnel(c)'
  <2>1. HandlersOf(c)'
    BY DEF DownInv, HandlersOf
  <2>2. DownTunnel(c)'
    BY <1>2, TunnelStays
  <2>. QED BY <2>1, <2>2
<1>5. CutDown \subseteq CutDown'
  BY SameGot DEF CutDown
<1>. QED BY <1>3, <1>4, <1>5, SameGot, DownCutStep DEF DownNext

(* A process starts: of the client no handler is open, of the server neither.  *)
LEMMA DownStarts ==
    ASSUME DownInv, TypeOK', ServerStarts \/ ClientStarts
    PROVE  DownNext
<1>0. /\ TypeOK /\ answered' = answered /\ got' = got /\ down' = down /\ open' = open /\ made' = made
      /\ InDown' = InDown
  BY DEF DownInv, ServerStarts, ClientStarts, wires, ends, InDown
<1>1. /\ ServerStarts => /\ client' = client /\ ~server.running
                         /\ server'.life = server.life + 1 /\ server'.running
      /\ ClientStarts => /\ server' = server /\ ~client.running
                         /\ client'.dec = None /\ client'.running
  BY DEF ServerStarts, ClientStarts, Started
<1>2. StreamStep
  BY <1>0, <1>1, ProcessParts DEF StreamStep
<1>3. StreamsBehind'
  BY <1>0, <1>2, BehindStays DEF DownInv
<1>4. ASSUME NEW c \in Conns PROVE HandlersOf(c)' /\ DownTunnel(c)'
  <2>1. HandlersOf(c)'
    BY <1>0, <1>1 DEF DownInv, HandlersOf
  <2>2. /\ ServerStarts => D(c) \notin open
        /\ ClientStarts => R(c) \notin open
    BY <1>1 DEF DownInv, HandlersOf
  <2>3. DownTunnel(c)'
    BY <1>0, <1>1, <1>2, <2>2, TunnelStays
  <2>. QED BY <2>1, <2>3
<1>5. CutDown \subseteq CutDown'
  BY <1>0, SameGot DEF CutDown
<1>. QED BY <1>0, <1>3, <1>4, <1>5, SameGot, DownCutStep DEF DownNext

LEMMA DownOpens ==
    ASSUME DownInv, TypeOK', NEW b \in Conns, BrowserOpens(b)
    PROVE  DownNext
<1>0. /\ TypeOK /\ answered' = answered /\ got' = got /\ down' = down
      /\ client' = client /\ server' = server /\ client.running /\ server.running
      /\ L(b) \notin made
      /\ open' = open \cup {L(b), R(b), T(b)} /\ made' = made \cup {L(b), R(b), T(b)}
      /\ InDown' = InDown /\ open \subseteq made
  BY DEF DownInv, TypeOK, BrowserOpens, wires, ends, InDown
<1>1. StreamStep
  BY <1>0, ProcessParts DEF StreamStep
<1>2. StreamsBehind'
  BY <1>0, <1>1, BehindStays DEF DownInv
<1>3. /\ R(b) \notin made /\ T(b) \notin made /\ D(b) \notin made
      /\ answered[b] = 0 /\ down[b] = <<>> /\ got[b] = <<>>
  BY <1>0 DEF DownInv, HandlersOf
<1>4. \A c \in Conns : /\ D(c) \in open' <=> D(c) \in open
                       /\ D(c) \in made' <=> D(c) \in made
                       /\ c # b => /\ R(c) \in open' <=> R(c) \in open
                                   /\ R(c) \in made' <=> R(c) \in made
                                   /\ T(c) \in open' <=> T(c) \in open
                                   /\ T(c) \in made' <=> T(c) \in made
                                   /\ L(c) \in made' <=> L(c) \in made
                                   /\ L(c) \in open' <=> L(c) \in open
  BY <1>0 DEF L, R, T, D
<1>5. ASSUME NEW c \in Conns, c # b PROVE HandlersOf(c)' /\ DownTunnel(c)'
  <2>1. HandlersOf(c)'
    BY <1>0, <1>4, <1>5 DEF DownInv, HandlersOf
  <2>2. DownTunnel(c)'
    BY <1>0, <1>1, <1>4, <1>5, TunnelStays
  <2>. QED BY <2>1, <2>2
<1>6. HandlersOf(b)' /\ DownTunnel(b)'
  <2>1. D(b) \notin made' /\ D(b) \notin open'
    BY <1>0, <1>3, <1>4
  <2>2. HandlersOf(b)'
    BY <1>0, <1>3, <2>1 DEF HandlersOf
  <2>3. DownTunnel(b)'
    BY <1>0, <1>3, <2>1 DEF DownTunnel, WasMixed, AnswersNext, AnswersAll
  <2>. QED BY <2>2, <2>3
<1>7. CutDown \subseteq CutDown'
  BY <1>0, <1>4, SameGot DEF CutDown
<1>. QED BY <1>0, <1>2, <1>5, <1>6, <1>7, SameGot, DownCutStep DEF DownNext

(* A frame of the other direction: a destination handler is created or is      *)
(* there.                                                                      *)
LEMMA DownUplink ==
    ASSUME DownInv, TypeOK', NEW b \in Conns, NEW n \in 1 .. MaxSent,
           FrameDelivered(b, n) \/ FrameKept(b, n)
    PROVE  DownNext
<1>0. /\ TypeOK /\ answered' = answered /\ got' = got /\ down' = down /\ client' = client
      /\ open' = open \cup {D(b)} /\ made' = made \cup {D(b)} /\ T(b) \in open
      /\ InDown' = InDown /\ open \subseteq made
  <2>1. TypeOK /\ open \subseteq made
    BY DEF DownInv, TypeOK
  <2>2. /\ answered' = answered /\ got' = got /\ down' = down /\ client' = client
        /\ open' = open \cup {D(b)} /\ made' = made \cup {D(b)} /\ T(b) \in open
    BY DEF FrameDelivered, FrameKept, TunnelReads, ends
  <2>. QED BY <2>1, <2>2 DEF InDown
<1>1. /\ server'.life = server.life /\ server'.enc = server.enc /\ server'.running = server.running
  BY <1>0 DEF FrameDelivered, FrameKept, TypeOK, Process
<1>2. StreamStep
  BY <1>0, <1>1, ProcessParts DEF StreamStep
<1>3. StreamsBehind'
  BY <1>0, <1>2, BehindStays DEF DownInv
<1>4. \A c \in Conns : /\ R(c) \in open' <=> R(c) \in open
                       /\ R(c) \in made' <=> R(c) \in made
                       /\ T(c) \in open' <=> T(c) \in open
                       /\ T(c) \in made' <=> T(c) \in made
                       /\ L(c) \in made' <=> L(c) \in made
                       /\ L(c) \in open' <=> L(c) \in open
                       /\ c # b => /\ D(c) \in open' <=> D(c) \in open
                                   /\ D(c) \in made' <=> D(c) \in made
  BY <1>0 DEF L, R, T, D
<1>5. ASSUME NEW c \in Conns PROVE HandlersOf(c)'
  BY <1>0, <1>1, <1>4 DEF DownInv, HandlersOf
<1>6. ASSUME NEW c \in Conns PROVE DownTunnel(c)'
  <2>1. CASE c # b \/ D(b) \in open
    BY <1>0, <1>1, <1>2, <1>4, <2>1, TunnelStays
  <2>2. CASE c = b /\ D(b) \notin open
    <3>1. answered[b] = 0 /\ down[b] = <<>> /\ got[b] = <<>>
      BY <1>0, <2>2 DEF DownInv, HandlersOf
    <3>. QED BY <1>0, <2>2, <3>1 DEF DownTunnel, WasMixed, AnswersNext, AnswersAll
  <2>. QED BY <2>1, <2>2
<1>7. CutDown \subseteq CutDown'
  BY <1>0, <1>4, SameGot DEF CutDown
<1>. QED BY <1>0, <1>3, <1>5, <1>6, <1>7, SameGot, DownCutStep DEF DownNext

LEMMA SumGrows ==
    ASSUME NEW k \in Nat, NEW m \in Nat, NEW n, n = k + m
    PROVE  n + 1 = k + (m + 1)
OBVIOUS

(* A destination sends: its answer is the last of the tunnel or, where the     *)
(* tunnel takes nothing, its place in the stream is lost.                      *)
LEMMA DownSends ==
    ASSUME DownInv, TypeOK', NEW b \in Conns, NEW takes \in {"all", "part", "none"},
           DestinationSends(b, takes)
    PROVE  DownNext
<1> DEFINE put == R(b) \in open /\ takes # "none"
<1>a. PICK f \in Frame : f = [life |-> server.life, seq |-> server.enc, whole |-> takes = "all",
                              item |-> answered[b] + 1]
  <2>1. TypeOK
    BY DEF DownInv
  <2>2. server.life \in Nat /\ server.enc \in Nat
    BY <2>1, ProcessParts
  <2>3. answered[b] \in Nat
    BY <2>1 DEF TypeOK
  <2>4. [life |-> server.life, seq |-> server.enc, whole |-> takes = "all",
         item |-> answered[b] + 1] \in Frame
    BY <2>2, <2>3 DEF Frame
  <2>. QED BY <2>4
<1>0. /\ TypeOK /\ StreamsBehind
      /\ got' = got /\ open' = open /\ made' = made /\ client' = client /\ D(b) \in open
      /\ answered' = [answered EXCEPT ![b] = @ + 1]
      /\ down' = [down EXCEPT ![b] = IF put THEN Append(@, f) ELSE @]
  BY <1>a DEF DownInv, DestinationSends
<1>1. /\ server'.life = server.life /\ server'.enc = server.enc + 1 /\ server'.running = server.running
      /\ server.running /\ server.life > 0
  <2>1. server' = [server EXCEPT !.enc = @ + 1] /\ server \in Process
    BY <1>0 DEF DestinationSends, TypeOK
  <2>2. server.running
    BY <1>0 DEF DownInv, HandlersOf
  <2>. QED BY <1>0, <2>1, <2>2 DEF Process, StreamsBehind
<1>2. f.life = server.life /\ f.seq = server.enc /\ f.item = answered[b] + 1
  BY <1>a
<1>3. /\ \A c \in Conns : c # b => down'[c] = down[c] /\ answered'[c] = answered[c]
      /\ answered'[b] = answered[b] + 1 /\ answered[b] \in Nat
      /\ down'[b] = IF put THEN Append(down[b], f) ELSE down[b]
      /\ \A c \in Conns : down[c] \in Seq(Frame) /\ got[c] \in Seq(Nat)
  BY <1>0 DEF TypeOK
<1>4. ASSUME put
      PROVE  /\ Len(down'[b]) = Len(down[b]) + 1 /\ down'[b][Len(down[b]) + 1] = f
             /\ \A i \in 1 .. Len(down[b]) : down'[b][i] = down[b][i]
  BY <1>2, <1>3, <1>4
<1>5. \A g \in InDown' : g \in InDown \/ (g = f /\ put)
  <2> SUFFICES ASSUME NEW g \in InDown' PROVE g \in InDown \/ (g = f /\ put)
    OBVIOUS
  <2>0. PICK c \in Conns : \E i \in 1 .. Len(down'[c]) : g = down'[c][i]
    BY DEF InDown
  <2>3. PICK i \in 1 .. Len(down'[c]) : g = down'[c][i]
    BY <2>0
  <2>1. CASE c # b \/ ~put
    <3>1. down'[c] = down[c]
      BY <1>3, <2>1
    <3>. QED BY <2>3, <3>1 DEF InDown
  <2>2. CASE c = b /\ put
    <3>1. i \in 1 .. Len(down[b]) \/ i = Len(down[b]) + 1
      BY <1>3, <1>4, <2>2
    <3>. QED BY <1>4, <2>2, <2>3, <3>1 DEF InDown
  <2>. QED BY <2>1, <2>2
<1>6. StreamStep
  BY <1>0, <1>1, <1>2, <1>5, ProcessParts DEF StreamStep
<1>7. StreamsBehind'
  BY <1>0, <1>6, BehindStays
<1>8. ASSUME NEW c \in Conns PROVE HandlersOf(c)'
  <2>1. D(b) \in made
    BY <1>0 DEF TypeOK
  <2>2. CASE c = b
    BY <1>0, <1>1, <1>3, <2>1, <2>2 DEF DownInv, HandlersOf
  <2>3. CASE c # b
    BY <1>0, <1>1, <1>3, <2>3 DEF DownInv, HandlersOf
  <2>. QED BY <2>2, <2>3
<1>9. ASSUME NEW c \in Conns, c # b PROVE DownTunnel(c)'
  BY <1>0, <1>1, <1>3, <1>6, <1>9, TunnelStays
<1>10. DownTunnel(b)'
  <2> SUFFICES ASSUME R(b) \in open, ~WasMixed(b) PROVE AnswersNext(b)' /\ AnswersAll(b)'
    BY <1>0, SameGot DEF DownInv, DownTunnel
  <2>1. AnswersNext(b) /\ AnswersAll(b)
    BY DEF DownInv, DownTunnel
  <2>2. PICK life \in Nat : life = server.life
    BY <1>0, ProcessParts
  <2>3. \A s \in Nat : Lost(life, s) => Lost(life, s)'
    BY <1>0, <1>6, LostStays
  <2>4. \/ answered[b] = Len(got[b]) + Len(down[b])
        \/ \E s \in Nat : s < server.enc /\ Lost(life, s) /\ Lost(life, s)'
    BY <1>0, <2>1, <2>2, <2>3 DEF AnswersAll
  <2>5. \A i \in 1 .. Len(down[b]) : \A g \in Frame : g = down[b][i] =>
           g.item <= answered'[b] /\ (g.item = Len(got[b]) + i \/ Blocked(g)')
    <3>1. \A i \in 1 .. Len(down[b]) : down[b][i] \in Frame
      BY <1>3
    <3>2. \A g \in Frame : Blocked(g) => Blocked(g)'
      BY <1>0, <1>6, BlockedStays
    <3>3. \A i \in 1 .. Len(down[b]) : down[b][i].item <= answered'[b]
      <4> SUFFICES ASSUME NEW i \in 1 .. Len(down[b]) PROVE down[b][i].item <= answered'[b]
        OBVIOUS
      <4>1. down[b][i].item \in Nat
        BY <3>1 DEF Frame
      <4>2. down[b][i].item <= answered[b]
        BY <2>1 DEF AnswersNext
      <4>. QED BY <1>3, <4>1, <4>2
    <3>. QED BY <2>1, <3>1, <3>2, <3>3 DEF AnswersNext
  <2>6. AnswersNext(b)'
    <3>1. CASE ~put
      <4>1. \A i \in 1 .. Len(down'[b]) : down'[b][i] \in Frame
        BY DEF TypeOK
      <4>2. down'[b] = down[b]
        BY <1>3, <3>1
      <4>3. \A i \in 1 .. Len(down'[b]) : \A g \in Frame : g = down'[b][i] =>
               g.item <= answered'[b] /\ (g.item = Len(got[b]) + i \/ Blocked(g)')
        BY <2>5, <4>2
      <4>. QED BY <1>0, <4>1, <4>3 DEF AnswersNext
    <3>2. CASE put
      <4>1. f.item = Len(got[b]) + (Len(down[b]) + 1) \/ Blocked(f)'
        <5>1. CASE answered[b] = Len(got[b]) + Len(down[b])
          <6>1. Len(got[b]) \in Nat /\ Len(down[b]) \in Nat
            BY <1>3
          <6>2. f.item = Len(got[b]) + (Len(down[b]) + 1)
            BY <1>2, <5>1, <6>1, SumGrows
          <6>. QED BY <6>2
        <5>2. ASSUME NEW s \in Nat, s < server.enc, Lost(life, s)' PROVE Blocked(f)'
          <6>1. f.life = life /\ s < f.seq
            BY <1>2, <2>2, <5>2
          <6>. QED BY <5>2, <6>1 DEF Blocked
        <5>. QED BY <2>4, <5>1, <5>2
      <4>2. f.item <= answered'[b]
        BY <1>2, <1>3
      <4>3. \A i \in 1 .. Len(down'[b]) : i \in 1 .. Len(down[b]) \/ i = Len(down[b]) + 1
        BY <1>3, <1>4, <3>2
      <4>4. \A i \in 1 .. Len(down'[b]) : \A g \in Frame : g = down'[b][i] =>
               g.item <= answered'[b] /\ (g.item = Len(got[b]) + i \/ Blocked(g)')
        BY <1>4, <2>5, <3>2, <4>1, <4>2, <4>3
      <4>5. \A i \in 1 .. Len(down'[b]) : down'[b][i] \in Frame
        BY DEF TypeOK
      <4>. QED BY <1>0, <4>4, <4>5 DEF AnswersNext
    <3>. QED BY <3>1, <3>2
  <2>7. AnswersAll(b)'
    <3>1. ASSUME NEW s \in Nat, s < server'.enc, Lost(life, s)' PROVE AnswersAll(b)'
      <4>1. Lost(server.life, s)'
        BY <1>1, <2>2, <3>1 DEF Lost
      <4>. QED BY <3>1, <4>1 DEF AnswersAll
    <3>2. CASE \E s \in Nat : s < server.enc /\ Lost(life, s) /\ Lost(life, s)'
      BY <1>0, <1>1, <3>1, <3>2, ProcessParts
    <3>3. CASE put /\ answered[b] = Len(got[b]) + Len(down[b])
      <4>1. answered'[b] = Len(got'[b]) + Len(down'[b])
        <5>1. Len(got[b]) \in Nat /\ Len(down[b]) \in Nat
          BY <1>3
        <5>2. Len(got'[b]) = Len(got[b]) /\ answered'[b] = answered[b] + 1
          BY <1>0, <1>3
        <5>3. Len(down'[b]) = Len(down[b]) + 1
          BY <1>4, <3>3
        <5>4. answered[b] + 1 = Len(got[b]) + (Len(down[b]) + 1)
          BY <3>3, <5>1, SumGrows
        <5>. QED BY <5>2, <5>3, <5>4
      <4>. QED BY <4>1 DEF AnswersAll
    <3>4. CASE ~put
      <4>1. PICK s \in Nat : s = server.enc
        BY <1>0, ProcessParts
      <4>2. InDown' = InDown
        <5>1. down' = down
          BY <1>0, <3>4 DEF TypeOK
        <5>. QED BY <5>1 DEF InDown
      <4>3. Lost(life, s)'
        <5>1. \A g \in InDown : g.life = life => g.seq # s
          BY <1>0, <2>2, <4>1, ProcessParts, InDownType DEF StreamsBehind, Frame
        <5>2. client.dec.life = life => client.dec.next <= s
          BY <1>0, <1>1, <2>2, <4>1 DEF StreamsBehind
        <5>3. s < server'.enc
          BY <1>1, <4>1
        <5>. QED BY <1>0, <1>1, <2>2, <4>2, <5>1, <5>2, <5>3 DEF Lost
      <4>4. s < server'.enc
        BY <1>1, <4>1
      <4>. QED BY <3>1, <4>3, <4>4
    <3>. QED BY <2>4, <3>2, <3>3, <3>4
  <2>. QED BY <2>6, <2>7
<1>11. DownPipe!Put(b)
  <2>1. \A c \in Conns : Passed(c)' = Passed(c) /\ (WasMixed(c)' <=> WasMixed(c))
    BY <1>0, SameGot
  <2>2. [c \in Conns |-> Passed(c)]' = [c \in Conns |-> Passed(c)]
    BY <2>1
  <2>3. CutDown' = CutDown
    BY <1>0, <2>1 DEF CutDown
  <2>. QED BY <1>0, <2>2, <2>3 DEF DownPipe!Put, CutDown
<1>. QED BY <1>7, <1>8, <1>9, <1>10, <1>11 DEF DownNext, DownStep, DownPipe!PipeNext

LEMMA NextPlace ==
    ASSUME NEW k \in Nat, NEW i \in Nat PROVE k + (i + 1) = (k + 1) + i
OBVIOUS

LEMMA OneMovedOn ==
    ASSUME NEW k \in Nat, NEW m \in Nat, NEW l, m >= 1, l = m - 1 PROVE (k + 1) + l = k + m
OBVIOUS

LEMMA TailOfTwo ==
    ASSUME NEW X, NEW s \in Seq(X), Len(s) >= 2
    PROVE  /\ Tail(Tail(s)) \in Seq(X) /\ Len(Tail(Tail(s))) = Len(s) - 2 /\ Len(s) \in Nat
           /\ \A i \in 1 .. Len(Tail(Tail(s))) :
                i + 2 \in 1 .. Len(s) /\ Tail(Tail(s))[i] = s[i + 2]
<1> DEFINE t == Tail(s)
<1>1. s # <<>> /\ Len(s) \in Nat
  <2>1. Len(<<>>) = 0
    OBVIOUS
  <2>. QED BY <2>1
<1>2. t \in Seq(X) /\ Len(t) = Len(s) - 1 /\ \A j \in 1 .. Len(s) - 1 : t[j] = s[j + 1]
  BY <1>1
<1> HIDE DEF t
<1>3. t # <<>>
  <2>1. Len(<<>>) = 0
    OBVIOUS
  <2>2. Len(t) # 0
    BY <1>1, <1>2
  <2>. QED BY <2>1, <2>2
<1> DEFINE u == Tail(t)
<1>4. u \in Seq(X) /\ Len(u) = Len(t) - 1 /\ \A j \in 1 .. Len(t) - 1 : u[j] = t[j + 1]
  BY <1>2, <1>3
<1> HIDE DEF u
<1>5. ASSUME NEW i \in 1 .. Len(u) PROVE i + 2 \in 1 .. Len(s) /\ u[i] = s[i + 2]
  <2>1. i + 1 \in 1 .. Len(s) - 1 /\ i + 2 \in 1 .. Len(s) /\ (i + 1) + 1 = i + 2 /\ i \in 1 .. Len(t) - 1
    BY <1>1, <1>2, <1>4
  <2>2. u[i] = t[i + 1] /\ t[i + 1] = s[(i + 1) + 1]
    BY <1>2, <1>4, <2>1
  <2>. QED BY <2>1, <2>2
<1>6. Len(u) = Len(s) - 2
  BY <1>1, <1>2, <1>4
<1>. QED BY <1>1, <1>4, <1>5, <1>6 DEF u, t

LEMMA SameElements ==
    ASSUME NEW X, NEW p \in Seq(X), NEW s \in Seq(X), Len(p) = Len(s),
           \A i \in 1 .. Len(s) : p[i] = s[i]
    PROVE  p = s
<1>1. p = [i \in 1 .. Len(p) |-> p[i]] /\ s = [i \in 1 .. Len(s) |-> s[i]]
  OBVIOUS
<1>. QED BY <1>1

(* What is read from the front of a tunnel is in it.                           *)
LEMMA FrontInDown ==
    ASSUME TypeOK, NEW b \in Conns, NEW n \in 1 .. MaxAnswers, AnswerReads(b, n)
    PROVE  /\ Head(down[b]) \in InDown /\ Head(down[b]) \in Frame /\ Head(down[b]) = down[b][1]
           /\ Len(down[b]) \in Nat /\ Len(down[b]) >= 1 /\ R(b) \in open
<1>1. down[b] \in Seq(Frame) /\ down[b] # <<>> /\ Head(down[b]) \in Frame
  BY HeadOfDown
<1>2. Len(down[b]) \in Nat /\ Len(down[b]) >= 1 /\ Head(down[b]) = down[b][1]
  BY <1>1
<1>. QED BY <1>1, <1>2 DEF InDown, AnswerReads

(* A frame that deciphers is the next answer, and no answer was mixed up.      *)
LEMMA NextAnswer ==
    ASSUME DownInv, NEW b \in Conns, NEW n \in 1 .. MaxAnswers, AnswerReads(b, n),
           InStep(Head(down[b]), client.dec)
    PROVE  /\ Head(down[b]).item = Len(got[b]) + 1 /\ Len(got[b]) < answered[b]
           /\ client.dec # Spoiled /\ ~WasMixed(b) /\ AnswersNext(b) /\ AnswersAll(b)
<1> DEFINE f == Head(down[b])
<1>1. f \in InDown /\ f \in Frame /\ f = down[b][1] /\ R(b) \in open /\ 1 \in 1 .. Len(down[b])
  BY FrontInDown DEF DownInv
<1>2. client.dec # Spoiled /\ ~WasMixed(b) /\ AnswersNext(b) /\ AnswersAll(b)
  BY <1>1, SpoiledNotInStep DEF DownInv, DownTunnel
<1>3. ~Blocked(f)
  BY <1>1, BlockedNotInStep DEF DownInv
<1>4. f.item = Len(got[b]) + 1 /\ f.item <= answered[b]
  BY <1>1, <1>2, <1>3 DEF AnswersNext
<1>5. Len(got[b]) \in Nat /\ answered[b] \in Nat
  <2>1. got[b] \in Seq(Nat) /\ answered[b] \in Nat
    BY DEF DownInv, TypeOK
  <2>. QED BY <2>1
<1>. QED BY <1>2, <1>4, <1>5

(* Deciphering one frame of the tunnel, or being fed the wrong bytes.          *)
LEMMA DeciphersStep ==
    ASSUME DownInv, TypeOK', NEW b \in Conns, NEW n \in 1 .. MaxAnswers, AnswerReads(b, n),
           InStep(Head(down[b]), client.dec),
           client'.dec = After(Head(down[b])) \/ client'.dec = Spoiled,
           server' = server, open' = open, answered' = answered,
           \A f \in InDown' : \E g \in InDown : g.life = f.life /\ g.seq = f.seq
    PROVE  /\ StreamStep /\ StreamsBehind'
           /\ \A c \in Conns : down'[c] = down[c] /\ got'[c] = got[c] => DownTunnel(c)'
<1>1. Head(down[b]) \in InDown /\ client.dec # Spoiled /\ TypeOK
  BY FrontInDown, NextAnswer DEF DownInv
<1>2. StreamStep
  BY <1>1, ProcessParts DEF StreamStep
<1>3. StreamsBehind'
  BY <1>1, <1>2, BehindStays DEF DownInv
<1>. QED BY <1>1, <1>2, <1>3, TunnelStays

LEMMA DownPasses ==
    ASSUME DownInv, TypeOK', NEW b \in Conns, NEW n \in 1 .. MaxAnswers, AnswerPassed(b, n)
    PROVE  DownNext
<1>0. /\ TypeOK /\ AnswerReads(b, n) /\ InStep(Head(down[b]), client.dec) /\ L(b) \in open
      /\ client' = [client EXCEPT !.dec = After(Head(down[b]))]
      /\ down' = [down EXCEPT ![b] = Tail(@)]
      /\ got' = [got EXCEPT ![b] = Append(@, Head(down[b]).item)]
      /\ server' = server /\ open' = open /\ made' = made /\ answered' = answered
  BY DEF DownInv, AnswerPassed
<1>1. client'.dec = After(Head(down[b])) /\ client'.running = client.running
  BY <1>0 DEF TypeOK, Process
<1>2. /\ down[b] \in Seq(Frame) /\ down[b] # <<>> /\ got[b] \in Seq(Nat)
      /\ down'[b] = Tail(down[b]) /\ got'[b] = Append(got[b], Head(down[b]).item)
      /\ \A c \in Conns : c # b => down'[c] = down[c] /\ got'[c] = got[c]
  BY <1>0, HeadOfDown DEF TypeOK
<1>3. /\ Head(down[b]).item = Len(got[b]) + 1 /\ Len(got[b]) < answered[b]
      /\ ~WasMixed(b) /\ AnswersNext(b) /\ AnswersAll(b)
  BY <1>0, NextAnswer
<1>4. /\ Len(down[b]) \in Nat /\ Len(down[b]) >= 1 /\ Len(down'[b]) = Len(down[b]) - 1
      /\ Len(got[b]) \in Nat /\ Len(got'[b]) = Len(got[b]) + 1
  <2>1. Len(down[b]) \in Nat /\ Len(down[b]) >= 1 /\ Len(Tail(down[b])) = Len(down[b]) - 1
    BY <1>2
  <2>2. Head(down[b]).item \in Nat
    BY <1>0, HeadOfDown DEF Frame
  <2>3. Len(got[b]) \in Nat /\ Len(Append(got[b], Head(down[b]).item)) = Len(got[b]) + 1
    BY <1>2, <2>2
  <2>. QED BY <1>2, <2>1, <2>3
<1>5. \A i \in 1 .. Len(down'[b]) : i + 1 \in 1 .. Len(down[b]) /\ down'[b][i] = down[b][i + 1]
  <2>1. \A i \in 1 .. Len(down[b]) - 1 : Tail(down[b])[i] = down[b][i + 1]
    BY <1>2
  <2>. QED BY <1>2, <1>4, <2>1
<1>6. \A f \in InDown' : f \in InDown
  <2> SUFFICES ASSUME NEW f \in InDown' PROVE f \in InDown
    OBVIOUS
  <2>1. PICK c \in Conns : \E i \in 1 .. Len(down'[c]) : f = down'[c][i]
    BY DEF InDown
  <2>2. PICK i \in 1 .. Len(down'[c]) : f = down'[c][i]
    BY <2>1
  <2>3. CASE c = b
    BY <1>5, <2>2, <2>3 DEF InDown
  <2>4. CASE c # b
    BY <1>2, <2>2, <2>4 DEF InDown
  <2>. QED BY <2>3, <2>4
<1>7. /\ StreamStep /\ StreamsBehind'
      /\ \A c \in Conns : c # b => DownTunnel(c)'
  BY <1>0, <1>1, <1>2, <1>6, DeciphersStep
<1>8. D(b) \in made /\ R(b) \in open
  <2>1. R(b) \in open
    BY <1>0, FrontInDown
  <2>. QED BY <1>2, <2>1 DEF DownInv, HandlersOf
<1>9. ASSUME NEW c \in Conns PROVE HandlersOf(c)'
  <2>1. CASE c = b
    BY <1>0, <1>1, <1>8, <2>1 DEF DownInv, HandlersOf
  <2>2. CASE c # b
    BY <1>0, <1>1, <1>2, <2>2 DEF DownInv, HandlersOf
  <2>. QED BY <2>1, <2>2
<1>10. ~WasMixed(b)'
  <2>1. \A i \in 1 .. Len(got'[b]) : i \in 1 .. Len(got[b]) \/ i = Len(got[b]) + 1
    BY <1>4
  <2>2. \A i \in 1 .. Len(got[b]) : got'[b][i] = got[b][i] /\ got[b][i] # Bad
    BY <1>2, <1>3 DEF WasMixed
  <2>3. got'[b][Len(got[b]) + 1] # Bad
    <3>1. got'[b][Len(got[b]) + 1] = Head(down[b]).item
      BY <1>2
    <3>. QED BY <1>3, <1>4, <3>1 DEF Bad
  <2>. QED BY <2>1, <2>2, <2>3 DEF WasMixed
<1>11. AnswersNext(b)'
  <2>1. \A i \in 1 .. Len(down'[b]) : down'[b][i] \in Frame
    BY DEF TypeOK
  <2>2. \A g \in Frame : Blocked(g) => Blocked(g)'
    BY <1>0, <1>7, BlockedStays
  <2>3. ASSUME NEW i \in 1 .. Len(down'[b]), NEW g \in Frame, g = down'[b][i]
        PROVE  g.item <= answered[b] /\ (g.item = Len(got'[b]) + i \/ Blocked(g)')
    <3>1. i + 1 \in 1 .. Len(down[b]) /\ g = down[b][i + 1] /\ i \in Nat
      BY <1>4, <1>5, <2>3
    <3>2. g.item <= answered[b] /\ (g.item = Len(got[b]) + (i + 1) \/ Blocked(g))
      BY <1>3, <3>1 DEF AnswersNext
    <3>3. Len(got[b]) + (i + 1) = (Len(got[b]) + 1) + i
      BY <1>4, <3>1, NextPlace
    <3>. QED BY <1>4, <2>2, <3>2, <3>3
  <2>. QED BY <1>0, <2>1, <2>3 DEF AnswersNext
<1>12. AnswersAll(b)'
  <2>1. PICK life \in Nat : life = server.life
    BY <1>0, ProcessParts
  <2>2. \A s \in Nat : Lost(life, s) => Lost(life, s)'
    BY <1>0, <1>7, LostStays
  <2>3. ASSUME NEW s \in Nat, s < server.enc, Lost(life, s) PROVE AnswersAll(b)'
    <3>1. Lost(server.life, s)'
      BY <1>0, <2>1, <2>2, <2>3 DEF Lost
    <3>. QED BY <1>0, <2>3, <3>1 DEF AnswersAll
  <2>4. CASE answered[b] = Len(got[b]) + Len(down[b])
    <3>1. (Len(got[b]) + 1) + Len(down'[b]) = Len(got[b]) + Len(down[b])
      BY <1>4, OneMovedOn
    <3>2. answered'[b] = Len(got'[b]) + Len(down'[b])
      BY <1>0, <1>4, <2>4, <3>1
    <3>. QED BY <3>2 DEF AnswersAll
  <2>5. CASE D(b) \notin open
    BY <1>0, <2>5 DEF AnswersAll
  <2>. QED BY <1>3, <2>1, <2>3, <2>4, <2>5 DEF AnswersAll
<1>13. DownPipe!Move(b)
  <2>1. \A c \in Conns : c # b => Passed(c)' = Passed(c) /\ (WasMixed(c)' <=> WasMixed(c))
    BY <1>2 DEF Passed, WasMixed
  <2>2. Passed(b) = got[b] /\ Passed(b)' = Append(got[b], Len(got[b]) + 1)
    BY <1>2, <1>3, <1>10 DEF Passed
  <2>3. [c \in Conns |-> Passed(c)]' =
           [[c \in Conns |-> Passed(c)] EXCEPT ![b] = Append(@, Len(@) + 1)]
    BY <2>1, <2>2
  <2>4. CutDown' = CutDown /\ b \notin CutDown
    BY <1>0, <1>3, <1>10, <2>1 DEF CutDown
  <2>. QED BY <1>0, <1>3, <2>2, <2>3, <2>4 DEF DownPipe!Move, CutDown
<1>. QED BY <1>7, <1>9, <1>10, <1>11, <1>12, <1>13 DEF DownNext, DownTunnel, DownStep, DownPipe!PipeNext

LEMMA DownKeeps ==
    ASSUME DownInv, TypeOK', NEW b \in Conns, NEW n \in 1 .. MaxAnswers, AnswerKept(b, n)
    PROVE  DownNext
<1>0. /\ TypeOK /\ AnswerReads(b, n) /\ InStep(Head(down[b]), client.dec)
      /\ client' = [client EXCEPT !.dec = IF Head(down[b]).whole THEN After(Head(down[b])) ELSE Spoiled]
      /\ got' = got /\ down' = down /\ answered' = answered
      /\ server' = server /\ open' = open /\ made' = made
  BY DEF DownInv, AnswerKept, ends
<1>1. /\ client'.dec = After(Head(down[b])) \/ client'.dec = Spoiled
      /\ client'.running = client.running
  BY <1>0 DEF TypeOK, Process
<1>2. InDown' = InDown
  BY <1>0 DEF InDown
<1>3. StreamsBehind' /\ \A c \in Conns : DownTunnel(c)'
  BY <1>0, <1>1, <1>2, DeciphersStep
<1>4. ASSUME NEW c \in Conns PROVE HandlersOf(c)'
  BY <1>0, <1>1 DEF DownInv, HandlersOf
<1>5. CutDown \subseteq CutDown'
  BY <1>0, SameGot DEF CutDown
<1>. QED BY <1>0, <1>3, <1>4, <1>5, SameGot, DownCutStep DEF DownNext

(* What is sent for the part and the frame behind it is no answer, and the     *)
(* last that the browser gets.                                                 *)
LEMMA DownMixes ==
    ASSUME DownInv, TypeOK', NEW b \in Conns, NEW n \in 1 .. MaxAnswers, AnswerMixed(b, n)
    PROVE  DownNext
<1> DEFINE g == down[b][2]
           rest == Tail(Tail(down[b]))
<1>0. /\ TypeOK /\ AnswerReads(b, n) /\ InStep(Head(down[b]), client.dec)
      /\ downRead[b] + n > 1
      /\ client' = [client EXCEPT !.dec = Spoiled]
      /\ down' = [down EXCEPT ![b] = <<[@[2] EXCEPT !.whole = FALSE]>> \o Tail(Tail(@))]
      /\ got' = [got EXCEPT ![b] = Append(@, Bad)]
      /\ server' = server /\ open' = open /\ made' = made /\ answered' = answered
  BY DEF DownInv, AnswerMixed
<1>1. client'.dec = Spoiled /\ client'.running = client.running
  BY <1>0 DEF TypeOK, Process
<1>2. /\ down[b] \in Seq(Frame) /\ Len(down[b]) >= 2 /\ g \in Frame /\ g \in InDown /\ got[b] \in Seq(Nat)
  <2>1. down[b] \in Seq(Frame) /\ got[b] \in Seq(Nat)
    BY <1>0 DEF TypeOK
  <2>2. downRead[b] + n <= Len(down[b]) /\ downRead[b] + n \in Nat
    BY <1>0, HeadOfDown DEF AnswerReads
  <2>3. Len(down[b]) >= 2
    BY <1>0, <2>1, <2>2
  <2>4. 2 \in 1 .. Len(down[b])
    BY <2>1, <2>3
  <2>. QED BY <2>1, <2>3, <2>4 DEF InDown
<1>3. /\ down'[b] = <<[g EXCEPT !.whole = FALSE]>> \o rest /\ got'[b] = Append(got[b], Bad)
      /\ \A c \in Conns : c # b => down'[c] = down[c] /\ got'[c] = got[c]
  BY <1>0 DEF TypeOK
<1>4. /\ rest \in Seq(Frame) /\ Len(rest) = Len(down[b]) - 2
      /\ \A i \in 1 .. Len(rest) : i + 2 \in 1 .. Len(down[b]) /\ rest[i] = down[b][i + 2]
  BY <1>2, TailOfTwo
<1>5. [g EXCEPT !.whole = FALSE] \in Frame /\ [g EXCEPT !.whole = FALSE].life = g.life
      /\ [g EXCEPT !.whole = FALSE].seq = g.seq
  BY <1>2 DEF Frame
<1>6. \A i \in 1 .. Len(down'[b]) : \/ down'[b][i] = [g EXCEPT !.whole = FALSE]
                                    \/ down'[b][i] \in InDown
  <2> DEFINE h == [g EXCEPT !.whole = FALSE]
             r == rest
  <2>1. h \in Frame /\ r \in Seq(Frame) /\ \A i \in 1 .. Len(r) : r[i] \in InDown
    <3>1. \A j \in 1 .. Len(down[b]) : down[b][j] \in InDown
      BY DEF InDown
    <3>2. h \in Frame /\ r \in Seq(Frame)
      BY <1>4, <1>5
    <3>3. \A i \in 1 .. Len(r) : i + 2 \in 1 .. Len(down[b]) /\ r[i] = down[b][i + 2]
      BY <1>4
    <3>. QED BY <3>1, <3>2, <3>3
  <2> HIDE DEF h, r
  <2>2. \A i \in 1 .. Len(<<h>> \o r) : (<<h>> \o r)[i] = h \/ \E j \in 1 .. Len(r) : (<<h>> \o r)[i] = r[j]
    <3> SUFFICES ASSUME NEW i \in 1 .. Len(<<h>> \o r)
                 PROVE  (<<h>> \o r)[i] = h \/ \E j \in 1 .. Len(r) : (<<h>> \o r)[i] = r[j]
      OBVIOUS
    <3>1. Len(<<h>> \o r) = 1 + Len(r) /\ Len(r) \in Nat
      BY <2>1
    <3>2. CASE i = 1
      BY <2>1, <3>2
    <3>3. CASE i # 1
      <4>1. i - 1 \in 1 .. Len(r)
        BY <3>1, <3>3
      <4>2. (<<h>> \o r)[i] = r[i - 1]
        BY <2>1, <3>1, <3>3
      <4>. QED BY <4>1, <4>2
    <3>. QED BY <3>2, <3>3
  <2>. QED BY <1>3, <2>1, <2>2 DEF h, r
<1> HIDE DEF g, rest
<1>7. ASSUME NEW f \in InDown' PROVE \E x \in InDown : x.life = f.life /\ x.seq = f.seq
  <2>1. PICK c \in Conns : \E i \in 1 .. Len(down'[c]) : f = down'[c][i]
    BY DEF InDown
  <2>2. PICK i \in 1 .. Len(down'[c]) : f = down'[c][i]
    BY <2>1
  <2>3. CASE c = b
    BY <1>2, <1>5, <1>6, <2>2, <2>3
  <2>4. CASE c # b
    BY <1>3, <2>2, <2>4 DEF InDown
  <2>. QED BY <2>3, <2>4
<1>8. /\ StreamStep /\ StreamsBehind'
      /\ \A c \in Conns : c # b => DownTunnel(c)'
  BY <1>0, <1>1, <1>3, <1>7, DeciphersStep
<1>9. ~WasMixed(b) /\ R(b) \in open /\ D(b) \in made
  <2>1. R(b) \in open /\ ~WasMixed(b)
    BY <1>0, FrontInDown, NextAnswer
  <2>2. down[b] # <<>>
    BY <1>2
  <2>. QED BY <2>1, <2>2 DEF DownInv, HandlersOf
<1>10. ASSUME NEW c \in Conns PROVE HandlersOf(c)'
  <2>1. CASE c = b
    BY <1>0, <1>1, <1>9, <2>1 DEF DownInv, HandlersOf
  <2>2. CASE c # b
    BY <1>0, <1>1, <1>3, <2>2 DEF DownInv, HandlersOf
  <2>. QED BY <2>1, <2>2
<1>11. /\ Len(got'[b]) = Len(got[b]) + 1 /\ Len(got[b]) \in Nat /\ got'[b][Len(got[b]) + 1] = Bad
       /\ SubSeq(got'[b], 1, Len(got'[b]) - 1) = got[b]
  <2> DEFINE s == got[b]
  <2>1. s \in Seq(Nat) /\ Bad \in Nat /\ got'[b] = Append(s, Bad)
    BY <1>2, <1>3 DEF Bad
  <2> HIDE DEF s
  <2>2. /\ Len(Append(s, Bad)) = Len(s) + 1 /\ Len(s) \in Nat /\ Append(s, Bad)[Len(s) + 1] = Bad
    BY <2>1
  <2>3. Append(s, Bad) \in Seq(Nat) /\ \A i \in 1 .. Len(s) : Append(s, Bad)[i] = s[i]
    BY <2>1
  <2> DEFINE a == Append(s, Bad)
             p == SubSeq(a, 1, Len(s))
  <2>4. a \in Seq(Nat) /\ Len(a) = Len(s) + 1 /\ \A i \in 1 .. Len(s) : a[i] = s[i]
    BY <2>2, <2>3
  <2> HIDE DEF a
  <2>5. Len(p) = Len(s) /\ (\A i \in 1 .. Len(s) : p[i] = a[i]) /\ p \in Seq(Nat)
    <3>1. Len(p) = Len(s) /\ \A i \in 1 .. Len(s) : p[i] = a[i]
      BY <2>2, <2>4
    <3>2. \A i \in 1 .. Len(s) : a[i] \in Nat
      BY <2>1, <2>2, <2>4
    <3>3. p \in Seq(Nat)
      BY <2>2, <2>4, <3>2
    <3>. QED BY <3>1, <3>3
  <2>6. p = s
    <3>1. Len(p) = Len(s) /\ \A i \in 1 .. Len(s) : p[i] = s[i]
      BY <2>4, <2>5
    <3> HIDE DEF p
    <3>. QED BY <2>1, <2>5, <3>1, SameElements
  <2>. QED BY <2>1, <2>2, <2>6 DEF a, s
<1>12. WasMixed(b)' /\ Passed(b)' = Passed(b)
  <2>1. Len(got[b]) + 1 \in 1 .. Len(got'[b])
    BY <1>11
  <2>2. WasMixed(b)'
    BY <1>11, <2>1 DEF WasMixed
  <2>. QED BY <1>9, <1>11, <2>2 DEF Passed
<1>13. DownTunnel(b)'
  BY <1>1, <1>12 DEF DownTunnel
<1>14. \A c \in Conns : Passed(c)' = Passed(c) /\ (WasMixed(c) => WasMixed(c)')
  <2>1. \A c \in Conns : c # b => Passed(c)' = Passed(c) /\ (WasMixed(c) => WasMixed(c)')
    BY <1>3 DEF Passed, WasMixed
  <2>. QED BY <1>12, <2>1
<1>15. CutDown \subseteq CutDown'
  BY <1>0, <1>14 DEF CutDown
<1>. QED BY <1>0, <1>8, <1>10, <1>13, <1>14, <1>15, DownCutStep DEF DownNext

(* Without a connection only the processes start and end.                      *)
LEMMA DownNone ==
    ASSUME DownInv, TypeOK', Conns = {},
           ServerKilled \/ ClientKilled \/ \E life \in Life : StartupEnds(life)
    PROVE  DownNext
<1>1. /\ answered' = answered /\ client'.dec = client.dec /\ server'.life = server.life
      /\ server'.enc = server.enc /\ (server'.running => server.running)
  BY DEF ServerKilled, ClientKilled, StartupEnds, ServerStops, ClientStops, ends, DownInv, TypeOK, Process
<1>2. InDown = {} /\ InDown' = {}
  BY DEF InDown
<1>3. StreamsBehind'
  BY <1>1, <1>2 DEF DownInv, StreamsBehind
<1>4. CutDown \subseteq CutDown'
  BY DEF CutDown
<1>. QED BY <1>1, <1>3, <1>4, DownCutStep DEF DownNext

(* What a browser was sent is, in order and once, what its destination sent,   *)
(* up to the first answer whose frame was sent in part; what is sent in its    *)
(* place is the last, and after the end of the browser's connection nothing    *)
(* more reaches it (tcprelay.py 252-283, 353-367).                             *)
THEOREM DownPipeImplemented == Spec => ImplementsDownPipe
<1>1. Init => DownInv /\ DownPipe!PipeInit
  BY DownInit
<1>2. DownInv /\ TypeOK' /\ [Next]_vars => DownInv' /\ [DownPipe!PipeNext]_(DownPipe!pipeVars)
  <2>. SUFFICES ASSUME DownInv, TypeOK', [Next]_vars PROVE DownNext
    BY DEF DownInv, DownNext, DownStep
  <2>1. CASE UNCHANGED vars
    <3>1. /\ answered' = answered /\ got' = got /\ down' = down /\ open' = open /\ made' = made
          /\ client' = client /\ server' = server
      BY <2>1 DEF vars, wires, ends
    <3>. QED BY <3>1, DownUntouched
  <2>2. CASE ServerStarts \/ ClientStarts
    BY <2>2, DownStarts
  <2>3. CASE ServerKilled \/ ClientKilled \/ \E life \in Life : StartupEnds(life)
    <3>1. CASE Conns # {}
      BY <2>3, <3>1, DownEnds
    <3>2. CASE Conns = {}
      BY <2>3, <3>2, DownNone
    <3>. QED BY <3>1, <3>2
  <2>4. ASSUME NEW b \in Conns,
               \/ BrowserOpens(b) \/ BrowserRefused(b) \/ BrowserEnds(b)
               \/ DestinationEnds(b) \/ TunnelEndsAtServer(b) \/ TunnelEndsAtClient(b)
               \/ TunnelResets(b) \/ BrowserSends(b)
        PROVE  DownNext
    <3>1. CASE TunnelResets(b)
      <4>1. /\ answered' = answered /\ got' = got /\ down' = down /\ open' = open /\ made' = made
            /\ client' = client /\ server' = server
        BY <3>1 DEF TunnelResets, wires, ends
      <4>. QED BY <4>1, DownUntouched
    <3>2. CASE BrowserSends(b)
      <4>1. /\ answered' = answered /\ got' = got /\ down' = down /\ open' = open /\ made' = made
            /\ client'.dec = client.dec /\ client'.running = client.running /\ server' = server
        BY <3>2 DEF BrowserSends, DownInv, TypeOK, Process
      <4>. QED BY <4>1, DownUntouched
    <3>. QED BY <2>4, <3>1, <3>2, DownOpens, DownEnds
  <2>5. ASSUME NEW b \in Conns,
               \/ \E takes \in {"all", "part", "none"} : DestinationSends(b, takes)
               \/ \E n \in 1 .. MaxSent :
                    FrameDelivered(b, n) \/ FrameKept(b, n) \/ FrameGarbled(b, n)
        PROVE  DownNext
    BY <2>5, DownSends, DownUplink, DownEnds
  <2>6. ASSUME NEW b \in Conns, NEW n \in 1 .. MaxAnswers,
               \/ AnswerPassed(b, n) \/ AnswerKept(b, n) \/ AnswerGarbled(b, n)
               \/ AnswerAwaited(b, n) \/ AnswerMixed(b, n)
        PROVE  DownNext
    <3>1. CASE AnswerAwaited(b, n)
      <4>1. /\ answered' = answered /\ got' = got /\ down' = down /\ open' = open /\ made' = made
            /\ client' = client /\ server' = server
        BY <3>1 DEF AnswerAwaited, ends
      <4>. QED BY <4>1, DownUntouched
    <3>. QED BY <2>6, <3>1, DownPasses, DownKeeps, DownMixes, DownEnds
  <2>. QED BY <2>1, <2>2, <2>3, <2>4, <2>5, <2>6 DEF Next
<1>. QED BY <1>1, <1>2, TypeCorrect, PTL DEF Spec, ImplementsDownPipe, DownPipe!PipeSpec

-----------------------------------------------------------------------------
(* Left to themselves both processes go on.                                    *)

MadeConns == {b \in Conns : L(b) \in made}
OneAtMost == \A b, c \in MadeConns : b = c

(* The frames of q are the last that p made and d follows what was made        *)
(* before them.                                                                *)
InOrder(q, p, d) ==
    /\ Len(q) <= p.enc
    /\ \A i \in 1 .. Len(q) :
        q[i].life = p.life /\ q[i].seq + Len(q) + 1 = p.enc + i /\ q[i].whole
    /\ IF Len(q) = p.enc THEN d = None ELSE d.life = p.life /\ d.next + Len(q) = p.enc

(* Each process was started once, and the one tunnel has both streams in       *)
(* order.                                                                      *)
StartedOnce ==
    /\ client.running \/ (client.life = 0 /\ MadeConns = {})
    /\ server.running \/ server.life = 0
    /\ client.running => server.running
    /\ MadeConns = {} =>
        client.enc = 0 /\ server.enc = 0 /\ client.dec = None /\ server.dec = None
StreamsInOrder(b) ==
    /\ T(b) \in open => InOrder(up[b], client, server.dec)
    /\ R(b) \in open => InOrder(down[b], server, client.dec)
Quiet == StartedOnce /\ \A b \in Conns : StreamsInOrder(b)

(* Whatever went wrong.                                                        *)
TunnelEnds(b) ==
    /\ R(b) \in made \/ T(b) \in made \/ D(b) \in made => L(b) \in made
    /\ T(b) \notin open => up[b] = <<>>
    /\ R(b) \notin open => down[b] = <<>>

QuietInv ==
    /\ IsFiniteSet(MadeConns)
    /\ \A b \in Conns : TunnelEnds(b)
    /\ causes = {} /\ OneAtMost => Quiet

LEMMA NoneMade == ASSUME Init PROVE QuietInv
<1>1. MadeConns = {}
  BY DEF Init, MadeConns
<1>2. IsFiniteSet(MadeConns)
  BY <1>1, FS_EmptySet
<1>. QED BY <1>1, <1>2 DEF Init, QuietInv, TunnelEnds, Quiet, StartedOnce, StreamsInOrder, NotStarted

(* A set with no more than one member.                                         *)
LEMMA OneMember ==
    ASSUME NEW S, IsFiniteSet(S), Cardinality(S) <= 1, NEW x \in S, NEW y \in S
    PROVE  x = y
<1> SUFFICES ASSUME x # y PROVE FALSE
  OBVIOUS
<1>1. IsFiniteSet({x}) /\ Cardinality({x}) = 1
  BY FS_Singleton
<1>2. Cardinality({x} \cup {y}) = 2 /\ IsFiniteSet({x} \cup {y})
  BY <1>1, FS_AddElement
<1>3. Cardinality({x} \cup {y}) <= Cardinality(S) /\ Cardinality(S) \in Nat
  <2>1. {x} \cup {y} \in SUBSET S
    OBVIOUS
  <2>. QED BY <2>1, FS_Subset, FS_CardinalityType
<1>. QED BY <1>2, <1>3

(* Sums of places and lengths.                                                 *)
LEMMA NextKept ==
    ASSUME NEW s \in Nat, NEW n \in Nat, NEW e \in Nat, s + n = e
    PROVE  s + (n + 1) = e + 1
OBVIOUS

LEMMA FirstPlace ==
    ASSUME NEW s \in Nat, NEW n \in Nat, NEW e \in Nat, s + n + 1 = e + 1
    PROVE  s + n = e /\ (s + 1) + (n - 1) = e
OBVIOUS

LEMMA SamePlace ==
    ASSUME NEW s \in Nat, NEW t \in Nat, NEW n \in Nat, NEW e, s + n = e, t + n = e
    PROVE  s = t
OBVIOUS

LEMMA OrderGrows ==
    ASSUME NEW q \in Seq(Frame), NEW p \in Process, NEW r \in Process,
           NEW d \in [life : Nat, next : Nat], InOrder(q, p, d),
           NEW f \in Frame, f.life = p.life, f.seq = p.enc, f.whole,
           r.life = p.life, r.enc = p.enc + 1
    PROVE  InOrder(Append(q, f), r, d)
<1> DEFINE a == Append(q, f)
<1>1. /\ Len(a) = Len(q) + 1 /\ Len(q) \in Nat /\ a[Len(q) + 1] = f
      /\ \A i \in 1 .. Len(q) : a[i] = q[i] /\ q[i] \in Frame
  OBVIOUS
<1> HIDE DEF a
<1>2. p.enc \in Nat /\ r.enc \in Nat
  BY DEF Process
<1>3. ASSUME NEW i \in 1 .. Len(a)
      PROVE  a[i].life = r.life /\ a[i].seq + Len(a) + 1 = r.enc + i /\ a[i].whole
  <2>1. CASE i \in 1 .. Len(q)
    <3>1. /\ q[i].life = p.life /\ q[i].seq + Len(q) + 1 = p.enc + i /\ q[i].whole
          /\ q[i].seq \in Nat /\ a[i] = q[i]
      BY <1>1, <2>1 DEF InOrder, Frame
    <3>2. q[i].seq \in Nat /\ Len(q) \in Nat /\ p.enc \in Nat /\ i \in Nat
          /\ q[i].seq + Len(q) + 1 = p.enc + i
      BY <1>1, <1>2, <3>1
    <3>3. q[i].seq + (Len(q) + 1) + 1 = (p.enc + 1) + i
      <4>1. PICK k \in Nat, n \in Nat, e \in Nat, j \in Nat :
                   k = q[i].seq /\ n = Len(q) /\ e = p.enc /\ j = i
        BY <3>2
      <4>2. k + n + 1 = e + j
        BY <3>2, <4>1, Zenon
      <4>3. k + (n + 1) + 1 = (e + 1) + j
        BY <4>2, SMT
      <4>. QED BY <4>1, <4>3, Zenon
    <3>. QED BY <1>1, <3>1, <3>3
  <2>2. CASE i = Len(q) + 1
    BY <1>1, <1>2, <2>2
  <2>. QED BY <1>1, <2>1, <2>2
<1>4. Len(a) <= r.enc /\ (Len(a) = r.enc <=> Len(q) = p.enc)
  BY <1>1, <1>2 DEF InOrder
<1>5. Len(q) # p.enc => d.life = r.life /\ d.next + Len(a) = r.enc
  <2> SUFFICES ASSUME Len(q) # p.enc PROVE d.life = r.life /\ d.next + Len(a) = r.enc
    OBVIOUS
  <2>1. d.life = p.life /\ d.next + Len(q) = p.enc
    BY DEF InOrder
  <2>2. d.next + (Len(q) + 1) = p.enc + 1
    BY <1>1, <1>2, <2>1, NextKept
  <2>. QED BY <1>1, <2>1, <2>2
<1>6. Len(q) = p.enc => d = None
  BY DEF InOrder
<1>. QED BY <1>3, <1>4, <1>5, <1>6 DEF InOrder, a

(* The front of a stream in order deciphers, and leaves it in order.           *)
LEMMA OrderMoves ==
    ASSUME NEW q \in Seq(Frame), NEW p \in Process, NEW d \in [life : Nat, next : Nat],
           InOrder(q, p, d), q # <<>>
    PROVE  /\ InStep(Head(q), d) /\ Head(q).whole
           /\ InOrder(Tail(q), p, After(Head(q)))
<1> DEFINE f == Head(q)
           t == Tail(q)
<1>1. /\ Len(q) \in Nat /\ Len(q) >= 1 /\ f = q[1] /\ f \in Frame
      /\ Len(t) = Len(q) - 1 /\ \A i \in 1 .. Len(q) - 1 : t[i] = q[i + 1]
  OBVIOUS
<1> HIDE DEF f, t
<1>2. p.enc \in Nat /\ f.seq \in Nat /\ d.next \in Nat /\ 1 \in 1 .. Len(q)
  BY <1>1 DEF Process, Frame
<1>3. f.life = p.life /\ f.whole /\ f.seq + Len(q) + 1 = p.enc + 1
  BY <1>1, <1>2 DEF InOrder
<1>4. f.seq + Len(q) = p.enc /\ (f.seq + 1) + (Len(q) - 1) = p.enc
  <2>1. f.seq \in Nat /\ Len(q) \in Nat /\ p.enc \in Nat /\ f.seq + Len(q) + 1 = p.enc + 1
    BY <1>1, <1>2, <1>3
  <2>. QED BY <2>1, FirstPlace, Zenon
<1>5. InStep(f, d)
  <2>1. CASE Len(q) = p.enc
    <3>1. f.seq = 0
      BY <1>1, <1>2, <1>4, <2>1
    <3>. QED BY <2>1, <3>1 DEF InOrder, InStep
  <2>2. CASE Len(q) # p.enc
    <3>1. d.life = p.life /\ d.next + Len(q) = p.enc
      BY <2>2 DEF InOrder
    <3>2. d.next = f.seq
      BY <1>1, <1>2, <1>4, <3>1, SamePlace
    <3>. QED BY <1>3, <3>1, <3>2 DEF InStep
  <2>. QED BY <2>1, <2>2
<1>6. ASSUME NEW i \in 1 .. Len(t)
      PROVE  t[i].life = p.life /\ t[i].seq + Len(t) + 1 = p.enc + i /\ t[i].whole
  <2>1. i + 1 \in 1 .. Len(q) /\ t[i] = q[i + 1]
    BY <1>1
  <2>2. /\ t[i].life = p.life /\ t[i].seq + Len(q) + 1 = p.enc + (i + 1) /\ t[i].whole
        /\ t[i].seq \in Nat
    <3>1. q[i + 1] \in Frame
      BY <2>1
    <3>. QED BY <2>1, <3>1 DEF InOrder, Frame
  <2>3. t[i].seq + (Len(q) - 1) + 1 = p.enc + i
    <3>1. t[i].seq \in Nat /\ Len(q) \in Nat /\ p.enc \in Nat /\ i \in Nat
          /\ t[i].seq + Len(q) + 1 = p.enc + (i + 1)
      BY <1>1, <1>2, <2>2
    <3>2. PICK k \in Nat, n \in Nat, e \in Nat, j \in Nat :
                 k = t[i].seq /\ n = Len(q) /\ e = p.enc /\ j = i
      BY <3>1
    <3>3. k + n + 1 = e + (j + 1)
      BY <3>1, <3>2, Zenon
    <3>4. k + (n - 1) + 1 = e + j
      BY <3>3, SMT
    <3>. QED BY <3>2, <3>4, Zenon
  <2>. QED BY <1>1, <2>2, <2>3
<1>7. /\ Len(t) <= p.enc /\ Len(t) # p.enc
      /\ After(f).life = p.life /\ After(f).next + Len(t) = p.enc
  <2>1. (f.seq + 1) + (Len(q) - 1) = p.enc
    BY <1>4
  <2>2. After(f).life = p.life /\ After(f).next = f.seq + 1
    BY <1>3 DEF After
  <2>3. Len(t) <= p.enc /\ Len(t) # p.enc
    BY <1>1, <1>2, <1>4
  <2>. QED BY <1>1, <2>1, <2>2, <2>3
<1>. QED BY <1>3, <1>5, <1>6, <1>7 DEF InOrder, f, t

LEMMA MadeGrows ==
    ASSUME QuietInv, NEW b \in Conns, made \subseteq made',
           made' \subseteq made \cup {L(b), R(b), T(b), D(b)}
    PROVE  IsFiniteSet(MadeConns') /\ MadeConns \subseteq MadeConns'
<1>1. MadeConns' \subseteq MadeConns \cup {b} /\ MadeConns \subseteq MadeConns'
  BY HandlersDiffer DEF MadeConns
<1>2. IsFiniteSet(MadeConns \cup {b})
  BY FS_AddElement DEF QuietInv
<1>3. MadeConns' \in SUBSET (MadeConns \cup {b})
  BY <1>1
<1>4. IsFiniteSet(MadeConns')
  BY <1>2, <1>3, FS_Subset
<1>. QED BY <1>1, <1>4

(* The ends of the tunnels when handlers are closed.                           *)
LEMMA EndsClose ==
    ASSUME QuietInv, NEW S, Closes(S), made \subseteq made',
           \A c \in Conns : /\ R(c) \in made' <=> R(c) \in made
                            /\ T(c) \in made' <=> T(c) \in made
                            /\ D(c) \in made' <=> D(c) \in made
    PROVE  \A c \in Conns : TunnelEnds(c)'
BY DEF QuietInv, TunnelEnds, Closes

(* Handlers are closed and nothing else.                                       *)
LEMMA QuietCloses ==
    ASSUME QuietInv, NEW S, Closes(S),
           made' = made, client' = client, server' = server, causes' = causes
    PROVE  QuietInv'
<1>1. MadeConns' = MadeConns /\ OneAtMost' = OneAtMost
  BY DEF MadeConns, OneAtMost
<1>2. \A c \in Conns : TunnelEnds(c)'
  BY EndsClose
<1>3. ASSUME Quiet PROVE Quiet'
  <2>1. StartedOnce'
    BY <1>1, <1>3 DEF Quiet, StartedOnce
  <2>2. ASSUME NEW c \in Conns PROVE StreamsInOrder(c)'
    <3>1. T(c) \in open' => T(c) \in open /\ up'[c] = up[c]
      BY DEF Closes
    <3>2. R(c) \in open' => R(c) \in open /\ down'[c] = down[c]
      BY DEF Closes
    <3>. QED BY <1>3, <3>1, <3>2 DEF Quiet, StreamsInOrder, InOrder
  <2>. QED BY <2>1, <2>2 DEF Quiet
<1>. QED BY <1>1, <1>2, <1>3 DEF QuietInv

(* A process is ended while something was wrong already, or goes wrong.        *)
LEMMA EndedForCause ==
    ASSUME QuietInv, NEW b \in Conns, NEW S, Closes(S),
           made' = made \/ made' = made \cup {L(b)},
           ~(causes' = {} /\ OneAtMost')
    PROVE  QuietInv'
<1>1. \A c \in Conns : /\ R(c) \in made' <=> R(c) \in made
                       /\ T(c) \in made' <=> T(c) \in made
                       /\ D(c) \in made' <=> D(c) \in made
  BY HandlersDiffer DEF R, T, D, L
<1>2. \A c \in Conns : TunnelEnds(c)'
  BY <1>1, EndsClose
<1>3. IsFiniteSet(MadeConns')
  BY MadeGrows
<1>. QED BY <1>2, <1>3 DEF QuietInv

(* With one connection the streams of the others are those of no tunnel.       *)
LEMMA QuietOne ==
    ASSUME TypeOK', \A c \in Conns : TunnelEnds(c)', OneAtMost', NEW b \in Conns, L(b) \in made',
           client'.running, server'.running, StreamsInOrder(b)'
    PROVE  Quiet'
<1>1. b \in MadeConns'
  BY DEF MadeConns
<1>2. StartedOnce'
  BY <1>1 DEF StartedOnce
<1>3. ASSUME NEW c \in Conns, c # b PROVE StreamsInOrder(c)'
  <2>1. L(c) \notin made'
    BY <1>1, <1>3 DEF OneAtMost, MadeConns
  <2>2. R(c) \notin open' /\ T(c) \notin open'
    BY <2>1 DEF TunnelEnds, TypeOK
  <2>. QED BY <2>2 DEF StreamsInOrder
<1>. QED BY <1>2, <1>3 DEF Quiet

(* What holds while nothing is wrong and L(b) was made.                        *)
LEMMA QuietNow ==
    ASSUME QuietInv, TypeOK, NEW b \in Conns, causes = {}, OneAtMost, L(b) \in made
    PROVE  client.running /\ server.running /\ StreamsInOrder(b)
<1>1. b \in MadeConns
  BY DEF MadeConns
<1>. QED BY <1>1 DEF QuietInv, Quiet, StartedOnce

LEMMA TunnelMade ==
    ASSUME QuietInv, TypeOK, NEW b \in Conns, R(b) \in open \/ T(b) \in open \/ D(b) \in open
    PROVE  L(b) \in made
BY DEF QuietInv, TunnelEnds, TypeOK

LEMMA SameConns ==
    ASSUME made \subseteq made', NEW b \in Conns, made' \subseteq made \cup {D(b)}
    PROVE  /\ OneAtMost' = OneAtMost /\ MadeConns' = MadeConns
           /\ \A c \in Conns : /\ R(c) \in made' <=> R(c) \in made
                               /\ T(c) \in made' <=> T(c) \in made
                               /\ L(c) \in made' <=> L(c) \in made
                               /\ c # b => (D(c) \in made' <=> D(c) \in made)
<1>1. \A c \in Conns : /\ R(c) \in made' <=> R(c) \in made
                       /\ T(c) \in made' <=> T(c) \in made
                       /\ L(c) \in made' <=> L(c) \in made
                       /\ c # b => (D(c) \in made' <=> D(c) \in made)
  BY HandlersDiffer DEF R, T, D, L
<1>. QED BY <1>1 DEF OneAtMost, MadeConns

(* The processes.                                                              *)
LEMMA QuietStarts ==
    ASSUME QuietInv, TypeOK, TypeOK', ServerStarts \/ ClientStarts
    PROVE  QuietInv'
<1>1. made' = made /\ open' = open /\ up' = up /\ down' = down /\ causes' = causes
  BY DEF ServerStarts, ClientStarts, wires
<1>2. MadeConns' = MadeConns /\ OneAtMost' = OneAtMost /\ \A c \in Conns : TunnelEnds(c)'
  BY <1>1 DEF MadeConns, OneAtMost, QuietInv, TunnelEnds
<1>3. ASSUME Quiet PROVE Quiet'
  <2>1. MadeConns = {}
    BY <1>3 DEF Quiet, StartedOnce, ServerStarts, ClientStarts
  <2>2. \A c \in Conns : T(c) \notin open /\ R(c) \notin open
    BY <2>1 DEF QuietInv, TunnelEnds, TypeOK, MadeConns
  <2>3. StartedOnce'
    <3>1. client.enc = 0 /\ server.enc = 0 /\ client.dec = None /\ server.dec = None
      BY <1>3, <2>1 DEF Quiet, StartedOnce
    <3>2. ServerStarts => /\ server'.running /\ server'.enc = 0 /\ server'.dec = None
                          /\ client' = client /\ ~server.running
      BY DEF ServerStarts, Started
    <3>3. ClientStarts => /\ client'.running /\ client'.enc = 0 /\ client'.dec = None
                          /\ server' = server /\ server.running
      BY DEF ClientStarts, Started
    <3>. QED BY <1>2, <1>3, <2>1, <3>1, <3>2, <3>3 DEF Quiet, StartedOnce
  <2>. QED BY <1>1, <2>2, <2>3 DEF Quiet, StreamsInOrder
<1>. QED BY <1>1, <1>2, <1>3 DEF QuietInv

LEMMA QuietProcesses ==
    ASSUME QuietInv, TypeOK, ServerKilled \/ ClientKilled \/ \E life \in Life : StartupEnds(life)
    PROVE  QuietInv'
<1>1. CASE ServerKilled \/ ClientKilled
  <2>1. PICK S : Closes(S)
    BY <1>1 DEF ServerKilled, ClientKilled, ServerStops, ClientStops
  <2>2. made' = made /\ causes' # {}
    BY <1>1 DEF ServerKilled, ClientKilled
  <2>3. MadeConns' = MadeConns
    BY <2>2 DEF MadeConns
  <2>4. \A c \in Conns : TunnelEnds(c)'
    BY <2>1, <2>2, EndsClose
  <2>. QED BY <2>2, <2>3, <2>4 DEF QuietInv
<1>2. CASE \E life \in Life : StartupEnds(life)
  <2>1. /\ Closes(ServerCloseSet({})) /\ made' = made /\ client' = client /\ server' = server
        /\ causes' = causes
    BY <1>2 DEF StartupEnds
  <2>. QED BY <2>1, QuietCloses
<1>. QED BY <1>1, <1>2

(* Connections.                                                                *)
LEMMA QuietConnections ==
    ASSUME QuietInv, TypeOK, TypeOK', NEW b \in Conns,
           \/ BrowserOpens(b) \/ BrowserRefused(b) \/ BrowserEnds(b)
           \/ DestinationEnds(b) \/ TunnelEndsAtServer(b) \/ TunnelEndsAtClient(b)
           \/ TunnelResets(b)
    PROVE  QuietInv'
<1>1. CASE BrowserOpens(b)
  <2>1. /\ made' = made \cup {L(b), R(b), T(b)} /\ open' = open \cup {L(b), R(b), T(b)}
        /\ L(b) \notin made /\ client.running /\ server.running /\ causes' = causes
        /\ client' = client /\ server' = server /\ up' = up /\ down' = down
    BY <1>1 DEF BrowserOpens, wires
  <2>2. IsFiniteSet(MadeConns') /\ MadeConns \subseteq MadeConns'
    BY <2>1, MadeGrows
  <2>3. /\ R(b) \notin made /\ T(b) \notin made /\ D(b) \notin made
        /\ R(b) \notin open /\ T(b) \notin open /\ up[b] = <<>> /\ down[b] = <<>>
    BY <2>1 DEF QuietInv, TunnelEnds, TypeOK
  <2>4. ASSUME NEW c \in Conns PROVE TunnelEnds(c)'
    <3>1. D(c) \in made' <=> D(c) \in made
      BY <2>1, HandlersDiffer DEF D, L, R, T
    <3>2. CASE c = b
      BY <2>1, <2>3, <3>1, <3>2 DEF TunnelEnds
    <3>3. CASE c # b
      <4>1. /\ R(c) \in made' <=> R(c) \in made
            /\ T(c) \in made' <=> T(c) \in made
            /\ R(c) \in open' <=> R(c) \in open
            /\ T(c) \in open' <=> T(c) \in open
        BY <2>1, <3>3, HandlersDiffer DEF D, L, R, T
      <4>. QED BY <2>1, <3>1, <4>1 DEF QuietInv, TunnelEnds
    <3>. QED BY <3>2, <3>3
  <2>5. ASSUME causes' = {}, OneAtMost' PROVE Quiet'
    <3>1. OneAtMost /\ MadeConns = {}
      <4>1. b \in MadeConns' /\ b \notin MadeConns
        BY <2>1 DEF MadeConns
      <4>. QED BY <2>2, <2>5, <4>1 DEF OneAtMost
    <3>2. client.enc = 0 /\ server.enc = 0 /\ client.dec = None /\ server.dec = None
      BY <2>1, <2>5, <3>1 DEF QuietInv, Quiet, StartedOnce
    <3>3. Len(<<>>) = 0
      OBVIOUS
    <3>4. InOrder(<<>>, client, server.dec) /\ InOrder(<<>>, server, client.dec)
      BY <3>2, <3>3 DEF InOrder
    <3>5. StreamsInOrder(b)'
      BY <2>1, <2>3, <3>4 DEF StreamsInOrder, InOrder
    <3>. QED BY <2>1, <2>4, <2>5, <3>5, QuietOne
  <2>. QED BY <2>2, <2>4, <2>5 DEF QuietInv
<1>2. CASE BrowserRefused(b)
  <2>1. Closes(ClientHandler) /\ made' = made \cup {L(b)} /\ causes' = causes
        /\ client.running /\ ~server.running
    BY <1>2 DEF BrowserRefused, ClientStops
  <2>2. IsFiniteSet(MadeConns') /\ MadeConns \subseteq MadeConns'
    BY <2>1, MadeGrows
  <2>3. ~(causes' = {} /\ OneAtMost')
    BY <2>1, <2>2 DEF OneAtMost, QuietInv, Quiet, StartedOnce
  <2>. QED BY <2>1, <2>3, EndedForCause
<1>3. CASE \/ BrowserEnds(b) \/ DestinationEnds(b) \/ TunnelEndsAtServer(b)
           \/ TunnelEndsAtClient(b)
  <2>1. PICK S : Closes(S)
    BY <1>3 DEF BrowserEnds, DestinationEnds, TunnelEndsAtServer, TunnelEndsAtClient
  <2>2. made' = made /\ client' = client /\ server' = server /\ causes' = causes
    BY <1>3 DEF BrowserEnds, DestinationEnds, TunnelEndsAtServer, TunnelEndsAtClient
  <2>. QED BY <2>1, <2>2, QuietCloses
<1>4. CASE TunnelResets(b)
  <2>1. /\ made' = made /\ client' = client /\ server' = server /\ causes' = causes
        /\ up' = up /\ down' = down /\ open' = open
    BY <1>4 DEF TunnelResets, wires
  <2>. QED BY <2>1
       DEF QuietInv, MadeConns, OneAtMost, TunnelEnds, Quiet, StartedOnce, StreamsInOrder, InOrder
<1>. QED BY <1>1, <1>2, <1>3, <1>4

(* Frames are made.                                                            *)
LEMMA QuietBrowserSends ==
    ASSUME QuietInv, TypeOK, TypeOK', NEW b \in Conns, BrowserSends(b)
    PROVE  QuietInv'
<1> DEFINE f == UplinkFrame(b)
<1>0. /\ made' = made /\ open' = open /\ server' = server /\ down' = down /\ causes' = causes
      /\ client' = [client EXCEPT !.enc = @ + 1] /\ client \in Process
      /\ up' = [up EXCEPT ![b] = IF T(b) \in open THEN Append(@, f) ELSE @]
      /\ up \in [Conns -> Seq(Frame)] /\ L(b) \in made
  BY DEF BrowserSends, TypeOK
<1>1. f \in Frame /\ f.life = client.life /\ f.seq = client.enc /\ f.whole
  BY UplinkFrameType DEF UplinkFrame
<1> HIDE DEF f
<1>2. /\ client'.running = client.running /\ client'.life = client.life
      /\ client'.enc = client.enc + 1 /\ client'.dec = client.dec /\ client' \in Process
  BY <1>0, ProcessChanges DEF Process
<1>3. MadeConns' = MadeConns /\ OneAtMost' = OneAtMost /\ \A c \in Conns : TunnelEnds(c)'
  BY <1>0 DEF MadeConns, OneAtMost, QuietInv, TunnelEnds
<1>4. ASSUME causes' = {}, OneAtMost' PROVE Quiet'
  <2>1. client.running /\ server.running /\ StreamsInOrder(b)
    BY <1>0, <1>3, <1>4, QuietNow
  <2>2. ASSUME T(b) \in open PROVE InOrder(up'[b], client', server.dec)
    <3>1. up'[b] = Append(up[b], f) /\ up[b] \in Seq(Frame)
      BY <1>0, <2>2
    <3>2. InOrder(up[b], client, server.dec)
      BY <2>1, <2>2 DEF StreamsInOrder
    <3>3. server.dec \in [life : Nat, next : Nat]
      BY DEF TypeOK, Process
    <3>4. PICK r \in Process : r = client'
      BY <1>2
    <3>5. InOrder(Append(up[b], f), r, server.dec)
      BY <1>0, <1>1, <1>2, <3>1, <3>2, <3>3, <3>4, OrderGrows
    <3>. QED BY <3>1, <3>4, <3>5
  <2>3. StreamsInOrder(b)'
    BY <1>0, <1>2, <2>1, <2>2 DEF StreamsInOrder, InOrder
  <2>. QED BY <1>0, <1>2, <1>3, <1>4, <2>1, <2>3, QuietOne
<1>. QED BY <1>3, <1>4 DEF QuietInv

LEMMA QuietDestinationSends ==
    ASSUME QuietInv, TypeOK, TypeOK', NEW b \in Conns, NEW takes \in {"all", "part", "none"},
           DestinationSends(b, takes)
    PROVE  QuietInv'
<1> DEFINE put == R(b) \in open /\ takes # "none"
<1>a. PICK f \in Frame : f = [life |-> server.life, seq |-> server.enc, whole |-> takes = "all",
                              item |-> answered[b] + 1]
  <2>1. server.life \in Nat /\ server.enc \in Nat /\ answered[b] \in Nat
    BY DEF TypeOK, Process
  <2>2. [life |-> server.life, seq |-> server.enc, whole |-> takes = "all",
         item |-> answered[b] + 1] \in Frame
    BY <2>1 DEF Frame
  <2>. QED BY <2>2
<1>0. /\ made' = made /\ open' = open /\ client' = client /\ up' = up
      /\ causes' = IF takes = "all" THEN causes ELSE causes \cup {"part"}
      /\ server' = [server EXCEPT !.enc = @ + 1] /\ server \in Process
      /\ down' = [down EXCEPT ![b] = IF put THEN Append(@, f) ELSE @]
      /\ down \in [Conns -> Seq(Frame)] /\ D(b) \in open
  BY <1>a DEF DestinationSends, TypeOK
<1>1. f.life = server.life /\ f.seq = server.enc /\ (takes = "all" => f.whole)
  BY <1>a
<1>2. /\ server'.running = server.running /\ server'.life = server.life
      /\ server'.enc = server.enc + 1 /\ server'.dec = server.dec /\ server' \in Process
  BY <1>0, ProcessChanges DEF Process
<1>3. MadeConns' = MadeConns /\ OneAtMost' = OneAtMost /\ \A c \in Conns : TunnelEnds(c)'
  BY <1>0 DEF MadeConns, OneAtMost, QuietInv, TunnelEnds
<1>4. ASSUME causes' = {}, OneAtMost' PROVE Quiet'
  <2>0. takes = "all" /\ causes = {} /\ L(b) \in made
    BY <1>0, <1>4, TunnelMade
  <2>1. client.running /\ server.running /\ StreamsInOrder(b)
    BY <1>3, <1>4, <2>0, QuietNow
  <2>2. ASSUME R(b) \in open PROVE InOrder(down'[b], server', client.dec)
    <3>1. down'[b] = Append(down[b], f) /\ down[b] \in Seq(Frame)
      BY <1>0, <2>0, <2>2
    <3>2. InOrder(down[b], server, client.dec)
      BY <2>1, <2>2 DEF StreamsInOrder
    <3>3. client.dec \in [life : Nat, next : Nat]
      BY DEF TypeOK, Process
    <3>4. PICK r \in Process : r = server'
      BY <1>2
    <3>5. InOrder(Append(down[b], f), r, client.dec)
      BY <1>0, <1>1, <1>2, <2>0, <3>1, <3>2, <3>3, <3>4, OrderGrows
    <3>. QED BY <3>1, <3>4, <3>5
  <2>3. StreamsInOrder(b)'
    BY <1>0, <1>2, <2>1, <2>2 DEF StreamsInOrder, InOrder
  <2>. QED BY <1>0, <1>2, <1>3, <1>4, <2>0, <2>1, <2>3, QuietOne
<1>. QED BY <1>3, <1>4 DEF QuietInv

(* Frames are received.                                                        *)
LEMMA QuietFrames ==
    ASSUME QuietInv, TypeOK, TypeOK', NEW b \in Conns, NEW n \in 1 .. MaxSent,
           FrameDelivered(b, n) \/ FrameKept(b, n) \/ FrameGarbled(b, n)
    PROVE  QuietInv'
<1>0. /\ TunnelReads(b, n) /\ T(b) \in open /\ L(b) \in made
      /\ up[b] \in Seq(Frame) /\ up[b] # <<>> /\ Head(up[b]) \in Frame
  <2>1. TunnelReads(b, n)
    BY DEF FrameDelivered, FrameKept, FrameGarbled
  <2>2. T(b) \in open
    BY <2>1 DEF TunnelReads
  <2>. QED BY <2>1, <2>2, HeadOfUp, TunnelMade
<1>1. server \in Process /\ client \in Process /\ server.dec \in [life : Nat, next : Nat]
  BY DEF TypeOK, Process
<1>2. CASE FrameDelivered(b, n)
  <2>1. /\ client' = client /\ down' = down /\ causes' = causes
        /\ made' = made \cup {D(b)} /\ open' = open \cup {D(b)}
        /\ server' = [server EXCEPT !.dec = After(Head(up[b]))]
        /\ up' = [up EXCEPT ![b] = Tail(@)]
    BY <1>2 DEF FrameDelivered
  <2>2. /\ server'.running = server.running /\ server'.life = server.life
        /\ server'.enc = server.enc /\ server'.dec = After(Head(up[b]))
    BY <1>1, <2>1 DEF Process
  <2>3. /\ OneAtMost' = OneAtMost /\ MadeConns' = MadeConns
        /\ \A c \in Conns : /\ R(c) \in made' <=> R(c) \in made
                            /\ T(c) \in made' <=> T(c) \in made
                            /\ L(c) \in made' <=> L(c) \in made
                            /\ c # b => (D(c) \in made' <=> D(c) \in made)
    BY <2>1, SameConns
  <2>4. \A c \in Conns : /\ R(c) \in open' <=> R(c) \in open
                         /\ T(c) \in open' <=> T(c) \in open
    BY <2>1, HandlersDiffer DEF R, D
  <2>5. up \in [Conns -> Seq(Frame)]
    BY DEF TypeOK
  <2>6. \A c \in Conns : TunnelEnds(c)'
    BY <1>0, <2>1, <2>3, <2>4, <2>5 DEF QuietInv, TunnelEnds
  <2>7. ASSUME causes' = {}, OneAtMost' PROVE Quiet'
    <3>1. client.running /\ server.running /\ StreamsInOrder(b)
      BY <1>0, <2>1, <2>3, <2>7, QuietNow
    <3>2. InOrder(Tail(up[b]), client, After(Head(up[b])))
      BY <1>0, <1>1, <3>1, OrderMoves DEF StreamsInOrder
    <3>3. StreamsInOrder(b)'
      BY <2>1, <2>2, <2>4, <2>5, <3>1, <3>2 DEF StreamsInOrder, InOrder
    <3>. QED BY <1>0, <2>1, <2>2, <2>3, <2>6, <2>7, <3>1, <3>3, QuietOne
  <2>. QED BY <2>3, <2>6, <2>7 DEF QuietInv
<1>3. CASE FrameKept(b, n)
  <2>1. /\ down' = down /\ up' = up /\ causes' # {}
        /\ made' = made \cup {D(b)} /\ open' = open \cup {D(b)}
    BY <1>3 DEF FrameKept
  <2>2. /\ MadeConns' = MadeConns
        /\ \A c \in Conns : /\ R(c) \in made' <=> R(c) \in made
                            /\ T(c) \in made' <=> T(c) \in made
                            /\ L(c) \in made' <=> L(c) \in made
                            /\ c # b => (D(c) \in made' <=> D(c) \in made)
    BY <2>1, SameConns
  <2>3. \A c \in Conns : /\ R(c) \in open' <=> R(c) \in open
                         /\ T(c) \in open' <=> T(c) \in open
    BY <2>1, HandlersDiffer DEF R, D
  <2>4. \A c \in Conns : TunnelEnds(c)'
    BY <1>0, <2>1, <2>2, <2>3 DEF QuietInv, TunnelEnds
  <2>. QED BY <2>1, <2>2, <2>4 DEF QuietInv
<1>4. CASE FrameGarbled(b, n)
  <2>1. Closes(ServerHandler) /\ made' = made /\ causes' = causes
        /\ ~InStep(Head(up[b]), server.dec)
    BY <1>4 DEF FrameGarbled, ServerStops
  <2>2. ~(causes = {} /\ OneAtMost)
    BY <1>0, <1>1, <2>1, QuietNow, OrderMoves DEF StreamsInOrder
  <2>3. OneAtMost' = OneAtMost
    BY <2>1 DEF OneAtMost, MadeConns
  <2>. QED BY <2>1, <2>2, <2>3, EndedForCause
<1>. QED BY <1>2, <1>3, <1>4

LEMMA QuietAnswers ==
    ASSUME QuietInv, TypeOK, TypeOK', NEW b \in Conns, NEW n \in 1 .. MaxAnswers,
           \/ AnswerPassed(b, n) \/ AnswerKept(b, n) \/ AnswerGarbled(b, n)
           \/ AnswerAwaited(b, n) \/ AnswerMixed(b, n)
    PROVE  QuietInv'
<1>0. /\ R(b) \in open /\ L(b) \in made
      /\ down[b] \in Seq(Frame) /\ down[b] # <<>> /\ Head(down[b]) \in Frame
  <2>1. AnswerReads(b, n)
    BY DEF AnswerPassed, AnswerKept, AnswerGarbled, AnswerAwaited, AnswerMixed
  <2>2. R(b) \in open
    BY <2>1 DEF AnswerReads
  <2>. QED BY <2>1, <2>2, HeadOfDown, TunnelMade
<1>1. /\ server \in Process /\ client \in Process /\ client.dec \in [life : Nat, next : Nat]
      /\ down \in [Conns -> Seq(Frame)]
  BY DEF TypeOK, Process
<1>2. ASSUME causes = {}, OneAtMost
      PROVE  /\ client.running /\ server.running /\ StreamsInOrder(b)
             /\ InStep(Head(down[b]), client.dec) /\ Head(down[b]).whole
             /\ InOrder(Tail(down[b]), server, After(Head(down[b])))
  <2>1. client.running /\ server.running /\ StreamsInOrder(b)
    BY <1>0, <1>2, QuietNow
  <2>. QED BY <1>0, <1>1, <2>1, OrderMoves DEF StreamsInOrder
<1>3. CASE AnswerPassed(b, n)
  <2>1. /\ server' = server /\ up' = up /\ causes' = causes /\ made' = made /\ open' = open
        /\ client' = [client EXCEPT !.dec = After(Head(down[b]))]
        /\ down' = [down EXCEPT ![b] = Tail(@)]
    BY <1>3 DEF AnswerPassed
  <2>2. /\ client'.running = client.running /\ client'.life = client.life
        /\ client'.enc = client.enc /\ client'.dec = After(Head(down[b]))
    BY <1>1, <2>1 DEF Process
  <2>3. /\ MadeConns' = MadeConns /\ OneAtMost' = OneAtMost
        /\ \A c \in Conns : TunnelEnds(c)'
    BY <1>0, <1>1, <2>1 DEF MadeConns, OneAtMost, QuietInv, TunnelEnds
  <2>4. ASSUME causes' = {}, OneAtMost' PROVE Quiet'
    <3>1. StreamsInOrder(b)'
      BY <1>1, <1>2, <2>1, <2>2, <2>3, <2>4 DEF StreamsInOrder, InOrder
    <3>. QED BY <1>0, <1>2, <2>1, <2>2, <2>3, <2>4, <3>1, QuietOne
  <2>. QED BY <2>3, <2>4 DEF QuietInv
<1>4. CASE AnswerGarbled(b, n)
  <2>1. /\ Closes(ClientHandler) /\ made' = made /\ causes' = causes
        /\ Head(down[b]).whole => ~InStep(Head(down[b]), client.dec)
    BY <1>4 DEF AnswerGarbled, ClientStops
  <2>2. OneAtMost' = OneAtMost
    BY <2>1 DEF OneAtMost, MadeConns
  <2>. QED BY <1>2, <2>1, <2>2, EndedForCause
<1>5. CASE AnswerKept(b, n) \/ AnswerAwaited(b, n) \/ AnswerMixed(b, n)
  <2>1. /\ up' = up /\ made' = made /\ open' = open
        /\ \A c \in Conns : c # b => down'[c] = down[c]
    BY <1>1, <1>5 DEF AnswerKept, AnswerAwaited, AnswerMixed, ends
  <2>2. causes' # {} \/ (causes' = causes /\ ~Head(down[b]).whole)
    BY <1>5 DEF AnswerKept, AnswerAwaited, AnswerMixed
  <2>3. /\ MadeConns' = MadeConns /\ OneAtMost' = OneAtMost
        /\ \A c \in Conns : TunnelEnds(c)'
    BY <1>0, <2>1 DEF MadeConns, OneAtMost, QuietInv, TunnelEnds
  <2>. QED BY <1>2, <2>2, <2>3 DEF QuietInv
<1>. QED BY <1>3, <1>4, <1>5

(* Left to themselves both processes go on: they end only if one of them was   *)
(* killed, a send or connect failed, a frame was sent in part, or frames of    *)
(* two connections could overtake each other (tcprelay.py 263, 300, 475).      *)
THEOREM EndsForCause == Spec => []EndsOnlyForCause
<1>1. Init => QuietInv
  BY NoneMade
<1>2. TypeOK /\ TypeOK' /\ QuietInv /\ [Next]_vars => QuietInv'
  <2> SUFFICES ASSUME TypeOK, TypeOK', QuietInv, [Next]_vars PROVE QuietInv'
    OBVIOUS
  <2>1. CASE UNCHANGED vars
    BY <2>1 DEF vars, wires, QuietInv, MadeConns, OneAtMost, TunnelEnds, Quiet, StartedOnce,
                StreamsInOrder, InOrder
  <2>2. CASE ServerStarts \/ ClientStarts
    BY <2>2, QuietStarts
  <2>3. CASE ServerKilled \/ ClientKilled \/ \E life \in Life : StartupEnds(life)
    BY <2>3, QuietProcesses
  <2>4. ASSUME NEW b \in Conns,
               \/ BrowserOpens(b) \/ BrowserRefused(b) \/ BrowserEnds(b)
               \/ DestinationEnds(b) \/ TunnelEndsAtServer(b) \/ TunnelEndsAtClient(b)
               \/ TunnelResets(b) \/ BrowserSends(b)
               \/ \E takes \in {"all", "part", "none"} : DestinationSends(b, takes)
        PROVE  QuietInv'
    BY <2>4, QuietConnections, QuietBrowserSends, QuietDestinationSends
  <2>5. ASSUME NEW b \in Conns,
               \/ \E n \in 1 .. MaxSent :
                    FrameDelivered(b, n) \/ FrameKept(b, n) \/ FrameGarbled(b, n)
               \/ \E n \in 1 .. MaxAnswers :
                    \/ AnswerPassed(b, n) \/ AnswerKept(b, n) \/ AnswerGarbled(b, n)
                    \/ AnswerAwaited(b, n) \/ AnswerMixed(b, n)
        PROVE  QuietInv'
    BY <2>5, QuietFrames, QuietAnswers
  <2>. QED BY <2>1, <2>2, <2>3, <2>4, <2>5 DEF Next
<1>3. TypeOK /\ QuietInv => EndsOnlyForCause
  <2> SUFFICES ASSUME TypeOK, QuietInv, causes = {}, Cardinality(MadeConns) <= 1
               PROVE  /\ server.life > 0 => server.running
                      /\ client.life > 0 => client.running
    BY DEF EndsOnlyForCause, MadeConns
  <2>1. OneAtMost
    BY OneMember DEF OneAtMost, QuietInv
  <2>2. client.life \in Nat /\ server.life \in Nat
    BY DEF TypeOK, Process
  <2>. QED BY <2>1, <2>2 DEF QuietInv, Quiet, StartedOnce
<1>. QED BY <1>1, <1>2, <1>3, TypeCorrect, PTL DEF Spec
=================================================================================

------------------------------- MODULE MCFrontEnds ------------------------------
(* The three front ends for TLC: programs of their own that share nothing but   *)
(* the client process they connect to.  A behaviour runs one of them.           *)
EXTENDS Naturals, TLC

CONSTANTS
    Browsers, MaxSent,
    Conns, MaxFd, NoConn, Listen,
    MaxReceipts, MaxReplies, Failed, None,
    MaxAnswers

ASSUME FrontEndAssumption ==
    /\ {MaxSent, MaxFd, MaxReceipts, MaxReplies, MaxAnswers} \subseteq Nat
    /\ NoConn \notin Conns /\ Listen \notin Nat /\ None \notin Nat
    /\ {Failed, None} \cap [number : 1 .. MaxReceipts, kind : {"self", "text", "binary"}] = {}

VARIABLES
    browser, connect, forward, backward, sent, read, remote, out,
    answers, taken, hand, got, void, lost

VARIABLES
    stage, cFd, rFd, user, said, passed, proxy, answered, fdmap, registered, batch, at

VARIABLES
    receiver, aborted, receipts, latest, rsock, passedOn, open, mapped, watched,
    replies, replied, polled

VARIABLE program

Backward == INSTANCE BackwardProxy
Https == INSTANCE HttpsServer
Udp == INSTANCE UdpServer

backwardVars ==
    <<browser, connect, forward, backward, sent, read, remote, out,
      answers, taken, hand, got, void, lost>>
httpsVars ==
    <<stage, cFd, rFd, user, said, passed, proxy, answered, fdmap, registered, batch, at>>
udpVars ==
    <<receiver, aborted, receipts, latest, rsock, passedOn, open, mapped, watched,
      replies, replied, polled>>
vars == <<program, backwardVars, httpsVars, udpVars>>

Init ==
    /\ program \in {"backward-proxy", "https-server", "udp-server"}
    /\ Backward!Init /\ Https!Init /\ Udp!Init

RunBackwardProxy ==
    /\ program = "backward-proxy" /\ Backward!Next
    /\ UNCHANGED <<program, httpsVars, udpVars>>

RunHttpsServer ==
    /\ program = "https-server" /\ Https!Next
    /\ UNCHANGED <<program, backwardVars, udpVars>>

RunUdpServer ==
    /\ program = "udp-server" /\ Udp!Next
    /\ UNCHANGED <<program, backwardVars, httpsVars>>

Next == RunBackwardProxy \/ RunHttpsServer \/ RunUdpServer

(* The fairness of the program that runs; the steps of the others never are.    *)
Fairness ==
    /\ \A b \in Browsers :
        /\ WF_backwardVars(program = "backward-proxy" /\ Backward!ForwardStep(b))
        /\ WF_backwardVars(program = "backward-proxy" /\ Backward!BackwardStep(b))
    /\ WF_httpsVars(program = "https-server" /\ Https!LoopStep)

Spec == Init /\ [][Next]_vars /\ Fairness

AnswersInOnePlace == Backward!AnswersInOnePlace
OpenBrowsersServed == Backward!OpenBrowsersServed
ThreadsEnd == Backward!ThreadsEnd
EventsReachOwners == Https!EventsReachOwners
EndedTunnelsClosed == Https!EndedTunnelsClosed
PassedOnPerReceipt == Udp!PassedOnPerReceipt
PollFindsHandlers == Udp!PollFindsHandlers
=================================================================================

------------------------------ MODULE BackwardProxy -----------------------------
(* clients/backward-proxy.py: every accepted browser gets two threads, one that *)
(* forwards what the browser sends and one that waits for answers, and all of   *)
(* them use the one connection rSock that was made at the start.  A thread is   *)
(* taken apart where it gives up the interpreter: between its recv and its      *)
(* send.                                                                        *)
EXTENDS Naturals, Sequences, FiniteSets

CONSTANTS
    Browsers,
    MaxSent,        \* bound: what one browser sends
    MaxAnswers      \* bound: what the remote sends

VARIABLES
    browser,        \* "new", "open", "gone": the browser's end of its connection
    connect,        \* "none", "open", "closed": this process's end, connect[0]
    forward,        \* where the forward thread is: "none", "recv", "send", "ended"
    backward,       \* where the backward thread is
    sent,           \* pieces a browser has sent
    read,           \* pieces of them its forward thread has read
    remote,         \* "open", "fin", "rst": what rSock will report; after "rst", "fin"
    out,            \* pieces of a browser that went out on rSock
    answers,        \* answers the remote has sent on rSock, numbered from 1
    taken,          \* answers read from rSock
    hand,           \* the answer a backward thread has read and not sent, or 0
    got,            \* answers sent on to a browser
    void,           \* answers sent on after the browser had gone
    lost            \* answers whose send raised

vars == <<browser, connect, forward, backward, sent, read, remote, out,
          answers, taken, hand, got, void, lost>>

threads == <<forward, backward>>
browserSide == <<browser, sent>>
remoteSide == <<remote, answers>>
downlink == <<taken, hand, got, void, lost>>

Init ==
    /\ browser = [b \in Browsers |-> "new"]
    /\ connect = [b \in Browsers |-> "none"]
    /\ forward = [b \in Browsers |-> "none"]
    /\ backward = [b \in Browsers |-> "none"]
    /\ sent = [b \in Browsers |-> 0]
    /\ read = [b \in Browsers |-> 0]
    /\ remote = "open"
    /\ out = [b \in Browsers |-> 0]
    /\ answers = 0 /\ taken = 0
    /\ hand = [b \in Browsers |-> 0]
    /\ got = [b \in Browsers |-> <<>>]
    /\ void = {} /\ lost = {}

-----------------------------------------------------------------------------
(* The peers.                                                                   *)

BrowserSends(b) ==
    /\ browser[b] = "open" /\ sent[b] < MaxSent
    /\ sent' = [sent EXCEPT ![b] = @ + 1]
    /\ UNCHANGED <<browser, connect, threads, read, out, remoteSide, downlink>>

BrowserGoes(b) ==
    /\ browser[b] = "open"
    /\ browser' = [browser EXCEPT ![b] = "gone"]
    /\ UNCHANGED <<connect, threads, sent, read, out, remoteSide, downlink>>

RemoteAnswers ==
    /\ remote = "open" /\ answers < MaxAnswers
    /\ answers' = answers + 1
    /\ UNCHANGED <<browserSide, connect, threads, read, out, remote, downlink>>

RemoteEnds ==
    /\ remote = "open"
    /\ remote' \in {"fin", "rst"}
    /\ UNCHANGED <<browserSide, connect, threads, read, out, answers, downlink>>

-----------------------------------------------------------------------------
(* The main thread accepts a browser and starts its threads.                    *)
Accept(b) ==
    /\ browser[b] = "new"
    /\ browser' = [browser EXCEPT ![b] = "open"]
    /\ connect' = [connect EXCEPT ![b] = "open"]
    /\ forward' = [forward EXCEPT ![b] = "recv"]
    /\ backward' = [backward EXCEPT ![b] = "recv"]
    /\ UNCHANGED <<sent, read, out, remoteSide, downlink>>

(* What both threads do when a call raises: close() of a closed socket does     *)
(* nothing.                                                                     *)
Closed(b) == connect' = [connect EXCEPT ![b] = "closed"]

(* rSock reports a reset to one call, of whichever thread.                      *)
Report == remote' = IF remote = "rst" THEN "fin" ELSE remote

-----------------------------------------------------------------------------
(* run_forward.                                                                 *)

(* Mutant: all that waits is read and one piece of it sent.                      *)
ForwardReadsAll(b) ==
    /\ forward[b] = "recv" /\ read[b] < sent[b]
    /\ read' = [read EXCEPT ![b] = sent[b]]
    /\ forward' = [forward EXCEPT ![b] = "send"]
    /\ UNCHANGED <<browserSide, connect, backward, out, remoteSide, downlink>>

ForwardReads(b) ==
    /\ forward[b] = "recv" /\ read[b] < sent[b]
    /\ read' = [read EXCEPT ![b] = @ + 1]
    /\ forward' = [forward EXCEPT ![b] = "send"]
    /\ UNCHANGED <<browserSide, connect, backward, out, remoteSide, downlink>>

(* Mutant: the connection is not closed behind its last data.                    *)
ForwardEndsOpen(b) ==
    /\ forward[b] = "recv"
    /\ connect[b] = "closed" \/ browser[b] = "gone"
    /\ forward' = [forward EXCEPT ![b] = "ended"]
    /\ UNCHANGED <<browserSide, connect, backward, read, out, remoteSide, downlink>>

(* No data, or an exception: the backward thread has closed connect[0], or the  *)
(* browser has reset the connection.                                            *)
ForwardEnds(b) ==
    /\ forward[b] = "recv"
    /\ connect[b] = "closed" \/ browser[b] = "gone"
    /\ forward' = [forward EXCEPT ![b] = "ended"]
    /\ Closed(b)
    /\ UNCHANGED <<browserSide, backward, read, out, remoteSide, downlink>>

(* The first send after the remote's end goes out all the same.                 *)
ForwardSends(b) ==
    /\ forward[b] = "send" /\ remote # "rst"
    /\ forward' = [forward EXCEPT ![b] = "recv"]
    /\ out' = [out EXCEPT ![b] = @ + 1]
    /\ UNCHANGED <<browserSide, connect, backward, read, remoteSide, downlink>>

ForwardSendRaises(b) ==
    /\ forward[b] = "send" /\ remote # "open"
    /\ forward' = [forward EXCEPT ![b] = "ended"]
    /\ Closed(b) /\ Report
    /\ UNCHANGED <<browserSide, backward, read, out, answers, downlink>>

-----------------------------------------------------------------------------
(* run_backward.                                                                *)

(* Mutant: a thread reads what another one has read and not sent.                *)
BackwardReadsAgain(b) ==
    /\ backward[b] = "recv"
    /\ IF taken < answers
       THEN hand' = [hand EXCEPT ![b] = taken + 1]
            /\ taken' = IF \E o \in Browsers \ {b} : backward[o] = "recv"
                        THEN taken ELSE taken + 1
       ELSE remote = "fin" /\ UNCHANGED <<taken, hand>>
    /\ backward' = [backward EXCEPT ![b] = "send"]
    /\ UNCHANGED <<browserSide, connect, forward, read, out, remoteSide, got, void, lost>>

(* Whichever thread asks first takes the answer, and at the remote's end they   *)
(* all take no data, again and again.                                           *)
BackwardReads(b) ==
    /\ backward[b] = "recv"
    /\ IF taken < answers
       THEN taken' = taken + 1 /\ hand' = [hand EXCEPT ![b] = taken + 1]
       ELSE remote = "fin" /\ UNCHANGED <<taken, hand>>
    /\ backward' = [backward EXCEPT ![b] = "send"]
    /\ UNCHANGED <<browserSide, connect, forward, read, out, remoteSide, got, void, lost>>

BackwardReadRaises(b) ==
    /\ backward[b] = "recv" /\ taken = answers /\ remote = "rst"
    /\ backward' = [backward EXCEPT ![b] = "ended"]
    /\ Closed(b) /\ Report
    /\ UNCHANGED <<browserSide, forward, read, out, answers, downlink>>

BackwardSends(b) ==
    /\ backward[b] = "send" /\ connect[b] = "open"
    /\ IF hand[b] = 0 THEN UNCHANGED <<got, void>>
       ELSE IF browser[b] = "open"
       THEN got' = [got EXCEPT ![b] = Append(@, hand[b])] /\ UNCHANGED void
       ELSE void' = void \cup {hand[b]} /\ UNCHANGED got
    /\ hand' = [hand EXCEPT ![b] = 0]
    /\ backward' = [backward EXCEPT ![b] = "recv"]
    /\ UNCHANGED <<browserSide, connect, forward, read, out, remoteSide, taken, lost>>

BackwardSendRaises(b) ==
    /\ backward[b] = "send"
    /\ connect[b] = "closed" \/ (browser[b] = "gone" /\ hand[b] # 0)
    /\ backward' = [backward EXCEPT ![b] = "ended"]
    /\ lost' = lost \cup ({hand[b]} \ {0})
    /\ hand' = [hand EXCEPT ![b] = 0]
    /\ Closed(b)
    /\ UNCHANGED <<browserSide, forward, read, out, remoteSide, taken, got, void>>

-----------------------------------------------------------------------------
ForwardStep(b) ==
    ForwardReads(b) \/ ForwardEnds(b) \/ ForwardSends(b) \/ ForwardSendRaises(b)
BackwardStep(b) ==
    \/ BackwardReads(b) \/ BackwardReadRaises(b)
    \/ BackwardSends(b) \/ BackwardSendRaises(b)

Next ==
    \/ RemoteAnswers \/ RemoteEnds
    \/ \E b \in Browsers :
        \/ Accept(b) \/ BrowserSends(b) \/ BrowserGoes(b)
        \/ ForwardStep(b) \/ BackwardStep(b)

(* Threads that can run do; peers need not.                                     *)
Fairness == \A b \in Browsers : WF_vars(ForwardStep(b)) /\ WF_vars(BackwardStep(b))

Spec == Init /\ [][Next]_vars /\ Fairness

-----------------------------------------------------------------------------
(* However the threads of all browsers interleave on rSock, an answer that was  *)
(* read is in one place only: in the hand of one thread, with one browser, or   *)
(* lost; what one browser gets is in the order of rSock; and nothing is lost    *)
(* before some browser has gone or the remote has ended.                        *)
AnswersInOnePlace ==
    /\ \A n \in 1 .. taken :
        Cardinality({b \in Browsers : hand[b] = n})
          + Cardinality({p \in Browsers \X (1 .. taken) :
                            p[2] \in DOMAIN got[p[1]] /\ got[p[1]][p[2]] = n})
          + Cardinality({n} \cap void) + Cardinality({n} \cap lost) = 1
    /\ \A b \in Browsers : \A i, j \in DOMAIN got[b] : i < j => got[b][i] < got[b][j]
    /\ lost # {} => remote # "open" \/ \E b \in Browsers : browser[b] = "gone"

(* While the remote's connection lasts, no one's going costs another browser    *)
(* its connection: its threads run, and all it sent that was read goes out.     *)
OpenBrowsersServed ==
    remote = "open" =>
        \A b \in Browsers : browser[b] = "open" =>
            /\ connect[b] = "open" /\ forward[b] # "ended" /\ backward[b] # "ended"
            /\ read[b] = out[b] + IF forward[b] = "send" THEN 1 ELSE 0

(* Once browser and remote have both ended, both threads of the browser end,    *)
(* although each learns of one end only.                                        *)
ThreadsEnd ==
    \A b \in Browsers :
        browser[b] = "gone" /\ remote # "open" ~>
            forward[b] = "ended" /\ backward[b] = "ended"
=================================================================================

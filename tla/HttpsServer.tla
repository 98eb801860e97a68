------------------------------- MODULE HttpsServer ------------------------------
(* servers/https-server.py with libs/asyncSocket.py: one thread that accepts    *)
(* redirected connections, asks the client process for a connection each, and   *)
(* passes answers back.  Accepting waits for the client process and then for    *)
(* the first data of the user, in blocking calls of the handler; sockets are *)
(* closed without being removed from the loop's _fdmap.                         *)
EXTENDS Naturals, FiniteSets, FiniteSetsExt

CONSTANTS
    Conns,
    MaxFd,          \* descriptors there are beside the listening one
    MaxAnswers,     \* bound: answers of one tunnel
    NoConn, Listen

Fds == 0 .. MaxFd - 1

VARIABLES
    stage,          \* "new", "backlog", "asking", "reading", "open", "closed"
    cFd, rFd,       \* the sets with the descriptor of cSock and of rSock, or empty
    user,           \* the browser: "open" or "gone"
    said,           \* whether the browser has sent its first data
    passed,         \* whether it was sent to the proxy
    proxy,          \* what rSock reports: "open", "rst", "fin"
    answered,       \* answers of the proxy not yet read
    fdmap,          \* the handler _fdmap has for a descriptor, or NoConn
    registered,     \* the descriptors epoll watches
    batch,          \* events of the last poll not yet dispatched
    at              \* the connection the handler of accept is blocked in, or NoConn

peers == <<user, said, proxy, answered>>
loopState == <<fdmap, registered, batch, at>>
httpsVars == <<stage, cFd, rFd, passed, peers, loopState>>

Init ==
    /\ stage = [c \in Conns |-> "new"]
    /\ cFd = [c \in Conns |-> {}] /\ rFd = [c \in Conns |-> {}]
    /\ user = [c \in Conns |-> "open"]
    /\ said = [c \in Conns |-> FALSE] /\ passed = [c \in Conns |-> FALSE]
    /\ proxy = [c \in Conns |-> "open"]
    /\ answered = [c \in Conns |-> 0]
    /\ fdmap = [f \in Fds |-> NoConn]
    /\ registered = {} /\ batch = {} /\ at = NoConn

Free == Fds \ UNION {cFd[c] \cup rFd[c] : c \in Conns}

-----------------------------------------------------------------------------
(* The peers.                                                                   *)

Connect(c) ==
    /\ stage[c] = "new"
    /\ stage' = [stage EXCEPT ![c] = "backlog"]
    /\ UNCHANGED <<cFd, rFd, passed, peers, loopState>>

BrowserSends(c) ==
    /\ stage[c] # "new" /\ user[c] = "open" /\ ~said[c]
    /\ said' = [said EXCEPT ![c] = TRUE]
    /\ UNCHANGED <<stage, cFd, rFd, passed, user, proxy, answered, loopState>>

BrowserGoes(c) ==
    /\ stage[c] # "new" /\ user[c] = "open"
    /\ user' = [user EXCEPT ![c] = "gone"]
    /\ UNCHANGED <<stage, cFd, rFd, passed, said, proxy, answered, loopState>>

ProxyAnswers(c) ==
    /\ stage[c] \in {"reading", "open"} /\ proxy[c] = "open" /\ answered[c] < MaxAnswers
    /\ answered' = [answered EXCEPT ![c] = @ + 1]
    /\ UNCHANGED <<stage, cFd, rFd, passed, user, said, proxy, loopState>>

ProxyEnds(c) ==
    /\ stage[c] \in {"reading", "open"} /\ proxy[c] = "open"
    /\ \E how \in {"rst", "fin"} : proxy' = [proxy EXCEPT ![c] = how]
    /\ UNCHANGED <<stage, cFd, rFd, passed, user, said, answered, loopState>>

-----------------------------------------------------------------------------
(* Polling: the listening socket, and every registered rSock with something.    *)

Ready(c) == answered[c] > 0 \/ proxy[c] # "open"

Poll ==
    /\ at = NoConn /\ batch = {}
    /\ batch' = (IF \E c \in Conns : stage[c] = "backlog" THEN {Listen} ELSE {})
                \cup UNION {rFd[c] \cap registered : c \in {c \in Conns : Ready(c)}}
    /\ batch' # {}
    /\ UNCHANGED <<stage, cFd, rFd, passed, peers, fdmap, registered, at>>

(* Mutant: the browser's end of a tunnel is left open.                           *)
ClosesRemoteOnly(c) == UNCHANGED cFd /\ rFd' = [rFd EXCEPT ![c] = {}]

Closes(c) == cFd' = [cFd EXCEPT ![c] = {}] /\ rFd' = [rFd EXCEPT ![c] = {}]

(* accept() and getsockopt(): the second may raise, the first does without a    *)
(* descriptor.  The exception is printed and the loop goes on.                  *)
Accept(c) ==
    /\ Listen \in batch /\ stage[c] = "backlog" /\ at = NoConn
    /\ batch' = batch \ {Listen}
    /\ \/ /\ Free = {}
          /\ UNCHANGED <<stage, cFd, at>>
       \/ /\ Free # {}
          /\ stage' = [stage EXCEPT ![c] = "closed"]
          /\ UNCHANGED <<cFd, at>>
       \/ /\ Free # {}
          /\ stage' = [stage EXCEPT ![c] = "asking"]
          /\ cFd' = [cFd EXCEPT ![c] = {Min(Free)}]
          /\ at' = c
    /\ UNCHANGED <<rFd, passed, peers, fdmap, registered>>

(* Mutant: add() keeps the entry that _fdmap has for a descriptor.               *)
AddToLoopKeeping(c, f) ==
    /\ fdmap' = [fdmap EXCEPT ![f] = IF @ = NoConn THEN c ELSE @]
    /\ registered' = registered \cup {f}

(* AsyncSocket adds rSock to the loop, over whatever _fdmap held for its number. *)
AddToLoop(c, f) ==
    /\ fdmap' = [fdmap EXCEPT ![f] = c]
    /\ registered' = registered \cup {f}

(* connectToProxy: a descriptor, a connection and two answers.                  *)
ProxyConnected(c) ==
    /\ at = c /\ stage[c] = "asking" /\ Free # {}
    /\ rFd' = [rFd EXCEPT ![c] = {Min(Free)}]
    /\ AddToLoop(c, Min(Free))
    /\ stage' = [stage EXCEPT ![c] = "reading"]
    /\ UNCHANGED <<cFd, passed, peers, batch, at>>

(* No descriptor, or the client process refuses: nothing keeps the accepted     *)
(* socket, and it is closed.                                                    *)
ProxyFails(c) ==
    /\ at = c /\ stage[c] = "asking"
    /\ stage' = [stage EXCEPT ![c] = "closed"]
    /\ Closes(c)
    /\ at' = NoConn
    /\ UNCHANGED <<passed, peers, fdmap, registered, batch>>

(* The one read of the browser that there is; an exception is swallowed.        *)
FirstData(c) ==
    /\ at = c /\ stage[c] = "reading"
    /\ said[c] \/ user[c] = "gone"
    /\ passed' = [passed EXCEPT ![c] = said[c] /\ proxy[c] = "open"]
    /\ stage' = [stage EXCEPT ![c] = "open"]
    /\ at' = NoConn
    /\ UNCHANGED <<cFd, rFd, peers, fdmap, registered, batch>>

(* run_backward of the handler _fdmap has for the event's descriptor: it reads  *)
(* its own rSock.  An answer goes to the user, or nowhere if it has gone; a  *)
(* reset is reported once and swallowed; at the end both sockets are closed,    *)
(* which takes rSock out of epoll and leaves its entry in _fdmap.               *)
RunBackward(f) ==
    LET c == fdmap[f] IN
    /\ at = NoConn /\ f \in batch
    /\ batch' = batch \ {f}
    /\ IF answered[c] > 0
       THEN /\ answered' = [answered EXCEPT ![c] = @ - 1]
            /\ UNCHANGED <<stage, cFd, rFd, proxy, registered>>
       ELSE IF proxy[c] = "rst"
       THEN /\ proxy' = [proxy EXCEPT ![c] = "fin"]
            /\ UNCHANGED <<stage, cFd, rFd, answered, registered>>
       ELSE /\ proxy[c] = "fin"
            /\ stage' = [stage EXCEPT ![c] = "closed"]
            /\ Closes(c)
            /\ registered' = registered \ rFd[c]
            /\ UNCHANGED <<proxy, answered>>
    /\ UNCHANGED <<passed, user, said, fdmap, at>>

-----------------------------------------------------------------------------
LoopStep ==
    \/ Poll
    \/ \E c \in Conns : Accept(c) \/ FirstData(c)
    \/ \E f \in Fds : RunBackward(f)

Next ==
    \/ LoopStep
    \/ \E c \in Conns :
        \/ Connect(c) \/ BrowserSends(c) \/ BrowserGoes(c)
        \/ ProxyConnected(c) \/ ProxyFails(c) \/ ProxyAnswers(c) \/ ProxyEnds(c)

(* The loop goes on whenever it can; browsers and the client process need not.  *)
Fairness ==
    WF_httpsVars(LoopStep)

Spec == Init /\ [][Next]_httpsVars /\ Fairness

-----------------------------------------------------------------------------
(* Although entries of closed sockets stay in _fdmap and their descriptors are  *)
(* used again, also between a poll and the dispatch of its events, an event is  *)
(* handled by the connection whose rSock has the descriptor, and finds it with  *)
(* something to read.                                                           *)
EventsReachOwners ==
    /\ \A f \in registered : fdmap[f] # NoConn /\ rFd[fdmap[f]] = {f}
    /\ \A f \in batch \ {Listen} : f \in registered /\ Ready(fdmap[f])

(* Provided that neither a browser nor the client process keeps the handler of  *)
(* accept waiting for ever, every tunnel that has ended is closed at both ends, *)
(* also when its browser has gone and answers were waiting.                     *)
EndedTunnelsClosed ==
    []<>(at = NoConn) =>
        \A c \in Conns : proxy[c] # "open" ~> cFd[c] = {} /\ rFd[c] = {}
=================================================================================

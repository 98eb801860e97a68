----------------------------- MODULE EventLoop -----------------------------
(* ptshadowsocks/eventloop.py, over the sockets of a process: what poll()   *)
(* reports, how run() finds the handler of an event, and which descriptors  *)
(* are free.  LocalRelay and ServerRelay, the two processes, extend it.     *)
(* A handler owns one socket and names it.                                  *)
EXTENDS Integers, Sequences, FiniteSets

CONSTANTS Fd,     \* descriptors the process may use for its handlers
          Nobody  \* no handler

VARIABLES
    batch,       \* events of the last poll that run() has not dispatched yet
    acceptReady, \* ... and whether the listening socket is one of them
    fdmap,       \* EventLoop._fdmap: descriptor -> handler
    fileno,      \* descriptor of a handler's own socket, NoFd once closed
    hstate,      \* "absent", "open", or "closed" once self.closed is set
    peer,        \* what TCP knows of the other end of a handler's socket
    inflight     \* units the other end sent and the socket still holds

NoFd == -1

(* What TCP knows of the other end: "fin" after its FIN, "rst" after its    *)
(* reset while the error is still pending on the socket, "finrst" when a    *)
(* FIN came before it, "dead" once the error has been reported, and         *)
(* "unconnected" after a connect() that failed.                             *)
PeerState == {"none", "up", "fin", "rst", "finrst", "dead", "unconnected"}
Broken == {"rst", "finrst"}
HandlerState == {"absent", "open", "closed"}
Flag == {"IN", "ERR", "HUP"}

Open(h) == hstate[h] = "open"

(* What poll reports of a registered socket; POLL_IN | POLL_ERR | POLL_HUP  *)
(* is the mode of add(), and the kernel reports the last two regardless.    *)
FlagsOf(h) ==
    (IF inflight[h] > 0 \/ peer[h] \in {"fin", "dead"} \cup Broken
     THEN {"IN"} ELSE {})
    \cup (IF peer[h] \in Broken THEN {"ERR"} ELSE {})
    \cup (IF peer[h] \in {"dead", "unconnected"} \cup Broken THEN {"HUP"} ELSE {})

ReadyEvents ==
    {[sock |-> fdmap[f], fd |-> f, flags |-> FlagsOf(fdmap[f])] :
        f \in {g \in Fd : fdmap[g] # Nobody /\ FlagsOf(fdmap[g]) # {}}}

(* run() looks the descriptor up again when it dispatches the event: the    *)
(* handler may be gone, or be another one that got the same descriptor.     *)
Target(e) == fdmap[e.fd]

(* Mutant: recv on the socket of the handler that was looked up.            *)
TargetSock(e) == IF fdmap[e.fd] = Nobody THEN e.sock ELSE fdmap[e.fd]

(* The socket the handler receives from is the one the event was polled for *)
RecvSock(e) == e.sock

Take(e) ==
    /\ e \in batch
    /\ batch' = batch \ {e}
    /\ UNCHANGED acceptReady

(* The kernel gives the lowest descriptor that no handler and no socket     *)
(* outside the event loop holds.                                            *)
FreeBut(held) == {f \in Fd : fdmap[f] = Nobody /\ f \notin held}
IsLowest(f, S) == f \in S /\ \A g \in S : f <= g
=============================================================================

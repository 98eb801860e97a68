-------------------------------- MODULE UdpServer -------------------------------
(* servers/udp-server.py with udp-server-c/udp-server-c-lib.c++: a thread that  *)
(* receives redirected datagrams through the C++ library and sends each on from *)
(* a socket of its own, and the loop thread that reads the answers.  Both       *)
(* change the EventLoop, without a lock.  The receiving thread is taken apart   *)
(* at every change of what they share.                                          *)
EXTENDS Naturals, Sequences, FiniteSets, FiniteSetsExt

CONSTANTS
    MaxFd,          \* descriptors there are for sockets of datagrams
    MaxReceipts,    \* bound: calls of recv_main
    MaxReplies,     \* bound: answers in all
    Failed, None

Fds == 0 .. MaxFd - 1

(* A datagram is a number and its kind: with the redirecting port itself as its *)
(* destination, with text, or with a payload that is not UTF-8.                 *)
Kinds == {"self", "text", "binary"}

VARIABLES
    receiver,       \* "recv", "socket", "map", "epoll", "send", "ended"
    aborted,        \* whether the library has ended the process
    receipts,       \* what each call of recvmsg gave: a datagram or Failed
    latest,         \* the library's j: the datagram it holds, or None
    rsock,          \* the descriptor of the socket that has not sent yet, or None
    passedOn,       \* the datagrams sent on, in order
    open,           \* open descriptors
    mapped,         \* descriptors in _fdmap
    watched,        \* descriptors that epoll watches
    replies,        \* replies[f]: the answers that wait: "data" or "empty"
    replied,        \* answers there have been
    polled          \* the events of the last poll not yet dispatched

library == <<receipts, latest, aborted>>
shared == <<open, mapped, watched>>
network == <<replies, replied>>
udpVars == <<receiver, library, rsock, passedOn, shared, network, polled>>

Init ==
    /\ receiver = "recv" /\ aborted = FALSE
    /\ receipts = <<>> /\ latest = None
    /\ rsock = None
    /\ passedOn = <<>>
    /\ open = {} /\ mapped = {} /\ watched = {}
    /\ replies = [f \in Fds |-> <<>>] /\ replied = 0
    /\ polled = {}

-----------------------------------------------------------------------------
(* recv_main: a datagram replaces j; a call that fails leaves the one before.   *)
(* dump() throws on a payload that is not UTF-8, and nothing catches that.  A j *)
(* that never held anything is "null", on which the thread ends; a datagram to  *)
(* this port itself is dropped.                                                 *)
Loaded(j) ==
    /\ latest' = j
    /\ aborted' = (j # None /\ j.kind = "binary")
    /\ receiver' = IF j = None THEN "ended"
                   ELSE IF j.kind = "text" THEN "socket" ELSE "recv"
    /\ UNCHANGED <<rsock, passedOn, shared, network, polled>>

CanReceive == receiver = "recv" /\ ~aborted /\ Len(receipts) < MaxReceipts

Receive(kind) ==
    LET datagram == [number |-> Len(receipts) + 1, kind |-> kind] IN
    /\ CanReceive
    /\ receipts' = Append(receipts, datagram)
    /\ Loaded(datagram)

(* Mutant: a receipt that failed is left out, as if j had been emptied.          *)
ReceiveFailsQuietly ==
    /\ CanReceive
    /\ receipts' = Append(receipts, Failed)
    /\ receiver' = IF latest = None THEN "ended" ELSE "recv"
    /\ UNCHANGED <<latest, aborted, rsock, passedOn, shared, network, polled>>

ReceiveFails ==
    /\ CanReceive
    /\ receipts' = Append(receipts, Failed)
    /\ Loaded(latest)

-----------------------------------------------------------------------------
(* main_handle, behind the receipt.                                             *)

MakeSocket ==
    /\ receiver = "socket" /\ ~aborted
    /\ IF open = Fds
       THEN receiver' = "ended" /\ UNCHANGED <<rsock, open>>
       ELSE /\ rsock' = Min(Fds \ open)
            /\ open' = open \cup {Min(Fds \ open)}
            /\ receiver' = "map"
    /\ UNCHANGED <<library, passedOn, mapped, watched, network, polled>>

(* Mutant: epoll first.                                                         *)
RegisterFirst ==
    /\ receiver = "map" /\ ~aborted
    /\ watched' = watched \cup {rsock}
    /\ receiver' = "epoll"
    /\ UNCHANGED <<library, rsock, passedOn, open, mapped, network, polled>>

(* EventLoop.add: _fdmap first, then epoll.                                     *)
AddToMap ==
    /\ receiver = "map" /\ ~aborted
    /\ mapped' = mapped \cup {rsock}
    /\ receiver' = "epoll"
    /\ UNCHANGED <<library, rsock, passedOn, open, watched, network, polled>>

Register ==
    /\ receiver = "epoll" /\ ~aborted
    /\ watched' = watched \cup {rsock}
    /\ receiver' = "send"
    /\ UNCHANGED <<library, rsock, passedOn, open, mapped, network, polled>>

(* sendto() may raise, and with it the thread ends.                             *)
SendOn ==
    /\ receiver = "send" /\ ~aborted
    /\ \/ /\ receiver' = "recv" /\ rsock' = None
          /\ passedOn' = Append(passedOn, latest)
       \/ receiver' = "ended" /\ UNCHANGED <<rsock, passedOn>>
    /\ UNCHANGED <<library, shared, network, polled>>

-----------------------------------------------------------------------------
(* A destination answers a socket that has sent.                                *)
Reply(f) ==
    /\ f \in watched \ {rsock} /\ ~aborted /\ replied < MaxReplies
    /\ \E answer \in {"data", "empty"} :
        replies' = [replies EXCEPT ![f] = Append(@, answer)]
    /\ replied' = replied + 1
    /\ UNCHANGED <<receiver, library, rsock, passedOn, shared, polled>>

Poll ==
    /\ polled = {} /\ ~aborted
    /\ polled' = {f \in watched : replies[f] # <<>>}
    /\ polled' # {}
    /\ UNCHANGED <<receiver, library, rsock, passedOn, shared, network>>

(* callback_handle: an answer is read, and bind() of a socket that sendto() has *)
(* bound raises, so it goes nowhere; an empty answer closes the socket.         *)
Dispatch(f) ==
    /\ f \in polled /\ ~aborted
    /\ polled' = polled \ {f}
    /\ replies' = [replies EXCEPT ![f] = IF Head(@) = "empty" THEN <<>> ELSE Tail(@)]
    /\ IF Head(replies[f]) = "empty"
       THEN mapped' = mapped \ {f} /\ watched' = watched \ {f} /\ open' = open \ {f}
       ELSE UNCHANGED shared
    /\ UNCHANGED <<receiver, library, rsock, passedOn, replied>>

Next ==
    \/ \E kind \in Kinds : Receive(kind)
    \/ ReceiveFails
    \/ MakeSocket \/ AddToMap \/ Register \/ SendOn
    \/ Poll
    \/ \E f \in Fds : Reply(f) \/ Dispatch(f)

Spec == Init /\ [][Next]_udpVars

-----------------------------------------------------------------------------
(* What every call of recvmsg leaves in j.                                      *)
Held(n) ==
    LET at == {i \in 1 .. n : receipts[i] # Failed}
    IN IF at = {} THEN None ELSE receipts[Max(at)]
IsText(j) == j # None /\ j.kind = "text"

(* Every datagram is passed on once, in order, and once more for each receipt   *)
(* that failed behind it; all but the last, which the thread may have in hand   *)
(* or have ended on.                                                            *)
PassedOnPerReceipt ==
    \E by \in [DOMAIN passedOn -> DOMAIN receipts] :
        /\ \A i, j \in DOMAIN by : i < j => by[i] < by[j]
        /\ \A i \in DOMAIN by : passedOn[i] = Held(by[i]) /\ IsText(Held(by[i]))
        /\ \A n \in DOMAIN receipts : IsText(Held(n)) =>
               (\E i \in DOMAIN by : by[i] = n) \/ (n = Len(receipts) /\ receiver # "recv")

(* With two threads at work on the EventLoop, one of which adds while the other *)
(* removes and descriptors are used again, poll() finds a handler for whatever  *)
(* epoll reports, and an event of a batch still has the socket it was for.      *)
PollFindsHandlers == watched \subseteq mapped /\ polled \subseteq watched /\ mapped \subseteq open
=================================================================================

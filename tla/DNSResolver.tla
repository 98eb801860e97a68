---------------------------- MODULE DNSResolver ----------------------------
(* ptshadowsocks/dnsresolver.py: the asynchronous resolver of the client.  *)
(* resolve() calls back at once or queues the callback under the name and   *)
(* asks every server over UDP; handle_event matches an answer to a name by  *)
(* the question in it, not by a request id, so answers of an earlier lookup,*)
(* of the other server and copies all count for the lookup in progress.     *)
(*                                                                         *)
(* An answer carries an address or none.  Servers agree and are truthful:   *)
(* HasA and HasAAAA are the names with a record of that type.               *)
(* _cb_to_hostname is left out: only remove_callback reads it, and nothing  *)
(* calls remove_callback.                                                   *)
EXTENDS Integers, Sequences, FiniteSets

CONSTANTS Name, Callback, NoName,
          Local,      \* names that are addresses or are in the hosts file
          Invalid,    \* names that is_valid_hostname refuses
          HasA, HasAAAA,
          Servers,    \* number of _servers
          MaxNet      \* bound: copies made of datagrams under way

QType == {"A", "AAAA"}

ASSUME ResolverAssumption ==
    /\ NoName \notin Name
    /\ Local \subseteq Name /\ Invalid \subseteq Name
    /\ HasA \subseteq Name /\ HasAAAA \subseteq Name
    /\ Invalid \cap (Local \cup HasA \cup HasAAAA) = {}
    /\ Servers \in Nat \ {0}
    /\ MaxNet \in Nat

VARIABLES
    status,   \* _hostname_status
    waiters,  \* _hostname_to_cb
    cache,    \* names in _cache
    net,      \* questions and answers under way, per name and type
    lossy,    \* whether a datagram was lost or could not be sent
    asked,    \* the name each callback was given to resolve() for
    raised,   \* callbacks whose resolve() raised before queueing them
    calls,    \* how often each callback was called
    result    \* ... and with what the last time

vars == <<status, waiters, cache, net, lossy, asked, raised, calls, result>>

TypeOK ==
    /\ status \in [Name -> {"none", "IPV4", "IPV6"}]
    /\ waiters \in [Name -> Seq(Callback)]
    /\ cache \subseteq Name
    /\ net \in [Name \X QType -> Nat]
    /\ lossy \in BOOLEAN
    /\ asked \in [Callback -> Name \cup {NoName}]
    /\ raised \subseteq Callback
    /\ calls \in [Callback -> 0 .. 1]
    /\ result \in [Callback -> {"none", "address", "unknown", "invalid"}]

Init ==
    /\ status = [n \in Name |-> "none"]
    /\ waiters = [n \in Name |-> <<>>]
    /\ cache = {}
    /\ net = [nq \in Name \X QType |-> 0]
    /\ lossy = FALSE
    /\ asked = [cb \in Callback |-> NoName]
    /\ raised = {}
    /\ calls = [cb \in Callback |-> 0]
    /\ result = [cb \in Callback |-> "none"]

Queued(n) == {waiters[n][i] : i \in 1 .. Len(waiters[n])}
Answers(n, q) == n \in IF q = "A" THEN HasA ELSE HasAAAA

Call(S, what) ==
    /\ calls' = [cb \in Callback |-> IF cb \in S THEN calls[cb] + 1 ELSE calls[cb]]
    /\ result' = [cb \in Callback |-> IF cb \in S THEN what ELSE result[cb]]

(* _send_req: sendto() raises OSError after reaching only some servers.     *)
Ask(n, q, before, reached) ==
    /\ net' = [before EXCEPT ![<<n, q>>] = @ + reached]
    /\ lossy' = (lossy \/ reached < Servers)

-----------------------------------------------------------------------------
(* resolve()                                                               *)

ResolveAtOnce(cb, n) ==
    /\ asked[cb] = NoName
    /\ n \in Local \cup cache \cup Invalid
    /\ asked' = [asked EXCEPT ![cb] = n]
    /\ Call({cb}, IF n \in Invalid THEN "invalid" ELSE "address")
    /\ UNCHANGED <<status, waiters, cache, net, lossy, raised>>

Unresolved(cb, n) == asked[cb] = NoName /\ n \notin Local \cup cache \cup Invalid

(* The first to ask is queued after the question was sent: not if that      *)
(* raised, although _hostname_status has the name by then.                  *)
StartLookup(cb, n, reached) ==
    /\ Unresolved(cb, n)
    /\ waiters[n] = <<>>
    /\ asked' = [asked EXCEPT ![cb] = n]
    /\ status' = [status EXCEPT ![n] = "IPV4"]
    /\ Ask(n, "A", net, reached)
    /\ IF reached = Servers
       THEN waiters' = [waiters EXCEPT ![n] = <<cb>>] /\ UNCHANGED raised
       ELSE raised' = raised \cup {cb} /\ UNCHANGED waiters
    /\ UNCHANGED <<cache, calls, result>>

(* Mutant: the later waiter takes the place of the earlier ones.            *)
JoinReplaces(cb, n, reached) ==
    /\ Unresolved(cb, n)
    /\ waiters[n] # <<>>
    /\ asked' = [asked EXCEPT ![cb] = n]
    /\ waiters' = [waiters EXCEPT ![n] = <<cb>>]
    /\ Ask(n, "A", net, reached)
    /\ UNCHANGED <<status, cache, raised, calls, result>>

(* Later ones are queued first, and the question is sent again.             *)
JoinLookup(cb, n, reached) ==
    /\ Unresolved(cb, n)
    /\ waiters[n] # <<>>
    /\ asked' = [asked EXCEPT ![cb] = n]
    /\ waiters' = [waiters EXCEPT ![n] = Append(@, cb)]
    /\ Ask(n, "A", net, reached)
    /\ UNCHANGED <<status, cache, raised, calls, result>>

-----------------------------------------------------------------------------
(* handle_event: one answer.                                               *)

Arrives(n, q) == net[<<n, q>>] > 0
Taken(n, q) == [net EXCEPT ![<<n, q>>] = @ - 1]

(* _call_callback: everyone queued, then both entries are deleted.          *)
CallAll(n, what) ==
    /\ Call(Queued(n), what)
    /\ waiters' = [waiters EXCEPT ![n] = <<>>]
    /\ status' = [status EXCEPT ![n] = "none"]

AnswerAddress(n, q) ==
    /\ Arrives(n, q)
    /\ Answers(n, q)
    /\ net' = Taken(n, q)
    /\ cache' = cache \cup {n}
    /\ CallAll(n, "address")
    /\ UNCHANGED <<lossy, asked, raised>>

(* Mutant: the AAAA question is put off until somebody asks again.          *)
AnswerEmptyMarks(n, q, reached) ==
    /\ Arrives(n, q)
    /\ ~Answers(n, q)
    /\ status[n] = "IPV4"
    /\ status' = [status EXCEPT ![n] = "IPV6"]
    /\ net' = Taken(n, q)
    /\ UNCHANGED <<waiters, cache, asked, raised, calls, result, lossy>>

(* No address while STATUS_IPV4, whatever the question was: ask for AAAA.   *)
AnswerEmpty(n, q, reached) ==
    /\ Arrives(n, q)
    /\ ~Answers(n, q)
    /\ status[n] = "IPV4"
    /\ status' = [status EXCEPT ![n] = "IPV6"]
    /\ Ask(n, "AAAA", Taken(n, q), reached)
    /\ UNCHANGED <<waiters, cache, asked, raised, calls, result>>

(* Mutant: the question is not looked at.                                   *)
AnswerUnknownToAny(n, q) ==
    /\ Arrives(n, q)
    /\ ~Answers(n, q)
    /\ status[n] = "IPV6"
    /\ net' = Taken(n, q)
    /\ CallAll(n, "unknown")
    /\ UNCHANGED <<cache, lossy, asked, raised>>

AnswerUnknown(n, q) ==
    /\ Arrives(n, q)
    /\ ~Answers(n, q)
    /\ status[n] = "IPV6" /\ q = "AAAA"
    /\ net' = Taken(n, q)
    /\ CallAll(n, "unknown")
    /\ UNCHANGED <<cache, lossy, asked, raised>>

AnswerIgnored(n, q) ==
    /\ Arrives(n, q)
    /\ ~Answers(n, q)
    /\ status[n] = "none" \/ (status[n] = "IPV6" /\ q = "A")
    /\ net' = Taken(n, q)
    /\ UNCHANGED <<status, waiters, cache, lossy, asked, raised, calls, result>>

(* POLL_ERR: a new socket, on a port that answers under way do not reach.   *)
SocketReplaced ==
    /\ net' = [nq \in Name \X QType |-> 0]
    /\ lossy' = TRUE
    /\ UNCHANGED <<status, waiters, cache, asked, raised, calls, result>>

(* handle_periodic: LRUCache.sweep removes what was not used for 300 s.     *)
Sweep(S) ==
    /\ S # {} /\ S \subseteq cache
    /\ cache' = cache \ S
    /\ UNCHANGED <<status, waiters, net, lossy, asked, raised, calls, result>>

-----------------------------------------------------------------------------
(* UDP                                                                     *)

Lose(n, q) ==
    /\ Arrives(n, q)
    /\ net' = Taken(n, q)
    /\ lossy' = TRUE
    /\ UNCHANGED <<status, waiters, cache, asked, raised, calls, result>>

Copy(n, q) ==
    /\ net[<<n, q>>] \in 1 .. MaxNet
    /\ net' = [net EXCEPT ![<<n, q>>] = @ + 1]
    /\ UNCHANGED <<status, waiters, cache, lossy, asked, raised, calls, result>>

Next ==
    \/ \E cb \in Callback, n \in Name :
          \/ ResolveAtOnce(cb, n)
          \/ \E reached \in 0 .. Servers :
                StartLookup(cb, n, reached) \/ JoinLookup(cb, n, reached)
    \/ \E n \in Name, q \in QType :
          \/ AnswerAddress(n, q) \/ AnswerUnknown(n, q) \/ AnswerIgnored(n, q)
          \/ \E reached \in 0 .. Servers : AnswerEmpty(n, q, reached)
          \/ Lose(n, q) \/ Copy(n, q)
    \/ SocketReplaced
    \/ \E S \in SUBSET Name : Sweep(S)

Spec == Init /\ [][Next]_vars

-----------------------------------------------------------------------------
(* A callback that resolve() took is queued in exactly one place until it   *)
(* is called, and called once, whatever late, repeated or missing answers   *)
(* do to the lookups; one whose resolve() raised is never called.           *)
Places(cb) == {p \in UNION {{n} \X DOMAIN waiters[n] : n \in Name} :
                  waiters[p[1]][p[2]] = cb}

CalledExactlyOnce ==
    \A cb \in Callback :
        calls[cb] + Cardinality(Places(cb)) =
            IF asked[cb] = NoName \/ cb \in raised THEN 0 ELSE 1

(* No lookup is forgotten: where somebody waits there is a status, and as   *)
(* long as no datagram was lost the question of that status is under way.   *)
LookupsAlive ==
    \A n \in Name : waiters[n] # <<>> =>
        /\ status[n] # "none"
        /\ ~lossy => net[<<n, IF status[n] = "IPV4" THEN "A" ELSE "AAAA">>] > 0

(* A name is reported unknown only if it has neither record, although       *)
(* answers of earlier lookups of the name may arrive in the middle of this. *)
UnknownOnlyIfNone ==
    \A cb \in Callback : result[cb] = "unknown" => asked[cb] \notin HasA \cup HasAAAA

(* Nobody waits for a name in the cache: those who do not find it there are *)
(* served by whatever answer puts it there.                                 *)
NobodyWaitsForCached == \A n \in cache : waiters[n] = <<>>
=============================================================================

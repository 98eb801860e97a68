# A TLA+ development of pt-shadowsocks

pt-shadowsocks forwards TCP connections through two processes: `main.py --local`
near the user and `main.py --server` on a remote machine. Each is one thread that
runs `EventLoop.run()` over non-blocking and blocking sockets. The modules here
model those two processes, the parts they are made of, and the properties on which
they depend. Source paths are relative to the repository.

## 1. The system

### 1.1 Components

| component | state | operations |
|---|---|---|
| Event loop, `ptshadowsocks/eventloop.py` | `_fdmap`: descriptor to (socket, handler); the events of the last `poll()` | `add`, `remove`, `poll`, `run` (dispatch by a second lookup of the descriptor; catches `OSError` only), periodic callbacks |
| Relay, `ptshadowsocks/tcprelay.py`, `protocol/socks5.py` | per handler: `stage`, `closed`, `data_to_send`, `data_to_back`, `local_relay`, `remote_relay`, `remote_sock`; per process: `source_dest_map`, the `Encryptor` | accept, greeting, request, DNS callback, frames each way, close |
| DNS resolver, `ptshadowsocks/dnsresolver.py` | `_hostname_status`, `_hostname_to_cb`, `_cb_to_hostname`, `_cache`, `_hosts`, `_servers` | `resolve`, `handle_event` (answers, socket error), `handle_periodic` |
| LRU cache, `ptshadowsocks/lru_cache.py` | `_store`, `_time_to_keys`, `_keys_to_last_time`, `_last_visits`, `_closed_values` | get, set, delete, `sweep` |
| Encryptor and ciphers, `ptshadowsocks/crypto.py`, `cryptolib/` | `iv_sent`, cipher and decipher objects with their stream position | `encrypt`, `decrypt` |
| DNS messages, `dnsresolver.py` 79-229 | none | build a request, parse a response |
| Address helpers, `ptshadowsocks/common.py` | `IPNetwork` lists | parse, pack, membership |
| Start-up, `main.py` | listening socket, a relay connection that is never used | `Initer`, `exit_handler` |
| Front ends, `servers/https-server.py`, `servers/udp-server*`, `clients/*.py` | threads and sockets of their own | forward to the client process |

### 1.2 How they interact

A browser connects to the client process. `TCPRelay.handle_event` accepts it and
constructs a *local* handler, which connects a socket of its own to the server and
constructs a *remote* handler on it. The browser sends a greeting and a request (a
JSON pair); the local handler gives the name to the resolver, whose callback sends
the second reply and moves the handler to `STAGE_STREAM`. From then on each read
becomes one frame: a prefix of 4 + 2 bytes with the lengths, then the cipher text of
the JSON metadata (source and target address) and the content. The server's *local*
handler (the tunnel) takes one frame per read off its buffer, deciphers it, and finds
or creates the *remote* handler of the frame's key `src:port<-->addr:port` in
`source_dest_map`; it writes the content to that destination. What the destination
answers is framed and written to the tunnel that *created* the destination handler.
The client finds the browser of an answer by its key in its own `source_dest_map`.

Every handler of a process shares one `Encryptor`: one cipher and one decipher object
with their position in the stream, whichever connections the frames use.

### 1.3 What is hard

* **Stale events.** `poll()` returns a batch; closing one handler while the batch is
  dispatched closes others of it, and a descriptor can be reused before the rest of
  the batch is dispatched.
* **One cipher stream, many connections.** Frames of different connections are not
  ordered; a frame that was deciphered and then could not be sent stays in the buffer.
* **Exceptions.** `run()` catches `OSError`. `struct.error`, `ValueError`, `KeyError`,
  `AttributeError` and `TypeError` of a handler end the process.
* **The reach of close().** On the server `close()` of a tunnel closes every
  destination handler there is and through them other tunnels.
* **Answers of an unreliable network.** DNS answers are matched by name only, and
  questions are repeated to several servers but never after a timeout.
* **Two processes, two lives.** Each process may be killed, or end by an exception, and be
  started again while the other one goes on with the old cipher stream.
* **Partial sends.** The result of `send` is not looked at: on a socket that does not block
  a part of a frame may go out, and what the peer then takes for the rest is the next frame.
* **Threads.** The front ends share a connection or the `EventLoop` between threads without
  a lock.
* **Resources.** Descriptors of sockets that are never connected, stamps in the cache,
  depth of the recursion of `close()`.

`PROJECT.json` lists these at their lines under "hazards", with the properties
that cover them.

### 1.4 What makes each component correct

* event loop: the map of descriptors is exactly the open sockets; an event reaches an
  open handler or none; nothing blocks in `recv`;
* relay, server: buffers lose nothing; contents reach a destination in the order of
  the cipher stream; no destination handler outlives its tunnel handler; ends of
  connections close handlers; descriptors are not leaked;
* relay, client: a browser's data reaches the tunnel once and encrypted once; answers
  reach the browser whose key they carry, in order;
* resolver: every callback is called once, with a true result;
* cache: a map that forgets exactly what was not used for longer than the timeout;
* messages and addresses: what a reader makes of the octets is what a writer put there,
  and what it raises ends the process only where the format says it must;
* the two processes together: each direction of a connection is a pipe, whatever else
  happens, and a restarted process does not hand on data of another stream;
* front ends: an answer goes to one place, an event to the connection it is for, and a
  descriptor that `poll()` reports has a handler.

## 2. The modules

| module | models | state and actions |
|---|---|---|
| `EventLoop` | what `poll()` reports, how an event finds its handler, free descriptors | extended by both relays: `batch`, `fdmap`, `fileno`, `hstate`, `peer`, `inflight` |
| `ServerRelay` | the server process | one action per branch of `socks5_handle` and `decryptoSend`; `Close` is the whole of `close()` |
| `CloseCascade` | `close()` on the server, activation by activation | `Enter`, `AtRelay`, `AtLoop`, `Return` |
| `LocalRelay` | the client process | `L(b)` and `R(b)` are the handlers of browser connection `b`; stages, the callback, frames each way |
| `Pipes` | both processes, joined by their tunnels | starts and ends of each process, the four handlers of a connection `L(b)`, `R(b)`, `T(b)`, `D(b)`, frames with their place in the cipher stream of a life |
| `Pipe` | what a connection promises in one direction | abstract pipe, implemented twice by `Pipes` |
| `DNSResolver` | the resolver | one action per outcome of `resolve()` and `_handle_data` |
| `LRUCache` | the cache | one action per method; `sweep()` is `SweepStart`, a `SweepBucket` per round of its loop, `SweepEnd` |
| `TimedMap` | what the cache promises | abstract map, implemented by `LRUCache` |
| `Ciphers` | the `Encryptor` of each process, the three kinds of cipher objects, the buffer both directions share | `Encrypt(p, len)`, `Decrypt(p, i)`: a process ciphers a message, or deciphers message `i` of the other one |
| `DNSMessages` | `build_address`, `parse_name`, `parse_record`, `parse_response`, `is_valid_hostname` | operators on sequences of octets; an exception is a record `Raises(e)` |
| `Addresses` | `inet_ntop`, `inet_pton`, `is_ip`, `pack_addr`, `parse_header`, `IPNetwork` | operators on texts taken as sequences of pieces, and on octets |
| `WireFormats` | the inputs of the two above, and what the formats mean | one step: an input is handled |
| `BackwardProxy` | `clients/backward-proxy.py` | two threads per browser, each taken apart between its `recv` and its `send`, and the connection all of them share |
| `HttpsServer` | `servers/https-server.py`, `libs/asyncSocket.py` | the loop; the handler of `accept` is taken apart where it blocks |
| `UdpServer` | `servers/udp-server.py`, the C++ library | the receiving thread, taken apart at every change of the `EventLoop`, and the loop thread |
| `ServerRelay_proofs`, `LocalRelay_proofs`, `DNSResolver_proofs`, `Ciphers_proofs`, `Pipes_proofs`, `WireFormats_proofs` | theorems about the modules of these names | |
| `Calls_proofs` | theorems about `CloseCascade` and `LRUCache`, as `MCCalls` puts them side by side | |
| `FrontEnds_proofs` | theorems about the three front ends, as `MCFrontEnds` puts them side by side | |
| `MCServerRelay`, `MCLocalRelay`, `MCDNSResolver`, `MCCiphers`, `MCPipes`, `MCCalls`, `MCFrontEnds` | instances for TLC | `MCCalls` runs either the cascade or the cache (`running`), `MCFrontEnds` one of the three front ends (`program`): they share nothing |

Definitions that begin "Mutant:" in their comment are plausible bugs. They are used by
no specification; `PROJECT.json` pairs each property with one that breaks it.

### 2.1 Abstractions

* **Bytes** are units. A frame is two units of prefix and one of body, so that a read can
  end inside the prefix (`struct.error`), inside the body (wait) or after any number of
  frames. A browser's request is two units.
* **Cipher text** is its place in the sender's stream. AES-256-CFB deciphers the next
  place to the plain text; any other place damages at least the first block, where the
  metadata starts, so `json.loads` raises a `ValueError`. This is how `Ciphers` shows the
  `Encryptor` to behave (`RoundTrip`, `OutOfPlaceGarbled`), where a unit of cipher text names the unit
  of the key stream it was xor-ed with, and is plain text again only against the same one. What
  the C libraries compute is not looked into. The block number `int(counter / 64)` is a
  floating point division, exact below 2^53 bytes.
* **TCP** keeps the state of the other end per socket: `up`, `fin`, `rst` with the error
  pending, `finrst`, `dead` once the error was reported, `unconnected`. `poll`'s flags
  follow from it. A non-blocking `send` takes all, a part or nothing; a blocking one
  returns. How long a blocking call lasts is not modelled.
* **A handler's steps** are atomic: a process is one thread, and one event is handled at a
  time. What interleaves is the network, the browsers and destinations, and the order of
  a batch.
* **The other process** is the environment of each relay: it sends frames in the order
  of its cipher stream on any of its connections. In `LocalRelay` the server answers only on
  a tunnel that has brought it a frame, which is where `source_dest_map` of the server
  gets the key from, so the lookup of the key on the client cannot fail.
* **The resolver** is, for `LocalRelay`, a query that is answered at once, refused, answered
  later with an address or an error, or never; `CalledExactlyOnce` of `DNSResolver`
  is why it is answered no more than once.
* **close()** is one step in the relays. On the server it is a recursion over
  `source_dest_map`; `CascadeClosesCloseSet` shows that it closes the set `CloseSet` of
  `ServerRelay`.
* **Pipes** takes the two processes as they appear to each other. A frame is whole on its way
  to the server, and a read brings any number of them; `ServerRelay` and `LocalRelay` cut
  frames anywhere. The handshake with the browser and the lookup are over. What is kept of
  the ciphers is the life of the process a frame is from and its place in that stream
  (`InStep`); what is kept of a partial `send` is that the receiver waits for, or takes in
  place of the rest, the beginning of the frame behind (`AnswerAwaited`, `AnswerMixed`).
  `close()` on the server has the reach that `CascadeExact` and `CloseReach` show.
* **Octets and texts.** `DNSMessages` works on octets, with the length of a label and Python's
  recursion limit as parameters. `Addresses` works on the pieces of a text between
  colons: a number, nothing, an IPv4 address, something else with a dot, a word.
* **Threads** of the front ends give up the interpreter between two calls that may block or
  change what is shared; a call of `recv`, `send` or of a dictionary is one step.
* **The clock** of the cache is not set back. (If it were set back exactly onto a stamp in
  the queue, `sweep()` would not end: an assumption of the code.)

## 3. What TLC checks

| run | instance | states | shows |
|---|---|---|---|
| `server_two_conns` | 2 tunnels, 2 keys, 4 descriptors, 1 frame and 1 answer each | 252 501 | registration, blocking, reach of `close()`, handlers of ended connections are closed |
| `server_one_key` | 3 tunnels with one key, 4 descriptors, 3 frames in all (2 after a reset), no answers | 725 914 | frames cut anywhere are accounted for; order of contents; the causes of garbage: overtaken, kept without a descriptor or without a working destination; descriptors run out only while held |
| `server_idle` | 1 tunnel | violation | an idle tunnel is never closed |
| `calls` | every shape of 3 tunnels and 3 keys for `close()`; 2 keys, 2 values, 4 visits, times 0 to 4, timeout 1 for the cache | 272 000 | the recursion ends, closes each handler once and the right set; the cache implements the timed map, `sweep()` returns |
| `local_one_conn` | 1 browser, 2 units of data, 2 reply frames, any ends | 17 831 | nothing is lost or encrypted twice; ends close handlers |
| `local_two_conns` | 2 browsers with one key, 2 reply frames each, one end | 482 575 | order of replies, the two causes of garbage, registration |
| `local_tunnel_left` | 1 browser | violation | the tunnel of a closed browser stays |
| `dns_resolver` | 3 callers, 4 names, 2 servers, lost, copied and late answers | 99 964 | every caller is called once and truthfully |
| `ciphers` | 4 methods, blocks and buffer of 3 units, 4 messages of 1 to 4 units, 3 taken by each process in any order | 850 475 | messages of any size are one stream; in order they give the plain text, out of place they do not |
| `pipes` | 2 connections, 3 starts of the two processes, 3 frames of a life, 4 of the two running lives | 445 000 | lives stay paired, processes end for stated causes only, each direction implements the pipe |
| `wire_formats` | every name of up to 6 of 5 octets, answers of up to 3 records cut anywhere, host names of 5 characters, texts of 5 pieces, 4 groups, networks of 4 bits | 114 000 | readers and writers against the meaning of the formats |
| `front_ends` | 2 browsers, 2 pieces each way; 2 connections on 3 descriptors, 2 answers; 4 receipts and 3 replies of datagrams | 276 000 | answers in one place, threads end, events reach their owners, datagrams are passed on per receipt |

**What the properties are about.** `EndedHandlersClose` and `EndedTunnelsClosed` and
`ThreadsEnd` are the liveness of the two relays and of the front ends: what has ended is
closed. `StreamKept` joins the order of delivered contents with the causes of a garbled frame.
`CascadeExact` joins that a handler is removed once, that `close()` closes `CloseSet`, and that
the stack is never deeper than the open handlers. `LivesPaired` says what a restart costs: one
life of the server hands on data of one life of the client. `EndsOnlyForCause` says
that with one connection, and without a kill, a failed `send` or `connect` or a partial send,
neither process ends by an exception. `ImplementsUpPipe` and `ImplementsDownPipe` are
the refinements of `Pipe`: upward without any condition, downward until the first answer
that was sent in part. `NamesExact` follows compression pointers by a walk of its own
and so finds every cycle.

**Bounds.** `MaxFrames`, `MaxChunks`, `MaxData`, `MaxDown`, `MaxSent`, `MaxAnswers` bound what peers
send, `MaxEnds` how many peers go away, `MaxStarts` how often processes are started,
`MaxTime` and `MaxVisits` the cache, `MaxNet` copies of datagrams, `MaxReceipts` and `MaxReplies` what
the UDP front end receives; `FewFrames` bounds the frames of a run together. Two
connections are what the cross-connection behaviour needs: overtaking, one key in
two connections, a descriptor that passes from one to the other within a batch. Two
frames per connection give a frame kept behind another one and a read that ends in the
second. Four descriptors for two tunnels (two each until the first frame) and
their destinations make every allocation reuse a number; in `server_one_key` two tunnels can
wait with a frame each while the destination is connected, so that one overtakes the other; two tunnels
that hold two descriptors each leave none for the destination; and then none is left for a third tunnel. Three starts are a start of both processes and
a restart of either. Four visits of two keys at equal and
different times give every shape of bucket. Blocks of 3 units with messages of up to 4 make
messages begin at every offset of a block and end in the same, the next or the one after, and a
buffer of 3 is too small with the padding, without it, or not at all. Six octets hold a label, a
pointer back onto it or into it, and a pointer onto that pointer. Hostnames of 5 characters with labels of
2 and names of 4 are too long in either way, and a newline makes a label of 3. Symmetry is used where only
safety is checked (in `pipes`, the refinements are safety as well).

**Deadlock** is not checked where the system may stop: a relay whose `crash` is set has ended,
and a loop with no event waits in `poll()`; `ciphers`, `pipes`, `calls` and `front_ends` end when what they
were given is used up; in `wire_formats` an input is handled once. The resolver has no such end,
and there deadlock is checked.

**Fairness.** `LoopSpec` assumes weak fairness of the loop's step as a whole: `run()` never
stops while the process lives, and every handler returns. Nothing is assumed of peers or of
the order in which a batch is dispatched. A batch is finite and is emptied before the
next poll, so every event of it is dispatched. `CallsSpec` assumes that a call of `sweep()`
or of `close()` that can go on does. Of the front ends, the threads of the backward proxy go on when
they can, each for itself, and so does the loop of the HTTPS front end; it can be kept waiting in the
handler of `accept` by a browser that sends nothing, which is why `EndedTunnelsClosed` holds only
where that does not last for ever. Nothing is assumed of the UDP front end.

The liveness properties carry the conditions under which the code keeps them: after a reset
(`POLL_ERR`) the server's handler stays and the loop spins on it, and after an error that
a `send` has reported (`POLL_HUP` alone) the client's does.

**Findings.** `server_idle`: `--timeout` has no effect because nothing registers
`handle_periodic`. `local_tunnel_left`: the end of a browser's connection does not end its
tunnel, which README.md asks for (todo 2).

## 4. What is proved

Every theorem holds for all values of the constants that satisfy the named assumption of its module. No
module assumes a bound, a symmetry or a state constraint of the runs. `PROJECT.json` lists the theorems
with the properties of the runs that they state; these are all the invariants of the runs but
`ResponsesExact`, and all the action properties and refinements.

### 4.1 The server relay

`ServerRelay_proofs`, from `ServerAssumption`:

* `TypeCorrect`: `Spec => []TypeOK`;
* `RegistrationCorrect`: `Spec => []RegistrationExact`;
* `LocalOutlivesRemote`: `Spec => []OpenRemoteHasOpenLocal`;
* `NoEventAfterClose`: `Spec => []EventsReachOpenHandlers`;
* `NeverBlockedInRecv`: `Spec => []RecvNeverBlocks`;
* `CloseReachHolds`: `Spec => CloseReach`;
* `NoUnitLost`: `Spec => []FrameAccounting`;
* `StreamHolds`: `Spec => []StreamKept`;
* `DescriptorsDoNotLeak`: `Spec => []OutOfFdsOnlyWhenHeld`;
* `CloseIsCascade`: `Spec => []CloseStartsCascade /\ CloseEndsCascade`. Whenever a handler is open, what
  its `close()` starts is a cascade of `CloseCascade`, and a step that closes it leaves open what that
  cascade leaves open; so with `CascadeHolds` (4.3) the one step of the relay is the recursion of the code.

The inductive invariant under all of them is `IInv == TypeOK /\ RegistrationExact /\
OpenRemoteHasOpenLocal`. None of the three is inductive alone. `RegistrationExact` says
that open handlers hold distinct registered descriptors, which is what makes the
simultaneous removal in `Close` leave exactly the descriptors of the remaining handlers, and a
descriptor that `FreeFd` offers unregistered. `OpenRemoteHasOpenLocal` needs to know the
set that `Close` closes: a tunnel takes all destination handlers with it, a
destination handler takes its creator and so, again, all of them. `EventsReachOpenHandlers`
follows from `RegistrationExact` in each state. The proofs have one step per action; the actions
that register or close something rest on lemmas about `Accept`, `ConnectKey` and `Close`.

`RecvNeverBlocks` speaks of the moment of a read; what keeps it is `EventInv`: an event of the batch names
the descriptor its socket has for as long as the socket is open, no two events have one descriptor, and
what an event announced is still there when it is dispatched, because only the handler itself reads and a
peer that has ended does not come back. `CloseReach` is an action property: outside the two
actions that call `close()` nothing closes, and in them the set is `CloseSet`.

`FrameAccounting` is inductive with one more fact, that a tunnel which has not been accepted has an empty
buffer. For `StreamKept` the frames of all tunnels are told apart by their place in the one
cipher stream: the places of the tunnels split `0 .. peerEnc - 1` (`StreamSplit`), a frame that was handed
on has a place behind the decipher object, and the only other frame of a tunnel with such a place is the
first one not handed on, which was deciphered and kept (`Deciphered`). Why it was kept is part of the invariant
(`KeptReason`): the tunnel still holds its unconnected socket, or the destination handler of its key is closed,
or its socket cannot be written.

`OutOfFdsOnlyWhenHeld` counts; its proof needs that a set of descriptors has the cardinality of the
sockets that hold them, for which the set of descriptors is finite (`ServerAssumption`), and `SparesHeld`:
the socket made in advance for a tunnel lives until the tunnel's first frame and no longer.

### 4.2 The client relay

`LocalRelay_proofs`, from `LocalAssumption`:

* `TypeCorrect`: `Spec => []TypeOK`;
* `RegistrationCorrect`: `Spec => []RegistrationExact`;
* `LocalHasRemote`: `Spec => []OpenLocalHasOpenRemote`;
* `StreamHolds`: `Spec => []StreamKept`;
* `OwnerFound`: `Spec => []FramesHaveOwner`, no run's property, but what `StreamKept` rests on;
* `UplinkHolds`: `Spec => []UplinkExact`.

The first three are inductive together with `PairsAccepted`: the two handlers of a browser come
into being in one step. The stream of answers is treated as the server's is, with `TunnelAccounting` for
the buffers. The new part is `OwnerExact`: whatever is in a tunnel, `source_dest_map` has an entry
for its key, and the entry is of a connection with that key.

`UplinkExact` says that there is a way to cut the browser's data into the frames of the tunnel, each
unit in one frame and in order. A function that gives the end of each frame (`taken` in the
property, `Carries` in the proof) is extended by one place per frame. The invariant says in
addition what is possible before the stream: which units a browser in each stage
has said and which of them are unread (`Handshake`), so that the greeting and the request are never
taken for data; and that a tunnel without a handler that can write stays that way
(`TunnelGone`), which is the one case in which data read is dropped.

### 4.3 close() and the cache

`Calls_proofs`, for the cascade, for finite disjoint sets of tunnels and destination handlers (`Handlers`: they are objects of one
process): `CascadeHolds`, `CascadeSpec => []CascadeExact`. That each handler is removed once is inductive with
what each activation on the stack knows (`ActivationsSound`) and that no two are of one
handler (`OneEach`), which bounds the depth. That `CloseSet` is closed in the end needs a promise of the
stack: while a destination handler is open, the loop of a tunnel is in
progress or about to begin (`SomeLoopAhead`), and the creator of a closed destination handler is closed or
there is an activation that has still to reach it (`CreatorsFollow`). That no more is closed is
`OthersUntouched`.

`Calls_proofs`, for the cache, from `CacheAssumption`:

* `QueueStays`: `Spec => []QueueConsistent`;
* `ClosedOnceHolds`: `Spec => RemovedValuesClosedOnce`;
* `CacheIsTimedMap`: `Spec => ImplementsTimedMap`.

`QueueConsistent` (the stamps ascend, and each time has as many stamps as its bucket has visits) is kept by
a clock that is not behind the last stamp (`NoStampAhead`). The refinement needs the other
direction: a key in the store is in the bucket of its last time (`EntriesInBuckets`), so when `sweep()` has
emptied the buckets that are due, no key that is due is left; and a key in a bucket that is due is
removed only if its last time is. `RemovedValuesClosedOnce` rests on `CallsExact`, the number of
calls for a value as long as it is in `_closed_values`.

### 4.4 The resolver

`DNSResolver_proofs`, from `ResolverAssumption`, for any sets of names and
callbacks, any number of servers and of copies:

* `TypeCorrect`: `Spec => []TypeOK`, with `calls` in 0..1;
* `CallbacksExact`: `Spec => []CalledExactlyOnce`;
* `UnknownIsTrue`: `Spec => []UnknownOnlyIfNone`;
* `WaitersServed`: `Spec => [](LookupsAlive /\ NobodyWaitsForCached)`.

`CalledExactlyOnce` counts places and is not inductive. The invariant `Inv` replaces it by three facts
about positions: whoever is queued is queued under the name it asked for, uncalled and
without a second place (`QueueExact`); whoever was taken and not called is queued
(`NobodyForgotten`); before `resolve()`, and after one that raised, there is no call
(`NotTaken`). `UnknownOnlyIfNone` needs `SixAfterFour`: a question AAAA is sent only
after an empty answer to A, so even a late AAAA answer of an earlier lookup, which can move
the present one to `STATUS_IPV6`, is about a name that has no A record. `LookupsAlive` and
`NobodyWaitsForCached` are inductive given the types. Each operation has a lemma; what
`_call_callback` and `_send_req` do is stated once, in `CallAllKeepsInv` and `AskType`.

### 4.5 The ciphers

`Ciphers_proofs`, from `CiphersAssumption`, for any sizes of blocks, buffers, IVs and messages:

* `PaddingAligns`: `SodiumCrypto.update`, which addresses the key stream by blocks behind a padding
  and writes into a buffer that may have to grow, applies exactly the units that follow
  those already used;
* `RoundTripHolds`: `Spec => []RoundTrip`;
* `OutOfPlaceIsGarbled`: `Spec => []OutOfPlaceGarbled`;
* `ChunkingIsInvisible`: `Spec => []ChunkingInvisible`.

With `PaddingAligns` and two simpler lemmas every method is the same function `Out` of a key stream and a
position, and `Out` is its own inverse. `RoundTrip` alone says nothing of positions; the
invariant adds that each message was enciphered where the one before it ended, with the IV
before the first only (`SentAtPosition`), and that a process which has taken every message in
order has the sender's IV and is at the place where the next message begins (`OpenedInStep`).
`PlaceInv` adds that later messages have higher places, so that a message out of order meets no
unit of its own key stream; the first unit of what comes out is then garbage. For
`ChunkingInvisible` the units of a message have consecutive places (`Consecutive`), and what `Out` makes of
a part is the part of what it makes of the whole (`OutOfPart`).

### 4.6 The two processes

`Pipes_proofs`, from `PipesAssumption`:

* `TypeCorrect`: `Spec => []TypeOK`;
* `LivesStayPaired`: `Spec => []LivesPaired`;
* `UpPipeImplemented`: `Spec => ImplementsUpPipe`, every behaviour of the two processes is, on
  the way up, a behaviour of `Pipe`;
* `DownPipeImplemented`: `Spec => ImplementsDownPipe`;
* `EndsForCause`: `Spec => []EndsOnlyForCause`.

`LivesPaired` speaks of what was delivered, and is kept by what is still on its way. The invariant
`LivesInv` says that the server which runs serves the life its decipher object follows
(`ServerFollows`), that while the first frame of a life is on its way no earlier server had
anything of that life (`FirstFrameOnce`: this is what stops a restarted server, whose
decipher object is `None`, from joining an old stream), and that a life which has made no
frame has none anywhere (`FramesBegun`). `FirstFrameOnce` survives a restart because the
tunnels of a server that ended are empty (`ProcessesAlive`). For the upward refinement, `UpInv` says of an
open tunnel that its frames carry exactly what the browser sent and the destination was not
sent (`IsRest`); the three facts about `IsRest`, that it holds at the start, when a frame is
appended and when the first is moved, are lemmas about sequences. Each action then is a
`Put`, a `Move`, or leaves what was cut cut.

Downward the tunnel may lose an answer and go on: frames in it need not be the next contents for the browser. The
invariant `DownInv` has to say why none of those is handed on. A place in the cipher stream is *lost*
when it was used, no frame has it and the client is not past it; the client never comes past it,
since it needs each place in turn. A frame behind a lost place is `Blocked`, and each
frame of an open tunnel is the next content for its browser or blocked (`AnswersNext`); an answer cut
short makes a lost place, and so does a frame that goes down with its tunnel.

`EndsOnlyForCause` is an implication whose premise becomes false in the course of a behaviour and stays so.
`QuietInv` says what holds until then: each process was started at most once and each tunnel holds exactly
the frames its reader has not deciphered, in order (`Quiet`), so that every read finds the frame it needs.

### 4.7 The front ends

`FrontEnds_proofs`, from `FrontEndAssumption`; the three programs share nothing, and each theorem is
about one of them:

* `UdpPollFindsHandlers`: `Spec => []PollFindsHandlers`;
* `UdpPassedOnPerReceipt`: `Spec => []PassedOnPerReceipt`;
* `HttpsEventsReachOwners`: `Spec => []EventsReachOwners`;
* `BackInvHolds`: `Spec => []BackInv`, the inductive invariant of the next two;
* `BackwardOpenServed`: `Spec => []OpenBrowsersServed`;
* `BackwardAnswersInOnePlace`: `Spec => []AnswersInOnePlace`.

For the UDP front end, `UdpInv` follows a socket from `open` over `mapped` and `watched` to `polled`, each
contained in the one before, and says where the receiving thread is with the socket it is adding.
`PassInv` relates the datagrams passed on to the receipts that caused them, by an
ascending function which grows with each send (`PassedBy`). In the HTTPS front end the entries of
closed sockets stay in the map, so it is not a map of the open ones; `OwnSocket` says that no two
connections have one descriptor and that the entry of a watched descriptor is its owner's.
`BackInv` says why a connection is closed and what a thread holds (`ThreadsInv`), that each answer
read has one place and no two (`PlacesInv`), in what order a browser's places are (`OrderInv`), and
what must have gone before one is lost (`LostInv`). `AnswersInOnePlace` counts these places; that the four
cardinalities add up to one follows by cases on which place it is. The lowest free descriptor, which the kernel
gives, exists in any set of descriptors because strict inclusion of intervals is well-founded.

### 4.8 The formats

`WireFormats_proofs`, from `FormatsAssumption`, for any octets, letters and pieces, texts of any length and messages as long
as the socket returns them, any number of groups and any width of an address:

* `AddressesHold`: `Spec => []AddressesExact`, headers and networks;
* `TextsHold`: `Spec => []TextsReadBack`, texts of IPv6 addresses both ways, and what `is_ip` raises;
* `NamesHold`: `Spec => []NamesExact`, what `parse_name` makes of any octets;
* `HostnamesHold`: `Spec => []HostnamesReadBack`, a question reads back as the name it was made of.

The invariant is that an input stays one of those chosen and its result is the answer of its kind
(`IInv`); all the work is in lemmas about the operators. These are recursive functions, and two lemmas take the place
of the library's theorems about recursion and induction, which take operators: `StepsExist` gives a
function from its first value and a step, and `UpTo` says that a set with 0 which has each successor
has every number. From them come the powers of two that a network is widened by, joined labels, the
pieces between dots, the octets of a question, the walk along a name, and `parse_name` itself,
whose calls within each other are one induction and whose loop at a position another, towards the
end of the message (`LoopExists`, `CallsExist`).

For `NamesExact` the reader is compared with the walk of positions. A walk of more steps than there are
octets either has stopped or has come to a position twice (`WalkComesBack`, a count), and then it
goes round for ever; each round passes a pointer, since a label only leads on, and so the calls are used up
(`RoundRaises`). Where it stops at a zero, the labels read and the labels on the way differ by what a
pointer joins: `ReadAs` says how, and is carried back along the way, label by label and pointer by
pointer. That the calls suffice for every name that ends is a count as well (`FewPointers`): such a name
passes no position twice, so all its pointers but the last lead to different octets of the message. A message is what
`recvfrom(1024)` returns (dnsresolver.py:373). A pointer's second octet is then either no pointer
itself, and takes one of the 1024 places for itself, or is 192 or more and one of the 256 such numbers
below 1024 (and the last pointer, which may lead behind the end): twice the pointers is at most
1024 + 257, so they are at most 640, below Python's 1000 calls. `FormatsAssumption` asks for exactly
that, or, as in the run, for messages no longer than the calls that may be nested.

For `HostnamesReadBack` the pieces are followed octet by octet (`PiecesOf`: joined, they are
the octets so far, and a dot at either end leaves an empty piece there). Labels that are accepted are not empty, so
there is no dot at an end and `strip` takes nothing off. What stands where in the question is `Placed`, and
reading goes from the zero backwards (`ReadLast`). For texts, the writes of `inet_pton` are the groups
before and behind a gap (`WritesOf`), no group is written twice (`AssignedIs`), and shortening by
`inet_ntop` keeps what is around the gap (`ShortenedKeeps`).

### 4.9 Only model-checked

* Liveness (`EndedHandlersClose`, `CallsReturn`, `ThreadsEnd`, `EndedTunnelsClosed`, and the two
  violations): fairness and `ENABLED` are beyond the provers.
* `ResponsesExact`: its messages are a fixed set, which the run `wire_formats` goes through as a whole,
  every length to which each may be cut included. No constant makes them more.

## 5. What is not modelled

* the C libraries behind the ciphers, the derivation of keys and tables from the password, the kernel's back ends of `poll`, reading
  `resolv.conf` and `hosts`, logging and packaging: no state of the program's own;
* `singlePipe`, `remove_callback`, `DNSResolver.close`, `handle_periodic` of a handler,
  `dnsres.py` (an earlier copy of the resolver), `SingleServer` and `run_by_coroutine` of the backward
  proxy, `udp-server-c.c` (an earlier form of the library): code that nothing reaches;
* `sockserver*.py`, `py-http*.py`, `py-https-proxy.py`, `udp-client.py`, `main-tests.py`: programs for trying
  things out by hand, without state that outlives a request;
* the kqueue and select back ends of the event loop, which translate flags;
* how long blocking calls last, and the size of socket buffers. A blocking `send` or `connect`
  returns here; in the program a slow peer holds up every connection of the process.

## 6. Plan

Done: the relays and the event loop, the cascade, the cache, the resolver, the ciphers; the two processes
together with their restarts; messages and addresses; the front ends; proofs of every invariant, action
property and refinement that a run checks, but for `ResponsesExact`; that `close()` may be taken as one step.

Next: answers of any number of records, with the sections as recursive functions, which would make
`ResponsesExact` a statement worth proving; the frames of `ServerRelay` and `LocalRelay` as refinements of
the tunnels of `Pipes`.

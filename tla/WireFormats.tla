------------------------------- MODULE WireFormats ------------------------------
(* The readers and writers of DNSMessages and Addresses on inputs of every     *)
(* shape, each against a definition of what its format means.  A behaviour     *)
(* chooses an input and handles it.                                            *)
EXTENDS Integers, Sequences, SequencesExt, FiniteSetsExt, TLC

CONSTANTS
    Octets, MaxOctets,          \* names: octets of a message and its length
    Letters, MaxLetters,        \* hostnames: characters and length
    Pieces, MaxPieces           \* addresses: pieces of a text and their number

CONSTANTS MaxLabel, MaxName, MaxRecursion, Groups, Base, Width, MaxHost
CONSTANTS Empty, Quad, Dotted, Word, Implicit, NotYet

NoNumbers == {Empty, Quad, Dotted, Word}

(* A message is not longer than calls may be nested: a name of it is read to   *)
(* its end.                                                                    *)
ASSUME FormatsAssumption ==
    /\ Octets \subseteq 0 .. 255 /\ Letters \subseteq 0 .. 255
    /\ MaxOctets \in Nat /\ MaxLetters \in Nat /\ MaxPieces \in Nat
    /\ MaxLabel \in 1 .. 63 /\ MaxName \in Nat
    \* recvfrom(1024): names of such a message nest fewer calls than Python's 1000
    /\ MaxRecursion \in Nat
    /\ MaxOctets <= MaxRecursion \/ (MaxOctets <= 1024 /\ 640 <= MaxRecursion)
    /\ Groups \in Nat /\ Groups > 1 /\ Base \in Nat /\ Base > 1
    /\ Width \in Nat /\ MaxHost \in Nat
    /\ NoNumbers \cap Int = {} /\ Implicit \notin Int
    /\ Quad \notin {Empty, Dotted, Word} /\ Empty \notin {Dotted, Word} /\ Dotted # Word
    /\ Pieces \subseteq Nat \cup NoNumbers

DNS == INSTANCE DNSMessages
Addr == INSTANCE Addresses

VARIABLES
    input,      \* what is read
    result      \* what was made of it, or NotYet

vars == <<input, result>>

-----------------------------------------------------------------------------
(* The inputs.                                                                 *)

(* An answer is a header with four counts, a question and records that name    *)
(* the question by a pointer; it may arrive cut.                               *)
QuestionName == {<<97>>, <<97, 46, 98>>}
OwnName == <<192, 12>>
RData(type) ==
    CASE type = DNS!TypeA -> <<8, 8, 4, 4>>
      [] type = DNS!TypeAAAA -> [i \in 1 .. 16 |-> i]
      [] type = DNS!TypeCNAME -> <<1, 99, 192, 12>>
      [] OTHER -> <<3, 97, 98, 99>>
RecordType == {DNS!TypeA, DNS!TypeAAAA, DNS!TypeCNAME, DNS!TypeTXT}

Question(name) == DNS!BuildAddress(name) \o <<0, DNS!TypeA, 0, DNS!ClassIN>>
Record(type) ==
    OwnName \o <<0, type, 0, DNS!ClassIN, 0, 0, 0, 60, 0, Len(RData(type))>> \o RData(type)
Message(name, answers, others) ==
    <<7, 7, 129, 128, 0, 1, 0, Len(answers), 0, Len(others), 0, 0>>
        \o Question(name) \o FlattenSeq([k \in DOMAIN answers |-> Record(answers[k])])
        \o FlattenSeq([k \in DOMAIN others |-> Record(others[k])])

Hosts == UNION {[1 .. n -> 97 .. 98] : n \in 0 .. MaxHost + 1}
Address ==
    {[family |-> 4, octets |-> <<8, 8, 4, 4>>],
     [family |-> 6, octets |-> [i \in 1 .. 16 |-> i]]}
    \cup {[family |-> 0, octets |-> h] : h \in Hosts}
Port == <<0, 80>>
Ips == 0 .. Addr!TwoTo[Width] - 1
Sizes == 0 .. Width + 1 \cup {Implicit}

NameInputs == {[kind |-> "name", data |-> d] : d \in BoundedSeq(Octets, MaxOctets) \ {<<>>}}
HostnameInputs ==
    {[kind |-> "hostname", name |-> h] : h \in BoundedSeq(Letters, MaxLetters) \ {<<>>}}
TextInputs == {[kind |-> "text", text |-> t] : t \in BoundedSeq(Pieces, MaxPieces) \ {<<>>}}
GroupsInputs == {[kind |-> "groups", groups |-> g] : g \in [1 .. Groups -> {0, 1, Base - 1}]}
NetworkInputs ==
    {[kind |-> "network", ip |-> i, size |-> s, other |-> o] : i \in Ips, s \in Sizes, o \in Ips}

Inputs == NameInputs \cup HostnameInputs \cup TextInputs \cup GroupsInputs \cup NetworkInputs

(* Init takes these apart from Inputs: their number depends on their length.   *)
InitInput ==
    \/ input \in Inputs
    \/ \E name \in QuestionName, answers \in BoundedSeq(RecordType, 2),
          others \in BoundedSeq(RecordType, 1) :
        \E cut \in 0 .. Len(Message(name, answers, others)) :
            input = [kind |-> "response", name |-> name, answers |-> answers,
                     others |-> others, cut |-> cut]
    \/ \E address \in Address :
        \E cut \in 0 .. Len(Addr!PackAddr(address) \o Port) :
            input = [kind |-> "header", address |-> address, cut |-> cut]

Init == InitInput /\ result = NotYet

Received(i) == SubSeq(Message(i.name, i.answers, i.others), 1, i.cut)

Handle(kind, answer) ==
    /\ input.kind = kind
    /\ result = NotYet
    /\ result' = answer
    /\ UNCHANGED input

ReadName == Handle("name", DNS!ParseName(input.data, 0))
ReadResponse == Handle("response", DNS!ParseResponse(Received(input)))
WriteHostname ==
    Handle("hostname", [valid |-> DNS!IsValidHostname(input.name),
                        wire |-> DNS!BuildAddress(input.name)])
ReadText == Handle("text", [is |-> Addr!IsIp(input.text), pton |-> Addr!InetPton(input.text)])
WriteGroups == Handle("groups", Addr!InetPton(Addr!InetNtop(input.groups)))
ReadHeader ==
    Handle("header", Addr!ParseHeader(SubSeq(Addr!PackAddr(input.address) \o Port, 1, input.cut)))
FillNetwork ==
    LET networks == <<Addr!AddNetwork(input.ip, input.size), Addr!AddNetwork(input.other, Width)>>
    IN Handle("network", IF Addr!Raised(networks[1]) THEN networks[1]
                         ELSE {a \in Ips : Addr!InNetworks(networks, a)})

Next == ReadName \/ ReadResponse \/ WriteHostname \/ ReadText \/ WriteGroups
        \/ ReadHeader \/ FillNetwork

Spec == Init /\ [][Next]_vars

Handled(kind) == input.kind = kind /\ result # NotYet

-----------------------------------------------------------------------------
(* Names: the positions a reader visits, one after the other.                  *)

At(data, p) == data[p + 1]
OnPointer(data, p) == At(data, p) >= 192
Within(data, p) == p < Len(data) /\ (OnPointer(data, p) => p + 1 < Len(data))
Follow(data, p) ==
    IF OnPointer(data, p) THEN (At(data, p) - 192) * 256 + At(data, p + 1)
    ELSE p + 1 + At(data, p)
Walk(data) ==
    LET w[k \in 0 .. Len(data) + 1] ==
            IF k = 0 THEN 0
            ELSE IF Within(data, w[k - 1]) /\ At(data, w[k - 1]) # 0
            THEN Follow(data, w[k - 1]) ELSE w[k - 1]
    IN w

(* The labels at the positions from the k-th on, for every k.                  *)
LabelsOf(data, positions) ==
    LET of[k \in 1 .. Len(positions) + 1] ==
            IF k > Len(positions) THEN <<>>
            ELSE IF OnPointer(data, positions[k]) \/ At(data, positions[k]) = 0 THEN of[k + 1]
            ELSE <<SubSeq(data, positions[k] + 2, positions[k] + 1 + At(data, positions[k]))>>
                 \o of[k + 1]
    IN of[1]

(* A name is read exactly if following it from its first octet ends at a zero  *)
(* within the message, and then as the labels on the way; a pointer onto the   *)
(* zero itself leaves a final dot.  A way that comes back to where it was      *)
(* raises a RecursionError.  The length is up to the first pointer             *)
(* (dnsresolver.py 112-130).                                                   *)
NamesExact ==
    Handled("name") =>
        LET data == input.data
            walk == Walk(data)
            stop == walk[Len(data) + 1]
            steps == [k \in 1 .. Len(data) + 1 |-> walk[k - 1]]
            way == SubSeq(steps, 1, Min({k \in DOMAIN steps : steps[k] = stop}))
            jumps == {k \in DOMAIN way : OnPointer(data, way[k])}
            bare == /\ Len(way) > 1 /\ OnPointer(data, way[Len(way) - 1])
                    /\ LabelsOf(data, way) # <<>>
        IN IF ~Within(data, stop)
           THEN result \in {DNS!Raises("IndexError"), DNS!Raises("struct.error")}
           ELSE IF At(data, stop) # 0 THEN result = DNS!Raises("RecursionError")
           ELSE /\ ~DNS!Raised(result)
                /\ result.name = DNS!Join(LabelsOf(data, way)) \o (IF bare THEN <<46>> ELSE <<>>)
                /\ result.len = IF jumps = {} THEN stop + 1 ELSE way[Min(jumps)] + 2

-----------------------------------------------------------------------------
(* Answers.                                                                    *)

Value(name, type) == IF type = DNS!TypeCNAME THEN <<99, 46>> \o name ELSE RData(type)

(* What parse_response makes of an answer is what the server put in it; of an  *)
(* answer that was cut nothing is made: shorter than a header it is dropped,   *)
(* and anywhere else the process ends.  Only data of an unknown type may be    *)
(* cut unnoticed, at the end of the message (dnsresolver.py 190-229).          *)
ResponsesExact ==
    Handled("response") =>
        LET i == input
            all == i.answers \o i.others
            whole == Len(Message(i.name, i.answers, i.others))
            opaque == all # <<>> /\ Last(all) = DNS!TypeTXT
        IN IF i.cut < DNS!HeaderLength THEN result = DNS!None
           ELSE IF i.cut = whole
           THEN /\ ~DNS!Raised(result)
                /\ result.hostname = [name |-> i.name]
                /\ result.answers = [k \in DOMAIN i.answers |->
                     [value |-> Value(i.name, i.answers[k]), type |-> i.answers[k]]]
           ELSE IF opaque /\ i.cut >= whole - Len(RData(DNS!TypeTXT))
           THEN ~DNS!Raised(result) /\ Len(result.answers) = Len(i.answers)
           ELSE result = DNS!Raises("TypeError")

(* Every hostname the resolver accepts is put into a question that reads back  *)
(* as that name; a label with a newline behind it may be one octet too long,   *)
(* and then there is no question (dnsresolver.py 36, 79-90, 232-237).          *)
HostnamesReadBack ==
    Handled("hostname") /\ result.valid =>
        \/ /\ result.wire # DNS!None
           /\ DNS!ParseName(result.wire, 0)
                = [len |-> Len(result.wire), name |-> input.name]
        \/ /\ result.wire = DNS!None
           /\ \E k \in DOMAIN input.name : input.name[k] = DNS!Newline

-----------------------------------------------------------------------------
(* Addresses.                                                                  *)

Numbers(s) == \A i \in DOMAIN s : Addr!IsNumber(s[i]) /\ s[i] < Base

(* The groups that an IPv6 text stands for: all of them, or those before and   *)
(* those behind one gap.                                                       *)
Means(text, groups) ==
    \/ Numbers(text) /\ text = groups
    \/ \E m, n \in 0 .. Groups - 1 :
        /\ m + n < Groups
        /\ Numbers(SubSeq(groups, 1, m)) /\ Numbers(SubSeq(groups, Groups - n + 1, Groups))
        /\ \A i \in m + 1 .. Groups - n : groups[i] = 0
        /\ text = (IF m = 0 THEN <<Empty>> ELSE SubSeq(groups, 1, m)) \o <<Empty>>
                  \o (IF n = 0 THEN <<Empty>> ELSE SubSeq(groups, Groups - n + 1, Groups))

(* A text of an IPv6 address gives its groups and is taken for one; an IPv4    *)
(* address is told from it, and a word unless it stands between two gaps.      *)
(* is_ip raises, and ends its caller, for two kinds of text only: colons       *)
(* before an IPv4 address, and a group too many (common.py 69-107).            *)
TextsExact ==
    Handled("text") =>
        LET text == input.text IN
        /\ \A groups \in [1 .. Groups -> {0} \cup {p \in Pieces : Numbers(<<p>>)}] :
            Means(text, groups) =>
                result.is = "INET6" /\ result.pton = [groups |-> groups]
        /\ text = <<Quad>> => result.is = "INET"
        /\ Word \in Range(text) /\ Empty \notin Range(text)
            => result.is \notin {"INET", "INET6"}
        /\ Last(text) = Quad /\ Len(text) > 1 => result.is = "AttributeError"
        /\ Numbers(text) /\ Len(text) > Groups => result.is = "IndexError"
        /\ result.is \in {"AttributeError", "IndexError"}
            => Len(text) > Groups \/ {Quad, Dotted} \cap Range(text) # {}

(* An address written by inet_ntop reads back exactly if its zeros stand       *)
(* together (common.py 58-66).                                                 *)
GroupsReadBack ==
    Handled("groups") =>
        LET zeros == {i \in 1 .. Groups : input.groups[i] = 0} IN
        result = [groups |-> input.groups] <=>
            (zeros = {} \/ \A i \in Min(zeros) .. Max(zeros) : i \in zeros)

(* Texts of IPv6 addresses both ways.                                          *)
TextsReadBack == TextsExact /\ GroupsReadBack

(* A packed address with its port reads back as it was, a long name without    *)
(* its end; of a header that was cut nothing is read, but the process ends     *)
(* where only the port of a name is missing (common.py 126-178).               *)
HeadersReadBack ==
    Handled("header") =>
        LET packed == Addr!PackAddr(input.address)
            host == input.address.family = 0
        IN CASE input.cut = Len(packed) + 2 ->
                  /\ result.type = packed[1]
                  /\ result.addr = SubSeq(input.address.octets, 1, Len(result.addr))
                  /\ Len(result.addr) = IF host THEN Min({MaxHost, Len(input.address.octets)})
                                        ELSE Len(input.address.octets)
                  /\ result.port = Port
                  /\ result.len = input.cut
             [] input.cut = 0 -> result = Addr!Raises("IndexError")
             [] host /\ input.cut > 2 /\ input.cut \in Len(packed) .. Len(packed) + 1 ->
                  result = Addr!Raises("struct.error")
             [] OTHER -> result = Addr!TooShort

(* A network with a size holds the aligned block of that size around its       *)
(* address; one without holds the largest block that begins at its address,    *)
(* and 0 alone (common.py 190-232).                                            *)
NetworksExact ==
    Handled("network") =>
        LET ip == input.ip
            begin(k) == {a \in Ips : ip <= a /\ a < ip + Addr!TwoTo[k]}
            aligned == {k \in 0 .. Width : ip % Addr!TwoTo[k] = 0}
            block == Addr!TwoTo[Width - input.size]
            low == ip - (ip % block)
        IN CASE input.size = Implicit ->
                  result = {input.other} \cup IF ip = 0 THEN {0} ELSE begin(Max(aligned))
             [] input.size = Width + 1 -> result = Addr!Raises("Exception")
             [] OTHER -> result = {input.other} \cup
                            {a \in Ips : low <= a /\ a < low + block}

(* Addresses in headers and in networks.                                       *)
AddressesExact == HeadersReadBack /\ NetworksExact
=================================================================================

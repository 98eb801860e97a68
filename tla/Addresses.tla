-------------------------------- MODULE Addresses -------------------------------
(* common.py: addresses as text, as numbers and as headers, and networks of    *)
(* them.  A text is the sequence of its pieces between colons; a piece is a    *)
(* number written in hexadecimal, is empty, or is one of the three below.      *)
(* Numbers below 10 are those that a reader of decimal digits takes as well.   *)
EXTENDS Integers, Sequences, SequencesExt, FiniteSetsExt

CONSTANTS
    Groups,    \* groups of an IPv6 address: 8
    Base,      \* values of a group: 65536
    Width,     \* bits of an address of a network: 32 or 128
    MaxHost,   \* octets of a host name in a header: 255
    Empty,     \* the empty piece
    Quad,      \* four decimal numbers with dots
    Dotted,    \* any other piece with a dot
    Word,      \* neither a number nor dotted
    Implicit   \* a network without a size


IsNumber(piece) == piece \notin {Empty, Quad, Dotted, Word}

Raises(e) == [raised |-> e]
Raised(r) == "raised" \in DOMAIN r

-----------------------------------------------------------------------------
(* Text and groups of an IPv6 address.                                         *)

(* socket.inet_aton also takes a single decimal number.                        *)
InetAton(text) ==
    Len(text) = 1 /\ (text[1] = Quad \/ (IsNumber(text[1]) /\ text[1] < 10))

(* The pieces of s before its first empty one.                                 *)
UpToEmpty(s) == SubSeq(s, 1, Min({i \in 1 .. Len(s) : s[i] = Empty} \cup {Len(s) + 1}) - 1)

(* Mutant: the groups behind the gap are laid from the left.                   *)
BehindFromLeft(n, j) == Groups - n - 1 + j

(* The inner loop goes from the last of n pieces to the left.                  *)
Behind(n, j) == Groups - j

(* The assignments to dbyts in their order: the pieces before the first gap,   *)
(* and if there is one those behind the last.                                  *)
Writes(text) ==
    LET front == UpToEmpty(text)
        back == IF front = text THEN <<>> ELSE UpToEmpty(Reverse(text))
    IN [i \in 1 .. Len(front) |-> [at |-> i - 1, val |-> front[i]]]
       \o [j \in 1 .. Len(back) |-> [at |-> Behind(Len(back), j), val |-> back[j]]]

(* int() comes before the index, which may be negative.                        *)
NoInt(w) == w.val \in {Quad, Dotted, Word}
OffList(w) == w.at \notin -Groups .. Groups - 1

(* A list after assignments to it: 0 where there was none.                     *)
Assigned(writes) ==
    [g \in 1 .. Groups |->
        LET to == {k \in DOMAIN writes : (writes[k].at % Groups) + 1 = g}
        IN IF to = {} THEN 0 ELSE writes[Max(to)].val]

(* inet_pton of family AF_INET6.  A text with dots is rewritten in a way that  *)
(* only Python 2 knew: a map has no insert().                                  *)
InetPton(text) ==
    LET writes == Writes(text)
        bad == {k \in DOMAIN writes : NoInt(writes[k]) \/ OffList(writes[k])}
        dbyts == Assigned(writes)
    IN IF \E i \in DOMAIN text : text[i] \in {Quad, Dotted}
       THEN IF Len(text) > 1 /\ InetAton(<<Last(text)>>)
            THEN Raises("AttributeError") ELSE Raises("ValueError")
       ELSE IF bad # {}
       THEN Raises(IF NoInt(writes[Min(bad)]) THEN "ValueError" ELSE "IndexError")
       ELSE IF \E g \in 1 .. Groups : dbyts[g] >= Base THEN Raises("ValueError")
       ELSE [groups |-> dbyts]

(* is_ip catches neither an IndexError nor an AttributeError.                  *)
IsIp(text) ==
    LET r == InetPton(text) IN
    IF InetAton(text) THEN "INET"
    ELSE IF ~Raised(r) THEN "INET6"
    ELSE IF r.raised = "ValueError" THEN "False"
    ELSE r.raised

(* re.sub('::+', '::', count=1): of the first empty pieces between two others  *)
(* one stays.                                                                  *)
Shortened(pieces) ==
    LET between == {i \in 2 .. Len(pieces) - 1 : pieces[i] = Empty}
        first == Min(between)
        last == Max({i \in between : first .. i \subseteq between})
    IN IF between = {} THEN pieces
       ELSE SubSeq(pieces, 1, first) \o SubSeq(pieces, last + 1, Len(pieces))

(* inet_ntop of family AF_INET6: lstrip('0') leaves nothing of a zero.         *)
InetNtop(groups) ==
    Shortened([i \in DOMAIN groups |-> IF groups[i] = 0 THEN Empty ELSE groups[i]])

-----------------------------------------------------------------------------
(* Headers.                                                                    *)

TypeIPv4 == 1
TypeHost == 3
TypeIPv6 == 4

(* pack_addr; socket.inet_pton takes the addresses of family 4 and 6.          *)
PackAddr(address) ==
    LET host == SubSeq(address.octets, 1, Min({Len(address.octets), MaxHost})) IN
    CASE address.family = 4 -> <<TypeIPv4>> \o address.octets
      [] address.family = 6 -> <<TypeIPv6>> \o address.octets
      [] OTHER -> <<TypeHost, Len(host)>> \o host

Header(data, type, from, n) ==
    IF Len(data) < from + n + 2 THEN Raises("struct.error")
    ELSE [type |-> type,
          addr |-> SubSeq(data, from + 1, from + n),
          port |-> SubSeq(data, from + n + 1, from + n + 2),
          len |-> from + n + 2]

TooShort == [none |-> TRUE]

(* Mutant: the port is looked for behind the longest name.                     *)
HostHeaderFixed(data) ==
    IF Len(data) <= 2 THEN TooShort
    ELSE IF Len(data) < 2 + data[2] THEN TooShort
    ELSE Header(data, TypeHost, 2, Min({Len(data) - 4, MaxHost}))

(* The two octets of the port are not among those the code asks for.           *)
HostHeader(data) ==
    IF Len(data) <= 2 THEN TooShort
    ELSE IF Len(data) < 2 + data[2] THEN TooShort
    ELSE Header(data, TypeHost, 2, data[2])

ParseHeader(data) ==
    IF data = <<>> THEN Raises("IndexError")
    ELSE CASE data[1] = TypeIPv4 -> IF Len(data) < 7 THEN TooShort
                                    ELSE Header(data, TypeIPv4, 1, 4)
           [] data[1] = TypeIPv6 -> IF Len(data) < 19 THEN TooShort
                                    ELSE Header(data, TypeIPv6, 1, 16)
           [] data[1] = TypeHost -> HostHeader(data)
           [] OTHER -> TooShort

-----------------------------------------------------------------------------
(* IPNetwork.                                                                  *)

(* A number is shifted right by k bits.                                        *)
TwoTo[k \in 0 .. Width] == IF k = 0 THEN 1 ELSE 2 * TwoTo[k - 1]
Shifted(ip, k) == ip \div TwoTo[k]

(* The loop over the low bits that are 0, which leaves the address 0 alone.    *)
ZeroBits(ip) ==
    IF ip = 0 THEN 0 ELSE Max({k \in 0 .. Width : ip % TwoTo[k] = 0})

(* An entry of the list: the number and how far addresses are shifted to it.   *)
AddNetwork(ip, size) ==
    IF size = Implicit THEN [net |-> Shifted(ip, ZeroBits(ip)), shift |-> ZeroBits(ip)]
    ELSE IF size <= Width
    THEN [net |-> Shifted(ip, Width - size), shift |-> Width - size]
    ELSE Raises("Exception")

InNetworks(networks, ip) ==
    \E k \in DOMAIN networks : networks[k].net = Shifted(ip, networks[k].shift)
=================================================================================

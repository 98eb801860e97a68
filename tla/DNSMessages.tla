------------------------------- MODULE DNSMessages ------------------------------
(* The messages of the resolver: names, questions, records and answers as      *)
(* bytes, the way dnsresolver.py builds and reads them.  Indices are those of  *)
(* the code, counted from 0.  What an operation returns is a record; what it   *)
(* raises is Raises(e).                                                        *)
EXTENDS Naturals, Sequences, SequencesExt

CONSTANTS
    MaxLabel,       \* octets of a label: 63
    MaxName,        \* octets of a hostname: 255
    MaxRecursion    \* calls Python allows within each other

Dot == 46
Newline == 10
Hyphen == 45

None == [none |-> TRUE]
Raises(e) == [raised |-> e]
Raised(r) == "raised" \in DOMAIN r

(* data[p : p + n], which is shorter when data ends before.                    *)
Slice(data, p, n) == SubSeq(data, p + 1, Min({p + n, Len(data)}))

UShort(data, p) == data[p + 1] * 256 + data[p + 2]

Join(labels) ==
    LET joined[k \in 0 .. Len(labels)] ==
            IF k = 0 THEN <<>>
            ELSE IF k = 1 THEN labels[1] ELSE joined[k - 1] \o <<Dot>> \o labels[k]
    IN joined[Len(labels)]

-----------------------------------------------------------------------------
(* Names.                                                                      *)

IsPointer(octet) == octet >= 192

(* Mutant: a pointer is taken relative to where it stands.                     *)
PointerRelative(data, p) == (p + data[p + 2]) % 256

Pointer(data, p) == (data[p + 1] % 64) * 256 + data[p + 2]

(* Mutant: the length of a name counts what its pointer leads to.              *)
NameEndThrough(p, r) == r.end

(* A name with a pointer at p ends there, not where that leads to.             *)
NameEnd(p, r) == p + 2

(* A label at p, or a pointer, in front of what follows it or what it leads to. *)
WithLabel(data, p, r) ==
    IF Raised(r) THEN r
    ELSE [end |-> r.end, labels |-> <<Slice(data, p + 1, data[p + 1])>> \o r.labels]
WithPointer(p, r) ==
    IF Raised(r) THEN r ELSE [end |-> NameEnd(p, r), labels |-> <<Join(r.labels)>>]

(* parse_name, which may still call itself depth times, with its loop at p: where *)
(* the name ends, and its labels from p on.                                    *)
LabelsFrom(data) ==
    LET called[depth \in 0 .. MaxRecursion] ==
            LET from[p \in Nat] ==
                    IF p >= Len(data) THEN Raises("IndexError")
                    ELSE IF data[p + 1] = 0 THEN [end |-> p + 1, labels |-> <<>>]
                    ELSE IF ~IsPointer(data[p + 1])
                    THEN WithLabel(data, p, from[p + 1 + data[p + 1]])
                    ELSE IF p + 1 >= Len(data) THEN Raises("struct.error")
                    ELSE IF depth = 0 THEN Raises("RecursionError")
                    ELSE WithPointer(p, called[depth - 1][Pointer(data, p)])
            IN from
    IN called

ParseName(data, offset) ==
    LET r == LabelsFrom(data)[MaxRecursion][offset]
    IN IF Raised(r) THEN r ELSE [len |-> r.end - offset, name |-> Join(r.labels)]

-----------------------------------------------------------------------------
(* Questions.                                                                  *)

(* The pieces of s between its separators: an octet either begins a piece or   *)
(* goes to the last.                                                           *)
Split(s, sep) ==
    LET pieces[i \in 0 .. Len(s)] ==
            IF i = 0 THEN <<<<>>>>
            ELSE IF s[i] = sep THEN Append(pieces[i - 1], <<>>)
            ELSE [pieces[i - 1] EXCEPT ![Len(pieces[i - 1])] = Append(@, s[i])]
    IN pieces[Len(s)]

(* strip(b'.')                                                                 *)
Stripped(s) ==
    LET kept == {i \in 1 .. Len(s) : s[i] # Dot}
    IN IF kept = {} THEN <<>> ELSE SubSeq(s, Min(kept), Max(kept))

BuildAddress(hostname) ==
    LET labels == Split(Stripped(hostname), Dot) IN
    IF \E k \in DOMAIN labels : Len(labels[k]) > MaxLabel THEN None
    ELSE FlattenSeq([k \in DOMAIN labels |-> <<Len(labels[k])>> \o labels[k]]) \o <<0>>

(* Mutant: VALID_HOSTNAME without its look-ahead and with no lower bound.      *)
ValidLabelEmpty(label) ==
    /\ Len(label) <= MaxLabel
    /\ \A i \in DOMAIN label : label[i] # Newline

(* VALID_HOSTNAME.match: letters, digits and inner hyphens; $ also matches     *)
(* before a newline that ends the label.                                       *)
ValidLabel(label) ==
    LET s == IF label # <<>> /\ Last(label) = Newline THEN Front(label) ELSE label IN
    /\ Len(s) \in 1 .. MaxLabel
    /\ \A i \in DOMAIN s : s[i] # Newline
    /\ Head(s) # Hyphen /\ Last(s) # Hyphen

(* hostname[-1] == b'.' compares a number with bytes: a final dot stays.       *)
IsValidHostname(hostname) ==
    /\ Len(hostname) <= MaxName
    /\ \A k \in DOMAIN Split(hostname, Dot) : ValidLabel(Split(hostname, Dot)[k])

-----------------------------------------------------------------------------
(* Records.                                                                    *)

TypeA == 1
TypeNS == 2
TypeCNAME == 5
TypeTXT == 16
TypeAAAA == 28
ClassIN == 1

(* inet_ntop raises a ValueError for octets that are not 4 or 16.              *)
ParseIp(type, data, length, offset) ==
    LET octets == Slice(data, offset, length) IN
    CASE type = TypeA -> IF Len(octets) = 4 THEN [value |-> octets] ELSE Raises("ValueError")
      [] type = TypeAAAA -> IF Len(octets) = 16 THEN [value |-> octets] ELSE Raises("ValueError")
      [] type \in {TypeCNAME, TypeNS} ->
            LET r == ParseName(data, offset)
            IN IF Raised(r) THEN r ELSE [value |-> r.name]
      [] OTHER -> [value |-> octets]

ParseQuestion(data, offset) ==
    LET r == ParseName(data, offset)
        at == offset + r.len
    IN IF Raised(r) THEN r
       ELSE IF at + 4 > Len(data) THEN Raises("struct.error")
       ELSE [len |-> r.len + 4,
             name |-> r.name, value |-> <<>>, type |-> UShort(data, at), class |-> UShort(data, at + 2)]

ParseRecord(data, offset) ==
    LET r == ParseName(data, offset)
        at == offset + r.len
        rdlength == UShort(data, at + 8)
        ip == ParseIp(UShort(data, at), data, rdlength, at + 10)
    IN IF Raised(r) THEN r
       ELSE IF at + 10 > Len(data) THEN Raises("struct.error")
       ELSE IF Raised(ip) THEN ip
       ELSE [len |-> r.len + 10 + rdlength,
             name |-> r.name, value |-> ip.value, type |-> UShort(data, at), class |-> UShort(data, at + 2)]

(* count entries from offset start on, and where they end; parse[o] is the one  *)
(* that begins at o.                                                           *)
ParseSection(start, count, parse) ==
    FoldLeft(LAMBDA acc, i :
                 IF Raised(acc) THEN acc
                 ELSE LET r == parse[acc.offset] IN
                      IF Raised(r) THEN r
                      ELSE [offset |-> acc.offset + r.len, records |-> Append(acc.records, r)],
             [offset |-> start, records |-> <<>>],
             [i \in 1 .. count |-> i])

HeaderLength == 12

ResponseOf(qds, ans) ==
    [hostname |-> IF qds = <<>> THEN None ELSE [name |-> qds[1].name],
     answers |-> [k \in DOMAIN ans |-> [value |-> ans[k].value, type |-> ans[k].type]]]

(* Whatever the sections raise, print_exception() without arguments raises a   *)
(* TypeError in its place, which no caller catches.                            *)
ParseResponse(data) ==
    IF Len(data) < HeaderLength THEN None
    ELSE LET question == [offset \in Nat |-> ParseQuestion(data, offset)]
             record == [offset \in Nat |-> ParseRecord(data, offset)]
             qd == ParseSection(HeaderLength, UShort(data, 4), question)
             an == ParseSection(qd.offset, UShort(data, 6), record)
             ns == ParseSection(an.offset, UShort(data, 8), record)
             ar == ParseSection(ns.offset, UShort(data, 10), record)
         IN IF Raised(qd) \/ Raised(an) \/ Raised(ns) \/ Raised(ar) THEN Raises("TypeError")
            ELSE ResponseOf(qd.records, an.records)
=================================================================================

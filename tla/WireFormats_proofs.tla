---------------------------- MODULE WireFormats_proofs ---------------------------
(* Theorems about WireFormats: what the readers and writers of names and of     *)
(* addresses make of every input, of any length.                                *)
EXTENDS WireFormats, FiniteSetTheorems, SequenceTheorems, WellFoundedInduction, TLAPS

-----------------------------------------------------------------------------------
(* Least and greatest numbers, and induction up to a number: a set that a        *)
(* number outside of it would have a least one of.                              *)

LEMMA LeastExists ==
    ASSUME NEW S \in SUBSET Nat, S # {}
    PROVE  \E x \in S : \A y \in S : x <= y
<1>1. PICK x \in S : \A y \in S : ~ (<<y, x>> \in OpToRel(<, Nat))
  BY NatLessThanWellFounded, WFMin, Zenon
<1>2. \A y \in S : <<y, x>> \in OpToRel(<, Nat) <=> y < x
  BY DEF OpToRel
<1>3. \A y \in S : ~ (y < x)
  BY <1>1, <1>2, Zenon
<1>. QED BY <1>3

LEMMA MinIsLeast ==
    ASSUME NEW S \in SUBSET Nat, S # {}
    PROVE  Min(S) \in S /\ \A y \in S : Min(S) <= y
BY LeastExists DEF Min

LEMMA GreatestExists ==
    ASSUME NEW n \in Nat, NEW S \in SUBSET (0 .. n), S # {}
    PROVE  \E x \in S : \A y \in S : x >= y
<1> DEFINE T == {n - x : x \in S}
<1>1. T \in SUBSET Nat /\ T # {}
  <2>1. \A x \in S : n - x \in Nat
    OBVIOUS
  <2>. QED BY <2>1
<1>2. PICK t \in T : \A u \in T : t <= u
  BY <1>1, LeastExists
<1>3. PICK x \in S : t = n - x
  OBVIOUS
<1>4. ASSUME NEW y \in S PROVE x >= y
  <2>1. n - y \in T
    OBVIOUS
  <2>2. t <= n - y
    BY <1>2, <2>1
  <2>. QED BY <1>3, <2>2
<1>. QED BY <1>4

LEMMA MaxIsGreatest ==
    ASSUME NEW n \in Nat, NEW S \in SUBSET (0 .. n), S # {}
    PROVE  Max(S) \in S /\ \A y \in S : Max(S) >= y
BY GreatestExists DEF Max

LEMMA UpTo ==
    ASSUME NEW n \in Nat, NEW U, 0 \in U, \A m \in 0 .. n - 1 : m \in U => m + 1 \in U
    PROVE  \A m \in 0 .. n : m \in U
<1> DEFINE out == {m \in 0 .. n : m \notin U}
<1> SUFFICES ASSUME out # {} PROVE FALSE
  OBVIOUS
<1>1. PICK m \in out : \A k \in out : m <= k
  <2>1. out \in SUBSET Nat
    OBVIOUS
  <2> HIDE DEF out
  <2>. QED BY <2>1, LeastExists
<1>2. m # 0 /\ m - 1 \in 0 .. n - 1 /\ m - 1 \notin out
  BY <1>1
<1>3. m - 1 \in U /\ (m - 1) + 1 = m
  BY <1>2
<1>. QED BY <1>2, <1>3

(* A function that is given by a value and by steps from each value to the next. *)
Stepped(f, n, base, step) ==
    f[0] = base /\ \A k \in 1 .. n : f[k] = step[<<k, f[k - 1]>>]

LEMMA StepsExist ==
    ASSUME NEW n \in Nat, NEW T, NEW base \in T, NEW step \in [(1 .. n) \X T -> T]
    PROVE  \E f \in [0 .. n -> T] : Stepped(f, n, base, step)
<1> DEFINE Good(f, m) == f \in [0 .. m -> T] /\ f[0] = base
                         /\ \A k \in 1 .. m : f[k] = step[<<k, f[k - 1]>>]
           U == {m \in 0 .. n : \E f : Good(f, m)}
<1>1. 0 \in U
  <2>1. Good([k \in 0 .. 0 |-> base], 0)
    OBVIOUS
  <2> HIDE DEF Good
  <2>. QED BY <2>1
<1>2. ASSUME NEW m \in 0 .. n - 1, m \in U PROVE m + 1 \in U
  <2>1. PICK f : Good(f, m)
    BY <1>2
  <2> DEFINE g == [k \in 0 .. m + 1 |-> IF k = m + 1 THEN step[<<m + 1, f[m]>>] ELSE f[k]]
  <2>2. f[m] \in T /\ m + 1 \in 1 .. n
    BY <2>1
  <2>3. step[<<m + 1, f[m]>>] \in T
    BY <2>2
  <2>4. g \in [0 .. m + 1 -> T] /\ g[0] = base
    BY <2>1, <2>3
  <2>5. ASSUME NEW k \in 1 .. m + 1 PROVE g[k] = step[<<k, g[k - 1]>>]
    <3>1. CASE k = m + 1
      <4>1. g[m + 1] = step[<<m + 1, f[m]>>] /\ g[m] = f[m] /\ k - 1 = m
        BY <3>1
      <4> HIDE DEF g
      <4>. QED BY <3>1, <4>1, Zenon
    <3>2. CASE k # m + 1
      <4>1. k \in 1 .. m /\ g[k] = f[k] /\ g[k - 1] = f[k - 1]
        BY <3>2
      <4>. QED BY <2>1, <4>1
    <3>. QED BY <3>1, <3>2
  <2> HIDE DEF g
  <2>6. Good(g, m + 1)
    BY <2>4, <2>5
  <2> HIDE DEF Good
  <2>. QED BY <2>2, <2>6
<1> HIDE DEF U
<1>3. n \in U
  BY <1>1, <1>2, UpTo
<1>. QED BY <1>3 DEF U, Stepped

(* The sizes are numbers.                                                        *)
LEMMA Numerals ==
    /\ Width \in Nat /\ MaxHost \in Nat /\ Groups \in Nat /\ Groups > 1
    /\ Base \in Nat /\ Base > 1
BY FormatsAssumption DEF FormatsAssumption

-----------------------------------------------------------------------------------
(* The powers of two.                                                            *)

Doubles(f) == f = [k \in 0 .. Width |-> IF k = 0 THEN 1 ELSE 2 * f[k - 1]]

LEMMA DoublesExist == \E f : Doubles(f)
<1> DEFINE T == Nat \ {0}
           step == [x \in (1 .. Width) \X T |-> 2 * x[2]]
<1>1. step \in [(1 .. Width) \X T -> T] /\ 1 \in T
  OBVIOUS
<1>2. \A k \in 1 .. Width, v \in T : step[<<k, v>>] = 2 * v
  OBVIOUS
<1> HIDE DEF step, T
<1>3. PICK f \in [0 .. Width -> T] : Stepped(f, Width, 1, step)
  BY <1>1, Numerals, StepsExist
<1>4. ASSUME NEW k \in 1 .. Width PROVE f[k] = 2 * f[k - 1]
  <2>1. k - 1 \in 0 .. Width
    BY Numerals
  <2>2. f[k - 1] \in T
    BY <2>1
  <2>. QED BY <1>2, <1>3, <2>2 DEF Stepped
<1>5. Doubles(f)
  <2>1. f = [k \in 0 .. Width |-> f[k]]
    OBVIOUS
  <2>2. ASSUME NEW k \in 0 .. Width PROVE f[k] = IF k = 0 THEN 1 ELSE 2 * f[k - 1]
    BY <1>3, <1>4, Numerals DEF Stepped
  <2>. QED BY <2>1, <2>2 DEF Doubles
<1>. QED BY <1>5

LEMMA PowersOfTwo ==
    /\ Addr!TwoTo[0] = 1
    /\ \A k \in 1 .. Width : Addr!TwoTo[k] = 2 * Addr!TwoTo[k - 1]
    /\ \A k \in 0 .. Width : Addr!TwoTo[k] \in Nat \ {0}
<1> DEFINE f == Addr!TwoTo
<1>1. f = CHOOSE g : Doubles(g)
  BY DEF Addr!TwoTo, Doubles
<1>2. Doubles(f)
  BY <1>1, DoublesExist
<1> HIDE DEF f
<1>3. \A k \in 0 .. Width : f[k] = IF k = 0 THEN 1 ELSE 2 * f[k - 1]
  BY <1>2 DEF Doubles
<1>4. f[0] = 1
  BY <1>3, Numerals
<1>5. \A k \in 1 .. Width : f[k] = 2 * f[k - 1]
  BY <1>3, Numerals
<1> DEFINE U == {k \in 0 .. Width : f[k] \in Nat \ {0}}
<1>6. 0 \in U
  BY <1>4, Numerals
<1>7. ASSUME NEW m \in 0 .. Width - 1, m \in U PROVE m + 1 \in U
  <2>1. m + 1 \in 1 .. Width /\ (m + 1) - 1 = m
    BY Numerals
  <2>2. f[m + 1] = 2 * f[m]
    BY <1>5, <2>1
  <2>. QED BY <1>7, <2>1, <2>2
<1>8. \A k \in 0 .. Width : k \in U
  <2> HIDE DEF U
  <2>. QED BY <1>6, <1>7, Numerals, UpTo
<1>9. \A k \in 0 .. Width : f[k] \in Nat \ {0}
  BY <1>8
<1>. QED BY <1>4, <1>5, <1>9 DEF f

-----------------------------------------------------------------------------------
(* Networks.                                                                     *)

LEMMA OneBlock ==
    ASSUME NEW a \in Nat, NEW b \in Nat, NEW d \in Nat \ {0}
    PROVE  a \div d = b \div d <=> (b - (b % d) <= a /\ a < b - (b % d) + d)
OBVIOUS

InNetwork(network, a) == network.net = Addr!Shifted(a, network.shift)

(* A number is in a network of k low bits if it is in the block of the address.  *)
LEMMA NetworkBlock ==
    ASSUME NEW ip \in Nat, NEW k \in 0 .. Width, NEW a \in Nat
    PROVE  InNetwork([net |-> Addr!Shifted(ip, k), shift |-> k], a)
             <=> LET d == Addr!TwoTo[k] IN ip - (ip % d) <= a /\ a < ip - (ip % d) + d
<1>1. Addr!TwoTo[k] \in Nat \ {0}
  BY PowersOfTwo
<1>. QED BY <1>1, OneBlock DEF InNetwork, Addr!Shifted

LEMMA SizedNetwork ==
    ASSUME NEW ip \in Nat, NEW size \in 0 .. Width, NEW a \in Nat
    PROVE  /\ ~Addr!Raised(Addr!AddNetwork(ip, size))
           /\ InNetwork(Addr!AddNetwork(ip, size), a)
                <=> LET d == Addr!TwoTo[Width - size]
                    IN ip - (ip % d) <= a /\ a < ip - (ip % d) + d
<1>1. size # Implicit /\ size <= Width /\ Width - size \in 0 .. Width
  BY Numerals, FormatsAssumption DEF FormatsAssumption
<1>2. Addr!AddNetwork(ip, size) =
        [net |-> Addr!Shifted(ip, Width - size), shift |-> Width - size]
  BY <1>1 DEF Addr!AddNetwork
<1>. QED BY <1>1, <1>2, NetworkBlock DEF Addr!Raised

LEMMA ImplicitNetwork ==
    ASSUME NEW ip \in Nat, NEW a \in Nat
    PROVE  /\ ~Addr!Raised(Addr!AddNetwork(ip, Implicit))
           /\ InNetwork(Addr!AddNetwork(ip, Implicit), a)
                <=> IF ip = 0 THEN a = 0
                    ELSE ip <= a /\ a < ip + Addr!TwoTo[Max({k \in 0 .. Width : ip % Addr!TwoTo[k] = 0})]
<1> DEFINE aligned == {k \in 0 .. Width : ip % Addr!TwoTo[k] = 0}
<1>1. Addr!AddNetwork(ip, Implicit) =
        [net |-> Addr!Shifted(ip, Addr!ZeroBits(ip)), shift |-> Addr!ZeroBits(ip)]
  BY DEF Addr!AddNetwork
<1>2. CASE ip = 0
  <2>1. Addr!ZeroBits(ip) = 0 /\ 0 \in 0 .. Width
    BY <1>2, Numerals DEF Addr!ZeroBits
  <2>2. ip - (ip % 1) <= a /\ a < ip - (ip % 1) + 1 <=> a = 0
    BY <1>2
  <2>. QED BY <1>1, <1>2, <2>1, <2>2, NetworkBlock, PowersOfTwo DEF Addr!Raised
<1>3. CASE ip # 0
  <2>1. 0 \in aligned
    <3>1. ip % 1 = 0 /\ 0 \in 0 .. Width
      BY Numerals
    <3>. QED BY <3>1, PowersOfTwo
  <2>2. Max(aligned) \in aligned
    <3> HIDE DEF aligned
    <3>1. aligned \in SUBSET (0 .. Width)
      BY DEF aligned
    <3>. QED BY <2>1, <3>1, MaxIsGreatest, Numerals
  <2>3. Addr!ZeroBits(ip) = Max(aligned)
    BY <1>3 DEF Addr!ZeroBits, Addr!Max, Max
  <2> DEFINE z == Max(aligned)
  <2>4. z \in 0 .. Width /\ ip % Addr!TwoTo[z] = 0
    BY <2>2
  <2> HIDE DEF z
  <2>5. InNetwork([net |-> Addr!Shifted(ip, z), shift |-> z], a)
          <=> ip <= a /\ a < ip + Addr!TwoTo[z]
    <3>1. ip - 0 = ip
      OBVIOUS
    <3>. QED BY <2>4, <3>1, NetworkBlock
  <2>6. Addr!AddNetwork(ip, Implicit) = [net |-> Addr!Shifted(ip, z), shift |-> z]
    BY <1>1, <2>3 DEF z
  <2>. QED BY <1>3, <2>5, <2>6 DEF Addr!Raised, z
<1>. QED BY <1>2, <1>3

(* What FillNetwork makes of its input.                                          *)
NetworkAnswer(i) ==
    LET networks == <<Addr!AddNetwork(i.ip, i.size), Addr!AddNetwork(i.other, Width)>>
    IN IF Addr!Raised(networks[1]) THEN networks[1]
       ELSE {a \in Ips : Addr!InNetworks(networks, a)}

LEMMA TwoNetworks ==
    ASSUME NEW one, NEW other, NEW a
    PROVE  Addr!InNetworks(<<one, other>>, a) <=> InNetwork(one, a) \/ InNetwork(other, a)
<1>1. DOMAIN <<one, other>> = 1 .. 2 /\ <<one, other>>[1] = one /\ <<one, other>>[2] = other
  OBVIOUS
<1> DEFINE networks == <<one, other>>
<1> HIDE DEF networks
<1>2. Addr!InNetworks(networks, a) <=> \E k \in 1 .. 2 : InNetwork(networks[k], a)
  BY <1>1 DEF Addr!InNetworks, InNetwork, networks
<1>3. (\E k \in 1 .. 2 : InNetwork(networks[k], a)) <=> InNetwork(networks[1], a) \/ InNetwork(networks[2], a)
  <2>1. \A k \in 1 .. 2 : k = 1 \/ k = 2
    OBVIOUS
  <2>. QED BY <2>1
<1>. QED BY <1>1, <1>2, <1>3 DEF networks

LEMMA WholeNetwork ==
    ASSUME NEW other \in Nat, NEW a \in Nat
    PROVE  InNetwork(Addr!AddNetwork(other, Width), a) <=> a = other
<1>1. Width \in 0 .. Width /\ Width - Width = 0 /\ other % 1 = 0
  BY Numerals
<1>2. InNetwork(Addr!AddNetwork(other, Width), a)
        <=> LET d == Addr!TwoTo[0] IN other - (other % d) <= a /\ a < other - (other % d) + d
  BY <1>1, SizedNetwork
<1>. QED BY <1>1, <1>2, PowersOfTwo

LEMMA InputSets ==
    ASSUME NEW i \in Inputs
    PROVE  /\ i.kind = "name" => i \in NameInputs
           /\ i.kind = "hostname" => i \in HostnameInputs
           /\ i.kind = "text" => i \in TextInputs
           /\ i.kind = "groups" => i \in GroupsInputs
           /\ i.kind = "network" => i \in NetworkInputs
           /\ i.kind \in {"name", "hostname", "text", "groups", "network"}
<1>1. \A x \in NameInputs : x.kind = "name"
  BY DEF NameInputs
<1>2. \A x \in HostnameInputs : x.kind = "hostname"
  BY DEF HostnameInputs
<1>3. \A x \in TextInputs : x.kind = "text"
  BY DEF TextInputs
<1>4. \A x \in GroupsInputs : x.kind = "groups"
  BY DEF GroupsInputs
<1>5. \A x \in NetworkInputs : x.kind = "network"
  BY DEF NetworkInputs
<1>. QED BY <1>1, <1>2, <1>3, <1>4, <1>5 DEF Inputs

LEMMA NetworksAreExact ==
    ASSUME NEW i, i \in Inputs, i = input, i.kind = "network", result = NetworkAnswer(i)
    PROVE  NetworksExact
<1>1. i.ip \in Ips /\ i.size \in Sizes /\ i.other \in Ips /\ Ips \subseteq Nat
  <2>1. i \in NetworkInputs
    BY InputSets
  <2>2. Ips \subseteq Nat
    BY DEF Ips
  <2>. QED BY <2>1, <2>2 DEF NetworkInputs
<1> DEFINE ip == i.ip
           size == i.size
           other == i.other
           one == Addr!AddNetwork(ip, size)
<1>2. ip \in Nat /\ other \in Nat /\ other \in Ips /\ Ips \subseteq Nat /\ size \in Sizes
  BY <1>1
<1>3. result = IF Addr!Raised(one) THEN one
               ELSE {a \in Ips : InNetwork(one, a) \/ a = other}
  <2>1. \A a \in Ips : Addr!InNetworks(<<one, Addr!AddNetwork(other, Width)>>, a)
                         <=> InNetwork(one, a) \/ a = other
    BY <1>2, TwoNetworks, WholeNetwork
  <2>2. <<one, Addr!AddNetwork(other, Width)>>[1] = one
    OBVIOUS
  <2>. QED BY <2>1, <2>2 DEF NetworkAnswer
<1> HIDE DEF one
<1>4. CASE size = Implicit
  <2> DEFINE aligned == {k \in 0 .. Width : ip % Addr!TwoTo[k] = 0}
             begin == {a \in Ips : ip <= a /\ a < ip + Addr!TwoTo[Max(aligned)]}
  <2>1. ~Addr!Raised(one)
    BY <1>2, <1>4, ImplicitNetwork, 0 \in Nat DEF one
  <2>2. \A a \in Ips : InNetwork(one, a) <=> IF ip = 0 THEN a = 0 ELSE a \in begin
    BY <1>2, <1>4, ImplicitNetwork DEF one
  <2>3. ip = 0 => 0 \in Ips
    BY <1>1
  <2>4. result = {other} \cup IF ip = 0 THEN {0} ELSE begin
    <3> HIDE DEF begin
    <3>1. begin \subseteq Ips
      BY DEF begin
    <3>. QED BY <1>2, <1>3, <2>1, <2>2, <2>3, <3>1
  <2>5. size # Width + 1
    BY <1>4, Numerals, FormatsAssumption DEF FormatsAssumption
  <2>. QED BY <1>4, <2>4, <2>5 DEF NetworksExact
<1>5. CASE size = Width + 1
  <2>1. size # Implicit /\ ~(size <= Width)
    BY <1>5, Numerals, FormatsAssumption DEF FormatsAssumption
  <2>2. one = Addr!Raises("Exception") /\ Addr!Raised(one)
    BY <2>1 DEF one, Addr!AddNetwork, Addr!Raises, Addr!Raised
  <2>. QED BY <1>3, <1>5, <2>1, <2>2 DEF NetworksExact
<1>6. CASE size \in 0 .. Width
  <2> DEFINE d == Addr!TwoTo[Width - size]
             low == ip - (ip % d)
             block == {a \in Ips : low <= a /\ a < low + d}
  <2>1. size # Implicit /\ size # Width + 1
    BY <1>6, Numerals, FormatsAssumption DEF FormatsAssumption
  <2>2. ~Addr!Raised(one)
    BY <1>2, <1>6, SizedNetwork, 0 \in Nat DEF one
  <2>3. \A a \in Ips : InNetwork(one, a) <=> a \in block
    BY <1>2, <1>6, SizedNetwork DEF one
  <2>4. result = {other} \cup block
    <3> HIDE DEF block
    <3>1. block \subseteq Ips
      BY DEF block
    <3>. QED BY <1>2, <1>3, <2>2, <2>3, <3>1
  <2>. QED BY <2>1, <2>4 DEF NetworksExact
<1>. QED BY <1>2, <1>4, <1>5, <1>6, Numerals DEF Sizes

-----------------------------------------------------------------------------------
(* Headers.                                                                      *)

LEMMA Glued ==
    ASSUME NEW S, NEW a \in Seq(S), NEW b \in Seq(S)
    PROVE  /\ a \o b \in Seq(S) /\ Len(a \o b) = Len(a) + Len(b)
           /\ \A k \in 1 .. Len(a) : (a \o b)[k] = a[k]
           /\ \A k \in 1 .. Len(b) : (a \o b)[Len(a) + k] = b[k]
<1>1. /\ a \o b \in Seq(S) /\ Len(a \o b) = Len(a) + Len(b)
      /\ \A k \in 1 .. Len(a) + Len(b) :
            (a \o b)[k] = IF k <= Len(a) THEN a[k] ELSE b[k - Len(a)]
  BY ConcatProperties
<1>2. Len(a) \in Nat /\ Len(b) \in Nat
  OBVIOUS
<1>3. ASSUME NEW k \in 1 .. Len(b) PROVE (a \o b)[Len(a) + k] = b[k]
  <2>1. Len(a) + k \in 1 .. Len(a) + Len(b) /\ ~(Len(a) + k <= Len(a)) /\ (Len(a) + k) - Len(a) = k
    BY <1>2
  <2>. QED BY <1>1, <2>1
<1>4. ASSUME NEW k \in 1 .. Len(a) PROVE (a \o b)[k] = a[k]
  <2>1. k \in 1 .. Len(a) + Len(b) /\ k <= Len(a)
    BY <1>2
  <2>. QED BY <1>1, <2>1
<1>. QED BY <1>1, <1>3, <1>4

(* c is a followed by b.                                                         *)
GlueOf(S, a, b, c) ==
    /\ c \in Seq(S) /\ Len(c) = Len(a) + Len(b)
    /\ \A k \in 1 .. Len(a) : c[k] = a[k]
    /\ \A k \in 1 .. Len(b) : c[Len(a) + k] = b[k]

LEMMA GluedAs ==
    ASSUME NEW S, NEW a \in Seq(S), NEW b \in Seq(S)
    PROVE  GlueOf(S, a, b, a \o b)
BY Glued DEF GlueOf

LEMMA TakenAsSequence ==
    ASSUME NEW S, NEW n \in Nat, NEW f \in [1 .. n -> S]
    PROVE  f \in Seq(S) /\ Len(f) = n
OBVIOUS

(* The first n of a sequence.                                                    *)
LEMMA Beginning ==
    ASSUME NEW S, NEW s \in Seq(S), NEW n \in 0 .. Len(s)
    PROVE  /\ SubSeq(s, 1, n) \in Seq(S) /\ Len(SubSeq(s, 1, n)) = n
           /\ \A k \in 1 .. n : SubSeq(s, 1, n)[k] = s[k]
<1>1. \A k \in 1 .. n : s[k] \in S
  OBVIOUS
<1>. QED BY <1>1, SubSeqProperties

(* A part behind the first m.                                                    *)
LEMMA Middle ==
    ASSUME NEW S, NEW s \in Seq(S), NEW m \in Nat, NEW n \in Nat, m + n <= Len(s)
    PROVE  /\ SubSeq(s, m + 1, m + n) \in Seq(S) /\ Len(SubSeq(s, m + 1, m + n)) = n
           /\ \A k \in 1 .. n : SubSeq(s, m + 1, m + n)[k] = s[m + k]
<1>1. \A k \in m + 1 .. m + n : s[k] \in S
  OBVIOUS
<1>2. /\ SubSeq(s, m + 1, m + n) \in Seq(S)
      /\ Len(SubSeq(s, m + 1, m + n)) = IF m + 1 <= m + n THEN m + n - (m + 1) + 1 ELSE 0
      /\ \A k \in 1 .. (m + n) - (m + 1) + 1 :
            SubSeq(s, m + 1, m + n)[k] = s[(m + 1) + k - 1]
  BY <1>1, SubSeqProperties
<1>3. \A k \in 1 .. n : k \in 1 .. (m + n) - (m + 1) + 1 /\ (m + 1) + k - 1 = m + k
  OBVIOUS
<1>. QED BY <1>2, <1>3

(* What a header of type t gives: its address begins behind the first `from`     *)
(* octets and has n, and the port follows.                                       *)
HeaderIs(front, host, type, cut) ==
    LET whole == (front \o host) \o Port
        data == SubSeq(whole, 1, cut)
        head == Addr!Header(data, type, Len(front), Len(host))
    IN /\ data \in Seq(Nat) /\ Len(data) = cut
       /\ \A k \in 1 .. Len(front) : k <= cut => data[k] = front[k]
       /\ cut < Len(whole) => head = Addr!Raises("struct.error")
       /\ cut = Len(whole) => head = [type |-> type, addr |-> host, port |-> Port, len |-> cut]
       /\ Len(whole) = Len(front) + Len(host) + 2

LEMMA HeaderOf ==
    ASSUME NEW front \in Seq(Nat), NEW host \in Seq(Nat), NEW type,
           NEW cut \in 0 .. Len(front) + Len(host) + 2
    PROVE  HeaderIs(front, host, type, cut)
<1> DEFINE packed == front \o host
           whole == packed \o Port
           data == SubSeq(whole, 1, cut)
           m == Len(front)
           n == Len(host)
<1>0. m \in Nat /\ n \in Nat
  OBVIOUS
<1>1. Port \in Seq(Nat) /\ Len(Port) = 2 /\ Port[1] = 0 /\ Port[2] = 80
  BY DEF Port
<1>2. /\ packed \in Seq(Nat) /\ Len(packed) = m + n
      /\ \A k \in 1 .. m : packed[k] = front[k]
      /\ \A k \in 1 .. n : packed[m + k] = host[k]
  BY Glued
<1> HIDE DEF packed
<1>3. /\ whole \in Seq(Nat) /\ Len(whole) = m + n + 2
      /\ \A k \in 1 .. m + n : whole[k] = packed[k]
      /\ \A k \in 1 .. 2 : whole[m + n + k] = Port[k]
  <2>1. packed \in Seq(Nat) /\ Port \in Seq(Nat)
    BY <1>1, <1>2
  <2>2. /\ whole \in Seq(Nat) /\ Len(whole) = Len(packed) + Len(Port)
        /\ \A k \in 1 .. Len(packed) : whole[k] = packed[k]
        /\ \A k \in 1 .. Len(Port) : whole[Len(packed) + k] = Port[k]
    BY <2>1, Glued
  <2>. QED BY <1>1, <1>2, <2>2
<1> HIDE DEF whole
<1>4. data \in Seq(Nat) /\ Len(data) = cut /\ \A k \in 1 .. cut : data[k] = whole[k]
  <2>1. cut \in 0 .. Len(whole) /\ whole \in Seq(Nat)
    BY <1>3
  <2>. QED BY <2>1, Beginning
<1> HIDE DEF data
<1>5. ASSUME NEW k \in 1 .. m, k <= cut PROVE data[k] = front[k]
  <2>1. k \in 1 .. cut /\ k \in 1 .. m + n
    BY <1>0, <1>5
  <2>. QED BY <1>2, <1>3, <1>4, <2>1
<1>6. ASSUME cut < m + n + 2 PROVE Addr!Header(data, type, m, n) = Addr!Raises("struct.error")
  BY <1>4, <1>6 DEF Addr!Header
<1>7. ASSUME cut = m + n + 2
      PROVE Addr!Header(data, type, m, n) = [type |-> type, addr |-> host, port |-> Port, len |-> cut]
  <2>1. SubSeq(data, m + 1, m + n) = host
    <3>1. /\ SubSeq(data, m + 1, m + n) \in Seq(Nat) /\ Len(SubSeq(data, m + 1, m + n)) = n
          /\ \A k \in 1 .. n : SubSeq(data, m + 1, m + n)[k] = data[m + k]
      <4>1. m + n <= Len(data)
        BY <1>0, <1>4, <1>7
      <4> HIDE DEF m, n
      <4>. QED BY <1>0, <1>4, <4>1, Middle
    <3>2. ASSUME NEW k \in 1 .. n PROVE data[m + k] = host[k]
      <4>1. m + k \in 1 .. cut /\ m + k \in 1 .. m + n
        BY <1>0, <1>7
      <4>. QED BY <1>2, <1>3, <1>4, <4>1
    <3>. QED BY <3>1, <3>2, SeqEqual
  <2>2. SubSeq(data, m + n + 1, m + n + 2) = Port
    <3>1. /\ SubSeq(data, (m + n) + 1, (m + n) + 2) \in Seq(Nat)
          /\ Len(SubSeq(data, (m + n) + 1, (m + n) + 2)) = 2
          /\ \A k \in 1 .. 2 : SubSeq(data, (m + n) + 1, (m + n) + 2)[k] = data[(m + n) + k]
      BY <1>0, <1>4, <1>7, Middle
    <3>2. ASSUME NEW k \in 1 .. 2 PROVE data[(m + n) + k] = Port[k]
      <4>1. (m + n) + k \in 1 .. cut
        BY <1>0, <1>7
      <4>. QED BY <1>3, <1>4, <4>1
    <3> DEFINE part == SubSeq(data, (m + n) + 1, (m + n) + 2)
    <3>3. part \in Seq(Nat) /\ Len(part) = 2 /\ \A k \in 1 .. 2 : part[k] = Port[k]
      BY <3>1, <3>2
    <3> HIDE DEF part
    <3>4. part = Port
      BY <1>1, <3>3, SeqEqual
    <3>. QED BY <3>4 DEF part
  <2>3. ~(Len(data) < m + n + 2)
    BY <1>4, <1>7
  <2>. QED BY <1>7, <2>1, <2>2, <2>3 DEF Addr!Header
<1>. QED BY <1>3, <1>4, <1>5, <1>6, <1>7 DEF data, whole, packed, HeaderIs

HeaderAnswer(i) ==
    Addr!ParseHeader(SubSeq(Addr!PackAddr(i.address) \o Port, 1, i.cut))

HeaderInput(i) ==
    \E address \in Address :
        \E cut \in 0 .. Len(Addr!PackAddr(address) \o Port) :
            i = [kind |-> "header", address |-> address, cut |-> cut]

(* An address of four or of sixteen octets: the type tells their number.         *)
AddressAnswer(octets, type, cut) ==
    Addr!ParseHeader(SubSeq((<<type>> \o octets) \o Port, 1, cut))

LEMMA AddressHeader ==
    ASSUME NEW octets \in Seq(Nat), NEW type \in {Addr!TypeIPv4, Addr!TypeIPv6},
           Len(octets) = (IF type = Addr!TypeIPv4 THEN 4 ELSE 16),
           NEW cut \in 0 .. Len(octets) + 3
    PROVE  /\ cut = 0 => AddressAnswer(octets, type, cut) = Addr!Raises("IndexError")
           /\ cut \in 1 .. Len(octets) + 2 =>
                AddressAnswer(octets, type, cut) = Addr!TooShort
           /\ cut = Len(octets) + 3 =>
                AddressAnswer(octets, type, cut) =
                  [type |-> type, addr |-> octets, port |-> Port, len |-> cut]
<1> DEFINE front == <<type>>
           whole == (front \o octets) \o Port
           data == SubSeq(whole, 1, cut)
<1>1. front \in Seq(Nat) /\ Len(front) = 1 /\ front[1] = type /\ Len(octets) \in {4, 16}
  BY DEF Addr!TypeIPv4, Addr!TypeIPv6
<1> HIDE DEF front
<1>2. cut \in 0 .. Len(front) + Len(octets) + 2
  BY <1>1
<1>3. /\ data \in Seq(Nat) /\ Len(data) = cut
      /\ 1 <= cut => data[1] = front[1]
      /\ cut = Len(octets) + 3 => Addr!Header(data, type, 1, Len(octets)) =
            [type |-> type, addr |-> octets, port |-> Port, len |-> cut]
      /\ Len(whole) = Len(octets) + 3
  <2>1. /\ data \in Seq(Nat) /\ Len(data) = cut
        /\ \A k \in 1 .. Len(front) : k <= cut => data[k] = front[k]
        /\ cut = Len(whole) => Addr!Header(data, type, Len(front), Len(octets)) =
                   [type |-> type, addr |-> octets, port |-> Port, len |-> cut]
        /\ Len(whole) = Len(front) + Len(octets) + 2
    <3>1. HeaderIs(front, octets, type, cut)
      BY <1>1, <1>2, HeaderOf
    <3>. QED BY <3>1 DEF HeaderIs
  <2> HIDE DEF data, whole
  <2>. QED BY <1>1, <2>1
<1>6. AddressAnswer(octets, type, cut) = Addr!ParseHeader(data)
  BY DEF AddressAnswer, data, whole, front
<1> HIDE DEF data, whole
<1>4. CASE cut = 0
  <2>1. Addr!ParseHeader(data) = Addr!Raises("IndexError")
    BY <1>3, <1>4 DEF Addr!ParseHeader
  <2>. QED BY <1>1, <1>4, <1>6, <2>1
<1>5. CASE cut # 0
  <2>1. data # <<>> /\ data[1] = type /\ cut \in Nat
    BY <1>1, <1>3, <1>5
  <2>2. Addr!ParseHeader(data) = IF cut < Len(octets) + 3 THEN Addr!TooShort
                                 ELSE Addr!Header(data, type, 1, Len(octets))
    <3>1. CASE type = Addr!TypeIPv4
      BY <1>3, <2>1, <3>1 DEF Addr!ParseHeader, Addr!TypeIPv4, Addr!TypeIPv6, Addr!TypeHost
    <3>2. CASE type = Addr!TypeIPv6
      BY <1>3, <2>1, <3>2 DEF Addr!ParseHeader, Addr!TypeIPv4, Addr!TypeIPv6, Addr!TypeHost
    <3>. QED BY <3>1, <3>2
  <2>. QED BY <1>1, <1>3, <1>5, <1>6, <2>1, <2>2
<1>. QED BY <1>4, <1>5

(* A name: its length comes before it, and only that many octets are asked for.  *)
HostAnswer(host, cut) ==
    Addr!ParseHeader(SubSeq((<<Addr!TypeHost, Len(host)>> \o host) \o Port, 1, cut))

LEMMA NameHeader ==
    ASSUME NEW host \in Seq(Nat), NEW cut \in 0 .. Len(host) + 4
    PROVE  /\ Len((<<Addr!TypeHost, Len(host)>> \o host) \o Port) = Len(host) + 4
           /\ cut = 0 => HostAnswer(host, cut) = Addr!Raises("IndexError")
           /\ cut \in {1, 2} => HostAnswer(host, cut) = Addr!TooShort
           /\ cut \in 3 .. Len(host) + 1 => HostAnswer(host, cut) = Addr!TooShort
           /\ cut > 2 /\ cut \in Len(host) + 2 .. Len(host) + 3
                => HostAnswer(host, cut) = Addr!Raises("struct.error")
           /\ cut = Len(host) + 4 =>
                HostAnswer(host, cut) =
                  [type |-> Addr!TypeHost, addr |-> host, port |-> Port, len |-> cut]
<1> DEFINE front == <<Addr!TypeHost, Len(host)>>
           whole == (front \o host) \o Port
           data == SubSeq(whole, 1, cut)
           n == Len(host)
<1>1. front \in Seq(Nat) /\ Len(front) = 2 /\ front[1] = Addr!TypeHost /\ front[2] = n /\ n \in Nat
  BY DEF Addr!TypeHost
<1> HIDE DEF front
<1>2. cut \in 0 .. Len(front) + Len(host) + 2
  BY <1>1
<1>3. /\ data \in Seq(Nat) /\ Len(data) = cut
      /\ 1 <= cut => data[1] = Addr!TypeHost
      /\ 2 <= cut => data[2] = n
      /\ cut < n + 4 => Addr!Header(data, Addr!TypeHost, 2, n) = Addr!Raises("struct.error")
      /\ cut = n + 4 => Addr!Header(data, Addr!TypeHost, 2, n) =
            [type |-> Addr!TypeHost, addr |-> host, port |-> Port, len |-> cut]
      /\ Len(whole) = n + 4
  <2>1. HeaderIs(front, host, Addr!TypeHost, cut)
    BY <1>1, <1>2, HeaderOf
  <2>2. /\ data \in Seq(Nat) /\ Len(data) = cut
        /\ \A k \in 1 .. Len(front) : k <= cut => data[k] = front[k]
        /\ cut < Len(whole) =>
             Addr!Header(data, Addr!TypeHost, Len(front), n) = Addr!Raises("struct.error")
        /\ cut = Len(whole) => Addr!Header(data, Addr!TypeHost, Len(front), n) =
                   [type |-> Addr!TypeHost, addr |-> host, port |-> Port, len |-> cut]
        /\ Len(whole) = Len(front) + n + 2
    BY <2>1 DEF HeaderIs
  <2> HIDE DEF data, whole, n
  <2>3. Len(front) + n + 2 = n + 4
    BY <1>1
  <2>. QED BY <1>1, <2>2, <2>3
<1>4. HostAnswer(host, cut) = Addr!ParseHeader(data)
  BY DEF HostAnswer, data, whole, front
<1> HIDE DEF data, whole, n
<1>5. CASE cut = 0
  BY <1>1, <1>3, <1>4, <1>5 DEF Addr!ParseHeader, whole, front, n
<1>6. CASE cut # 0
  <2>1. data # <<>> /\ data[1] = Addr!TypeHost /\ cut \in Nat
    BY <1>1, <1>3, <1>6
  <2>2. Addr!ParseHeader(data) = Addr!HostHeader(data)
    BY <2>1 DEF Addr!ParseHeader, Addr!TypeIPv4, Addr!TypeIPv6, Addr!TypeHost
  <2>3. Addr!HostHeader(data) =
          IF cut <= 2 THEN Addr!TooShort
          ELSE IF cut < 2 + n THEN Addr!TooShort
          ELSE Addr!Header(data, Addr!TypeHost, 2, n)
    BY <1>3, <2>1 DEF Addr!HostHeader
  <2>4. cut \in 0 .. n + 4 /\ n \in Nat /\ Len(whole) = n + 4
    BY <1>1, <1>3 DEF n
  <2>5. n = Len(host) /\ whole = (<<Addr!TypeHost, Len(host)>> \o host) \o Port
    BY DEF n, whole, front
  <2>. QED BY <1>3, <1>4, <1>6, <2>2, <2>3, <2>4, <2>5
<1>. QED BY <1>5, <1>6

(* The octets of an address and how they are packed.                             *)
LEMMA PackedNumbers ==
    ASSUME NEW address \in Address, address.family # 0
    PROVE  \E type \in {Addr!TypeIPv4, Addr!TypeIPv6} :
              /\ address.octets \in Seq(Nat)
              /\ Len(address.octets) = (IF type = Addr!TypeIPv4 THEN 4 ELSE 16)
              /\ Addr!PackAddr(address) = <<type>> \o address.octets
<1>1. CASE address = [family |-> 4, octets |-> <<8, 8, 4, 4>>]
  <2>1. address.octets \in Seq(Nat) /\ Len(address.octets) = 4
    BY <1>1
  <2>2. Addr!PackAddr(address) = <<Addr!TypeIPv4>> \o address.octets
    BY <1>1 DEF Addr!PackAddr
  <2>. QED BY <2>1, <2>2
<1>2. CASE address = [family |-> 6, octets |-> [i \in 1 .. 16 |-> i]]
  <2> DEFINE sixteen == [i \in 1 .. 16 |-> i]
  <2>1. PICK n \in Nat : n = 16
    OBVIOUS
  <2>2. sixteen \in [1 .. n -> Nat]
    BY <2>1
  <2>3. sixteen \in Seq(Nat) /\ Len(sixteen) = 16
    <3> HIDE DEF sixteen
    <3>1. sixteen \in Seq(Nat) /\ Len(sixteen) = n
      BY <2>2, TakenAsSequence
    <3>. QED BY <2>1, <3>1
  <2>4. address.family = 6 /\ address.octets = sixteen
    BY <1>2
  <2> HIDE DEF sixteen
  <2>5. Addr!PackAddr(address) = <<Addr!TypeIPv6>> \o address.octets
    BY <2>4 DEF Addr!PackAddr
  <2>6. Addr!TypeIPv6 # Addr!TypeIPv4
    BY DEF Addr!TypeIPv4, Addr!TypeIPv6
  <2>. QED BY <2>3, <2>4, <2>5, <2>6
<1>3. \A h : address # [family |-> 0, octets |-> h]
  OBVIOUS
<1>. QED BY <1>1, <1>2, <1>3 DEF Address

HostOf(octets) == SubSeq(octets, 1, Min({Len(octets), MaxHost}))

LEMMA PackedName ==
    ASSUME NEW address \in Address, address.family = 0
    PROVE  LET host == HostOf(address.octets) IN
           /\ host \in Seq(Nat) /\ Len(host) = Min({MaxHost, Len(address.octets)})
           /\ host = SubSeq(address.octets, 1, Len(host))
           /\ Addr!PackAddr(address) = <<Addr!TypeHost, Len(host)>> \o host
<1>1. PICK h \in Hosts : address = [family |-> 0, octets |-> h]
  BY DEF Address
<1>2. PICK n \in Nat : h \in [1 .. n -> 97 .. 98]
  BY Numerals DEF Hosts
<1>3. h \in Seq(Nat) /\ Len(h) = n
  BY <1>2
<1>4. \A a \in Nat, b \in Nat : Min({a, b}) \in {a, b} /\ Min({a, b}) <= a
                                 /\ Min({a, b}) = IF a <= b THEN a ELSE b
  <2>1. ASSUME NEW a \in Nat, NEW b \in Nat PROVE Min({a, b}) \in {a, b} /\ \A y \in {a, b} : Min({a, b}) <= y
    <3>1. {a, b} \in SUBSET Nat /\ {a, b} # {}
      OBVIOUS
    <3>. QED BY <3>1, MinIsLeast
  <2>. QED BY <2>1
<1> DEFINE cut == Min({n, MaxHost})
<1>5. cut \in 0 .. Len(h) /\ Min({MaxHost, n}) = cut
  BY <1>3, <1>4, Numerals
<1> HIDE DEF cut
<1> DEFINE host == SubSeq(h, 1, cut)
<1>6. host \in Seq(Nat) /\ Len(host) = cut
  BY <1>3, <1>5, Beginning
<1> HIDE DEF host
<1>7. address.octets = h /\ address.family = 0
  BY <1>1
<1>8. HostOf(h) = host
  BY <1>3 DEF HostOf, host, cut
<1>9. Addr!PackAddr(address) = <<Addr!TypeHost, Len(host)>> \o host
  <2>1. SubSeq(h, 1, Addr!Min({Len(h), MaxHost})) = host
    BY <1>3 DEF host, cut, Min, Addr!Min
  <2>2. address.family # 4 /\ address.family # 6
    BY <1>7
  <2>3. SubSeq(address.octets, 1, Addr!Min({Len(address.octets), MaxHost})) = host
    BY <1>7, <2>1
  <2>. QED BY <2>2, <2>3, Zenon DEF Addr!PackAddr
<1>10. host = SubSeq(h, 1, Len(host)) /\ Len(host) = Min({MaxHost, Len(h)})
  BY <1>3, <1>5, <1>6 DEF host
<1>. QED BY <1>6, <1>7, <1>8, <1>9, <1>10

LEMMA HeadersAreExact ==
    ASSUME NEW i, HeaderInput(i), i = input, result = HeaderAnswer(i)
    PROVE  HeadersReadBack
<1>1. PICK address \in Address :
        \E cut \in 0 .. Len(Addr!PackAddr(address) \o Port) :
            i = [kind |-> "header", address |-> address, cut |-> cut]
  BY DEF HeaderInput
<1>2. PICK cut \in 0 .. Len(Addr!PackAddr(address) \o Port) :
        i = [kind |-> "header", address |-> address, cut |-> cut]
  BY <1>1
<1>3. input.address = address /\ input.cut = cut
      /\ result = Addr!ParseHeader(SubSeq(Addr!PackAddr(address) \o Port, 1, cut))
  BY <1>2 DEF HeaderAnswer
<1> DEFINE packed == Addr!PackAddr(address)
<1>4. CASE address.family # 0
  <2>1. PICK type \in {Addr!TypeIPv4, Addr!TypeIPv6} :
              /\ address.octets \in Seq(Nat)
              /\ Len(address.octets) = (IF type = Addr!TypeIPv4 THEN 4 ELSE 16)
              /\ Addr!PackAddr(address) = <<type>> \o address.octets
    BY <1>4, PackedNumbers
  <2> DEFINE octets == address.octets
             n == Len(octets)
  <2>2. packed \in Seq(Nat) /\ Len(packed) = n + 1 /\ packed[1] = type /\ n \in Nat
    <3>1. type \in Nat
      BY DEF Addr!TypeIPv4, Addr!TypeIPv6
    <3>. QED BY <2>1, <3>1
  <2>3. Len(packed \o Port) = n + 3
    BY <2>2 DEF Port
  <2>4. cut \in 0 .. n + 3
    BY <2>2, <2>3
  <2>5. /\ cut = 0 => result = Addr!Raises("IndexError")
        /\ cut \in 1 .. n + 2 => result = Addr!TooShort
        /\ cut = n + 3 => result = [type |-> type, addr |-> octets, port |-> Port, len |-> cut]
    <3>1. result = AddressAnswer(octets, type, cut)
      BY <1>3, <2>1 DEF AddressAnswer
    <3> HIDE DEF octets, n
    <3>2. octets \in Seq(Nat) /\ Len(octets) = (IF type = Addr!TypeIPv4 THEN 4 ELSE 16) /\ n = Len(octets)
      BY <2>1 DEF octets, n
    <3>. QED BY <2>4, <3>1, <3>2, AddressHeader
  <2>6. octets = SubSeq(octets, 1, n)
    BY <2>1
  <2> HIDE DEF n, packed, octets
  <2>7. cut = n + 3 =>
          /\ result.type = packed[1]
          /\ result.addr = SubSeq(octets, 1, Len(result.addr))
          /\ Len(result.addr) = Len(octets)
          /\ result.port = Port
          /\ result.len = cut
    BY <2>2, <2>5, <2>6 DEF n
  <2>8. Len(packed) + 2 = n + 3
    BY <2>2
  <2>9. cut # 0 /\ cut # n + 3 => cut \in 1 .. n + 2
    BY <2>2, <2>4
  <2>10. n + 3 # 0
    BY <2>2
  <2>. QED BY <1>3, <1>4, <2>5, <2>7, <2>8, <2>9, <2>10 DEF HeadersReadBack, packed, octets
<1>5. CASE address.family = 0
  <2> DEFINE host == HostOf(address.octets)
             n == Len(host)
  <2>1. /\ host \in Seq(Nat) /\ Len(host) = Min({MaxHost, Len(address.octets)})
        /\ host = SubSeq(address.octets, 1, Len(host))
        /\ Addr!PackAddr(address) = <<Addr!TypeHost, Len(host)>> \o host
    BY <1>5, PackedName
  <2> HIDE DEF host
  <2>2. packed \in Seq(Nat) /\ Len(packed) = n + 2 /\ packed[1] = Addr!TypeHost /\ n \in Nat
    BY <2>1 DEF Addr!TypeHost
  <2>3. Len(packed \o Port) = n + 4
    BY <2>2 DEF Port
  <2>4. cut \in 0 .. n + 4
    BY <2>2, <2>3
  <2>5. result = HostAnswer(host, cut)
    BY <1>3, <2>1 DEF HostAnswer
  <2>6. /\ cut = 0 => result = Addr!Raises("IndexError")
        /\ cut \in {1, 2} => result = Addr!TooShort
        /\ cut \in 3 .. n + 1 => result = Addr!TooShort
        /\ cut > 2 /\ cut \in n + 2 .. n + 3 => result = Addr!Raises("struct.error")
        /\ cut = n + 4 =>
             result = [type |-> Addr!TypeHost, addr |-> host, port |-> Port, len |-> cut]
    BY <2>1, <2>4, <2>5, NameHeader
  <2>7. Len(packed) + 2 = n + 4 /\ Len(packed) + 1 = n + 3
    BY <2>2
  <2> HIDE DEF packed
  <2>8. cut = n + 4 =>
          /\ result.type = packed[1]
          /\ result.addr = SubSeq(address.octets, 1, Len(result.addr))
          /\ Len(result.addr) = Min({MaxHost, Len(address.octets)})
          /\ result.port = Port
          /\ result.len = cut
    <3>1. ASSUME cut = n + 4
          PROVE  result.addr = host /\ result.type = Addr!TypeHost /\ result.port = Port /\ result.len = cut
      BY <2>6, <3>1
    <3>. QED BY <2>1, <2>2, <3>1
  <2> HIDE DEF n
  <2>9. ASSUME cut # n + 4, cut # 0, ~(cut > 2 /\ cut \in Len(packed) .. Len(packed) + 1)
        PROVE  result = Addr!TooShort
    <3>1. cut \in {1, 2} \/ cut \in 3 .. n + 1
      BY <2>2, <2>4, <2>9
    <3>. QED BY <2>6, <3>1
  <2>10. cut = n + 4 => cut # 0 /\ ~(cut \in Len(packed) .. Len(packed) + 1)
    BY <2>2
  <2>11. cut > 2 => cut # 0
    BY <2>4
  <2>12. cut \in Len(packed) .. Len(packed) + 1 => cut \in n + 2 .. n + 3
    BY <2>2
  <2>. QED BY <1>3, <1>5, <2>6, <2>7, <2>8, <2>9, <2>10, <2>11, <2>12 DEF HeadersReadBack, packed
<1>. QED BY <1>4, <1>5

-----------------------------------------------------------------------------------
(* The invariant: the input stays one of those chosen, and what is made of it is   *)
(* the answer of its kind.                                                         *)

TextAnswer(i) == [is |-> Addr!IsIp(i.text), pton |-> Addr!InetPton(i.text)]
GroupsAnswer(i) == Addr!InetPton(Addr!InetNtop(i.groups))
HostnameAnswer(i) ==
    [valid |-> DNS!IsValidHostname(i.name), wire |-> DNS!BuildAddress(i.name)]
NameAnswer(i) == DNS!ParseName(i.data, 0)

Answered(i, r) ==
    /\ i.kind = "name" => r = NameAnswer(i)
    /\ i.kind = "hostname" => r = HostnameAnswer(i)
    /\ i.kind = "text" => r = TextAnswer(i)
    /\ i.kind = "groups" => r = GroupsAnswer(i)
    /\ i.kind = "header" => r = HeaderAnswer(i)
    /\ i.kind = "network" => r = NetworkAnswer(i)

IInv == InitInput /\ (result = NotYet \/ Answered(input, result))

LEMMA IInvInit == ASSUME Init PROVE IInv
BY DEF Init, IInv

LEMMA IInvStep == ASSUME IInv, [Next]_vars PROVE IInv'
<1>1. input' = input
  BY DEF Next, vars, Handle, ReadName, ReadResponse, WriteHostname, ReadText, WriteGroups,
         ReadHeader, FillNetwork
<1>2. InitInput'
  BY <1>1 DEF IInv, InitInput
<1>3. CASE ReadName
  BY <1>1, <1>2, <1>3 DEF ReadName, Handle, IInv, Answered, NameAnswer
<1>4. CASE ReadResponse
  BY <1>1, <1>2, <1>4 DEF ReadResponse, Handle, IInv, Answered
<1>5. CASE WriteHostname
  BY <1>1, <1>2, <1>5 DEF WriteHostname, Handle, IInv, Answered, HostnameAnswer
<1>6. CASE ReadText
  BY <1>1, <1>2, <1>6 DEF ReadText, Handle, IInv, Answered, TextAnswer
<1>7. CASE WriteGroups
  BY <1>1, <1>2, <1>7 DEF WriteGroups, Handle, IInv, Answered, GroupsAnswer
<1>8. CASE ReadHeader
  BY <1>1, <1>2, <1>8 DEF ReadHeader, Handle, IInv, Answered, HeaderAnswer
<1>9. CASE FillNetwork
  BY <1>1, <1>2, <1>9 DEF FillNetwork, Handle, IInv, Answered, NetworkAnswer
<1>10. CASE UNCHANGED vars
  BY <1>1, <1>2, <1>10 DEF vars, IInv
<1>. QED BY <1>3, <1>4, <1>5, <1>6, <1>7, <1>8, <1>9, <1>10 DEF Next

LEMMA IInvHolds == Spec => []IInv
<1>1. Init => IInv
  BY IInvInit
<1>2. IInv /\ [Next]_vars => IInv'
  BY IInvStep
<1>. QED BY <1>1, <1>2, PTL DEF Spec

(* Where the inputs of a kind come from.                                           *)
LEMMA InputOfKind ==
    ASSUME InitInput
    PROVE  /\ input.kind \in {"name", "hostname", "text", "groups", "network"} => input \in Inputs
           /\ input.kind = "header" => HeaderInput(input)
<1>1. CASE input \in Inputs
  <2>2. input.kind # "header"
    BY <1>1, InputSets
  <2>. QED BY <1>1, <2>2
<1>2. CASE HeaderInput(input)
  BY <1>2 DEF HeaderInput
<1>3. CASE ~ (input \in Inputs) /\ ~HeaderInput(input)
  <2>1. \E name, answers, others, cut :
          input = [kind |-> "response", name |-> name, answers |-> answers,
                   others |-> others, cut |-> cut]
    BY <1>3, Zenon DEF InitInput, HeaderInput
  <2>2. input.kind = "response"
    BY <2>1
  <2>. QED BY <2>2
<1>. QED BY <1>1, <1>2, <1>3

(* Every address packed with its port reads back from its header and from no       *)
(* shorter one, and a network of an IPNetwork holds the block its prefix names,    *)
(* for hosts of every length and addresses of every width (common.py 126-232).     *)
THEOREM AddressesHold == Spec => []AddressesExact
<1>1. ASSUME IInv PROVE HeadersReadBack
  <2>1. CASE Handled("header")
    <3>1. HeaderInput(input) /\ result = HeaderAnswer(input)
      BY <1>1, <2>1, InputOfKind DEF IInv, Handled, Answered
    <3>. QED BY <3>1, HeadersAreExact
  <2>. QED BY <2>1 DEF HeadersReadBack
<1>2. ASSUME IInv PROVE NetworksExact
  <2>1. CASE Handled("network")
    <3>1. input \in Inputs /\ input.kind = "network" /\ result = NetworkAnswer(input)
      BY <1>2, <2>1, InputOfKind DEF IInv, Handled, Answered
    <3>. QED BY <3>1, NetworksAreExact
  <2>. QED BY <2>1 DEF NetworksExact
<1>3. IInv => AddressesExact
  BY <1>1, <1>2 DEF AddressesExact
<1>. QED BY <1>3, IInvHolds, PTL

-----------------------------------------------------------------------------------
(* Texts of addresses.                                                             *)

Piece == Nat \cup NoNumbers

LEMMA Markers ==
    /\ \A x \in Int : x \notin {Empty, Quad, Dotted, Word}
    /\ Quad \notin {Empty, Dotted, Word} /\ Empty \notin {Dotted, Word} /\ Dotted # Word
BY FormatsAssumption DEF FormatsAssumption, NoNumbers

LEMMA MinIs ==
    ASSUME NEW S \in SUBSET Nat, NEW x \in S, \A y \in S : x <= y
    PROVE  Min(S) = x /\ Addr!Min(S) = x
<1>1. Min(S) \in S /\ \A y \in S : Min(S) <= y
  BY MinIsLeast
<1>2. PICK z \in S : z = Min(S) /\ \A y \in S : z <= y
  BY <1>1
<1>3. z <= x /\ x <= z /\ x \in Nat /\ z \in Nat
  BY <1>2
<1>4. z = x
  BY <1>3
<1>5. Addr!Min(S) = Min(S)
  BY DEF Min, Addr!Min
<1>. QED BY <1>2, <1>4, <1>5

LEMMA MaxIs ==
    ASSUME NEW n \in Nat, NEW S \in SUBSET (0 .. n), NEW x \in S, \A y \in S : x >= y
    PROVE  Max(S) = x /\ Addr!Max(S) = x
<1>1. Max(S) \in S /\ \A y \in S : Max(S) >= y
  BY MaxIsGreatest
<1>2. PICK z \in S : z = Max(S) /\ \A y \in S : z >= y
  BY <1>1
<1>3. z >= x /\ x >= z /\ x \in Nat /\ z \in Nat
  BY <1>2
<1>4. z = x
  BY <1>3
<1>5. Addr!Max(S) = Max(S)
  BY DEF Max, Addr!Max
<1>. QED BY <1>2, <1>4, <1>5

LEMMA OfOne == ASSUME NEW x \in Nat PROVE Addr!Max({x}) = x
BY DEF Addr!Max

(* The first m pieces of s are those before its first empty one, or all.           *)
LEMMA BeforeEmpty ==
    ASSUME NEW s \in Seq(Piece), NEW m \in 0 .. Len(s),
           \A i \in 1 .. m : s[i] # Empty,
           m < Len(s) => s[m + 1] = Empty
    PROVE  Addr!UpToEmpty(s) = SubSeq(s, 1, m)
<1> DEFINE S == {i \in 1 .. Len(s) : s[i] = Empty} \cup {Len(s) + 1}
<1>1. Len(s) \in Nat
  OBVIOUS
<1>2. S \in SUBSET Nat /\ S # {}
  BY <1>1
<1>3. m + 1 \in S /\ \A i \in S : m + 1 <= i
  <2>1. m + 1 \in S
    BY <1>1
  <2>2. ASSUME NEW i \in S PROVE m + 1 <= i
    BY <1>1
  <2>. QED BY <2>1, <2>2
<1> HIDE DEF S
<1>4. Addr!Min(S) = m + 1
  BY <1>2, <1>3, MinIs
<1>5. (m + 1) - 1 = m
  BY <1>1
<1>6. Addr!Min(S) - 1 = m
  BY <1>4, <1>5
<1>. QED BY <1>6 DEF Addr!UpToEmpty, S

LEMMA Turned ==
    ASSUME NEW S, NEW s \in Seq(S)
    PROVE  /\ Addr!Reverse(s) \in Seq(S) /\ Len(Addr!Reverse(s)) = Len(s)
           /\ \A i \in 1 .. Len(s) : Addr!Reverse(s)[i] = s[Len(s) + 1 - i]
<1>1. \A i \in 1 .. Len(s) : (Len(s) - i) + 1 \in 1 .. Len(s) /\ (Len(s) - i) + 1 = Len(s) + 1 - i
  OBVIOUS
<1> DEFINE r == [i \in 1 .. Len(s) |-> s[(Len(s) - i) + 1]]
<1>2. r \in [1 .. Len(s) -> S]
  BY <1>1
<1>3. \A i \in 1 .. Len(s) : r[i] = s[Len(s) + 1 - i]
  BY <1>1
<1>4. Addr!Reverse(s) = r
  BY DEF Addr!Reverse
<1> HIDE DEF r
<1>5. r \in Seq(S) /\ Len(r) = Len(s)
  BY <1>2, TakenAsSequence
<1>. QED BY <1>3, <1>4, <1>5

(* The assignments of the first m pieces and of the last n.                        *)
WritesOf(W, text, m, n) ==
    /\ DOMAIN W = 1 .. m + n
    /\ \A i \in 1 .. m : W[i].at = i - 1 /\ W[i].val = text[i]
    /\ \A j \in 1 .. n : W[m + j].at = Groups - j /\ W[m + j].val = text[Len(text) + 1 - j]

(* m pieces stand before the first gap of a text and n behind the last.            *)
GapAt(text, m, n) ==
    /\ m \in 0 .. Len(text) /\ n \in 0 .. Len(text)
    /\ \A i \in 1 .. m : text[i] # Empty
    /\ \A j \in 1 .. n : text[Len(text) + 1 - j] # Empty
    /\ m < Len(text) /\ n < Len(text)
    /\ text[m + 1] = Empty /\ text[Len(text) - n] = Empty

LEMMA GapExists ==
    ASSUME NEW text \in Seq(Piece), \E i \in 1 .. Len(text) : text[i] = Empty
    PROVE  \E m, n : GapAt(text, m, n)
<1> DEFINE S == {i \in 1 .. Len(text) : text[i] = Empty}
<1>1. Len(text) \in Nat /\ S # {} /\ S \in SUBSET Nat /\ S \in SUBSET (0 .. Len(text))
  OBVIOUS
<1>2. PICK a \in S : \A y \in S : a <= y
  BY <1>1, LeastExists
<1>3. PICK b \in S : \A y \in S : b >= y
  BY <1>1, GreatestExists
<1>4. GapAt(text, a - 1, Len(text) - b)
  <2>1. a \in 1 .. Len(text) /\ b \in 1 .. Len(text) /\ text[a] = Empty /\ text[b] = Empty
    OBVIOUS
  <2>2. \A i \in 1 .. a - 1 : text[i] # Empty
    <3>1. ASSUME NEW i \in 1 .. a - 1, text[i] = Empty PROVE FALSE
      <4>1. i \in S /\ ~(a <= i)
        BY <2>1, <3>1
      <4>. QED BY <1>2, <4>1
    <3>. QED BY <3>1
  <2>3. \A j \in 1 .. Len(text) - b : text[Len(text) + 1 - j] # Empty
    <3>1. ASSUME NEW j \in 1 .. Len(text) - b, text[Len(text) + 1 - j] = Empty PROVE FALSE
      <4>1. Len(text) + 1 - j \in S /\ ~(b >= Len(text) + 1 - j)
        BY <2>1, <3>1
      <4>. QED BY <1>3, <4>1
    <3>. QED BY <3>1
  <2>4. (a - 1) + 1 = a /\ Len(text) - (Len(text) - b) = b
    BY <2>1
  <2>. QED BY <2>1, <2>2, <2>3, <2>4 DEF GapAt
<1>. QED BY <1>4

LEMMA WritesWithGap ==
    ASSUME NEW text \in Seq(Piece), NEW m, NEW n, GapAt(text, m, n)
    PROVE  WritesOf(Addr!Writes(text), text, m, n)
<1> DEFINE turned == Addr!Reverse(text)
           front == SubSeq(text, 1, m)
           back == SubSeq(turned, 1, n)
<1>1. m \in 0 .. Len(text) /\ n \in 0 .. Len(text) /\ m \in Nat /\ n \in Nat /\ m < Len(text) /\ n < Len(text)
  BY DEF GapAt
<1>2. turned \in Seq(Piece) /\ Len(turned) = Len(text)
      /\ \A i \in 1 .. Len(text) : turned[i] = text[Len(text) + 1 - i]
  BY Turned
<1> HIDE DEF turned
<1>3. Addr!UpToEmpty(text) = front
  BY <1>1, BeforeEmpty DEF GapAt
<1>4. Addr!UpToEmpty(turned) = back
  <2>1. \A i \in 1 .. n : turned[i] # Empty
    BY <1>1, <1>2 DEF GapAt
  <2>2. turned[n + 1] = Empty
    <3>1. n + 1 \in 1 .. Len(text) /\ Len(text) + 1 - (n + 1) = Len(text) - n
      BY <1>1
    <3>. QED BY <1>2, <3>1 DEF GapAt
  <2>. QED BY <1>1, <1>2, <2>1, <2>2, BeforeEmpty
<1>5. front \in Seq(Piece) /\ Len(front) = m /\ \A i \in 1 .. m : front[i] = text[i]
  BY <1>1, Beginning
<1>6. back \in Seq(Piece) /\ Len(back) = n /\ \A i \in 1 .. n : back[i] = turned[i]
  BY <1>1, <1>2, Beginning
<1> HIDE DEF front, back
<1>7. front # text
  BY <1>1, <1>5
<1> DEFINE F == [i \in 1 .. Len(front) |-> [at |-> i - 1, val |-> front[i]]]
           B == [j \in 1 .. Len(back) |-> [at |-> Addr!Behind(Len(back), j), val |-> back[j]]]
           T == [at : Int, val : Piece]
<1>8. F \in [1 .. m -> T] /\ B \in [1 .. n -> T]
  <2>1. \A i \in 1 .. m : front[i] \in Piece
    BY <1>5
  <2>2. \A j \in 1 .. n : back[j] \in Piece /\ Groups - j \in Int
    BY <1>6, Numerals
  <2>. QED BY <1>5, <1>6, <2>1, <2>2 DEF Addr!Behind
<1>9. /\ \A i \in 1 .. m : F[i].at = i - 1 /\ F[i].val = text[i]
      /\ \A j \in 1 .. n : B[j].at = Groups - j /\ B[j].val = text[Len(text) + 1 - j]
  <2>1. \A j \in 1 .. n : j \in 1 .. Len(text)
    BY <1>1
  <2>. QED BY <1>2, <1>5, <1>6, <2>1 DEF Addr!Behind
<1>10. Addr!Writes(text) = F \o B
  BY <1>3, <1>4, <1>7 DEF Addr!Writes, turned
<1> HIDE DEF F, B, T
<1>11. F \in Seq(T) /\ Len(F) = m /\ B \in Seq(T) /\ Len(B) = n
  BY <1>1, <1>8, TakenAsSequence
<1>12. /\ F \o B \in Seq(T) /\ Len(F \o B) = m + n
       /\ \A k \in 1 .. m : (F \o B)[k] = F[k]
       /\ \A k \in 1 .. n : (F \o B)[m + k] = B[k]
  <2>1. /\ F \o B \in Seq(T) /\ Len(F \o B) = Len(F) + Len(B)
        /\ \A k \in 1 .. Len(F) : (F \o B)[k] = F[k]
        /\ \A k \in 1 .. Len(B) : (F \o B)[Len(F) + k] = B[k]
    <3>1. F \in Seq(T) /\ B \in Seq(T)
      BY <1>11
    <3>. QED BY <3>1, Glued
  <2>. QED BY <1>11, <2>1
<1>13. DOMAIN (F \o B) = 1 .. m + n
  BY <1>12
<1> DEFINE W == F \o B
<1> HIDE DEF W
<1>14. WritesOf(W, text, m, n)
  BY <1>9, <1>12, <1>13 DEF WritesOf, W
<1>. QED BY <1>10, <1>14 DEF W

LEMMA WritesWithoutGap ==
    ASSUME NEW text \in Seq(Piece), \A i \in 1 .. Len(text) : text[i] # Empty
    PROVE  WritesOf(Addr!Writes(text), text, Len(text), 0)
<1>1. Addr!UpToEmpty(text) = SubSeq(text, 1, Len(text))
  BY BeforeEmpty
<1>2. SubSeq(text, 1, Len(text)) = text
  OBVIOUS
<1> DEFINE F == [i \in 1 .. Len(text) |-> [at |-> i - 1, val |-> text[i]]]
           B == [j \in 1 .. Len(<<>>) |-> [at |-> Addr!Behind(Len(<<>>), j), val |-> <<>>[j]]]
           T == [at : Int, val : Piece]
<1>3. F \in [1 .. Len(text) -> T]
  OBVIOUS
<1>9. B = <<>>
  <2>1. 1 .. Len(<<>>) = {}
    OBVIOUS
  <2>. QED BY <2>1
<1>4. Addr!Writes(text) = F \o B
  BY <1>1, <1>2 DEF Addr!Writes
<1>5. \A i \in 1 .. Len(text) : F[i].at = i - 1 /\ F[i].val = text[i]
  OBVIOUS
<1> HIDE DEF F, B, T
<1>6. F \in Seq(T) /\ Len(F) = Len(text)
  BY <1>3, TakenAsSequence
<1>7. F \o B = F
  BY <1>6, <1>9
<1>8. DOMAIN F = 1 .. Len(text) + 0
  BY <1>6
<1>. QED BY <1>4, <1>5, <1>7, <1>8 DEF WritesOf

(* The first m groups and the last n of a text, with 0 between them.               *)
Filled(text, m, n) ==
    [p \in 1 .. Groups |-> IF p <= m THEN text[p]
                           ELSE IF p > Groups - n THEN text[Len(text) - (Groups - p)] ELSE 0]

LEMMA AssignedIs ==
    ASSUME NEW text \in Seq(Piece), NEW W, NEW m \in Nat, NEW n \in Nat, WritesOf(W, text, m, n),
           m <= Len(text), n <= Len(text), m + n <= Groups
    PROVE  Addr!Assigned(W) = Filled(text, m, n)
<1> SUFFICES ASSUME NEW p \in 1 .. Groups
             PROVE  (LET to == {k \in DOMAIN W : (W[k].at % Groups) + 1 = p}
                     IN IF to = {} THEN 0 ELSE W[Addr!Max(to)].val)
                      = IF p <= m THEN text[p]
                        ELSE IF p > Groups - n THEN text[Len(text) - (Groups - p)] ELSE 0
  BY DEF Addr!Assigned, Filled
<1> DEFINE to == {k \in DOMAIN W : (W[k].at % Groups) + 1 = p}
<1>1. /\ DOMAIN W = 1 .. m + n
      /\ \A i \in 1 .. m : W[i].at = i - 1 /\ W[i].val = text[i]
      /\ \A j \in 1 .. n : W[m + j].at = Groups - j /\ W[m + j].val = text[Len(text) + 1 - j]
  BY DEF WritesOf
<1>0. Groups \in Nat /\ Groups > 1 /\ Len(text) \in Nat /\ \A x \in 0 .. Groups - 1 : x % Groups = x
  BY Numerals
<1>8. Groups \in Nat /\ Groups > 1 /\ Len(text) \in Nat
  BY <1>0
<1>2. ASSUME NEW k \in 1 .. m PROVE (W[k].at % Groups) + 1 = k
  <2>1. W[k].at = k - 1 /\ k - 1 \in 0 .. Groups - 1
    BY <1>0, <1>1
  <2>2. (k - 1) + 1 = k
    OBVIOUS
  <2>. QED BY <1>0, <2>1, <2>2
<1>3. ASSUME NEW j \in 1 .. n PROVE (W[m + j].at % Groups) + 1 = Groups + 1 - j
  <2>1. W[m + j].at = Groups - j /\ Groups - j \in 0 .. Groups - 1
    BY <1>0, <1>1
  <2>2. (Groups - j) + 1 = Groups + 1 - j
    BY <1>0
  <2>. QED BY <1>0, <2>1, <2>2
<1>4. \A k \in 1 .. m + n : k \in 1 .. m \/ (k - m \in 1 .. n /\ k = m + (k - m))
  OBVIOUS
<1>5. CASE p <= m
  <2>1. p \in 1 .. m /\ p \in 1 .. m + n
    BY <1>5
  <2>2. to = {p}
    <3>1. p \in to
      BY <1>1, <1>2, <2>1
    <3>2. ASSUME NEW k \in to PROVE k = p
      <4>1. CASE k \in 1 .. m
        BY <1>2, <4>1
      <4>2. CASE k - m \in 1 .. n /\ k = m + (k - m)
        <5>1. PICK x \in 1 .. n : k = m + x
          BY <4>2
        <5>2. Groups + 1 - x = p
          BY <1>3, <5>1
        <5>3. FALSE
          BY <1>8, <2>1, <5>2
        <5>. QED BY <5>3
      <4>. QED BY <1>1, <1>4, <4>1, <4>2
    <3>. QED BY <3>1, <3>2
  <2>3. Addr!Max(to) = p
    BY <2>2, OfOne
  <2>4. W[p].val = text[p]
    BY <1>1, <2>1
  <2> HIDE DEF to
  <2>. QED BY <1>5, <2>2, <2>3, <2>4 DEF to
<1>6. CASE p > Groups - n
  <2> DEFINE j == Groups + 1 - p
  <2>1. j \in 1 .. n /\ m + j \in 1 .. m + n /\ Groups + 1 - j = p /\ ~(p <= m)
    BY <1>0, <1>6
  <2> HIDE DEF j
  <2>2. to = {m + j}
    <3>1. m + j \in to
      BY <1>1, <1>3, <2>1
    <3>2. ASSUME NEW k \in to PROVE k = m + j
      <4>1. CASE k \in 1 .. m
        BY <1>2, <2>1, <4>1
      <4>2. CASE k - m \in 1 .. n /\ k = m + (k - m)
        <5>1. PICK x \in 1 .. n : k = m + x
          BY <4>2
        <5>2. Groups + 1 - x = p
          BY <1>3, <5>1
        <5>3. x = j
          BY <1>8, <2>1, <5>2
        <5>. QED BY <5>1, <5>3
      <4>. QED BY <1>1, <1>4, <4>1, <4>2
    <3>. QED BY <3>1, <3>2
  <2>3. Addr!Max(to) = m + j
    BY <2>1, <2>2, OfOne
  <2>4. W[m + j].val = text[Len(text) + 1 - j]
    BY <1>1, <2>1
  <2>5. Len(text) + 1 - j = Len(text) - (Groups - p)
    BY <1>0 DEF j
  <2> HIDE DEF to
  <2>. QED BY <1>6, <2>1, <2>2, <2>3, <2>4, <2>5 DEF to
<1>7. CASE ~(p <= m) /\ ~(p > Groups - n)
  <2>1. to = {}
    <3>1. ASSUME NEW k \in to PROVE FALSE
      <4>1. CASE k \in 1 .. m
        BY <1>2, <1>7, <4>1
      <4>2. CASE k - m \in 1 .. n /\ k = m + (k - m)
        <5>1. PICK x \in 1 .. n : k = m + x
          BY <4>2
        <5>2. Groups + 1 - x = p
          BY <1>3, <5>1
        <5>. QED BY <1>7, <1>8, <5>2
      <4>. QED BY <1>1, <1>4, <4>1, <4>2
    <3>. QED BY <3>1
  <2>. QED BY <1>7, <2>1
<1>. QED BY <1>5, <1>6, <1>7

Plain(text) == \A i \in 1 .. Len(text) : text[i] \notin {Quad, Dotted}

(* What is assigned is within the list and a number, or the conversion says so.    *)
LEMMA PtonOf ==
    ASSUME NEW text \in Seq(Piece), Plain(text),
           NEW m \in Nat, NEW n \in Nat, WritesOf(Addr!Writes(text), text, m, n),
           m <= Len(text), n <= Len(text), m + n <= Groups,
           \A i \in 1 .. m : text[i] \in 0 .. Base - 1,
           \A j \in 1 .. n : text[Len(text) + 1 - j] \in 0 .. Base - 1
    PROVE  Addr!InetPton(text) = [groups |-> Filled(text, m, n)]
<1> DEFINE W == Addr!Writes(text)
           bad == {k \in DOMAIN W : Addr!NoInt(W[k]) \/ Addr!OffList(W[k])}
<1>0. Groups \in Nat /\ Groups > 1 /\ Base \in Nat /\ Base > 1 /\ Len(text) \in Nat
  BY Numerals
<1>1. /\ DOMAIN W = 1 .. m + n
      /\ \A i \in 1 .. m : W[i].at = i - 1 /\ W[i].val = text[i]
      /\ \A j \in 1 .. n : W[m + j].at = Groups - j /\ W[m + j].val = text[Len(text) + 1 - j]
  BY DEF WritesOf
<1>2. ~ \E i \in DOMAIN text : text[i] \in {Quad, Dotted}
  BY DEF Plain
<1>3. Addr!Assigned(W) = Filled(text, m, n)
  BY AssignedIs
<1> HIDE DEF W
<1>4. bad = {}
  <2>1. ASSUME NEW k \in bad PROVE FALSE
    <3>1. CASE k \in 1 .. m
      <4>1. W[k].at \in -Groups .. Groups - 1 /\ W[k].val \in Int
        <5>1. W[k].at = k - 1 /\ W[k].val = text[k] /\ text[k] \in Int
          BY <1>0, <1>1, <3>1
        <5>. QED BY <1>0, <3>1, <5>1
      <4>. QED BY <4>1, Markers DEF Addr!NoInt, Addr!OffList
    <3>2. CASE k - m \in 1 .. n /\ k = m + (k - m)
      <4>1. W[k].at \in -Groups .. Groups - 1 /\ W[k].val \in Int
        <5>1. PICK j \in 1 .. n : k = m + j
          BY <3>2
        <5>2. W[k].at = Groups - j /\ W[k].val = text[Len(text) + 1 - j]
          BY <1>1, <5>1
        <5>3. text[Len(text) + 1 - j] \in Int
          BY <1>0
        <5>4. Groups - j \in -Groups .. Groups - 1
          <6>1. j \in Nat /\ j >= 1 /\ j <= Groups
            <7>1. n <= Groups
              BY <1>0
            <7>. QED BY <1>0, <7>1
          <6>. QED BY <1>0, <6>1
        <5>. QED BY <5>2, <5>3, <5>4
      <4>. QED BY <4>1, Markers DEF Addr!NoInt, Addr!OffList
    <3>. QED BY <1>1, <3>1, <3>2
  <2>. QED BY <2>1
<1>5. \A g \in 1 .. Groups : ~ (Filled(text, m, n)[g] >= Base)
  <2>1. ASSUME NEW p \in 1 .. Groups PROVE Filled(text, m, n)[p] \in 0 .. Base - 1
    <3>1. CASE p <= m
      BY <3>1 DEF Filled
    <3>2. CASE ~(p <= m) /\ p > Groups - n
      <4>1. Groups + 1 - p \in 1 .. n /\ Len(text) + 1 - (Groups + 1 - p) = Len(text) - (Groups - p)
        BY <1>0, <3>2
      <4>. QED BY <3>2, <4>1 DEF Filled
    <3>3. CASE ~(p <= m) /\ ~(p > Groups - n)
      BY <1>0, <3>3 DEF Filled
    <3>. QED BY <3>1, <3>2, <3>3
  <2>2. \A x \in 0 .. Base - 1 : ~(x >= Base)
    BY <1>0
  <2>. QED BY <2>1, <2>2
<1> HIDE DEF bad
<1>. QED BY <1>2, <1>3, <1>4, <1>5 DEF Addr!InetPton, W, bad

(* Shortening leaves what stands before the first gap and behind the last.         *)
Keeps(t, s, m, n) ==
    /\ t \in Seq(Piece) /\ Len(t) <= Len(s) /\ GapAt(t, m, n)
    /\ \A i \in 1 .. m : t[i] = s[i]
    /\ \A j \in 1 .. n : t[Len(t) + 1 - j] = s[Len(s) + 1 - j]
    /\ \A i \in 1 .. Len(t) : \E k \in 1 .. Len(s) : t[i] = s[k]

LEMMA ShortenedKeeps ==
    ASSUME NEW s \in Seq(Piece), NEW m, NEW n, GapAt(s, m, n)
    PROVE  Keeps(Addr!Shortened(s), s, m, n)
<1> DEFINE L == Len(s)
           between == {i \in 2 .. L - 1 : s[i] = Empty}
           first == Addr!Min(between)
           run == {i \in between : first .. i \subseteq between}
           last == Addr!Max(run)
           t == Addr!Shortened(s)
<1>1. /\ L \in Nat /\ m \in 0 .. L /\ n \in 0 .. L /\ m \in Nat /\ n \in Nat /\ m < L /\ n < L
      /\ \A i \in 1 .. m : s[i] # Empty
      /\ \A j \in 1 .. n : s[L + 1 - j] # Empty
      /\ s[m + 1] = Empty /\ s[L - n] = Empty
  BY DEF GapAt
<1>4. L \in Nat /\ m \in Nat /\ n \in Nat /\ m < L /\ n < L
  BY <1>1
<1>2. CASE between = {}
  <2>1. t = s
    BY <1>2 DEF Addr!Shortened
  <2> HIDE DEF t
  <2>2. Keeps(s, s, m, n)
    BY <1>1 DEF Keeps
  <2>. QED BY <2>1, <2>2 DEF t
<1>3. CASE between # {}
  <2>1. between \in SUBSET Nat /\ between \in SUBSET (0 .. L)
    BY <1>1
  <2>2. first \in between /\ \A i \in between : first <= i
    <3> HIDE DEF between
    <3>1. Min(between) \in between /\ \A i \in between : Min(between) <= i
      BY <1>3, <2>1, MinIsLeast
    <3>2. first = Min(between)
      BY DEF Min, Addr!Min
    <3>. QED BY <3>1, <3>2
  <2> HIDE DEF first
  <2>3. first \in 2 .. L - 1 /\ s[first] = Empty /\ first \in Nat
    BY <2>2
  <2>4. first \in run
    <3>1. first .. first = {first}
      BY <2>3
    <3>. QED BY <2>2, <3>1
  <2>5. last \in run
    <3> HIDE DEF between
    <3>1. run # {} /\ run \in SUBSET (0 .. L)
      BY <2>1, <2>4
    <3> HIDE DEF run
    <3>2. Max(run) \in run
      BY <1>1, <3>1, MaxIsGreatest
    <3>. QED BY <3>2 DEF Max, Addr!Max
  <2> HIDE DEF last
  <2>6. last \in 2 .. L - 1 /\ s[last] = Empty /\ first <= last /\ last \in Nat
    BY <2>2, <2>5
  <2> DEFINE r == L - last
             A == SubSeq(s, 1, first)
             B == SubSeq(s, last + 1, last + r)
  <2>7. r \in Nat /\ r >= 1 /\ last + r = L /\ first \in 0 .. L
    BY <1>1, <2>3, <2>6
  <2>22. first <= L /\ last <= L /\ 2 <= first
    BY <1>4, <2>3, <2>6
  <2>8. t = A \o B
    BY <1>3, <2>7 DEF Addr!Shortened, first, last
  <2> HIDE DEF t, r
  <2>9. A \in Seq(Piece) /\ Len(A) = first /\ \A i \in 1 .. first : A[i] = s[i]
    BY <2>7, Beginning
  <2>10. B \in Seq(Piece) /\ Len(B) = r /\ \A k \in 1 .. r : B[k] = s[last + k]
    BY <2>6, <2>7, Middle
  <2> HIDE DEF A, B
  <2>11. /\ t \in Seq(Piece) /\ Len(t) = first + r
         /\ \A i \in 1 .. first : t[i] = s[i]
         /\ \A k \in 1 .. r : t[first + k] = s[last + k]
    <3>1. /\ A \o B \in Seq(Piece) /\ Len(A \o B) = Len(A) + Len(B)
          /\ \A k \in 1 .. Len(A) : (A \o B)[k] = A[k]
          /\ \A k \in 1 .. Len(B) : (A \o B)[Len(A) + k] = B[k]
      <4>1. A \in Seq(Piece) /\ B \in Seq(Piece)
        BY <2>9, <2>10
      <4>. QED BY <4>1, Glued
    <3>. QED BY <2>8, <2>9, <2>10, <3>1
  <2>12. \A j \in 1 .. r : t[Len(t) + 1 - j] = s[L + 1 - j]
    <3>1. ASSUME NEW j \in 1 .. r PROVE t[Len(t) + 1 - j] = s[L + 1 - j]
      <4>1. PICK k \in 1 .. r : k = r + 1 - j
        BY <2>7
      <4>2. first + k = first + r + 1 - j /\ last + k = L + 1 - j
        BY <2>3, <2>6, <2>7, <4>1
      <4>. QED BY <2>11, <4>2
    <3>. QED BY <3>1
  <2>13. m < first
    BY <1>1, <2>3
  <2>14. n <= r
    <3>1. ASSUME n > r PROVE FALSE
      <4>1. r + 1 \in 1 .. n /\ L + 1 - (r + 1) = last
        <5>1. last \in Nat /\ r \in Nat /\ last + r = L
          BY <2>6, <2>7
        <5> HIDE DEF L
        <5>. QED BY <1>4, <3>1, <5>1
      <4>. QED BY <1>1, <2>6, <4>1
    <3>. QED BY <1>1, <2>7, <3>1
  <2>15. t[m + 1] = Empty /\ \A i \in 1 .. m : t[i] = s[i]
    <3>1. m + 1 \in 1 .. first /\ \A i \in 1 .. m : i \in 1 .. first
      BY <1>1, <2>3, <2>13
    <3>. QED BY <1>1, <2>11, <3>1
  <2>16. \A j \in 1 .. n : t[Len(t) + 1 - j] = s[L + 1 - j]
    <3>1. \A j \in 1 .. n : j \in 1 .. r
      BY <1>1, <2>7, <2>14
    <3>. QED BY <2>12, <3>1
  <2>17. t[Len(t) - n] = Empty
    <3>1. CASE n < r
      <4>1. n + 1 \in 1 .. r /\ Len(t) + 1 - (n + 1) = Len(t) - n /\ L + 1 - (n + 1) = L - n
        BY <1>1, <2>3, <2>7, <2>11, <3>1
      <4>. QED BY <1>1, <2>12, <4>1
    <3>2. CASE n = r
      <4>1. Len(t) - n = first /\ first \in 1 .. first
        BY <2>3, <2>7, <2>11, <3>2
      <4>. QED BY <2>3, <2>11, <4>1
    <3>. QED BY <1>1, <2>7, <2>14, <3>1, <3>2
  <2>18. Len(t) <= L /\ m < Len(t) /\ n < Len(t) /\ m \in 0 .. Len(t) /\ n \in 0 .. Len(t)
    <3>1. PICK f, q, l \in Nat : f = first /\ q = last /\ l = Len(t) /\ l = f + r /\ f <= q
      BY <2>3, <2>6, <2>7, <2>11
    <3>2. r \in Nat /\ q + r = L /\ m < f /\ n <= r /\ f > 0
      BY <2>3, <2>7, <2>13, <2>14, <3>1
    <3> HIDE DEF L
    <3>3. l <= L /\ m < l /\ n < l
      BY <1>4, <3>1, <3>2
    <3>. QED BY <1>4, <3>1, <3>3
  <2>19. ASSUME NEW i \in 1 .. Len(t) PROVE \E k \in 1 .. L : t[i] = s[k]
    <3>1. CASE i <= first
      <4>1. i \in 1 .. first /\ i \in 1 .. L
        BY <2>3, <3>1
      <4>. QED BY <2>11, <4>1
    <3>2. CASE ~(i <= first)
      <4>1. PICK k \in 1 .. r : i = first + k
        <5>1. PICK l \in Nat : l = Len(t) /\ l = first + r
          BY <2>3, <2>7, <2>11
        <5>2. i \in 1 .. l /\ first \in Nat /\ r \in Nat /\ ~(i <= first)
          BY <2>3, <2>7, <3>2, <5>1
        <5>3. i - first \in 1 .. r /\ i = first + (i - first)
          BY <5>1, <5>2
        <5>. QED BY <5>3
      <4>2. last + k \in 1 .. L
        BY <2>6, <2>7
      <4>. QED BY <2>11, <4>1, <4>2
    <3>. QED BY <3>1, <3>2
  <2>20. GapAt(t, m, n)
    <3>1. \A i \in 1 .. m : t[i] # Empty
      BY <1>1, <2>15
    <3>2. \A j \in 1 .. n : t[Len(t) + 1 - j] # Empty
      BY <1>1, <2>16
    <3>. QED BY <2>15, <2>17, <2>18, <3>1, <3>2 DEF GapAt
  <2> HIDE DEF L
  <2>21. Keeps(t, s, m, n)
    BY <2>11, <2>15, <2>16, <2>18, <2>19, <2>20 DEF Keeps, L
  <2>. QED BY <2>21 DEF t
<1>. QED BY <1>2, <1>3

LEMMA GapLeaves ==
    ASSUME NEW s \in Seq(Piece), NEW m, NEW n, GapAt(s, m, n)
    PROVE  m + n < Len(s) /\ m \in Nat /\ n \in Nat
<1> DEFINE L == Len(s)
<1>1. /\ L \in Nat /\ m \in Nat /\ n \in Nat /\ m < L /\ n < L /\ s[m + 1] = Empty
      /\ \A j \in 1 .. n : s[L + 1 - j] # Empty
  BY DEF GapAt
<1> HIDE DEF L
<1>2. ASSUME ~(m + n < L) PROVE FALSE
  <2>1. L - m \in 1 .. n /\ L + 1 - (L - m) = m + 1
    BY <1>1, <1>2
  <2>. QED BY <1>1, <2>1
<1>. QED BY <1>1, <1>2 DEF L

(* A text with a gap stands for the groups before and behind it.                   *)
LEMMA PtonWithGap ==
    ASSUME NEW text \in Seq(Piece), Plain(text), NEW m, NEW n, GapAt(text, m, n),
           m + n <= Groups,
           \A i \in 1 .. m : text[i] \in 0 .. Base - 1,
           \A j \in 1 .. n : text[Len(text) + 1 - j] \in 0 .. Base - 1
    PROVE  Addr!InetPton(text) = [groups |-> Filled(text, m, n)]
<1>1. WritesOf(Addr!Writes(text), text, m, n)
  BY WritesWithGap
<1>2. m \in Nat /\ n \in Nat /\ m <= Len(text) /\ n <= Len(text)
  BY DEF GapAt
<1>. QED BY <1>1, <1>2, PtonOf

LEMMA PtonWithoutGap ==
    ASSUME NEW text \in Seq(Piece), Len(text) = Groups,
           \A i \in 1 .. Groups : text[i] \in 0 .. Base - 1
    PROVE  Addr!InetPton(text) = [groups |-> text]
<1>0. Groups \in Nat /\ 0 \in Nat /\ Groups <= Groups /\ 0 <= Groups /\ Groups + 0 <= Groups
      /\ \A j \in 1 .. 0 : FALSE
  BY Numerals
<1>1. \A i \in 1 .. Len(text) : text[i] \in Int
  BY Numerals
<1>2. Plain(text) /\ \A i \in 1 .. Len(text) : text[i] # Empty
  BY <1>1, Markers DEF Plain
<1>3. WritesOf(Addr!Writes(text), text, Groups, 0)
  BY <1>2, WritesWithoutGap
<1>4. Addr!InetPton(text) = [groups |-> Filled(text, Groups, 0)]
  BY <1>0, <1>2, <1>3, PtonOf
<1>5. Filled(text, Groups, 0) = text
  <2>1. Filled(text, Groups, 0) = [p \in 1 .. Groups |-> text[p]]
    BY <1>0 DEF Filled
  <2>2. text = [p \in 1 .. Groups |-> text[p]]
    OBVIOUS
  <2>. QED BY <2>1, <2>2
<1>. QED BY <1>4, <1>5

LEMMA GroupsAreReadBack ==
    ASSUME NEW i \in GroupsInputs, i = input, result = GroupsAnswer(i)
    PROVE  GroupsReadBack
<1> DEFINE g == i.groups
           s == [k \in DOMAIN g |-> IF g[k] = 0 THEN Empty ELSE g[k]]
           t == Addr!Shortened(s)
           zeros == {k \in 1 .. Groups : g[k] = 0}
<1>1. g \in [1 .. Groups -> {0, 1, Base - 1}] /\ input.groups = g
  BY DEF GroupsInputs
<1>2. Groups \in Nat /\ Groups > 1 /\ Base \in Nat /\ Base > 1
  BY Numerals
<1>3. DOMAIN g = 1 .. Groups /\ \A k \in 1 .. Groups : g[k] \in 0 .. Base - 1 /\ g[k] \in Nat
  BY <1>1, <1>2
<1>4. result = Addr!InetPton(t)
  BY DEF GroupsAnswer, Addr!InetNtop
<1> HIDE DEF g
<1>5. /\ s \in [1 .. Groups -> Piece]
      /\ \A k \in 1 .. Groups : s[k] = (IF g[k] = 0 THEN Empty ELSE g[k])
  <2>1. Empty \in Piece
    BY DEF Piece, NoNumbers
  <2>2. \A k \in 1 .. Groups : g[k] \in Piece
    BY <1>3 DEF Piece
  <2>. QED BY <1>3, <2>1, <2>2
<1> HIDE DEF s
<1>6. s \in Seq(Piece) /\ Len(s) = Groups
  BY <1>2, <1>5, TakenAsSequence
<1>7. /\ \A k \in 1 .. Groups : s[k] = Empty <=> g[k] = 0
      /\ \A k \in 1 .. Groups : s[k] # Empty => s[k] = g[k]
      /\ \A k \in 1 .. Groups : s[k] \notin {Quad, Dotted}
  BY <1>3, <1>5, Markers
<1>8. CASE zeros = {}
  <2>1. \A k \in 1 .. Groups : s[k] = g[k] /\ g[k] # 0
    BY <1>7, <1>8
  <2>2. s = g
    <3>1. g = [k \in 1 .. Groups |-> g[k]] /\ s = [k \in 1 .. Groups |-> s[k]]
      BY <1>1, <1>5 DEF g
    <3>. QED BY <2>1, <3>1
  <2>3. t = s
    <3>1. {k \in 2 .. Len(s) - 1 : s[k] = Empty} = {}
      BY <1>2, <1>6, <1>7, <2>1
    <3>. QED BY <3>1 DEF Addr!Shortened
  <2>4. Addr!InetPton(s) = [groups |-> s]
    BY <1>3, <1>6, <2>2, PtonWithoutGap
  <2>. QED BY <1>1, <1>4, <1>8, <2>2, <2>3, <2>4 DEF GroupsReadBack
<1>9. CASE zeros # {}
  <2>1. PICK m, n : GapAt(s, m, n)
    <3>1. \E k \in 1 .. Len(s) : s[k] = Empty
      BY <1>6, <1>7, <1>9
    <3>. QED BY <1>6, <3>1, GapExists
  <2>2. m + n < Groups /\ m \in Nat /\ n \in Nat
    BY <1>6, <2>1, GapLeaves
  <2>3. /\ \A k \in 1 .. m : s[k] # Empty
        /\ \A j \in 1 .. n : s[Groups + 1 - j] # Empty
        /\ s[m + 1] = Empty /\ s[Groups - n] = Empty
    BY <1>6, <2>1 DEF GapAt
  <2>4. Keeps(t, s, m, n)
    BY <1>6, <2>1, ShortenedKeeps
  <2> HIDE DEF t
  <2>5. /\ t \in Seq(Piece) /\ GapAt(t, m, n)
        /\ \A k \in 1 .. m : t[k] = s[k]
        /\ \A j \in 1 .. n : t[Len(t) + 1 - j] = s[Groups + 1 - j]
        /\ \A q \in 1 .. Len(t) : \E k \in 1 .. Groups : t[q] = s[k]
    BY <1>6, <2>4 DEF Keeps
  <2>6. Plain(t)
    BY <1>7, <2>5 DEF Plain
  <2>7. \A k \in 1 .. m : s[k] = g[k] /\ t[k] = g[k] /\ g[k] \in 0 .. Base - 1
    <3>1. \A k \in 1 .. m : k \in 1 .. Groups
      BY <1>2, <2>2
    <3>. QED BY <1>3, <1>7, <2>3, <2>5, <3>1
  <2>8. \A j \in 1 .. n : t[Len(t) + 1 - j] = g[Groups + 1 - j]
                          /\ g[Groups + 1 - j] \in 0 .. Base - 1
    <3>1. \A j \in 1 .. n : Groups + 1 - j \in 1 .. Groups
      BY <1>2, <2>2
    <3>. QED BY <1>3, <1>7, <2>3, <2>5, <3>1
  <2>9. Addr!InetPton(t) = [groups |-> Filled(t, m, n)]
    <3>1. m + n <= Groups
      BY <1>2, <2>2
    <3>2. \A k \in 1 .. m : t[k] \in 0 .. Base - 1
      BY <2>7
    <3>3. \A j \in 1 .. n : t[Len(t) + 1 - j] \in 0 .. Base - 1
      BY <2>8
    <3>. QED BY <2>5, <2>6, <3>1, <3>2, <3>3, PtonWithGap
  <2>10. ASSUME NEW p \in 1 .. Groups
         PROVE  Filled(t, m, n)[p] = IF p \in m + 1 .. Groups - n THEN 0 ELSE g[p]
    <3>1. CASE p <= m
      <4>1. p \in 1 .. m /\ p \notin m + 1 .. Groups - n
        BY <2>2, <3>1
      <4>. QED BY <2>7, <3>1, <4>1 DEF Filled
    <3>2. CASE ~(p <= m) /\ p > Groups - n
      <4>1. PICK j \in 1 .. n : j = Groups + 1 - p
        BY <1>2, <2>2, <3>2
      <4>2. Len(t) \in Nat
        BY <2>5
      <4>3. Len(t) + 1 - j = Len(t) - (Groups - p) /\ Groups + 1 - j = p
            /\ p \notin m + 1 .. Groups - n
        BY <1>2, <2>2, <3>2, <4>1, <4>2
      <4>. QED BY <2>8, <3>2, <4>3 DEF Filled
    <3>3. CASE ~(p <= m) /\ ~(p > Groups - n)
      <4>1. p \in m + 1 .. Groups - n
        BY <1>2, <2>2, <3>3
      <4>. QED BY <3>3, <4>1 DEF Filled
    <3>. QED BY <3>1, <3>2, <3>3
  <2>11. Filled(t, m, n) = g <=> \A p \in m + 1 .. Groups - n : g[p] = 0
    <3>1. Filled(t, m, n) = [p \in 1 .. Groups |-> Filled(t, m, n)[p]] /\ g = [p \in 1 .. Groups |-> g[p]]
      BY <1>1 DEF Filled, g
    <3>2. \A p \in m + 1 .. Groups - n : p \in 1 .. Groups
      BY <1>2, <2>2
    <3> DEFINE filled == Filled(t, m, n)
    <3> HIDE DEF filled
    <3>3. filled = [p \in 1 .. Groups |-> filled[p]] /\ g = [p \in 1 .. Groups |-> g[p]]
          /\ \A p \in 1 .. Groups : filled[p] = IF p \in m + 1 .. Groups - n THEN 0 ELSE g[p]
      BY <2>10, <3>1 DEF filled
    <3>4. (\A p \in 1 .. Groups : filled[p] = g[p]) => filled = g
      BY <3>3, Zenon
    <3>. QED BY <3>2, <3>3, <3>4 DEF filled
  <2>12. Min(zeros) = m + 1
    <3>1. m + 1 \in zeros
      <4>1. m + 1 \in 1 .. Groups
        BY <1>2, <2>2
      <4>. QED BY <1>7, <2>3, <4>1
    <3>2. ASSUME NEW y \in zeros PROVE m + 1 <= y
      <4>1. ~(y \in 1 .. m)
        BY <1>7, <2>3
      <4>. QED BY <1>2, <2>2, <4>1
    <3>3. zeros \in SUBSET Nat
      BY <1>2
    <3> HIDE DEF zeros
    <3>. QED BY <3>1, <3>2, <3>3, MinIs
  <2>13. Max(zeros) = Groups - n
    <3>1. Groups - n \in zeros
      <4>1. Groups - n \in 1 .. Groups
        BY <1>2, <2>2
      <4>. QED BY <1>7, <2>3, <4>1
    <3>2. ASSUME NEW y \in zeros PROVE Groups - n >= y
      <4>1. ASSUME y > Groups - n PROVE FALSE
        <5>1. Groups + 1 - y \in 1 .. n /\ Groups + 1 - (Groups + 1 - y) = y
          BY <1>2, <2>2, <4>1
        <5>. QED BY <1>7, <2>3, <5>1
      <4>. QED BY <1>2, <2>2, <4>1
    <3>3. zeros \in SUBSET (0 .. Groups)
      BY <1>2
    <3> HIDE DEF zeros
    <3> DEFINE x == Groups - n
    <3>4. x \in zeros /\ \A y \in zeros : x >= y
      BY <3>1, <3>2
    <3> HIDE DEF x
    <3>5. Max(zeros) = x
      BY <1>2, <3>3, <3>4, MaxIs
    <3>. QED BY <3>5 DEF x
  <2>14. (\A p \in m + 1 .. Groups - n : g[p] = 0) <=> \A p \in Min(zeros) .. Max(zeros) : p \in zeros
    <3>1. \A p \in m + 1 .. Groups - n : p \in 1 .. Groups
      BY <1>2, <2>2
    <3>. QED BY <2>12, <2>13, <3>1
  <2>15. result = [groups |-> g] <=> Filled(t, m, n) = g
    BY <1>4, <2>9 DEF t
  <2> HIDE DEF zeros
  <2>16. result = [groups |-> g] <=> (zeros = {} \/ \A p \in Min(zeros) .. Max(zeros) : p \in zeros)
    BY <1>9, <2>11, <2>14, <2>15
  <2>. QED BY <1>1, <2>16 DEF GroupsReadBack, zeros
<1>. QED BY <1>8, <1>9

LEMMA BoundedIsSeq ==
    ASSUME NEW S, NEW n \in Nat, NEW s \in BoundedSeq(S, n)
    PROVE  s \in Seq(S) /\ Len(s) \in 0 .. n /\ \A k \in 1 .. Len(s) : s[k] \in S
<1>1. PICK m \in 0 .. n : s \in [1 .. m -> S]
  BY DEF BoundedSeq, SeqOf
<1>2. m \in Nat
  OBVIOUS
<1>3. s \in Seq(S) /\ Len(s) = m
  BY <1>1, <1>2, TakenAsSequence
<1>. QED BY <1>1, <1>3

(* Three parts of a sequence, the middle one single.                               *)
Around(S, a, x, b, s) ==
    /\ s \in Seq(S) /\ Len(s) = Len(a) + 1 + Len(b)
    /\ \A k \in 1 .. Len(a) : s[k] = a[k]
    /\ s[Len(a) + 1] = x
    /\ \A k \in 1 .. Len(b) : s[Len(a) + 1 + k] = b[k]

LEMMA GluedAround ==
    ASSUME NEW S, NEW a \in Seq(S), NEW x \in S, NEW b \in Seq(S)
    PROVE  Around(S, a, x, b, (a \o <<x>>) \o b)
<1> DEFINE one == <<x>>
           c == a \o one
           s == c \o b
<1>1. one \in Seq(S) /\ Len(one) = 1 /\ one[1] = x /\ 1 \in 1 .. 1
  OBVIOUS
<1> HIDE DEF one
<1>2. GlueOf(S, a, one, c)
  BY <1>1, GluedAs
<1>3. c \in Seq(S)
  BY <1>2 DEF GlueOf
<1> HIDE DEF c
<1>4. GlueOf(S, c, b, s)
  BY <1>3, GluedAs
<1> HIDE DEF s
<1>5. /\ Len(c) = Len(a) + 1 /\ c[Len(a) + 1] = x
      /\ \A k \in 1 .. Len(a) : c[k] = a[k]
  BY <1>1, <1>2 DEF GlueOf
<1>6. /\ Len(a) \in Nat /\ \A k \in 1 .. Len(a) : k \in 1 .. Len(a) + 1
      /\ Len(a) + 1 \in 1 .. Len(a) + 1
  OBVIOUS
<1>7. Around(S, a, x, b, s)
  BY <1>4, <1>5, <1>6 DEF GlueOf, Around
<1>. QED BY <1>7 DEF s, c, one

LEMMA IsIpIs ==
    ASSUME NEW text
    PROVE  LET r == Addr!InetPton(text) IN
           /\ Addr!InetAton(text) => Addr!IsIp(text) = "INET"
           /\ ~Addr!InetAton(text) /\ ~Addr!Raised(r) => Addr!IsIp(text) = "INET6"
           /\ \A e : ~Addr!InetAton(text) /\ r = Addr!Raises(e)
                       => Addr!IsIp(text) = IF e = "ValueError" THEN "False" ELSE e
BY DEF Addr!IsIp, Addr!Raised, Addr!Raises

(* A text of the first m groups and the last n.                                    *)
WrittenAs(text, groups, m, n) ==
    text = (IF m = 0 THEN <<Empty>> ELSE SubSeq(groups, 1, m)) \o <<Empty>>
           \o (IF n = 0 THEN <<Empty>> ELSE SubSeq(groups, Groups - n + 1, Groups))

ShowsAs(text, groups, m, n) ==
    /\ text \in Seq(Piece) /\ Len(text) > 1 /\ Plain(text) /\ GapAt(text, m, n)
    /\ \A k \in 1 .. m : text[k] = groups[k]
    /\ \A j \in 1 .. n : text[Len(text) + 1 - j] = groups[Groups + 1 - j]

LEMMA GapOfMeaning ==
    ASSUME NEW groups \in [1 .. Groups -> 0 .. Base - 1], NEW m \in Nat, NEW n \in Nat,
           m + n < Groups, NEW text, WrittenAs(text, groups, m, n)
    PROVE  ShowsAs(text, groups, m, n)
<1> DEFINE a == IF m = 0 THEN <<Empty>> ELSE SubSeq(groups, 1, m)
           b == IF n = 0 THEN <<Empty>> ELSE SubSeq(groups, Groups - n + 1, Groups)
           Some == {Empty} \cup 0 .. Base - 1
<1>1. Groups \in Nat /\ Groups > 1 /\ Base \in Nat /\ Base > 1
  BY Numerals
<1>2. groups \in Seq(0 .. Base - 1) /\ Len(groups) = Groups
  BY <1>1, TakenAsSequence
<1>3. groups \in Seq(Some)
  BY <1>2
<1> HIDE DEF Some
<1>4. /\ a \in Seq(Some) /\ Len(a) \in Nat /\ Len(a) = IF m = 0 THEN 1 ELSE m
      /\ \A k \in 1 .. m : a[k] = groups[k]
      /\ m = 0 => a[1] = Empty
  <2>1. CASE m = 0
    BY <2>1 DEF Some
  <2>2. CASE m # 0
    <3>1. m \in 0 .. Len(groups)
      BY <1>1, <1>2
    <3>. QED BY <1>3, <2>2, <3>1, Beginning
  <2>. QED BY <2>1, <2>2
<1>5. /\ b \in Seq(Some) /\ Len(b) \in Nat /\ Len(b) = IF n = 0 THEN 1 ELSE n
      /\ \A j \in 1 .. n : b[n + 1 - j] = groups[Groups + 1 - j]
      /\ n = 0 => b[1] = Empty
  <2>1. CASE n = 0
    BY <2>1 DEF Some
  <2>2. CASE n # 0
    <3> DEFINE q == Groups - n
               part == SubSeq(groups, q + 1, q + n)
    <3>1. q \in Nat /\ q + n = Groups /\ q + n <= Len(groups)
      BY <1>1, <1>2
    <3> HIDE DEF q
    <3>2. part \in Seq(Some) /\ Len(part) = n /\ \A k \in 1 .. n : part[k] = groups[q + k]
      BY <1>3, <3>1, Middle
    <3>3. b = part
      BY <2>2, <3>1 DEF q
    <3> HIDE DEF part
    <3>4. \A j \in 1 .. n : n + 1 - j \in 1 .. n /\ q + (n + 1 - j) = Groups + 1 - j
      BY <1>1, <3>1
    <3>. QED BY <2>2, <3>2, <3>3, <3>4
  <2>. QED BY <2>1, <2>2
<1>6. text = (a \o <<Empty>>) \o b
  BY DEF WrittenAs
<1> HIDE DEF a, b
<1>7. /\ text \in Seq(Some) /\ Len(text) = Len(a) + 1 + Len(b)
      /\ \A k \in 1 .. Len(a) : text[k] = a[k]
      /\ text[Len(a) + 1] = Empty
      /\ \A k \in 1 .. Len(b) : text[Len(a) + 1 + k] = b[k]
  <2>1. Empty \in Some
    BY DEF Some
  <2>2. a \in Seq(Some) /\ b \in Seq(Some)
    BY <1>4, <1>5
  <2>3. Around(Some, a, Empty, b, (a \o <<Empty>>) \o b)
    BY <2>1, <2>2, GluedAround
  <2>. QED BY <1>6, <2>3 DEF Around
<1>8. PICK la, lb, l \in Nat : la = Len(a) /\ lb = Len(b) /\ l = Len(text) /\ l = la + 1 + lb
                               /\ la = (IF m = 0 THEN 1 ELSE m) /\ lb = (IF n = 0 THEN 1 ELSE n)
  BY <1>4, <1>5, <1>7
<1>9. Some \subseteq Piece /\ \A x \in Some : x \notin {Quad, Dotted}
  BY <1>1, Markers DEF Some, Piece, NoNumbers
<1>10. text \in Seq(Piece) /\ Plain(text)
  <2>1. \A k \in 1 .. Len(text) : text[k] \in Some
    <3>1. text \in Seq(Some)
      BY <1>7
    <3>. QED BY <3>1
  <2>2. text \in Seq(Piece)
    <3>1. text \in Seq(Some) /\ Some \subseteq Piece
      BY <1>7, <1>9
    <3>. QED BY <3>1
  <2>. QED BY <1>9, <2>1, <2>2 DEF Plain
<1>11. \A k \in 1 .. m : text[k] = groups[k] /\ groups[k] \in Int
  <2>1. \A k \in 1 .. m : k \in 1 .. Len(a) /\ k \in 1 .. Groups
    BY <1>1, <1>8
  <2>. QED BY <1>1, <1>4, <1>7, <2>1
<1>12. text[m + 1] = Empty
  <2>1. CASE m = 0
    <3>1. 1 \in 1 .. Len(a)
      BY <1>8, <2>1
    <3>. QED BY <1>4, <1>7, <2>1, <3>1
  <2>2. CASE m # 0
    BY <1>7, <1>8, <2>2
  <2>. QED BY <2>1, <2>2
<1>13. \A j \in 1 .. n : text[l + 1 - j] = groups[Groups + 1 - j] /\ groups[Groups + 1 - j] \in Int
  <2>1. ASSUME NEW j \in 1 .. n
        PROVE  n + 1 - j \in 1 .. Len(b) /\ Len(a) + 1 + (n + 1 - j) = l + 1 - j
               /\ Groups + 1 - j \in 1 .. Groups
    BY <1>1, <1>8
  <2>2. \A x \in 1 .. Groups : groups[x] \in Int
    BY <1>1
  <2>. QED BY <1>5, <1>7, <2>1, <2>2
<1>14. text[l - n] = Empty
  <2>1. CASE n = 0
    <3>1. 1 \in 1 .. Len(b) /\ Len(a) + 1 + 1 = l - n
      BY <1>8, <2>1
    <3>. QED BY <1>5, <1>7, <2>1, <3>1
  <2>2. CASE n # 0
    <3>1. Len(a) + 1 = l - n
      BY <1>8, <2>2
    <3>. QED BY <1>7, <3>1
  <2>. QED BY <2>1, <2>2
<1>15. l > 1 /\ m < l /\ n < l /\ m \in 0 .. l /\ n \in 0 .. l
  BY <1>8
<1>16. GapAt(text, m, n)
  BY <1>8, <1>11, <1>12, <1>13, <1>14, <1>15, Markers DEF GapAt
<1>. QED BY <1>8, <1>10, <1>11, <1>13, <1>15, <1>16 DEF ShowsAs

LEMMA MeantIsRead ==
    ASSUME NEW text \in Seq(Piece), NEW groups \in [1 .. Groups -> 0 .. Base - 1], Means(text, groups)
    PROVE  Addr!IsIp(text) = "INET6" /\ Addr!InetPton(text) = [groups |-> groups]
<1>1. Groups \in Nat /\ Groups > 1 /\ Base \in Nat /\ Base > 1 /\ Len(text) \in Nat
  BY Numerals
<1>5. Len(text) > 1 => ~Addr!InetAton(text)
  <2>1. PICK l \in Nat : l = Len(text)
    BY <1>1
  <2>2. l > 1 => l # 1
    OBVIOUS
  <2>. QED BY <2>1, <2>2, Zenon DEF Addr!InetAton
<1>2. SUFFICES Len(text) > 1 /\ Addr!InetPton(text) = [groups |-> groups]
  <2>2. Addr!InetPton(text) = [groups |-> groups] => ~Addr!Raised(Addr!InetPton(text))
    BY DEF Addr!Raised
  <2>. QED BY <1>5, <2>2, IsIpIs
<1>3. CASE text = groups
  <2>1. Len(text) = Groups /\ \A k \in 1 .. Groups : text[k] \in 0 .. Base - 1
    BY <1>1, <1>3, TakenAsSequence
  <2>2. Addr!InetPton(text) = [groups |-> text]
    BY <2>1, PtonWithoutGap
  <2>. QED BY <1>1, <1>3, <2>1, <2>2
<1>4. CASE \E m, n \in 0 .. Groups - 1 :
             /\ m + n < Groups /\ WrittenAs(text, groups, m, n)
             /\ \A k \in m + 1 .. Groups - n : groups[k] = 0
  <2>1. PICK m \in 0 .. Groups - 1, n \in 0 .. Groups - 1 :
             /\ m + n < Groups /\ WrittenAs(text, groups, m, n)
             /\ \A k \in m + 1 .. Groups - n : groups[k] = 0
    BY <1>4
  <2>2. m \in Nat /\ n \in Nat /\ m + n < Groups /\ m + n <= Groups
    BY <1>1, <2>1
  <2>3. /\ Len(text) > 1 /\ Plain(text) /\ GapAt(text, m, n)
        /\ \A k \in 1 .. m : text[k] = groups[k]
        /\ \A j \in 1 .. n : text[Len(text) + 1 - j] = groups[Groups + 1 - j]
    <3>1. WrittenAs(text, groups, m, n)
      BY <2>1
    <3>2. ShowsAs(text, groups, m, n)
      BY <2>2, <3>1, GapOfMeaning
    <3>. QED BY <3>2 DEF ShowsAs
  <2>4. \A k \in 1 .. m : text[k] \in 0 .. Base - 1
    <3>1. \A k \in 1 .. m : k \in 1 .. Groups
      BY <1>1, <2>2
    <3>. QED BY <2>3, <3>1
  <2>5. \A j \in 1 .. n : text[Len(text) + 1 - j] \in 0 .. Base - 1
    <3>1. \A j \in 1 .. n : Groups + 1 - j \in 1 .. Groups
      BY <1>1, <2>2
    <3>. QED BY <2>3, <3>1
  <2>6. Addr!InetPton(text) = [groups |-> Filled(text, m, n)]
    BY <2>2, <2>3, <2>4, <2>5, PtonWithGap
  <2>7. ASSUME NEW p \in 1 .. Groups PROVE Filled(text, m, n)[p] = groups[p]
    <3>1. CASE p <= m
      <4>1. p \in 1 .. m
        BY <2>2, <3>1
      <4>. QED BY <2>3, <3>1, <4>1 DEF Filled
    <3>2. CASE ~(p <= m) /\ p > Groups - n
      <4>1. PICK j \in 1 .. n : j = Groups + 1 - p
        BY <1>1, <2>2, <3>2
      <4>2. Len(text) \in Nat
        OBVIOUS
      <4>3. Len(text) + 1 - j = Len(text) - (Groups - p) /\ Groups + 1 - j = p
        BY <1>1, <4>1, <4>2
      <4>4. text[Len(text) - (Groups - p)] = groups[p]
        BY <2>3, <4>3
      <4>. QED BY <3>2, <4>4 DEF Filled
    <3>3. CASE ~(p <= m) /\ ~(p > Groups - n)
      <4>1. p \in m + 1 .. Groups - n
        BY <1>1, <2>2, <3>3
      <4>. QED BY <2>1, <3>3, <4>1 DEF Filled
    <3>. QED BY <3>1, <3>2, <3>3
  <2>8. Filled(text, m, n) = groups
    <3> DEFINE filled == Filled(text, m, n)
    <3>1. filled = [p \in 1 .. Groups |-> filled[p]] /\ groups = [p \in 1 .. Groups |-> groups[p]]
      BY DEF Filled
    <3> HIDE DEF filled
    <3>2. \A p \in 1 .. Groups : filled[p] = groups[p]
      BY <2>7 DEF filled
    <3>3. filled = groups
      BY <3>1, <3>2, Zenon
    <3>. QED BY <3>3 DEF filled
  <2>. QED BY <2>3, <2>6, <2>8
<1>. QED BY <1>3, <1>4 DEF Means, WrittenAs

(* Where dots, a word or a group too many lead.                                    *)
LEMMA DotsRaise ==
    ASSUME NEW text \in Seq(Piece), ~Plain(text)
    PROVE  /\ \/ Addr!InetPton(text) = Addr!Raises("AttributeError")
              \/ Addr!InetPton(text) = Addr!Raises("ValueError")
           /\ Len(text) > 1 /\ text[Len(text)] = Quad =>
                Addr!InetPton(text) = Addr!Raises("AttributeError")
<1>1. \E k \in DOMAIN text : text[k] \in {Quad, Dotted}
  BY DEF Plain
<1>2. text[Len(text)] = Quad => Addr!InetAton(<<Addr!Last(text)>>)
  BY DEF Addr!InetAton, Addr!Last
<1>. QED BY <1>1, <1>2 DEF Addr!InetPton

BadWrites(text) ==
    LET W == Addr!Writes(text) IN {k \in DOMAIN W : Addr!NoInt(W[k]) \/ Addr!OffList(W[k])}

LEMMA PlainRaises ==
    ASSUME NEW text, text \in Seq(Piece), Plain(text)
    PROVE  /\ BadWrites(text) # {} =>
                Addr!InetPton(text) =
                  Addr!Raises(IF Addr!NoInt(Addr!Writes(text)[Addr!Min(BadWrites(text))])
                              THEN "ValueError" ELSE "IndexError")
           /\ BadWrites(text) = {} =>
                \/ Addr!InetPton(text) = Addr!Raises("ValueError")
                \/ ~Addr!Raised(Addr!InetPton(text))
<1>1. ~ \E k \in DOMAIN text : text[k] \in {Quad, Dotted}
  BY DEF Plain
<1> DEFINE W == Addr!Writes(text)
           bad == {k \in DOMAIN W : Addr!NoInt(W[k]) \/ Addr!OffList(W[k])}
<1>2. bad = BadWrites(text)
  BY DEF BadWrites
<1> HIDE DEF W, bad
<1>3. Addr!InetPton(text) =
        IF bad # {}
        THEN Addr!Raises(IF Addr!NoInt(W[Addr!Min(bad)]) THEN "ValueError" ELSE "IndexError")
        ELSE IF \E g \in 1 .. Groups : Addr!Assigned(W)[g] >= Base THEN Addr!Raises("ValueError")
        ELSE [groups |-> Addr!Assigned(W)]
  BY <1>1 DEF Addr!InetPton, W, bad
<1>4. ~Addr!Raised([groups |-> Addr!Assigned(W)])
  BY DEF Addr!Raised
<1>. QED BY <1>2, <1>3, <1>4 DEF W

LEMMA WordIsNoAddress ==
    ASSUME NEW text \in Seq(Piece), \E k \in 1 .. Len(text) : text[k] = Word,
           \A k \in 1 .. Len(text) : text[k] # Empty
    PROVE  Addr!IsIp(text) \notin {"INET", "INET6"}
<1>1. ~Addr!InetAton(text)
  <2>1. Len(text) = 1 => text[1] = Word
    OBVIOUS
  <2>. QED BY <2>1, Markers DEF Addr!InetAton, Addr!IsNumber
<1>2. ~Plain(text) => Addr!IsIp(text) \notin {"INET", "INET6"}
  BY <1>1, DotsRaise, IsIpIs
<1>3. ASSUME Plain(text) PROVE Addr!IsIp(text) \notin {"INET", "INET6"}
  <2>1. PICK k \in 1 .. Len(text) : text[k] = Word
    OBVIOUS
  <2>2. WritesOf(Addr!Writes(text), text, Len(text), 0)
    BY WritesWithoutGap
  <2>3. k \in DOMAIN Addr!Writes(text) /\ Addr!Writes(text)[k].val = Word
    <3>1. 1 .. Len(text) + 0 = 1 .. Len(text)
      OBVIOUS
    <3>. QED BY <2>1, <2>2, <3>1 DEF WritesOf
  <2>4. k \in BadWrites(text)
    BY <2>3 DEF BadWrites, Addr!NoInt
  <2>5. \/ Addr!InetPton(text) = Addr!Raises("ValueError")
        \/ Addr!InetPton(text) = Addr!Raises("IndexError")
    BY <1>3, <2>4, PlainRaises
  <2>. QED BY <1>1, <2>5, IsIpIs
<1>. QED BY <1>2, <1>3

LEMMA GroupTooMany ==
    ASSUME NEW text \in Seq(Piece), \A k \in 1 .. Len(text) : text[k] \in Nat, Len(text) > Groups
    PROVE  Addr!IsIp(text) = "IndexError"
<1>1. Groups \in Nat /\ Groups > 1 /\ Len(text) \in Nat
  BY Numerals
<1>2. \A k \in 1 .. Len(text) : text[k] \in Int
  OBVIOUS
<1>3. Plain(text) /\ \A k \in 1 .. Len(text) : text[k] # Empty
  BY <1>2, Markers DEF Plain
<1>4. ~Addr!InetAton(text)
  BY <1>1 DEF Addr!InetAton
<1> DEFINE W == Addr!Writes(text)
           L == Len(text)
<1>5. DOMAIN W = 1 .. L /\ \A k \in 1 .. L : W[k].at = k - 1 /\ W[k].val = text[k]
  <2>1. WritesOf(W, text, L, 0)
    BY <1>3, WritesWithoutGap
  <2> HIDE DEF W
  <2>2. 1 .. L + 0 = 1 .. L
    BY <1>1
  <2>. QED BY <2>1, <2>2 DEF WritesOf
<1> HIDE DEF W
<1>6. \A k \in 1 .. L : ~Addr!NoInt(W[k])
  BY <1>2, <1>5, Markers DEF Addr!NoInt
<1>7. \A k \in 1 .. L : Addr!OffList(W[k]) <=> k > Groups
  <2>1. ASSUME NEW k \in 1 .. L PROVE W[k].at \notin -Groups .. Groups - 1 <=> k > Groups
    <3>1. W[k].at = k - 1
      BY <1>5
    <3>2. k - 1 \notin -Groups .. Groups - 1 <=> k > Groups
      BY <1>1
    <3>. QED BY <3>1, <3>2
  <2>. QED BY <2>1 DEF Addr!OffList
<1> HIDE DEF L
<1>8. BadWrites(text) = {k \in 1 .. L : k > Groups}
  BY <1>5, <1>6, <1>7 DEF BadWrites, W
<1> DEFINE x == Groups + 1
<1>9. x \in BadWrites(text) /\ \A y \in BadWrites(text) : x <= y
  BY <1>1, <1>8 DEF L
<1>10. BadWrites(text) \in SUBSET Nat /\ x \in 1 .. L
  BY <1>1, <1>8 DEF L
<1> HIDE DEF x
<1>11. Addr!Min(BadWrites(text)) = x
  BY <1>9, <1>10, MinIs
<1>12. Addr!InetPton(text) = Addr!Raises("IndexError")
  BY <1>3, <1>6, <1>9, <1>10, <1>11, PlainRaises DEF W
<1>. QED BY <1>4, <1>12, IsIpIs

LEMMA ErrorsOfIsIp ==
    ASSUME NEW text \in Seq(Piece), Plain(text), Len(text) <= Groups
    PROVE  Addr!IsIp(text) \in {"INET", "INET6", "False"}
<1>1. Groups \in Nat /\ Groups > 1 /\ Len(text) \in Nat
  BY Numerals
<1> DEFINE W == Addr!Writes(text)
<1>2. \E m, n : /\ WritesOf(W, text, m, n) /\ m \in Nat /\ n \in Nat
                /\ m <= Len(text) /\ n <= Len(text)
  <2>1. CASE \E k \in 1 .. Len(text) : text[k] = Empty
    <3>1. PICK m, n : GapAt(text, m, n)
      BY <2>1, GapExists
    <3>2. WritesOf(W, text, m, n)
      BY <3>1, WritesWithGap
    <3> HIDE DEF W
    <3>. QED BY <3>1, <3>2 DEF GapAt
  <2>2. CASE \A k \in 1 .. Len(text) : text[k] # Empty
    <3>1. WritesOf(W, text, Len(text), 0)
      BY <2>2, WritesWithoutGap
    <3> HIDE DEF W
    <3>. QED BY <1>1, <3>1
  <2>. QED BY <2>1, <2>2
<1> HIDE DEF W
<1>3. PICK m \in Nat, n \in Nat : WritesOf(W, text, m, n) /\ m <= Groups /\ n <= Groups
  BY <1>1, <1>2
<1>4. ASSUME NEW k \in DOMAIN W PROVE ~Addr!OffList(W[k])
  <2>1. k \in 1 .. m + n
    BY <1>3 DEF WritesOf
  <2>2. CASE k \in 1 .. m
    <3>1. W[k].at = k - 1 /\ k - 1 \in -Groups .. Groups - 1
      BY <1>1, <1>3, <2>2 DEF WritesOf
    <3>. QED BY <3>1 DEF Addr!OffList
  <2>3. CASE k \notin 1 .. m
    <3>1. PICK j \in 1 .. n : k = m + j
      <4>1. k - m \in 1 .. n /\ k = m + (k - m)
        BY <2>1, <2>3
      <4>. QED BY <4>1
    <3>2. W[k].at = Groups - j
      BY <1>3, <3>1 DEF WritesOf
    <3>3. Groups - j \in -Groups .. Groups - 1
      BY <1>1, <1>3
    <3>. QED BY <3>2, <3>3 DEF Addr!OffList
  <2>. QED BY <2>2, <2>3
<1>5. \A k \in BadWrites(text) : Addr!NoInt(W[k])
  BY <1>4 DEF BadWrites, W
<1>6. BadWrites(text) # {} => Addr!NoInt(W[Addr!Min(BadWrites(text))])
  <2>1. DOMAIN W \subseteq Nat
    BY <1>3 DEF WritesOf
  <2>2. BadWrites(text) \in SUBSET Nat
    BY <2>1 DEF BadWrites, W
  <2>3. BadWrites(text) # {} => Min(BadWrites(text)) \in BadWrites(text)
    BY <2>2, MinIsLeast
  <2>4. Addr!Min(BadWrites(text)) = Min(BadWrites(text))
    BY DEF Min, Addr!Min
  <2>. QED BY <1>5, <2>3, <2>4
<1>7. Addr!InetPton(text) = Addr!Raises("ValueError") \/ ~Addr!Raised(Addr!InetPton(text))
  BY <1>6, PlainRaises DEF W
<1>. QED BY <1>7, IsIpIs

LEMMA TextsAreExact ==
    ASSUME NEW i \in TextInputs, i = input, result = TextAnswer(i)
    PROVE  TextsExact
<1> DEFINE text == i.text
<1>1. text \in BoundedSeq(Pieces, MaxPieces) /\ text # <<>> /\ input.text = text
  BY DEF TextInputs
<1>2. result.is = Addr!IsIp(text) /\ result.pton = Addr!InetPton(text)
  BY DEF TextAnswer
<1> HIDE DEF text
<1>3. /\ text \in Seq(Pieces) /\ Len(text) \in Nat /\ Len(text) # 0
      /\ \A k \in 1 .. Len(text) : text[k] \in Pieces
  <2>1. MaxPieces \in Nat
    BY FormatsAssumption DEF FormatsAssumption
  <2>. QED BY <1>1, <2>1, BoundedIsSeq
<1>4. Pieces \subseteq Piece
  BY FormatsAssumption DEF FormatsAssumption, Piece
<1>5. text \in Seq(Piece)
  BY <1>3, <1>4
<1>6. \A x \in Piece : Addr!IsNumber(x) => x \in Nat
  BY DEF Addr!IsNumber, Piece, NoNumbers
<1>7. Range(text) = {text[k] : k \in 1 .. Len(text)}
  BY <1>3 DEF Range
<1>8. Groups \in Nat /\ Groups > 1 /\ Base \in Nat /\ Base > 1
  BY Numerals
<1>9. ASSUME NEW groups \in [1 .. Groups -> {0} \cup {p \in Pieces : Numbers(<<p>>)}],
             Means(text, groups)
      PROVE  result.is = "INET6" /\ result.pton = [groups |-> groups]
  <2>1. ASSUME NEW p \in Pieces, Numbers(<<p>>) PROVE p \in 0 .. Base - 1
    <3>1. DOMAIN <<p>> = 1 .. 1 /\ <<p>>[1] = p /\ 1 \in 1 .. 1
      OBVIOUS
    <3>2. Addr!IsNumber(p) /\ p < Base
      BY <2>1, <3>1 DEF Numbers
    <3>3. p \in Nat
      BY <1>4, <1>6, <3>2
    <3>. QED BY <1>8, <3>2, <3>3
  <2>2. 0 \in 0 .. Base - 1
    BY <1>8
  <2>3. groups \in [1 .. Groups -> 0 .. Base - 1]
    BY <2>1, <2>2
  <2>. QED BY <1>2, <1>5, <1>9, <2>3, MeantIsRead
<1>10. text = <<Quad>> => result.is = "INET"
  <2>1. text = <<Quad>> => Addr!InetAton(text)
    BY DEF Addr!InetAton
  <2>. QED BY <1>2, <2>1, IsIpIs
<1>11. Word \in Range(text) /\ Empty \notin Range(text) => result.is \notin {"INET", "INET6"}
  BY <1>2, <1>5, <1>7, WordIsNoAddress
<1>12. ASSUME Last(text) = Quad, Len(text) > 1 PROVE result.is = "AttributeError"
  <2>1. text[Len(text)] = Quad
    BY <1>12 DEF Last
  <2>2. ~Plain(text)
    BY <1>3, <1>12, <2>1 DEF Plain
  <2>3. Addr!InetPton(text) = Addr!Raises("AttributeError")
    BY <1>5, <1>12, <2>1, <2>2, DotsRaise
  <2>4. ~Addr!InetAton(text)
    <3>1. Len(text) # 1
      BY <1>3, <1>12
    <3>. QED BY <3>1, Zenon DEF Addr!InetAton
  <2>. QED BY <1>2, <2>3, <2>4, IsIpIs
<1>13. ASSUME Numbers(text), Len(text) > Groups PROVE result.is = "IndexError"
  <2>1. \A k \in 1 .. Len(text) : text[k] \in Nat
    <3>1. DOMAIN text = 1 .. Len(text)
      BY <1>3
    <3>. QED BY <1>3, <1>4, <1>6, <1>13, <3>1 DEF Numbers
  <2>. QED BY <1>2, <1>5, <1>13, <2>1, GroupTooMany
<1>14. ASSUME ~(Len(text) > Groups), {Quad, Dotted} \cap Range(text) = {}
       PROVE  result.is \notin {"AttributeError", "IndexError"}
  <2>1. Plain(text)
    BY <1>7, <1>14 DEF Plain
  <2>2. Len(text) <= Groups
    BY <1>3, <1>8, <1>14
  <2>3. result.is \in {"INET", "INET6", "False"}
    BY <1>2, <1>5, <2>1, <2>2, ErrorsOfIsIp
  <2>. QED BY <2>3
<1>. QED BY <1>1, <1>9, <1>10, <1>11, <1>12, <1>13, <1>14 DEF TextsExact

(* Every text of an IPv6 address is read as its groups and no other error than      *)
(* the two named ends a caller of is_ip; what inet_ntop writes reads back exactly   *)
(* if the zeros stand together, for addresses of every number of groups             *)
(* (common.py 58-107).                                                              *)
THEOREM TextsHold == Spec => []TextsReadBack
<1>1. ASSUME IInv PROVE TextsExact
  <2>1. CASE Handled("text")
    <3>1. input \in TextInputs /\ result = TextAnswer(input)
      BY <1>1, <2>1, InputOfKind, InputSets DEF IInv, Handled, Answered
    <3>. QED BY <3>1, TextsAreExact
  <2>. QED BY <2>1 DEF TextsExact
<1>2. ASSUME IInv PROVE GroupsReadBack
  <2>1. CASE Handled("groups")
    <3>1. input \in GroupsInputs /\ result = GroupsAnswer(input)
      BY <1>2, <2>1, InputOfKind, InputSets DEF IInv, Handled, Answered
    <3>. QED BY <3>1, GroupsAreReadBack
  <2>. QED BY <2>1 DEF GroupsReadBack
<1>3. IInv => TextsReadBack
  BY <1>1, <1>2 DEF TextsReadBack
<1>. QED BY <1>3, IInvHolds, PTL

-----------------------------------------------------------------------------------
(* Names.  The functions that read them exist: a loop at a position depends on      *)
(* what it makes of later positions, and a call on those it may still make.         *)

LoopStep(data, depth, inner, from, p) ==
    IF p >= Len(data) THEN DNS!Raises("IndexError")
    ELSE IF data[p + 1] = 0 THEN [end |-> p + 1, labels |-> <<>>]
    ELSE IF ~DNS!IsPointer(data[p + 1])
    THEN DNS!WithLabel(data, p, from[p + 1 + data[p + 1]])
    ELSE IF p + 1 >= Len(data) THEN DNS!Raises("struct.error")
    ELSE IF depth = 0 THEN DNS!Raises("RecursionError")
    ELSE DNS!WithPointer(p, inner[DNS!Pointer(data, p)])

Loops(data, depth, inner, from) == from = [p \in Nat |-> LoopStep(data, depth, inner, from, p)]
TheLoop(data, depth, inner) == CHOOSE from : Loops(data, depth, inner, from)
Calls(data, called) ==
    called = [depth \in 0 .. MaxRecursion |-> TheLoop(data, depth, called[depth - 1])]

LEMMA LabelsFromIs ==
    ASSUME NEW data
    PROVE  DNS!LabelsFrom(data) = CHOOSE called : Calls(data, called)
BY DEF DNS!LabelsFrom, Calls, TheLoop, Loops, LoopStep

LEMMA LoopAhead ==
    ASSUME NEW data \in Seq(Nat), NEW depth, NEW inner, NEW f, NEW g, NEW p \in Nat,
           \A q \in Nat : q > p => f[q] = g[q]
    PROVE  LoopStep(data, depth, inner, f, p) = LoopStep(data, depth, inner, g, p)
<1>1. CASE p >= Len(data)
  BY <1>1 DEF LoopStep
<1>2. CASE ~(p >= Len(data))
  <2>1. data[p + 1] \in Nat
    <3>1. p + 1 \in 1 .. Len(data)
      BY <1>2
    <3>. QED BY <3>1
  <2>2. p + 1 + data[p + 1] \in Nat /\ p + 1 + data[p + 1] > p
    BY <2>1
  <2>3. f[p + 1 + data[p + 1]] = g[p + 1 + data[p + 1]]
    BY <2>2
  <2>. QED BY <2>3, Zenon DEF LoopStep
<1>. QED BY <1>1, <1>2

LEMMA LoopExists ==
    ASSUME NEW data \in Seq(Nat), NEW depth, NEW inner
    PROVE  \E from : Loops(data, depth, inner, from)
<1> DEFINE L == Len(data)
           Good(f, m) == /\ f = [p \in Nat |-> f[p]]
                         /\ \A p \in Nat : p >= L - m => f[p] = LoopStep(data, depth, inner, f, p)
           U == {m \in 0 .. L : \E f : Good(f, m)}
<1>0. L \in Nat
  OBVIOUS
<1>1. 0 \in U
  <2> DEFINE f == [p \in Nat |-> DNS!Raises("IndexError")]
  <2>1. \A p \in Nat : p >= L => LoopStep(data, depth, inner, f, p) = DNS!Raises("IndexError")
    BY DEF LoopStep
  <2>2. \A p \in Nat : f[p] = DNS!Raises("IndexError")
    OBVIOUS
  <2>3. f = [p \in Nat |-> f[p]]
    OBVIOUS
  <2> HIDE DEF f, L
  <2>4. L - 0 = L
    BY <1>0
  <2>5. Good(f, 0)
    BY <2>1, <2>2, <2>3, <2>4
  <2> HIDE DEF Good
  <2>. QED BY <1>0, <2>5
<1>2. ASSUME NEW m \in 0 .. L - 1, m \in U PROVE m + 1 \in U
  <2>1. PICK f : Good(f, m)
    BY <1>2
  <2> DEFINE q == L - (m + 1)
             g == [p \in Nat |-> IF p = q THEN LoopStep(data, depth, inner, f, q) ELSE f[p]]
  <2>2. q \in Nat /\ \A p \in Nat : p >= q => p = q \/ (p > q /\ p >= L - m)
    BY <1>0
  <2> HIDE DEF q
  <2>3. g = [p \in Nat |-> g[p]]
    OBVIOUS
  <2>4. \A p \in Nat : g[p] = IF p = q THEN LoopStep(data, depth, inner, f, q) ELSE f[p]
    OBVIOUS
  <2> HIDE DEF g
  <2>5. ASSUME NEW p \in Nat, p >= q
        PROVE  LoopStep(data, depth, inner, f, p) = LoopStep(data, depth, inner, g, p)
    <3>1. ASSUME NEW r \in Nat, r > p PROVE f[r] = g[r]
      <4>1. r # q
        BY <2>2, <2>5, <3>1
      <4>. QED BY <2>4, <4>1
    <3>. QED BY <3>1, LoopAhead
  <2>6. ASSUME NEW p \in Nat, p >= q PROVE g[p] = LoopStep(data, depth, inner, g, p)
    <3>1. CASE p = q
      BY <2>4, <2>5, <2>6, <3>1
    <3>2. CASE p # q
      <4>1. g[p] = f[p] /\ p >= L - m
        BY <2>2, <2>4, <2>6, <3>2
      <4>2. f[p] = LoopStep(data, depth, inner, f, p)
        BY <2>1, <4>1
      <4>. QED BY <2>5, <2>6, <4>1, <4>2
    <3>. QED BY <3>1, <3>2
  <2>7. Good(g, m + 1)
    BY <2>3, <2>6 DEF q
  <2>8. m + 1 \in 0 .. L
    BY <1>0
  <2> HIDE DEF Good
  <2>. QED BY <2>7, <2>8
<1> HIDE DEF U, L
<1>3. L \in U
  <2>1. \A m \in 0 .. L : m \in U
    BY <1>0, <1>1, <1>2, UpTo
  <2>. QED BY <1>0, <2>1
<1>4. PICK f : Good(f, L)
  BY <1>3 DEF U
<1>5. \A p \in Nat : f[p] = LoopStep(data, depth, inner, f, p)
  BY <1>0, <1>4
<1>6. Loops(data, depth, inner, f)
  <2>1. f = [p \in Nat |-> f[p]]
    BY <1>4
  <2>2. [p \in Nat |-> f[p]] = [p \in Nat |-> LoopStep(data, depth, inner, f, p)]
    BY <1>5
  <2>. QED BY <2>1, <2>2, Zenon DEF Loops
<1>. QED BY <1>6

LEMMA LoopIs ==
    ASSUME NEW data \in Seq(Nat), NEW depth, NEW inner, NEW p \in Nat
    PROVE  TheLoop(data, depth, inner)[p]
             = LoopStep(data, depth, inner, TheLoop(data, depth, inner), p)
<1> DEFINE f == TheLoop(data, depth, inner)
<1>1. Loops(data, depth, inner, f)
  <2>1. \E from : Loops(data, depth, inner, from)
    BY LoopExists
  <2>. QED BY <2>1, Zenon DEF TheLoop
<1> HIDE DEF f
<1>2. f[p] = LoopStep(data, depth, inner, f, p)
  BY <1>1 DEF Loops
<1>. QED BY <1>2 DEF f

LEMMA NoCallLeft ==
    ASSUME NEW data, NEW x, NEW y
    PROVE  TheLoop(data, 0, x) = TheLoop(data, 0, y)
<1>1. \A from, p : LoopStep(data, 0, x, from, p) = LoopStep(data, 0, y, from, p)
  BY DEF LoopStep
<1>2. \A from : Loops(data, 0, x, from) <=> Loops(data, 0, y, from)
  BY <1>1 DEF Loops
<1>. QED BY <1>2, Zenon DEF TheLoop

LEMMA CallsExist ==
    ASSUME NEW data
    PROVE  \E called : Calls(data, called)
<1> DEFINE Good(c, m) == /\ c = [d \in 0 .. m |-> c[d]]
                         /\ \A d \in 0 .. m : c[d] = TheLoop(data, d, c[d - 1])
           U == {m \in 0 .. MaxRecursion : \E c : Good(c, m)}
<1>0. MaxRecursion \in Nat
  BY FormatsAssumption DEF FormatsAssumption
<1>1. 0 \in U
  <2> DEFINE c == [d \in 0 .. 0 |-> TheLoop(data, 0, 0)]
  <2>1. c[0] = TheLoop(data, 0, 0) /\ c = [d \in 0 .. 0 |-> c[d]]
    OBVIOUS
  <2> HIDE DEF c
  <2>2. c[0] = TheLoop(data, 0, c[0 - 1])
    BY <2>1, NoCallLeft
  <2>3. \A d \in 0 .. 0 : d = 0
    OBVIOUS
  <2>4. Good(c, 0)
    BY <2>1, <2>2, <2>3
  <2> HIDE DEF Good
  <2>. QED BY <1>0, <2>4
<1>2. ASSUME NEW m \in 0 .. MaxRecursion - 1, m \in U PROVE m + 1 \in U
  <2>1. PICK c : Good(c, m)
    BY <1>2
  <2> DEFINE g == [d \in 0 .. m + 1 |-> IF d = m + 1 THEN TheLoop(data, m + 1, c[m]) ELSE c[d]]
  <2>2. g = [d \in 0 .. m + 1 |-> g[d]]
    OBVIOUS
  <2>3. \A d \in 0 .. m + 1 : g[d] = IF d = m + 1 THEN TheLoop(data, m + 1, c[m]) ELSE c[d]
    OBVIOUS
  <2> HIDE DEF g
  <2>4. ASSUME NEW d \in 0 .. m + 1 PROVE g[d] = TheLoop(data, d, g[d - 1])
    <3>1. CASE d = m + 1
      <4>1. d - 1 = m /\ m \in 0 .. m + 1 /\ m # m + 1
        BY <3>1
      <4>2. g[d - 1] = c[m]
        BY <2>3, <4>1
      <4>. QED BY <2>3, <3>1, <4>2
    <3>2. CASE d # m + 1 /\ d # 0
      <4>1. d \in 0 .. m /\ d - 1 \in 0 .. m + 1 /\ d - 1 # m + 1
        BY <3>2
      <4>2. g[d - 1] = c[d - 1] /\ g[d] = c[d]
        BY <2>3, <3>2, <4>1
      <4>. QED BY <2>1, <4>1, <4>2
    <3>3. CASE d = 0
      <4>1. 0 \in 0 .. m /\ 0 # m + 1
        OBVIOUS
      <4>2. g[0] = c[0]
        BY <2>3, <3>3, <4>1
      <4>3. c[0] = TheLoop(data, 0, c[0 - 1])
        BY <2>1, <4>1
      <4>. QED BY <3>3, <4>2, <4>3, NoCallLeft
    <3>. QED BY <3>1, <3>2, <3>3
  <2>5. Good(g, m + 1)
    BY <2>2, <2>4
  <2>6. m + 1 \in 0 .. MaxRecursion
    BY <1>0
  <2> HIDE DEF Good
  <2>. QED BY <2>5, <2>6
<1> HIDE DEF U
<1>3. MaxRecursion \in U
  BY <1>0, <1>1, <1>2, UpTo
<1>4. PICK c : Good(c, MaxRecursion)
  BY <1>3 DEF U
<1>5. Calls(data, c)
  <2>1. c = [d \in 0 .. MaxRecursion |-> c[d]]
    BY <1>4
  <2>2. [d \in 0 .. MaxRecursion |-> c[d]] = [d \in 0 .. MaxRecursion |-> TheLoop(data, d, c[d - 1])]
    BY <1>4
  <2>. QED BY <2>1, <2>2, Zenon DEF Calls
<1>. QED BY <1>5

(* What a call with depth further ones makes of the position p.                     *)
Read(data, depth, p) == DNS!LabelsFrom(data)[depth][p]

LEMMA ReadIs ==
    ASSUME NEW data \in Seq(Nat), NEW depth \in 0 .. MaxRecursion, NEW p \in Nat
    PROVE  /\ p >= Len(data) => Read(data, depth, p) = DNS!Raises("IndexError")
           /\ p < Len(data) /\ data[p + 1] = 0 =>
                Read(data, depth, p) = [end |-> p + 1, labels |-> <<>>]
           /\ p < Len(data) /\ data[p + 1] # 0 /\ ~DNS!IsPointer(data[p + 1]) =>
                Read(data, depth, p) = DNS!WithLabel(data, p, Read(data, depth, p + 1 + data[p + 1]))
           /\ p < Len(data) /\ data[p + 1] # 0 /\ DNS!IsPointer(data[p + 1]) /\ p + 1 >= Len(data) =>
                Read(data, depth, p) = DNS!Raises("struct.error")
           /\ p + 1 < Len(data) /\ data[p + 1] # 0 /\ DNS!IsPointer(data[p + 1]) =>
                Read(data, depth, p) =
                  IF depth = 0 THEN DNS!Raises("RecursionError")
                  ELSE DNS!WithPointer(p, Read(data, depth - 1, DNS!Pointer(data, p)))
<1> DEFINE called == DNS!LabelsFrom(data)
<1>1. Calls(data, called)
  <2>1. called = CHOOSE c : Calls(data, c)
    BY LabelsFromIs
  <2> HIDE DEF called
  <2>. QED BY <2>1, CallsExist, Zenon
<1> HIDE DEF called
<1>2. called[depth] = TheLoop(data, depth, called[depth - 1])
  BY <1>1 DEF Calls
<1>3. called[depth][p] = LoopStep(data, depth, called[depth - 1], called[depth], p)
  BY <1>2, LoopIs
<1>4. \A d, q : Read(data, d, q) = called[d][q]
  BY DEF Read, called
<1>5. Len(data) \in Nat /\ (p < Len(data) => ~(p >= Len(data)))
      /\ (p + 1 < Len(data) => p < Len(data) /\ ~(p + 1 >= Len(data)))
  OBVIOUS
<1>. QED BY <1>3, <1>4, <1>5, Zenon DEF LoopStep

-----------------------------------------------------------------------------------
(* Labels with dots between them.                                                   *)

DotBetween(a, b) == a \o <<DNS!Dot>> \o b

LEMMA DotIsOctet == <<DNS!Dot>> \in Seq(Nat)
BY DEF DNS!Dot

LEMMA DottedName ==
    ASSUME NEW a \in Seq(Nat), NEW b \in Seq(Nat) PROVE DotBetween(a, b) \in Seq(Nat)
<1> DEFINE dot == <<DNS!Dot>>
<1>1. dot \in Seq(Nat)
  BY DotIsOctet
<1> HIDE DEF dot
<1>2. a \o dot \in Seq(Nat)
  BY <1>1, ConcatProperties
<1>3. (a \o dot) \o b \in Seq(Nat)
  BY <1>2, ConcatProperties
<1>. QED BY <1>3 DEF DotBetween, dot

Cat(a, b) == a \o b

LEMMA CatAssociates ==
    ASSUME NEW a \in Seq(Nat), NEW b \in Seq(Nat), NEW c \in Seq(Nat)
    PROVE  Cat(Cat(a, b), c) = Cat(a, Cat(b, c))
BY ConcatAssociative, SMT DEF Cat

LEMMA CatIsSequence ==
    ASSUME NEW a \in Seq(Nat), NEW b \in Seq(Nat) PROVE Cat(a, b) \in Seq(Nat)
BY ConcatProperties DEF Cat

LEMMA DotsAssociate ==
    ASSUME NEW a \in Seq(Nat), NEW b \in Seq(Nat), NEW c \in Seq(Nat)
    PROVE  DotBetween(DotBetween(a, b), c) = DotBetween(a, DotBetween(b, c))
<1> DEFINE dot == <<DNS!Dot>>
<1>1. dot \in Seq(Nat)
  BY DotIsOctet
<1>2. \A x, y : DotBetween(x, y) = Cat(Cat(x, dot), y)
  BY DEF DotBetween, Cat
<1> HIDE DEF dot
<1>3. Cat(a, dot) \in Seq(Nat) /\ Cat(b, dot) \in Seq(Nat)
  BY <1>1, CatIsSequence
<1>4. Cat(Cat(Cat(a, dot), b), dot) = Cat(Cat(a, dot), Cat(b, dot))
  BY <1>1, <1>3, CatAssociates
<1>5. Cat(Cat(Cat(a, dot), Cat(b, dot)), c) = Cat(Cat(a, dot), Cat(Cat(b, dot), c))
  BY <1>3, CatAssociates
<1>. QED BY <1>2, <1>4, <1>5

JoinedBy(labels, f) ==
    f = [k \in 0 .. Len(labels) |->
            IF k = 0 THEN <<>>
            ELSE IF k = 1 THEN labels[1] ELSE DotBetween(f[k - 1], labels[k])]
Joined(labels) == CHOOSE f : JoinedBy(labels, f)

LEMMA JoinedExists ==
    ASSUME NEW labels \in Seq(Seq(Nat))
    PROVE  \E f \in [0 .. Len(labels) -> Seq(Nat)] : JoinedBy(labels, f)
<1> DEFINE T == Seq(Nat)
           n == Len(labels)
           step == [x \in (1 .. n) \X T |->
                       IF x[1] = 1 THEN labels[1] ELSE DotBetween(x[2], labels[x[1]])]
<1>0. n \in Nat /\ \A k \in 1 .. n : labels[k] \in T
  OBVIOUS
<1>1. \A a, b \in T : DotBetween(a, b) \in T
  BY DottedName
<1>2. <<>> \in T
  OBVIOUS
<1> HIDE DEF T
<1>3. \A k \in 1 .. n, v \in T :
        /\ step[<<k, v>>] = IF k = 1 THEN labels[1] ELSE DotBetween(v, labels[k])
        /\ step[<<k, v>>] \in T
  <2>1. ASSUME NEW k \in 1 .. n, NEW v \in T
        PROVE  /\ step[<<k, v>>] = IF k = 1 THEN labels[1] ELSE DotBetween(v, labels[k])
               /\ (IF k = 1 THEN labels[1] ELSE DotBetween(v, labels[k])) \in T
    <3>1. labels[1] \in T
      <4>1. 1 \in 1 .. n
        BY <1>0
      <4>. QED BY <1>0, <4>1
    <3>2. DotBetween(v, labels[k]) \in T
      BY <1>0, <1>1
    <3>. QED BY <3>1, <3>2
  <2>. QED BY <2>1
<1>4. step \in [(1 .. n) \X T -> T]
  <2>1. step = [x \in (1 .. n) \X T |-> step[x]]
    OBVIOUS
  <2> HIDE DEF step
  <2>2. \A x \in (1 .. n) \X T : step[x] \in T
    BY <1>3
  <2>. QED BY <2>1, <2>2
<1> HIDE DEF step
<1>5. PICK f \in [0 .. n -> T] : Stepped(f, n, <<>>, step)
  BY <1>0, <1>2, <1>4, StepsExist
<1>6. ASSUME NEW k \in 0 .. n
      PROVE  f[k] = IF k = 0 THEN <<>>
                    ELSE IF k = 1 THEN labels[1] ELSE DotBetween(f[k - 1], labels[k])
  <2>1. k = 0 => f[k] = <<>>
    BY <1>5 DEF Stepped
  <2>2. ASSUME k # 0 PROVE f[k] = IF k = 1 THEN labels[1] ELSE DotBetween(f[k - 1], labels[k])
    <3>1. k \in 1 .. n /\ k - 1 \in 0 .. n
      BY <1>0, <2>2
    <3>2. f[k - 1] \in T /\ f[k] = step[<<k, f[k - 1]>>]
      BY <1>5, <3>1 DEF Stepped
    <3>. QED BY <1>3, <3>1, <3>2
  <2>. QED BY <2>1, <2>2
<1>7. JoinedBy(labels, f)
  <2>1. f = [k \in 0 .. n |-> f[k]]
    OBVIOUS
  <2>2. [k \in 0 .. n |-> f[k]] =
          [k \in 0 .. n |-> IF k = 0 THEN <<>>
                            ELSE IF k = 1 THEN labels[1] ELSE DotBetween(f[k - 1], labels[k])]
    BY <1>6, Zenon
  <2>. QED BY <2>1, <2>2, Zenon DEF JoinedBy, n
<1>. QED BY <1>5, <1>7 DEF T, n

(* Joined(labels)[k] is what the first k labels make.                               *)
JoinedUpTo(labels, n, f) ==
    /\ f[0] = <<>>
    /\ n # 0 => f[1] = labels[1]
    /\ \A k \in 2 .. n : f[k] = DotBetween(f[k - 1], labels[k])
    /\ \A k \in 0 .. n : f[k] \in Seq(Nat)

LEMMA JoinedIs ==
    ASSUME NEW labels \in Seq(Seq(Nat))
    PROVE  JoinedUpTo(labels, Len(labels), Joined(labels))
<1> DEFINE f == Joined(labels)
           n == Len(labels)
           T == Seq(Nat)
<1>2. JoinedBy(labels, f)
  BY JoinedExists, Zenon DEF Joined
<1> HIDE DEF f
<1>0. n \in Nat /\ \A k \in 1 .. n : labels[k] \in T
  OBVIOUS
<1>1. <<>> \in T /\ \A a, b \in T : DotBetween(a, b) \in T
  BY DottedName
<1>3. \A k \in 0 .. n : f[k] = IF k = 0 THEN <<>>
                 ELSE IF k = 1 THEN labels[1] ELSE DotBetween(f[k - 1], labels[k])
  BY <1>2, Zenon DEF JoinedBy
<1> HIDE DEF n, T
<1>4. f[0] = <<>> /\ (n # 0 => f[1] = labels[1])
      /\ \A k \in 2 .. n : f[k] = DotBetween(f[k - 1], labels[k])
  <2>1. 0 \in 0 .. n /\ (n # 0 => 1 \in 0 .. n) /\ \A k \in 2 .. n : k \in 0 .. n /\ k # 0 /\ k # 1
    BY <1>0
  <2>. QED BY <1>3, <2>1, Zenon
<1> DEFINE U == {k \in 0 .. n : f[k] \in T}
<1>5. 0 \in U
  BY <1>0, <1>1, <1>4
<1>6. ASSUME NEW m \in 0 .. n - 1, m \in U PROVE m + 1 \in U
  <2>1. m + 1 \in 1 .. n /\ m + 1 \in 0 .. n /\ (m + 1) - 1 = m /\ (m = 0 => m + 1 = 1 /\ n # 0)
        /\ (m # 0 => m + 1 \in 2 .. n)
    BY <1>0
  <2>2. labels[m + 1] \in T /\ f[m] \in T
    BY <1>0, <1>6, <2>1
  <2>3. f[m + 1] \in T
    <3>1. CASE m = 0
      BY <1>4, <2>1, <2>2, <3>1
    <3>2. CASE m # 0
      BY <1>1, <1>4, <2>1, <2>2, <3>2
    <3>. QED BY <3>1, <3>2
  <2>. QED BY <2>1, <2>3
<1>7. \A k \in 0 .. n : k \in U
  <2> HIDE DEF U
  <2>. QED BY <1>0, <1>5, <1>6, UpTo
<1>8. JoinedUpTo(labels, n, f)
  BY <1>4, <1>7 DEF JoinedUpTo, T
<1>. QED BY <1>8 DEF f, n

LEMMA JoinIsJoined ==
    ASSUME NEW labels PROVE DNS!Join(labels) = Joined(labels)[Len(labels)]
BY DEF DNS!Join, Joined, JoinedBy, DotBetween

LEMMA JoinOfNone == DNS!Join(<<>>) = <<>>
<1> DEFINE none == <<>>
<1>1. none \in Seq(Seq(Nat)) /\ Len(none) = 0
  OBVIOUS
<1> HIDE DEF none
<1>2. JoinedUpTo(none, Len(none), Joined(none)) /\ DNS!Join(none) = Joined(none)[Len(none)]
  BY <1>1, JoinedIs, JoinIsJoined
<1>3. DNS!Join(none) = <<>>
  BY <1>1, <1>2 DEF JoinedUpTo
<1>. QED BY <1>3 DEF none

LEMMA JoinOfOne == ASSUME NEW s \in Seq(Nat) PROVE DNS!Join(<<s>>) = s
<1> DEFINE one == <<s>>
<1>1. one \in Seq(Seq(Nat)) /\ Len(one) = 1 /\ one[1] = s
  OBVIOUS
<1> HIDE DEF one
<1>2. JoinedUpTo(one, Len(one), Joined(one)) /\ DNS!Join(one) = Joined(one)[Len(one)]
  BY <1>1, JoinedIs, JoinIsJoined
<1>3. DNS!Join(one) = s
  BY <1>1, <1>2 DEF JoinedUpTo
<1>. QED BY <1>3 DEF one

LEMMA JoinIsName ==
    ASSUME NEW labels \in Seq(Seq(Nat)) PROVE DNS!Join(labels) \in Seq(Nat)
<1>1. Len(labels) \in 0 .. Len(labels)
  OBVIOUS
<1>2. JoinedUpTo(labels, Len(labels), Joined(labels))
  BY JoinedIs
<1>. QED BY <1>1, <1>2, JoinIsJoined DEF JoinedUpTo

(* A label in front of others.                                                      *)
LEMMA InFront ==
    ASSUME NEW S, NEW s \in S, NEW rest \in Seq(S)
    PROVE  /\ <<s>> \o rest \in Seq(S) /\ Len(<<s>> \o rest) = Len(rest) + 1
           /\ (<<s>> \o rest)[1] = s
           /\ \A k \in 1 .. Len(rest) : (<<s>> \o rest)[k + 1] = rest[k]
           /\ <<s>> \o rest # <<>>
<1> DEFINE one == <<s>>
           all == one \o rest
<1>1. one \in Seq(S) /\ Len(one) = 1 /\ one[1] = s /\ 1 \in 1 .. 1
  OBVIOUS
<1>0. Len(rest) \in Nat
  OBVIOUS
<1> HIDE DEF one
<1>2. GlueOf(S, one, rest, all)
  BY <1>1, GluedAs
<1> HIDE DEF all
<1>3. /\ all \in Seq(S) /\ Len(all) = 1 + Len(rest) /\ all[1] = s
      /\ \A k \in 1 .. Len(rest) : all[1 + k] = rest[k]
  BY <1>1, <1>2 DEF GlueOf
<1>4. 1 + Len(rest) = Len(rest) + 1 /\ \A k \in 1 .. Len(rest) : 1 + k = k + 1
  BY <1>0
<1>5. all # <<>>
  BY <1>0, <1>3
<1>. QED BY <1>3, <1>4, <1>5 DEF all, one

LEMMA JoinInFront ==
    ASSUME NEW s \in Seq(Nat), NEW labels \in Seq(Seq(Nat)), labels # <<>>
    PROVE  DNS!Join(<<s>> \o labels) = DotBetween(s, DNS!Join(labels))
<1> DEFINE more == <<s>> \o labels
           n == Len(labels)
           f == Joined(more)
           g == Joined(labels)
           T == Seq(Nat)
<1>0. n \in Nat /\ n # 0 /\ \A k \in 1 .. n : labels[k] \in T
  OBVIOUS
<1>1. more \in Seq(T) /\ Len(more) = n + 1 /\ more[1] = s /\ \A k \in 1 .. n : more[k + 1] = labels[k]
  BY InFront
<1> HIDE DEF more, n
<1>2. JoinedUpTo(more, n + 1, f) /\ DNS!Join(more) = f[n + 1]
  BY <1>1, JoinedIs, JoinIsJoined
<1>3. JoinedUpTo(labels, n, g) /\ DNS!Join(labels) = g[n]
  BY JoinedIs, JoinIsJoined DEF n
<1> HIDE DEF f, g
<1>4. /\ f[1] = s
      /\ \A k \in 2 .. n + 1 : f[k] = DotBetween(f[k - 1], more[k])
  BY <1>0, <1>1, <1>2 DEF JoinedUpTo
<1>5. /\ g[1] = labels[1]
      /\ \A k \in 2 .. n : g[k] = DotBetween(g[k - 1], labels[k])
      /\ \A k \in 0 .. n : g[k] \in T
  BY <1>0, <1>3 DEF JoinedUpTo
<1> DEFINE U == {m \in 0 .. n - 1 : f[m + 2] = DotBetween(s, g[m + 1])}
<1>6. 0 \in U
  <2>1. 2 \in 2 .. n + 1 /\ 2 - 1 = 1 /\ 1 \in 1 .. n /\ 1 + 1 = 2 /\ 0 + 2 = 2 /\ 0 + 1 = 1
        /\ 0 \in 0 .. n - 1
    BY <1>0
  <2>2. f[2] = DotBetween(f[1], more[2]) /\ more[2] = labels[1]
    BY <1>1, <1>4, <2>1
  <2>3. f[0 + 2] = DotBetween(s, g[0 + 1])
    BY <1>4, <1>5, <2>1, <2>2
  <2>. QED BY <2>1, <2>3
<1>7. ASSUME NEW m \in 0 .. (n - 1) - 1, m \in U PROVE m + 1 \in U
  <2>1. m + 3 \in 2 .. n + 1 /\ (m + 3) - 1 = m + 2 /\ m + 2 \in 1 .. n /\ (m + 2) + 1 = m + 3
        /\ m + 2 \in 2 .. n /\ (m + 2) - 1 = m + 1 /\ m + 1 \in 0 .. n - 1 /\ m + 1 \in 0 .. n
    BY <1>0
  <2>2. f[m + 3] = DotBetween(f[m + 2], labels[m + 2])
    BY <1>1, <1>4, <2>1
  <2>3. f[m + 2] = DotBetween(s, g[m + 1])
    BY <1>7
  <2>4. g[m + 2] = DotBetween(g[m + 1], labels[m + 2])
    BY <1>5, <2>1
  <2>5. g[m + 1] \in T /\ labels[m + 2] \in T
    BY <1>0, <1>5, <2>1
  <2>6. DotBetween(DotBetween(s, g[m + 1]), labels[m + 2])
          = DotBetween(s, DotBetween(g[m + 1], labels[m + 2]))
    BY <2>5, DotsAssociate
  <2>7. f[m + 3] = DotBetween(s, g[m + 2])
    BY <2>2, <2>3, <2>4, <2>6
  <2>8. (m + 1) + 2 = m + 3 /\ (m + 1) + 1 = m + 2
    OBVIOUS
  <2>. QED BY <2>1, <2>7, <2>8
<1>8. \A m \in 0 .. n - 1 : m \in U
  <2> HIDE DEF U
  <2>1. n - 1 \in Nat
    BY <1>0
  <2> DEFINE q == n - 1
  <2>2. q \in Nat /\ 0 \in U /\ \A m \in 0 .. q - 1 : m \in U => m + 1 \in U
    BY <1>6, <1>7, <2>1
  <2> HIDE DEF q
  <2>3. \A m \in 0 .. q : m \in U
    BY <2>2, UpTo
  <2>. QED BY <2>3 DEF q
<1>9. f[n + 1] = DotBetween(s, g[n])
  <2>1. n - 1 \in 0 .. n - 1 /\ (n - 1) + 2 = n + 1 /\ (n - 1) + 1 = n
    BY <1>0
  <2>2. n - 1 \in U
    BY <1>8, <2>1
  <2>3. f[(n - 1) + 2] = DotBetween(s, g[(n - 1) + 1])
    BY <2>2
  <2>. QED BY <2>1, <2>3
<1>. QED BY <1>2, <1>3, <1>9 DEF more

-----------------------------------------------------------------------------------
(* The positions that a name is read from.                                          *)

Onward(data, p) ==
    IF Within(data, p) /\ At(data, p) # 0 THEN Follow(data, p) ELSE p
Walks(data, w) ==
    w = [k \in 0 .. Len(data) + 1 |-> IF k = 0 THEN 0 ELSE Onward(data, w[k - 1])]

(* A name goes on from p.                                                           *)
GoesOn(data, p) == Within(data, p) /\ At(data, p) # 0

Octet == 0 .. 255

LEMMA OctetsAreNumbers ==
    ASSUME NEW data \in Seq(Octet)
    PROVE  /\ data \in Seq(Nat) /\ Len(data) \in Nat
           /\ \A k \in 1 .. Len(data) : data[k] \in 0 .. 255
<1>1. Octet \subseteq Nat
  BY DEF Octet
<1>2. Len(data) \in Nat /\ \A k \in 1 .. Len(data) : data[k] \in Octet
  OBVIOUS
<1>3. PICK n \in Nat : n = Len(data)
  BY <1>2
<1>4. data \in [1 .. n -> Octet]
  BY <1>3
<1>5. data \in [1 .. n -> Nat]
  BY <1>1, <1>4
<1>6. data \in Seq(Nat)
  BY <1>5, TakenAsSequence
<1>. QED BY <1>2, <1>6, Zenon DEF Octet

LEMMA OctetAt ==
    ASSUME NEW data \in Seq(Octet), NEW p \in Nat, p < Len(data)
    PROVE  At(data, p) \in 0 .. 255
<1>1. p + 1 \in 1 .. Len(data)
  BY OctetsAreNumbers
<1>. QED BY <1>1, OctetsAreNumbers DEF At

LEMMA FollowIs ==
    ASSUME NEW data \in Seq(Octet), NEW p \in Nat, GoesOn(data, p)
    PROVE  /\ Follow(data, p) \in Nat
           /\ ~OnPointer(data, p) =>
                Follow(data, p) = p + 1 + At(data, p) /\ Follow(data, p) > p
           /\ OnPointer(data, p) => Follow(data, p) = DNS!Pointer(data, p)
<1>1. Len(data) \in Nat /\ p < Len(data)
  BY OctetsAreNumbers DEF GoesOn, Within
<1>2. PICK a \in 1 .. 255 : a = At(data, p)
  <2>1. At(data, p) \in 0 .. 255 /\ At(data, p) # 0
    BY <1>1, OctetAt DEF GoesOn
  <2>. QED BY <2>1
<1>3. CASE OnPointer(data, p)
  <2>1. p + 1 \in Nat /\ p + 1 < Len(data) /\ a >= 192
    BY <1>2, <1>3 DEF GoesOn, Within, OnPointer
  <2>2. PICK b \in 0 .. 255 : b = At(data, p + 1)
    <3>1. At(data, p + 1) \in 0 .. 255
      BY <2>1, OctetAt
    <3>. QED BY <3>1
  <2>3. b = data[p + 2] /\ a = data[p + 1]
    <3>1. (p + 1) + 1 = p + 2
      OBVIOUS
    <3>. QED BY <1>2, <2>2, <3>1 DEF At
  <2>4. a % 64 = a - 192 /\ (a - 192) * 256 + b \in Nat
    BY <2>1
  <2>5. Follow(data, p) = (a - 192) * 256 + b
    BY <1>2, <1>3, <2>2 DEF Follow
  <2>6. DNS!Pointer(data, p) = (a - 192) * 256 + b
    BY <2>3, <2>4 DEF DNS!Pointer
  <2>7. Follow(data, p) \in Nat
    BY <2>4, <2>5
  <2>. QED BY <1>3, <2>5, <2>6, <2>7
<1>4. CASE ~OnPointer(data, p)
  <2>1. Follow(data, p) = p + 1 + a
    BY <1>2, <1>4 DEF Follow
  <2>2. p + 1 + a \in Nat /\ p + 1 + a > p
    OBVIOUS
  <2>. QED BY <1>2, <1>4, <2>1, <2>2
<1>. QED BY <1>3, <1>4

(* What a call makes of a position where a name goes on, and of one where it ends.  *)
LEMMA ReadOn ==
    ASSUME NEW data \in Seq(Octet), NEW depth \in 0 .. MaxRecursion, NEW p \in Nat,
           GoesOn(data, p)
    PROVE  /\ ~OnPointer(data, p) =>
                Read(data, depth, p) = DNS!WithLabel(data, p, Read(data, depth, Follow(data, p)))
           /\ OnPointer(data, p) =>
                Read(data, depth, p) =
                  IF depth = 0 THEN DNS!Raises("RecursionError")
                  ELSE DNS!WithPointer(p, Read(data, depth - 1, Follow(data, p)))
<1>1. data \in Seq(Nat)
  BY OctetsAreNumbers
<1>2. /\ p < Len(data) /\ data[p + 1] # 0
      /\ OnPointer(data, p) => p + 1 < Len(data)
      /\ OnPointer(data, p) <=> DNS!IsPointer(data[p + 1])
      /\ At(data, p) = data[p + 1]
  BY DEF GoesOn, Within, OnPointer, At, DNS!IsPointer
<1>3. /\ ~OnPointer(data, p) => Follow(data, p) = p + 1 + data[p + 1]
      /\ OnPointer(data, p) => Follow(data, p) = DNS!Pointer(data, p)
  BY <1>2, FollowIs
<1>. QED BY <1>1, <1>2, <1>3, ReadIs, Zenon

LEMMA ReadEnds ==
    ASSUME NEW data \in Seq(Octet), NEW depth \in 0 .. MaxRecursion, NEW p \in Nat
    PROVE  /\ ~Within(data, p) =>
                Read(data, depth, p) \in {DNS!Raises("IndexError"), DNS!Raises("struct.error")}
           /\ Within(data, p) /\ At(data, p) = 0 =>
                Read(data, depth, p) = [end |-> p + 1, labels |-> <<>>]
<1>1. data \in Seq(Nat) /\ Len(data) \in Nat
  BY OctetsAreNumbers
<1>2. CASE p >= Len(data)
  <2>1. ~Within(data, p)
    BY <1>1, <1>2 DEF Within
  <2>. QED BY <1>1, <1>2, <2>1, ReadIs
<1>3. CASE p < Len(data)
  <2>1. At(data, p) = data[p + 1] /\ At(data, p) \in 0 .. 255
    BY <1>3, OctetAt DEF At
  <2>2. CASE ~Within(data, p)
    <3>1. DNS!IsPointer(data[p + 1]) /\ p + 1 >= Len(data) /\ data[p + 1] # 0
      BY <1>1, <1>3, <2>1, <2>2 DEF Within, OnPointer, DNS!IsPointer
    <3>. QED BY <1>1, <1>3, <2>2, <3>1, ReadIs
  <2>3. CASE Within(data, p)
    BY <1>1, <1>3, <2>1, <2>3, ReadIs
  <2>. QED BY <2>2, <2>3
<1>. QED BY <1>1, <1>2, <1>3

LEMMA OnwardIsNumber ==
    ASSUME NEW data \in Seq(Octet), NEW p \in Nat PROVE Onward(data, p) \in Nat
<1>1. CASE GoesOn(data, p)
  BY <1>1, FollowIs DEF Onward
<1>2. CASE ~GoesOn(data, p)
  BY <1>2 DEF Onward, GoesOn
<1>. QED BY <1>1, <1>2

LEMMA WalksExist ==
    ASSUME NEW data \in Seq(Octet)
    PROVE  \E w \in [0 .. Len(data) + 1 -> Nat] : Walks(data, w)
<1> DEFINE n == Len(data) + 1
           step == [x \in (1 .. n) \X Nat |-> Onward(data, x[2])]
<1>0. n \in Nat
  OBVIOUS
<1>1. \A k \in 1 .. n, v \in Nat : step[<<k, v>>] = Onward(data, v)
  OBVIOUS
<1>2. step \in [(1 .. n) \X Nat -> Nat]
  <2>1. \A v \in Nat : Onward(data, v) \in Nat
    BY OnwardIsNumber
  <2>. QED BY <2>1
<1> HIDE DEF step, n
<1>3. PICK f \in [0 .. n -> Nat] : Stepped(f, n, 0, step)
  BY <1>0, <1>2, StepsExist
<1>4. ASSUME NEW k \in 0 .. n PROVE f[k] = IF k = 0 THEN 0 ELSE Onward(data, f[k - 1])
  <2>1. CASE k = 0
    BY <1>3, <2>1 DEF Stepped
  <2>2. CASE k # 0
    <3>1. k \in 1 .. n /\ k - 1 \in 0 .. n
      BY <1>0, <2>2
    <3>. QED BY <1>1, <1>3, <2>2, <3>1 DEF Stepped
  <2>. QED BY <2>1, <2>2
<1>5. Walks(data, f)
  <2>1. f = [k \in 0 .. n |-> f[k]]
    OBVIOUS
  <2>2. [k \in 0 .. n |-> f[k]] = [k \in 0 .. n |-> IF k = 0 THEN 0 ELSE Onward(data, f[k - 1])]
    BY <1>4, Zenon
  <2>. QED BY <2>1, <2>2, Zenon DEF Walks, n
<1>. QED BY <1>5 DEF n

LEMMA WalkIs ==
    ASSUME NEW data \in Seq(Octet)
    PROVE  /\ Walk(data)[0] = 0
           /\ \A k \in 1 .. Len(data) + 1 : Walk(data)[k] = Onward(data, Walk(data)[k - 1])
           /\ \A k \in 0 .. Len(data) + 1 : Walk(data)[k] \in Nat
<1> DEFINE w == Walk(data)
           n == Len(data) + 1
<1>0. n \in Nat
  OBVIOUS
<1>1. w = CHOOSE f : Walks(data, f)
  BY DEF Walk, Walks, Onward
<1> HIDE DEF w
<1>2. Walks(data, w)
  BY <1>1, WalksExist, Zenon
<1>3. \A k \in 0 .. n : w[k] = IF k = 0 THEN 0 ELSE Onward(data, w[k - 1])
  BY <1>2, Zenon DEF Walks
<1> HIDE DEF n
<1>4. w[0] = 0 /\ \A k \in 1 .. n : w[k] = Onward(data, w[k - 1])
  <2>1. 0 \in 0 .. n /\ \A k \in 1 .. n : k \in 0 .. n /\ k # 0
    BY <1>0
  <2>. QED BY <1>3, <2>1, Zenon
<1> DEFINE U == {k \in 0 .. n : w[k] \in Nat}
<1>5. 0 \in U
  BY <1>0, <1>4
<1>6. ASSUME NEW m \in 0 .. n - 1, m \in U PROVE m + 1 \in U
  <2>1. m + 1 \in 1 .. n /\ m + 1 \in 0 .. n /\ (m + 1) - 1 = m
    BY <1>0
  <2>2. w[m + 1] = Onward(data, w[m]) /\ w[m] \in Nat
    BY <1>4, <1>6, <2>1
  <2>. QED BY <2>1, <2>2, OnwardIsNumber
<1>7. \A k \in 0 .. n : k \in U
  <2> HIDE DEF U
  <2>. QED BY <1>0, <1>5, <1>6, UpTo
<1>8. \A k \in 0 .. n : w[k] \in Nat
  BY <1>7
<1>. QED BY <1>4, <1>8 DEF w, n

LEMMA RaisedOn ==
    ASSUME NEW data, NEW p, NEW e
    PROVE  /\ DNS!WithLabel(data, p, DNS!Raises(e)) = DNS!Raises(e)
           /\ DNS!WithPointer(p, DNS!Raises(e)) = DNS!Raises(e)
<1>1. DNS!Raised(DNS!Raises(e))
  BY DEF DNS!Raised, DNS!Raises
<1>. QED BY <1>1 DEF DNS!WithLabel, DNS!WithPointer

(* A set of positions that a name does not leave.                                   *)
LEMMA RoundRaises ==
    ASSUME NEW data \in Seq(Octet), NEW C \in SUBSET Nat,
           \A p \in C : GoesOn(data, p) /\ Follow(data, p) \in C
    PROVE  \A depth \in 0 .. MaxRecursion, p \in C :
              Read(data, depth, p) = DNS!Raises("RecursionError")
<1> DEFINE L == Len(data)
           All(d) == \A p \in C : Read(data, d, p) = DNS!Raises("RecursionError")
           U == {d \in 0 .. MaxRecursion : All(d)}
<1>0. L \in Nat /\ MaxRecursion \in Nat
  BY OctetsAreNumbers, FormatsAssumption DEF FormatsAssumption
<1>1. \A p \in C : p \in Nat /\ p < L
  BY DEF GoesOn, Within
<1>2. ASSUME NEW d \in 0 .. MaxRecursion, d # 0 => All(d - 1) PROVE All(d)
  <2> DEFINE V == {m \in 0 .. L : \A p \in C :
                      p >= L - m => Read(data, d, p) = DNS!Raises("RecursionError")}
  <2>0. d = 0 \/ (d # 0 /\ d - 1 \in 0 .. MaxRecursion)
    BY <1>0
  <2> HIDE DEF L
  <2>1. 0 \in V
    BY <1>0, <1>1
  <2>2. ASSUME NEW m \in 0 .. L - 1, m \in V PROVE m + 1 \in V
    <3>1. ASSUME NEW p \in C, p >= L - (m + 1)
          PROVE  Read(data, d, p) = DNS!Raises("RecursionError")
      <4>1. p \in Nat /\ GoesOn(data, p) /\ Follow(data, p) \in C
        BY <1>1
      <4>2. CASE OnPointer(data, p)
        <5>1. d # 0 => Read(data, d - 1, Follow(data, p)) = DNS!Raises("RecursionError")
          BY <1>2, <4>1
        <5>2. Read(data, d, p) = IF d = 0 THEN DNS!Raises("RecursionError")
                                 ELSE DNS!WithPointer(p, Read(data, d - 1, Follow(data, p)))
          BY <4>1, <4>2, ReadOn
        <5>. QED BY <5>1, <5>2, RaisedOn
      <4>3. CASE ~OnPointer(data, p)
        <5>1. Follow(data, p) \in Nat /\ Follow(data, p) > p
          BY <4>1, <4>3, FollowIs
        <5>2. Follow(data, p) >= L - m
          BY <1>0, <3>1, <4>1, <5>1
        <5>3. Read(data, d, Follow(data, p)) = DNS!Raises("RecursionError")
          BY <2>2, <4>1, <5>2
        <5>4. Read(data, d, p) = DNS!WithLabel(data, p, Read(data, d, Follow(data, p)))
          BY <4>1, <4>3, ReadOn
        <5>. QED BY <5>3, <5>4, RaisedOn
      <4>. QED BY <4>2, <4>3
    <3>2. m + 1 \in 0 .. L
      BY <1>0
    <3>. QED BY <3>1, <3>2
  <2>3. \A m \in 0 .. L : m \in V
    <3> HIDE DEF V
    <3>. QED BY <1>0, <2>1, <2>2, UpTo
  <2>4. L \in V
    BY <1>0, <2>3
  <2>. QED BY <1>0, <1>1, <2>4
<1> HIDE DEF All
<1>3. 0 \in U
  BY <1>0, <1>2
<1>4. ASSUME NEW m \in 0 .. MaxRecursion - 1, m \in U PROVE m + 1 \in U
  <2>1. m + 1 \in 0 .. MaxRecursion /\ (m + 1) - 1 = m
    BY <1>0
  <2>2. All(m)
    BY <1>4
  <2>. QED BY <1>2, <2>1, <2>2
<1>5. \A d \in 0 .. MaxRecursion : d \in U
  <2> HIDE DEF U
  <2>. QED BY <1>0, <1>3, <1>4, UpTo
<1>. QED BY <1>5 DEF All

LEMMA IntervalSize ==
    ASSUME NEW n \in Nat
    PROVE  /\ IsFiniteSet(0 .. n) /\ IsFiniteSet(0 .. n - 1)
           /\ Cardinality(0 .. n) = n + 1 /\ Cardinality(0 .. n - 1) = n
<1>1. 0 \in Int /\ n \in Int /\ n - 1 \in Int
  OBVIOUS
<1>2. IsFiniteSet(0 .. n) /\ Cardinality(0 .. n) = IF 0 > n THEN 0 ELSE n - 0 + 1
  BY <1>1, FS_Interval, Zenon
<1>3. /\ IsFiniteSet(0 .. n - 1)
      /\ Cardinality(0 .. n - 1) = IF 0 > n - 1 THEN 0 ELSE (n - 1) - 0 + 1
  BY <1>1, FS_Interval, Zenon
<1>. QED BY <1>2, <1>3

(* A name that has not ended after as many steps as the message has octets has      *)
(* come back to where it was.                                                       *)
LEMMA WalkComesBack ==
    ASSUME NEW data \in Seq(Octet), NEW n \in Nat, n = Len(data), NEW w,
           \A k \in 1 .. n + 1 : w[k] = Onward(data, w[k - 1]),
           \A k \in 0 .. n : w[k] \in Nat /\ GoesOn(data, w[k])
    PROVE  \E i \in 0 .. n : w[n + 1] = w[i]
<1> DEFINE f == [k \in 0 .. n |-> w[k]]
<1>1. \A k \in 0 .. n : w[k] \in 0 .. n - 1
  BY DEF GoesOn, Within
<1>2. \E x, y \in 0 .. n : x # y /\ w[x] = w[y]
  <2>1. f \in [0 .. n -> 0 .. n - 1]
    BY <1>1
  <2>2. /\ IsFiniteSet(0 .. n) /\ IsFiniteSet(0 .. n - 1)
        /\ Cardinality(0 .. n) = n + 1 /\ Cardinality(0 .. n - 1) = n
    BY IntervalSize
  <2>3. \A k \in 0 .. n : f[k] = w[k]
    OBVIOUS
  <2> HIDE DEF f
  <2>4. Cardinality(0 .. n - 1) < Cardinality(0 .. n)
    BY <2>2
  <2> DEFINE S == 0 .. n
             T == 0 .. n - 1
  <2> HIDE DEF S, T
  <2>5. \E x, y \in S : x # y /\ f[x] = f[y]
    <3>1. IsFiniteSet(S) /\ IsFiniteSet(T) /\ Cardinality(T) < Cardinality(S) /\ f \in [S -> T]
      BY <2>1, <2>2, <2>4 DEF S, T
    <3>. QED BY <3>1, FS_PigeonHole
  <2>. QED BY <2>3, <2>5 DEF S
<1>3. PICK x \in 0 .. n, y \in 0 .. n : x < y /\ w[x] = w[y]
  BY <1>2
<1> DEFINE q == n + 1 - y
           U == {m \in 0 .. q : w[x + m] = w[y + m]}
<1>4. q \in Nat /\ x + q \in 0 .. n /\ y + q = n + 1
  BY <1>3
<1>5. 0 \in U
  BY <1>3
<1>6. ASSUME NEW m \in 0 .. q - 1, m \in U PROVE m + 1 \in U
  <2>1. /\ x + m + 1 \in 1 .. n + 1 /\ y + m + 1 \in 1 .. n + 1 /\ m + 1 \in 0 .. q
        /\ (x + m + 1) - 1 = x + m /\ (y + m + 1) - 1 = y + m
        /\ x + (m + 1) = x + m + 1 /\ y + (m + 1) = y + m + 1
    BY <1>3, <1>4
  <2>2. w[x + m + 1] = Onward(data, w[x + m]) /\ w[y + m + 1] = Onward(data, w[y + m])
    BY <2>1
  <2>3. w[x + m] = w[y + m]
    BY <1>6
  <2>. QED BY <2>1, <2>2, <2>3
<1> HIDE DEF q, U
<1>7. q \in U
  <2>1. \A m \in 0 .. q : m \in U
    BY <1>4, <1>5, <1>6, UpTo
  <2>. QED BY <1>4, <2>1
<1>8. w[x + q] = w[y + q]
  BY <1>7 DEF U
<1>. QED BY <1>4, <1>8

LEMMA RoundName ==
    ASSUME NEW data \in Seq(Octet), NEW n \in Nat, n = Len(data), NEW w, w[0] = 0,
           \A k \in 1 .. n + 1 : w[k] = Onward(data, w[k - 1]),
           \A k \in 0 .. n : w[k] \in Nat /\ GoesOn(data, w[k])
    PROVE  /\ GoesOn(data, w[n + 1])
           /\ Read(data, MaxRecursion, 0) = DNS!Raises("RecursionError")
<1> DEFINE C == {w[k] : k \in 0 .. n}
<1>1. PICK i \in 0 .. n : w[n + 1] = w[i]
  BY WalkComesBack
<1>2. ASSUME NEW k \in 0 .. n PROVE Follow(data, w[k]) \in C
  <2>1. k + 1 \in 1 .. n + 1 /\ (k + 1) - 1 = k
    OBVIOUS
  <2>2. w[k + 1] = Follow(data, w[k])
    BY <2>1 DEF Onward, GoesOn
  <2>3. CASE k = n
    BY <1>1, <2>2, <2>3
  <2>4. CASE k # n
    <3>1. k + 1 \in 0 .. n
      BY <2>4
    <3>. QED BY <2>2, <3>1
  <2>. QED BY <2>3, <2>4
<1>3. C \in SUBSET Nat /\ 0 \in C /\ \A p \in C : GoesOn(data, p) /\ Follow(data, p) \in C
  <2>1. 0 \in 0 .. n
    OBVIOUS
  <2>. QED BY <1>2, <2>1
<1>4. MaxRecursion \in 0 .. MaxRecursion
  BY FormatsAssumption DEF FormatsAssumption
<1> HIDE DEF C
<1>5. Read(data, MaxRecursion, 0) = DNS!Raises("RecursionError")
  BY <1>3, <1>4, RoundRaises
<1>. QED BY <1>1, <1>5

-----------------------------------------------------------------------------------
(* A name that ends.                                                                *)

Names == Seq(Seq(Nat))

(* What is read of a name, as labels, next to the labels on its way.  A pointer     *)
(* makes one label of those it leads to, and one onto the zero an empty label, which *)
(* leaves a final dot.                                                              *)
ReadAs(read, labels, bare, ended) ==
    /\ read \in Names /\ labels \in Names
    /\ ended => read = <<>> /\ labels = <<>>
    /\ ~ended => read # <<>> /\ (labels = <<>> => bare)
    /\ DNS!Join(read) = IF bare /\ labels # <<>> /\ ~ended
                        THEN Cat(DNS!Join(labels), <<DNS!Dot>>) ELSE DNS!Join(labels)

LEMMA NoneReadAs == ASSUME NEW bare PROVE ReadAs(<<>>, <<>>, bare, TRUE)
BY DEF ReadAs, Names

LEMMA PointerReadAs ==
    ASSUME NEW read, NEW labels, NEW bare \in BOOLEAN, NEW ended \in BOOLEAN,
           ReadAs(read, labels, bare, ended), ended => bare
    PROVE  ReadAs(<<DNS!Join(read)>>, labels, bare, FALSE)
<1> DEFINE name == DNS!Join(read)
           one == <<name>>
<1>1. name \in Seq(Nat)
  BY JoinIsName DEF ReadAs, Names
<1> HIDE DEF name
<1>2. one \in Seq(Seq(Nat)) /\ one # <<>> /\ DNS!Join(one) = name
  BY <1>1, JoinOfOne
<1> HIDE DEF one
<1>3. labels = <<>> => bare
  BY DEF ReadAs
<1>4. name = IF bare /\ labels # <<>> THEN Cat(DNS!Join(labels), <<DNS!Dot>>) ELSE DNS!Join(labels)
  BY DEF ReadAs, name
<1>5. ReadAs(one, labels, bare, FALSE)
  BY <1>2, <1>3, <1>4 DEF ReadAs, Names
<1>. QED BY <1>5 DEF one, name

LEMMA LabelReadAs ==
    ASSUME NEW read, NEW labels, NEW bare \in BOOLEAN, NEW ended \in BOOLEAN, NEW s \in Seq(Nat),
           ReadAs(read, labels, bare, ended), ended => ~bare
    PROVE  ReadAs(<<s>> \o read, <<s>> \o labels, bare, FALSE)
<1> DEFINE more == <<s>> \o read
           way == <<s>> \o labels
           dot == <<DNS!Dot>>
           J == DNS!Join(labels)
<1>1. read \in Seq(Seq(Nat)) /\ labels \in Seq(Seq(Nat))
  BY DEF ReadAs, Names
<1>2. more \in Names /\ way \in Names /\ more # <<>> /\ way # <<>>
  BY <1>1, InFront DEF Names
<1>3. /\ read # <<>> => DNS!Join(more) = DotBetween(s, DNS!Join(read))
      /\ labels # <<>> => DNS!Join(way) = DotBetween(s, J)
  BY <1>1, JoinInFront
<1>4. /\ read = <<>> => DNS!Join(more) = s
      /\ labels = <<>> => DNS!Join(way) = s
  <2>1. <<s>> \o <<>> = <<s>>
    OBVIOUS
  <2>. QED BY <2>1, JoinOfOne
<1>5. dot \in Seq(Nat) /\ J \in Seq(Nat)
  BY <1>1, DotIsOctet, JoinIsName
<1>6. labels = <<>> => J = <<>>
  BY JoinOfNone
<1>7. \A x, y : DotBetween(x, y) = Cat(Cat(x, dot), y)
  BY DEF DotBetween, Cat
<1> HIDE DEF more, way, dot, J
<1>8. DNS!Join(more) = IF bare THEN Cat(DNS!Join(way), dot) ELSE DNS!Join(way)
  <2>1. CASE ended
    <3>1. read = <<>> /\ labels = <<>> /\ ~bare
      BY <2>1 DEF ReadAs
    <3>. QED BY <1>4, <3>1
  <2>2. CASE ~ended /\ labels = <<>>
    <3>1. read # <<>> /\ bare /\ DNS!Join(read) = J
      BY <2>2 DEF ReadAs, J
    <3>2. DNS!Join(more) = Cat(Cat(s, dot), <<>>) /\ DNS!Join(way) = s
      BY <1>3, <1>4, <1>6, <1>7, <2>2, <3>1
    <3>3. Cat(Cat(s, dot), <<>>) = Cat(s, dot)
      <4>1. Cat(s, dot) \in Seq(Nat)
        BY <1>5, CatIsSequence
      <4>2. \A x \in Seq(Nat) : Cat(x, <<>>) = x
        BY ConcatEmptySeq DEF Cat
      <4>. QED BY <4>1, <4>2
    <3>. QED BY <3>1, <3>2, <3>3
  <2>3. CASE ~ended /\ labels # <<>> /\ ~bare
    <3>1. read # <<>> /\ DNS!Join(read) = J
      BY <2>3 DEF ReadAs, J
    <3>. QED BY <1>3, <2>3, <3>1
  <2>4. CASE ~ended /\ labels # <<>> /\ bare
    <3>1. read # <<>> /\ DNS!Join(read) = Cat(J, dot)
      BY <2>4 DEF ReadAs, J, dot
    <3>2. DNS!Join(more) = Cat(Cat(s, dot), Cat(J, dot)) /\ DNS!Join(way) = Cat(Cat(s, dot), J)
      BY <1>3, <1>7, <2>4, <3>1
    <3>3. Cat(Cat(Cat(s, dot), J), dot) = Cat(Cat(s, dot), Cat(J, dot))
      <4>1. Cat(s, dot) \in Seq(Nat)
        BY <1>5, CatIsSequence
      <4>. QED BY <1>5, <4>1, CatAssociates
    <3>. QED BY <2>4, <3>2, <3>3
  <2>. QED BY <2>1, <2>2, <2>3, <2>4
<1>9. ReadAs(more, way, bare, FALSE)
  BY <1>2, <1>8 DEF ReadAs, dot
<1>. QED BY <1>9 DEF more, way

-----------------------------------------------------------------------------------
(* The labels on a way.                                                             *)

LabelAt(data, p) == SubSeq(data, p + 2, p + 1 + At(data, p))
IsLabel(data, p) == ~(OnPointer(data, p) \/ At(data, p) = 0)

LabelsBy(data, positions, f) ==
    f = [k \in 1 .. Len(positions) + 1 |->
            IF k > Len(positions) THEN <<>>
            ELSE IF OnPointer(data, positions[k]) \/ At(data, positions[k]) = 0 THEN f[k + 1]
            ELSE <<LabelAt(data, positions[k])>> \o f[k + 1]]
TheLabels(data, positions) == CHOOSE f : LabelsBy(data, positions, f)

LEMMA LabelsOfIs ==
    ASSUME NEW data, NEW positions
    PROVE  LabelsOf(data, positions) = TheLabels(data, positions)[1]
BY DEF LabelsOf, TheLabels, LabelsBy, LabelAt

LEMMA LabelsExist ==
    ASSUME NEW data, NEW n \in Nat, NEW positions, n = Len(positions),
           \A k \in 1 .. n : IsLabel(data, positions[k]) =>
              LabelAt(data, positions[k]) \in Seq(Nat)
    PROVE  \E f \in [1 .. n + 1 -> Names] : LabelsBy(data, positions, f)
<1> DEFINE lab(k) == LabelAt(data, positions[k])
           is(k) == IsLabel(data, positions[k])
           next(k, v) == IF is(k) THEN <<lab(k)>> \o v ELSE v
           step == [x \in (1 .. n) \X Names |-> next(n + 1 - x[1], x[2])]
<1>1. \A k \in 1 .. n, v \in Names : next(k, v) \in Names
  <2>1. ASSUME NEW k \in 1 .. n, NEW v \in Names PROVE next(k, v) \in Names
    <3>1. CASE is(k)
      <4>1. lab(k) \in Seq(Nat) /\ v \in Seq(Seq(Nat))
        BY <3>1 DEF Names
      <4> HIDE DEF lab
      <4>2. <<lab(k)>> \o v \in Seq(Seq(Nat))
        BY <4>1, InFront
      <4>. QED BY <3>1, <4>2 DEF Names
    <3>2. CASE ~is(k)
      BY <3>2
    <3>. QED BY <3>1, <3>2
  <2>. QED BY <2>1
<1> HIDE DEF next
<1>2. <<>> \in Names
  BY DEF Names
<1>3. \A m \in 1 .. n : n + 1 - m \in 1 .. n
  OBVIOUS
<1>4. \A m \in 1 .. n, v \in Names : step[<<m, v>>] = next(n + 1 - m, v)
  OBVIOUS
<1>5. step \in [(1 .. n) \X Names -> Names]
  BY <1>1, <1>3
<1> HIDE DEF step
<1>6. PICK g \in [0 .. n -> Names] : Stepped(g, n, <<>>, step)
  BY <1>2, <1>5, StepsExist
<1> DEFINE f == [k \in 1 .. n + 1 |-> g[n + 1 - k]]
<1>7. \A k \in 1 .. n + 1 : n + 1 - k \in 0 .. n
  OBVIOUS
<1>8. f \in [1 .. n + 1 -> Names] /\ \A k \in 1 .. n + 1 : f[k] = g[n + 1 - k]
  BY <1>7
<1> HIDE DEF f
<1>9. ASSUME NEW k \in 1 .. n + 1
      PROVE  f[k] = IF k > n THEN <<>>
                    ELSE IF OnPointer(data, positions[k]) \/ At(data, positions[k]) = 0 THEN f[k + 1]
                    ELSE <<LabelAt(data, positions[k])>> \o f[k + 1]
  <2>1. CASE k = n + 1
    <3>1. k > n /\ n + 1 - k = 0
      BY <2>1
    <3>2. f[k] = <<>>
      BY <1>6, <1>8, <3>1 DEF Stepped
    <3>. QED BY <3>1, <3>2
  <2>2. CASE k # n + 1
    <3>1. /\ ~(k > n) /\ k \in 1 .. n /\ n + 1 - k \in 1 .. n /\ (n + 1 - k) - 1 = n + 1 - (k + 1)
          /\ k + 1 \in 1 .. n + 1 /\ n + 1 - (k + 1) \in 0 .. n /\ n + 1 - (n + 1 - k) = k
      BY <2>2
    <3>2. f[k] = g[n + 1 - k] /\ f[k + 1] = g[n + 1 - (k + 1)] /\ f[k + 1] \in Names
      BY <1>8, <3>1
    <3>3. g[n + 1 - k] = step[<<n + 1 - k, g[n + 1 - (k + 1)]>>]
      BY <1>6, <3>1 DEF Stepped
    <3>4. f[k] = next(k, f[k + 1])
      BY <1>4, <3>1, <3>2, <3>3
    <3>5. f[k] = IF OnPointer(data, positions[k]) \/ At(data, positions[k]) = 0 THEN f[k + 1]
                 ELSE <<LabelAt(data, positions[k])>> \o f[k + 1]
      BY <3>4 DEF next, IsLabel
    <3>. QED BY <3>1, <3>5, Zenon
  <2>. QED BY <2>1, <2>2
<1>10. LabelsBy(data, positions, f)
  <2>1. f = [k \in 1 .. n + 1 |-> f[k]]
    BY <1>8
  <2>2. [k \in 1 .. n + 1 |-> f[k]] =
          [k \in 1 .. n + 1 |->
              IF k > n THEN <<>>
              ELSE IF OnPointer(data, positions[k]) \/ At(data, positions[k]) = 0 THEN f[k + 1]
              ELSE <<LabelAt(data, positions[k])>> \o f[k + 1]]
    BY <1>9, Zenon
  <2>. QED BY <2>1, <2>2, Zenon DEF LabelsBy
<1>. QED BY <1>8, <1>10

(* of[k] are the labels of n positions from the k-th on.                            *)
LabelledBy(data, positions, n, of) ==
    /\ of[n + 1] = <<>>
    /\ \A k \in 1 .. n :
        /\ IsLabel(data, positions[k]) => of[k] = <<LabelAt(data, positions[k])>> \o of[k + 1]
        /\ ~IsLabel(data, positions[k]) => of[k] = of[k + 1]

LEMMA TheLabelsAre ==
    ASSUME NEW data, NEW n \in Nat, NEW positions, n = Len(positions),
           \A k \in 1 .. n : IsLabel(data, positions[k]) =>
              LabelAt(data, positions[k]) \in Seq(Nat)
    PROVE  LabelledBy(data, positions, n, TheLabels(data, positions))
<1> DEFINE f == TheLabels(data, positions)
<1>1. LabelsBy(data, positions, f)
  <2>1. \E g : LabelsBy(data, positions, g)
    BY LabelsExist
  <2>. QED BY <2>1, Zenon DEF TheLabels
<1> HIDE DEF f
<1>2. \A k \in 1 .. n + 1 :
        f[k] = IF k > n THEN <<>>
               ELSE IF OnPointer(data, positions[k]) \/ At(data, positions[k]) = 0 THEN f[k + 1]
               ELSE <<LabelAt(data, positions[k])>> \o f[k + 1]
  BY <1>1, Zenon DEF LabelsBy
<1>3. n + 1 \in 1 .. n + 1 /\ n + 1 > n /\ \A k \in 1 .. n : k \in 1 .. n + 1 /\ ~(k > n)
  OBVIOUS
<1>4. f[n + 1] = <<>>
  BY <1>2, <1>3, Zenon
<1>5. \A k \in 1 .. n :
        /\ IsLabel(data, positions[k]) => f[k] = <<LabelAt(data, positions[k])>> \o f[k + 1]
        /\ ~IsLabel(data, positions[k]) => f[k] = f[k + 1]
  BY <1>2, <1>3, Zenon DEF IsLabel
<1>. QED BY <1>4, <1>5, Zenon DEF LabelledBy, f

-----------------------------------------------------------------------------------
(* The way of a name to where it stops, the K-th position.                           *)

WayTo(data, w, K) ==
    /\ w[0] = 0
    /\ \A k \in 0 .. K : w[k] \in Nat
    /\ \A k \in 0 .. K - 1 : GoesOn(data, w[k]) /\ w[k + 1] = Follow(data, w[k])

(* The pointers on the way from its k-th position on: each is a call within the call  *)
(* before, where a label is read in the call it is found in.                         *)
PointersFrom(data, w, K, k) == Cardinality({j \in k .. K - 1 : OnPointer(data, w[j])})

LEMMA PointersStep ==
    ASSUME NEW data, NEW w, NEW K \in Nat, NEW k \in 0 .. K - 1
    PROVE  /\ PointersFrom(data, w, K, k + 1) \in Nat
           /\ OnPointer(data, w[k]) =>
                 PointersFrom(data, w, K, k) = PointersFrom(data, w, K, k + 1) + 1
           /\ ~OnPointer(data, w[k]) =>
                 PointersFrom(data, w, K, k) = PointersFrom(data, w, K, k + 1)
<1> DEFINE S == {j \in k .. K - 1 : OnPointer(data, w[j])}
           T == {j \in k + 1 .. K - 1 : OnPointer(data, w[j])}
<1>1. IsFiniteSet(T) /\ Cardinality(T) \in Nat
  <2>1. T \in SUBSET (0 .. K - 1)
    OBVIOUS
  <2> HIDE DEF T
  <2>2. IsFiniteSet(0 .. K - 1)
    BY IntervalSize
  <2>. QED BY <2>1, <2>2, FS_Subset, FS_CardinalityType
<1>2. k \notin T
  OBVIOUS
<1>3. OnPointer(data, w[k]) => S = T \cup {k}
  OBVIOUS
<1>4. ~OnPointer(data, w[k]) => S = T
  OBVIOUS
<1> HIDE DEF S, T
<1>5. Cardinality(T \cup {k}) = Cardinality(T) + 1
  BY <1>1, <1>2, FS_AddElement
<1>. QED BY <1>1, <1>3, <1>4, <1>5 DEF PointersFrom, S, T

(* Calls that suffice from the k-th position on suffice for what the name goes on to. *)
LEMMA CallsLeft ==
    ASSUME NEW data, NEW w, NEW K \in Nat, NEW k \in 0 .. K - 1,
           NEW M \in Nat, NEW d \in 0 .. M, PointersFrom(data, w, K, k) <= d
    PROVE  /\ OnPointer(data, w[k]) =>
                 d # 0 /\ d - 1 \in 0 .. M /\ PointersFrom(data, w, K, k + 1) <= d - 1
           /\ ~OnPointer(data, w[k]) => PointersFrom(data, w, K, k + 1) <= d
<1>1. PICK a \in Nat : a = PointersFrom(data, w, K, k + 1)
  BY PointersStep
<1>2. /\ OnPointer(data, w[k]) => a + 1 <= d
      /\ ~OnPointer(data, w[k]) => a <= d
  BY <1>1, PointersStep
<1>. QED BY <1>1, <1>2

LEMMA PointersAtEnd ==
    ASSUME NEW data, NEW w, NEW K \in Nat
    PROVE  PointersFrom(data, w, K, K) = 0 /\ PointersFrom(data, w, K, 0) \in 0 .. K
<1>1. {j \in K .. K - 1 : OnPointer(data, w[j])} = {}
  OBVIOUS
<1> DEFINE S == {j \in 0 .. K - 1 : OnPointer(data, w[j])}
<1>2. S \in SUBSET (0 .. K - 1)
  OBVIOUS
<1> HIDE DEF S
<1>3. IsFiniteSet(0 .. K - 1) /\ Cardinality(0 .. K - 1) = K
  BY IntervalSize
<1>4. IsFiniteSet(S) /\ Cardinality(S) <= K /\ Cardinality(S) \in Nat
  BY <1>2, <1>3, FS_Subset, FS_CardinalityType
<1>5. Cardinality(S) \in 0 .. K
  BY <1>4
<1>. QED BY <1>1, <1>5, FS_EmptySet DEF PointersFrom, S

(* A name that ends passes no position twice.                                       *)
LEMMA WayPassesOnce ==
    ASSUME NEW data, NEW K \in Nat, NEW w, WayTo(data, w, K), ~GoesOn(data, w[K]),
           NEW i \in 0 .. K, NEW j \in 0 .. K, w[i] = w[j]
    PROVE  i = j
<1>1. ASSUME NEW a \in 0 .. K, NEW b \in 0 .. K, a < b, w[a] = w[b] PROVE FALSE
  <2> DEFINE q == K - b
             U == {m \in 0 .. q : w[a + m] = w[b + m]}
  <2>1. q \in Nat /\ b + q = K /\ a + q \in 0 .. K - 1 /\ a + 0 = a /\ b + 0 = b
    BY <1>1
  <2>2. 0 \in U
    BY <1>1, <2>1
  <2>3. ASSUME NEW m \in 0 .. q - 1, m \in U PROVE m + 1 \in U
    <3>1. /\ a + m \in 0 .. K - 1 /\ b + m \in 0 .. K - 1 /\ m + 1 \in 0 .. q
          /\ a + (m + 1) = (a + m) + 1 /\ b + (m + 1) = (b + m) + 1
      BY <1>1, <2>1
    <3>2. w[(a + m) + 1] = Follow(data, w[a + m]) /\ w[(b + m) + 1] = Follow(data, w[b + m])
      BY <3>1 DEF WayTo
    <3>3. w[a + m] = w[b + m]
      BY <2>3
    <3>. QED BY <3>1, <3>2, <3>3
  <2> HIDE DEF q, U
  <2>4. \A m \in 0 .. q : m \in U
    BY <2>1, <2>2, <2>3, UpTo
  <2>5. q \in U
    BY <2>1, <2>4
  <2>6. w[a + q] = w[K]
    BY <2>1, <2>5 DEF U
  <2>7. GoesOn(data, w[a + q])
    BY <2>1 DEF WayTo
  <2>. QED BY <2>6, <2>7
<1>2. i < j \/ j < i \/ i = j
  OBVIOUS
<1>. QED BY <1>1, <1>2

LEMMA NoMoreThan ==
    ASSUME NEW S, NEW T, IsFiniteSet(T), NEW f \in [S -> T],
           \A x, y \in S : f[x] = f[y] => x = y
    PROVE  IsFiniteSet(S) /\ Cardinality(S) <= Cardinality(T)
<1>1. f \in Injection(S, T)
  BY DEF Injection, IsInjective
<1>. QED BY <1>1, FS_Injection

(* The j-th position of a way is p and holds a pointer, the octets c and b.          *)
Points(data, w, j, n, p, c, b) ==
    /\ p \in 0 .. n - 1 /\ p + 1 \in 0 .. n - 1 /\ c \in 192 .. 255 /\ b \in 0 .. 255
    /\ w[j] = p /\ At(data, w[j]) = c /\ At(data, w[j] + 1) = b
    /\ w[j + 1] = (c - 192) * 256 + b

LEMMA PointerOnWay ==
    ASSUME NEW data \in Seq(Octet), NEW n \in Nat, n = Len(data),
           NEW K \in Nat, NEW w, WayTo(data, w, K), NEW j \in 0 .. K - 1, OnPointer(data, w[j])
    PROVE  \E p, c, b : Points(data, w, j, n, p, c, b)
<1>1. j \in 0 .. K /\ w[j] \in Nat /\ GoesOn(data, w[j]) /\ w[j + 1] = Follow(data, w[j])
  BY DEF WayTo
<1>2. PICK p \in Nat : p = w[j]
  BY <1>1
<1>3. p < n /\ p + 1 < n
  BY <1>1, <1>2 DEF GoesOn, Within
<1>4. p + 1 \in Nat /\ p + 1 \in 1 .. n /\ (p + 1) + 1 \in 1 .. n
  BY <1>3
<1>5. data[p + 1] \in 0 .. 255 /\ data[(p + 1) + 1] \in 0 .. 255
  BY <1>4, OctetsAreNumbers
<1>6. PICK c \in 0 .. 255 : c = At(data, p)
  BY <1>5 DEF At
<1>7. PICK b \in 0 .. 255 : b = At(data, p + 1)
  BY <1>5 DEF At
<1>8. c >= 192
  BY <1>2, <1>6 DEF OnPointer
<1>9. w[j + 1] = (c - 192) * 256 + b
  BY <1>1, <1>2, <1>6, <1>7 DEF Follow
<1>10. p \in 0 .. n - 1 /\ p + 1 \in 0 .. n - 1 /\ c \in 192 .. 255
  BY <1>3, <1>4, <1>8
<1>11. At(data, w[j]) = c /\ At(data, w[j] + 1) = b
  BY <1>2, <1>6, <1>7
<1>12. Points(data, w, j, n, p, c, b)
  BY <1>2, <1>7, <1>9, <1>10, <1>11, Zenon DEF Points
<1>. QED BY <1>12, Zenon

(* A pointer into such a message whose second octet could be read as a pointer's      *)
(* first, numbered among the 256 of them.                                            *)
Numbered(number, target, c, b) ==
    /\ c \in 192 .. 195 /\ b \in 192 .. 255
    /\ number = (c - 192) * 64 + (b - 192) /\ target = (c - 192) * 256 + b

(* The pointers of a name that ends, in a message as long as recvfrom(1024) gives.    *)
LEMMA FewPointers ==
    ASSUME NEW data \in Seq(Octet), NEW n \in Nat, n = Len(data), n <= 1024,
           NEW K \in Nat, NEW w, WayTo(data, w, K), ~GoesOn(data, w[K])
    PROVE  PointersFrom(data, w, K, 0) <= 640
<1> DEFINE P == {j \in 0 .. K - 1 : OnPointer(data, w[j])}
           A == {j \in P : At(data, w[j] + 1) >= 192}
           B == {j \in P : At(data, w[j] + 1) < 192}
<1>1. ASSUME NEW j \in P
      PROVE  j \in 0 .. K - 1 /\ \E p, c, b : Points(data, w, j, n, p, c, b)
  <2>1. j \in 0 .. K - 1 /\ OnPointer(data, w[j])
    OBVIOUS
  <2> HIDE DEF P
  <2>. QED BY <2>1, PointerOnWay
<1>2. ASSUME NEW i \in P, NEW j \in P, w[i] = w[j] PROVE i = j
  BY <1>1, <1>2, WayPassesOnce
<1>3. IsFiniteSet(P) /\ Cardinality(P) \in Nat
  <2>1. P \in SUBSET (0 .. K - 1)
    OBVIOUS
  <2> HIDE DEF P
  <2>2. IsFiniteSet(0 .. K - 1)
    BY IntervalSize
  <2>. QED BY <2>1, <2>2, FS_Subset, FS_CardinalityType
<1>4. A \subseteq P /\ B \subseteq P /\ P = A \cup B
  <2>1. ASSUME NEW j \in P PROVE At(data, w[j] + 1) >= 192 \/ At(data, w[j] + 1) < 192
    <3>1. PICK p, c, b : Points(data, w, j, n, p, c, b)
      BY <1>1
    <3>2. b \in 0 .. 255 /\ At(data, w[j] + 1) = b
      BY <3>1 DEF Points
    <3>3. b >= 192 \/ b < 192
      BY <3>2
    <3>. QED BY <3>2, <3>3, Zenon
  <2>. QED BY <2>1
<1>5. /\ \A j \in A : At(data, w[j] + 1) >= 192
      /\ \A j \in B : At(data, w[j] + 1) < 192
  OBVIOUS
<1>6. \A j \in P : OnPointer(data, w[j])
  OBVIOUS
<1>7. PointersFrom(data, w, K, 0) = Cardinality(P)
  BY DEF PointersFrom
<1> HIDE DEF P, A, B
<1>8. /\ IsFiniteSet(A) /\ Cardinality(A) \in Nat /\ IsFiniteSet(B) /\ Cardinality(B) \in Nat
      /\ Cardinality(P) <= Cardinality(A) + Cardinality(B)
  <2>1. IsFiniteSet(A) /\ Cardinality(A) \in Nat /\ IsFiniteSet(B) /\ Cardinality(B) \in Nat
    BY <1>3, <1>4, FS_Subset, FS_CardinalityType
  <2>2. Cardinality(A \cup B) = Cardinality(A) + Cardinality(B) - Cardinality(A \cap B)
    BY <2>1, FS_Union
  <2>3. Cardinality(A \cap B) \in Nat
    BY <2>1, FS_Intersection, FS_CardinalityType
  <2>. QED BY <1>4, <2>1, <2>2, <2>3
<1>9. Cardinality(P) + Cardinality(B) <= n
  <2> DEFINE X == {w[j] : j \in P}
             Y == {w[j] + 1 : j \in B}
             N == 0 .. n - 1
  <2>0. ASSUME NEW j \in P
        PROVE  /\ w[j] \in Nat /\ w[j] \in N /\ w[j] + 1 \in N /\ At(data, w[j]) >= 192
    <3>1. PICK p, c, b : Points(data, w, j, n, p, c, b)
      BY <1>1
    <3>2. p \in 0 .. n - 1 /\ p + 1 \in 0 .. n - 1 /\ c \in 192 .. 255 /\ w[j] = p /\ At(data, w[j]) = c
      BY <3>1 DEF Points
    <3>. QED BY <3>2
  <2>1. X \subseteq N /\ Y \subseteq N
    BY <1>4, <2>0
  <2>2. X \cap Y = {}
    <3>1. ASSUME NEW i \in P, NEW j \in B, w[i] = w[j] + 1 PROVE FALSE
      <4>1. At(data, w[i]) >= 192 /\ At(data, w[j] + 1) < 192 /\ j \in P
        BY <1>4, <1>5, <2>0
      <4>2. PICK p, c, b : Points(data, w, j, n, p, c, b)
        BY <1>1, <4>1
      <4>3. b \in 0 .. 255 /\ At(data, w[j] + 1) = b
        BY <4>2 DEF Points
      <4>4. b >= 192 /\ b < 192
        BY <3>1, <4>1, <4>3, Zenon
      <4>. QED BY <4>3, <4>4
    <3>. QED BY <3>1
  <2>3. IsFiniteSet(N) /\ Cardinality(N) = n
    BY IntervalSize
  <2>4. [j \in P |-> w[j]] \in [P -> X] /\ [j \in B |-> w[j] + 1] \in [B -> Y]
    OBVIOUS
  <2>5. \A i, j \in B : w[i] + 1 = w[j] + 1 => i = j
    <3>1. ASSUME NEW i \in B, NEW j \in B, w[i] + 1 = w[j] + 1 PROVE i = j
      <4>1. i \in P /\ j \in P /\ w[i] \in Nat /\ w[j] \in Nat
        BY <1>4, <2>0
      <4>2. w[i] = w[j]
        BY <3>1, <4>1
      <4>. QED BY <1>2, <4>1, <4>2
    <3>. QED BY <3>1
  <2> HIDE DEF N, X, Y
  <2>6. IsFiniteSet(X) /\ IsFiniteSet(Y) /\ Cardinality(X) \in Nat /\ Cardinality(Y) \in Nat
    BY <2>1, <2>3, FS_Subset, FS_CardinalityType
  <2>7. Cardinality(P) <= Cardinality(X)
    <3> DEFINE f == [j \in P |-> w[j]]
    <3>1. \A x, y \in P : f[x] = f[y] => x = y
      BY <1>2
    <3>2. f \in [P -> X]
      BY <2>4
    <3> HIDE DEF f
    <3>. QED BY <2>6, <3>1, <3>2, NoMoreThan
  <2>8. Cardinality(B) <= Cardinality(Y)
    <3> DEFINE f == [j \in B |-> w[j] + 1]
    <3>1. \A x, y \in B : f[x] = f[y] => x = y
      BY <2>5
    <3>2. f \in [B -> Y]
      BY <2>4
    <3> HIDE DEF f
    <3>. QED BY <2>6, <3>1, <3>2, NoMoreThan
  <2>9. Cardinality(X) + Cardinality(Y) <= n
    <3>1. Cardinality(X \cup Y) = Cardinality(X) + Cardinality(Y) - Cardinality(X \cap Y)
      BY <2>6, FS_Union
    <3>2. Cardinality(X \cap Y) = 0
      BY <2>2, FS_EmptySet
    <3>3. X \cup Y \in SUBSET N
      BY <2>1
    <3>4. Cardinality(X \cup Y) <= n
      BY <2>3, <3>3, FS_Subset
    <3>. QED BY <2>6, <3>1, <3>2, <3>4
  <2>. QED BY <1>3, <1>8, <2>6, <2>7, <2>8, <2>9
<1>10. Cardinality(A) <= 257
  <2> DEFINE R == A \ {K - 1}
             f == [j \in R |-> (At(data, w[j]) - 192) * 64 + (At(data, w[j] + 1) - 192)]
  <2>1. ASSUME NEW j \in R
        PROVE  /\ j \in P /\ j \in 0 .. K - 1 /\ j + 1 \in 0 .. K
               /\ \E c, b : Numbered(f[j], w[j + 1], c, b)
    <3>1. j \in A /\ j \in P /\ j # K - 1 /\ j \in 0 .. K - 1
      BY <1>1, <1>4
    <3>2. j + 1 \in 0 .. K - 1 /\ j + 1 \in 0 .. K
      BY <3>1
    <3>3. w[j + 1] < n /\ w[j + 1] \in Nat
      BY <3>2 DEF WayTo, GoesOn, Within
    <3>4. PICK p, c, b : Points(data, w, j, n, p, c, b)
      BY <1>1, <3>1
    <3>5. c \in 192 .. 255 /\ b \in 0 .. 255 /\ At(data, w[j]) = c /\ At(data, w[j] + 1) = b
          /\ w[j + 1] = (c - 192) * 256 + b
      BY <3>4 DEF Points
    <3>6. b >= 192
      <4>1. At(data, w[j] + 1) >= 192
        BY <1>5, <3>1
      <4>2. At(data, w[j] + 1) = b
        BY <3>5
      <4>. QED BY <4>1, <4>2
    <3>7. (c - 192) * 256 + b < 1024
      BY <3>3, <3>5
    <3>8. c \in 192 .. 195 /\ b \in 192 .. 255
      BY <3>5, <3>6, <3>7
    <3>9. f[j] = (c - 192) * 64 + (b - 192)
      BY <3>5, Zenon
    <3> HIDE DEF f
    <3>10. Numbered(f[j], w[j + 1], c, b)
      BY <3>5, <3>8, <3>9, Zenon DEF Numbered
    <3>. QED BY <3>1, <3>2, <3>10, Zenon
  <2>2. f \in [R -> 0 .. 255]
    <3>1. ASSUME NEW j \in R PROVE f[j] \in 0 .. 255
      <4> HIDE DEF f, R
      <4>1. PICK c, b : Numbered(f[j], w[j + 1], c, b)
        BY <2>1
      <4>. QED BY <4>1 DEF Numbered
    <3>2. f = [j \in R |-> f[j]]
      BY Zenon
    <3> HIDE DEF R, f
    <3>. QED BY <3>1, <3>2
  <2>3. ASSUME NEW i \in R, NEW j \in R, f[i] = f[j] PROVE i = j
    <3> HIDE DEF f, R
    <3>1. PICK a, b : Numbered(f[i], w[i + 1], a, b)
      BY <2>1
    <3>2. PICK c, d : Numbered(f[j], w[j + 1], c, d)
      BY <2>1
    <3>3. /\ a \in 192 .. 195 /\ b \in 192 .. 255 /\ c \in 192 .. 195 /\ d \in 192 .. 255
          /\ (a - 192) * 64 + (b - 192) = (c - 192) * 64 + (d - 192)
          /\ w[i + 1] = (a - 192) * 256 + b /\ w[j + 1] = (c - 192) * 256 + d
      BY <2>3, <3>1, <3>2, Zenon DEF Numbered
    <3>4. a = c /\ b = d
      BY <3>3
    <3>5. w[i + 1] = w[j + 1] /\ i + 1 \in 0 .. K /\ j + 1 \in 0 .. K
      BY <2>1, <3>3, <3>4
    <3>6. i + 1 = j + 1
      BY <3>5, WayPassesOnce
    <3>7. i \in 0 .. K - 1 /\ j \in 0 .. K - 1
      BY <2>1
    <3>. QED BY <3>6, <3>7
  <2>4. IsFiniteSet(0 .. 255) /\ Cardinality(0 .. 255) = 256
    <3>1. 255 \in Nat
      OBVIOUS
    <3>2. IsFiniteSet(0 .. 255) /\ Cardinality(0 .. 255) = 255 + 1
      BY <3>1, IntervalSize, Zenon
    <3>. QED BY <3>2
  <2>5. Cardinality(R) = IF K - 1 \in A THEN Cardinality(A) - 1 ELSE Cardinality(A)
    BY <1>8, FS_RemoveElement
  <2> HIDE DEF f, R
  <2>6. Cardinality(R) <= 256
    <3>1. \A x, y \in R : f[x] = f[y] => x = y
      BY <2>3
    <3> DEFINE M == 0 .. 255
    <3>2. f \in [R -> M] /\ IsFiniteSet(M) /\ Cardinality(M) = 256
      BY <2>2, <2>4
    <3> HIDE DEF M
    <3>3. Cardinality(R) <= Cardinality(M)
      BY <3>1, <3>2, NoMoreThan
    <3>. QED BY <3>2, <3>3
  <2>. QED BY <1>8, <2>5, <2>6
<1>. QED BY <1>3, <1>7, <1>8, <1>9, <1>10

Errors == {DNS!Raises("IndexError"), DNS!Raises("struct.error")}

LEMMA ErrorsOn ==
    ASSUME NEW data, NEW p, NEW r \in Errors
    PROVE  DNS!WithLabel(data, p, r) \in Errors /\ DNS!WithPointer(p, r) \in Errors
BY RaisedOn DEF Errors

LEMMA WayToAnError ==
    ASSUME NEW data \in Seq(Octet), NEW K \in Nat, NEW w, WayTo(data, w, K),
           PointersFrom(data, w, K, 0) <= MaxRecursion,
           ~Within(data, w[K])
    PROVE  Read(data, MaxRecursion, 0) \in Errors
<1> DEFINE calls(k) == {d \in 0 .. MaxRecursion : PointersFrom(data, w, K, k) <= d}
           U == {m \in 0 .. K : \A d \in calls(K - m) : Read(data, d, w[K - m]) \in Errors}
<1>0. MaxRecursion \in Nat /\ K \in Nat
  BY FormatsAssumption DEF FormatsAssumption
<1>1. 0 \in U
  <2>1. w[K] \in Nat
    BY <1>0 DEF WayTo
  <2>2. \A d \in 0 .. MaxRecursion : Read(data, d, w[K]) \in Errors
    BY <2>1, ReadEnds DEF Errors
  <2>3. K - 0 = K /\ calls(K) \subseteq 0 .. MaxRecursion
    BY <1>0
  <2> HIDE DEF calls
  <2>. QED BY <1>0, <2>2, <2>3
<1>2. ASSUME NEW m \in 0 .. K - 1, m \in U PROVE m + 1 \in U
  <2> DEFINE k == K - (m + 1)
  <2>1. k \in 0 .. K /\ k \in 0 .. K - 1 /\ k + 1 = K - m /\ m + 1 \in 0 .. K
    BY <1>0
  <2> HIDE DEF k
  <2>2. w[k] \in Nat /\ GoesOn(data, w[k]) /\ w[k + 1] = Follow(data, w[k])
    BY <2>1 DEF WayTo
  <2>3. \A d \in calls(k + 1) : Read(data, d, Follow(data, w[k])) \in Errors
    <3> HIDE DEF calls
    <3>. QED BY <1>2, <2>1, <2>2
  <2>4. ASSUME NEW d \in calls(k) PROVE Read(data, d, w[k]) \in Errors
    <3>1. /\ d \in 0 .. MaxRecursion
          /\ OnPointer(data, w[k]) => d # 0 /\ d - 1 \in calls(k + 1)
          /\ ~OnPointer(data, w[k]) => d \in calls(k + 1)
      BY <1>0, <2>1, CallsLeft
    <3>2. /\ ~OnPointer(data, w[k]) => Read(data, d, Follow(data, w[k])) \in Errors
          /\ OnPointer(data, w[k]) => Read(data, d - 1, Follow(data, w[k])) \in Errors
      BY <2>3, <3>1
    <3>3. /\ ~OnPointer(data, w[k]) =>
               Read(data, d, w[k]) = DNS!WithLabel(data, w[k], Read(data, d, Follow(data, w[k])))
          /\ OnPointer(data, w[k]) =>
               Read(data, d, w[k]) = DNS!WithPointer(w[k], Read(data, d - 1, Follow(data, w[k])))
      BY <2>2, <3>1, ReadOn
    <3>. QED BY <3>2, <3>3, ErrorsOn
  <2> HIDE DEF calls
  <2>. QED BY <2>1, <2>4 DEF k
<1>3. K \in U
  <2>1. \A m \in 0 .. K : m \in U
    <3> HIDE DEF U
    <3>. QED BY <1>0, <1>1, <1>2, UpTo
  <2>. QED BY <1>0, <2>1
<1>4. MaxRecursion \in calls(0) /\ K - K = 0
  BY <1>0
<1>5. w[0] = 0
  BY DEF WayTo
<1>. QED BY <1>3, <1>4, <1>5

LabelsAlong(data, w, K, F) ==
    /\ F[K] = <<>>
    /\ \A k \in 0 .. K - 1 :
        /\ IsLabel(data, w[k]) => F[k] = <<LabelAt(data, w[k])>> \o F[k + 1]
        /\ ~IsLabel(data, w[k]) => F[k] = F[k + 1]

(* Where a name ends that is at its k-th position: behind its zero or behind the    *)
(* first pointer.                                                                   *)
EndOf(data, w, K, k, e) ==
    /\ (\A j \in k .. K - 1 : ~OnPointer(data, w[j])) => e = w[K] + 1
    /\ \A j \in k .. K - 1 :
        OnPointer(data, w[j]) /\ (\A i \in k .. j - 1 : ~OnPointer(data, w[i])) => e = w[j] + 2

Bare(data, w, K) == K # 0 /\ OnPointer(data, w[K - 1])

ReadsTo(data, w, K, F, k, r) ==
    \E read, e : /\ r = [end |-> e, labels |-> read]
                 /\ ReadAs(read, F[k], Bare(data, w, K), k = K)
                 /\ EndOf(data, w, K, k, e)

(* A name with one more label in front.                                             *)
Longer(e, s, read) == [end |-> e, labels |-> <<s>> \o read]

LEMMA WithLabelIs ==
    ASSUME NEW data, NEW p, NEW e, NEW read, NEW r, r = [end |-> e, labels |-> read],
           NEW s, s = DNS!Slice(data, p + 1, data[p + 1])
    PROVE  DNS!WithLabel(data, p, r) = Longer(e, s, read)
<1>1. ~DNS!Raised(r) /\ r.end = e /\ r.labels = read
  BY DEF DNS!Raised
<1>. QED BY <1>1 DEF DNS!WithLabel, Longer

LEMMA WithPointerIs ==
    ASSUME NEW p, NEW e, NEW read, NEW r, r = [end |-> e, labels |-> read]
    PROVE  DNS!WithPointer(p, r) = [end |-> p + 2, labels |-> <<DNS!Join(read)>>]
<1>1. ~DNS!Raised(r) /\ r.labels = read
  BY DEF DNS!Raised
<1>. QED BY <1>1 DEF DNS!WithPointer, DNS!NameEnd

(* A label that is followed by an octet of the message is whole.                    *)
LEMMA WholeLabel ==
    ASSUME NEW data \in Seq(Octet), NEW p \in Nat, GoesOn(data, p), ~OnPointer(data, p),
           Follow(data, p) < Len(data)
    PROVE  /\ DNS!Slice(data, p + 1, data[p + 1]) = LabelAt(data, p)
           /\ LabelAt(data, p) \in Seq(Nat)
<1>1. PICK a \in 0 .. 255 : a = At(data, p)
  <2>1. At(data, p) \in 0 .. 255
    BY OctetAt DEF GoesOn, Within
  <2>. QED BY <2>1
<1>2. PICK n \in Nat : n = Len(data)
  BY OctetsAreNumbers
<1>3. p + 1 + a < n
  BY <1>1, <1>2 DEF Follow
<1>4. LabelAt(data, p) = SubSeq(data, (p + 1) + 1, (p + 1) + a)
  <2>1. (p + 1) + 1 = p + 2 /\ (p + 1) + a = p + 1 + a
    OBVIOUS
  <2>. QED BY <1>1, <2>1 DEF LabelAt
<1>5. DNS!Min({(p + 1) + a, n}) = (p + 1) + a
  <2> DEFINE b == (p + 1) + a
  <2>1. b \in Nat /\ b < n
    BY <1>3
  <2> HIDE DEF b
  <2>2. DNS!Min({b, n}) = CHOOSE x \in {b, n} : \A y \in {b, n} : x <= y
    BY DEF DNS!Min
  <2>3. \A x \in {b, n} : (\A y \in {b, n} : x <= y) <=> x = b
    BY <2>1
  <2>4. (CHOOSE x \in {b, n} : \A y \in {b, n} : x <= y) = b
    BY <2>3
  <2>. QED BY <2>2, <2>4 DEF b
<1>6. DNS!Slice(data, p + 1, data[p + 1]) = SubSeq(data, (p + 1) + 1, DNS!Min({(p + 1) + a, n}))
  BY <1>1, <1>2 DEF DNS!Slice, At
<1>7. LabelAt(data, p) \in Seq(Nat)
  <2>1. data \in Seq(Nat) /\ p + 1 \in Nat /\ a \in Nat /\ (p + 1) + a <= Len(data)
    BY <1>2, <1>3, OctetsAreNumbers
  <2>2. SubSeq(data, (p + 1) + 1, (p + 1) + a) \in Seq(Nat)
    BY <2>1, Middle
  <2>. QED BY <1>4, <2>2
<1>. QED BY <1>4, <1>5, <1>6, <1>7

LEMMA LabelOnWay ==
    ASSUME NEW data \in Seq(Octet), NEW K \in Nat, NEW w, WayTo(data, w, K),
           Within(data, w[K]), NEW k \in 0 .. K - 1, ~OnPointer(data, w[k])
    PROVE  /\ DNS!Slice(data, w[k] + 1, data[w[k] + 1]) = LabelAt(data, w[k])
           /\ LabelAt(data, w[k]) \in Seq(Nat)
<1>1. k \in 0 .. K /\ (k + 1 # K => k + 1 \in 0 .. K - 1)
  OBVIOUS
<1>2. w[k] \in Nat /\ GoesOn(data, w[k]) /\ w[k + 1] = Follow(data, w[k])
  BY <1>1 DEF WayTo
<1>3. Follow(data, w[k]) < Len(data)
  <2>1. CASE k + 1 = K
    BY <1>2, <2>1 DEF Within
  <2>2. CASE k + 1 # K
    <3>1. GoesOn(data, w[k + 1])
      BY <1>1, <2>2 DEF WayTo
    <3>. QED BY <1>2, <3>1 DEF GoesOn, Within
  <2>. QED BY <2>1, <2>2
<1>. QED BY <1>2, <1>3, WholeLabel

LEMMA EndOfStep ==
    ASSUME NEW data, NEW w, NEW K \in Nat, NEW k \in 0 .. K - 1, NEW e,
           EndOf(data, w, K, k + 1, e)
    PROVE  /\ OnPointer(data, w[k]) => EndOf(data, w, K, k, w[k] + 2)
           /\ ~OnPointer(data, w[k]) => EndOf(data, w, K, k, e)
<1>1. CASE OnPointer(data, w[k])
  <2>1. k \in k .. K - 1
    OBVIOUS
  <2>2. ASSUME NEW j \in k .. K - 1, \A i \in k .. j - 1 : ~OnPointer(data, w[i]) PROVE j = k
    <3>1. j # k => k \in k .. j - 1
      OBVIOUS
    <3>. QED BY <1>1, <2>2, <3>1
  <2>. QED BY <1>1, <2>1, <2>2 DEF EndOf
<1>2. CASE ~OnPointer(data, w[k])
  <2>1. ASSUME \A j \in k .. K - 1 : ~OnPointer(data, w[j]) PROVE e = w[K] + 1
    <3>1. \A j \in k + 1 .. K - 1 : j \in k .. K - 1
      OBVIOUS
    <3>. QED BY <2>1, <3>1 DEF EndOf
  <2>2. ASSUME NEW j \in k .. K - 1, OnPointer(data, w[j]),
               \A i \in k .. j - 1 : ~OnPointer(data, w[i])
        PROVE  e = w[j] + 2
    <3>1. j # k
      BY <1>2, <2>2
    <3>2. j \in k + 1 .. K - 1 /\ \A i \in k + 1 .. j - 1 : i \in k .. j - 1
      BY <3>1
    <3>. QED BY <2>2, <3>2 DEF EndOf
  <2>. QED BY <1>2, <2>1, <2>2 DEF EndOf
<1>. QED BY <1>1, <1>2

LEMMA ReadsBackOne ==
    ASSUME NEW data \in Seq(Octet), NEW K \in Nat, NEW w, WayTo(data, w, K),
           Within(data, w[K]), NEW F, LabelsAlong(data, w, K, F),
           NEW k \in 0 .. K - 1, NEW r, ReadsTo(data, w, K, F, k + 1, r)
    PROVE  /\ OnPointer(data, w[k]) => ReadsTo(data, w, K, F, k, DNS!WithPointer(w[k], r))
           /\ ~OnPointer(data, w[k]) => ReadsTo(data, w, K, F, k, DNS!WithLabel(data, w[k], r))
<1>1. PICK read, e : /\ r = [end |-> e, labels |-> read]
                     /\ ReadAs(read, F[k + 1], Bare(data, w, K), k + 1 = K)
                     /\ EndOf(data, w, K, k + 1, e)
  BY DEF ReadsTo
<1>2. k \in 0 .. K /\ k + 1 \in 0 .. K /\ k # K /\ (k + 1 = K => K # 0 /\ K - 1 = k)
      /\ (k + 1 # K => k + 1 \in 0 .. K - 1)
  OBVIOUS
<1>3. w[k] \in Nat /\ GoesOn(data, w[k]) /\ w[k + 1] = Follow(data, w[k])
  BY <1>2 DEF WayTo
<1>4. Bare(data, w, K) \in BOOLEAN /\ (k + 1 = K) \in BOOLEAN
      /\ (k + 1 = K => (Bare(data, w, K) <=> OnPointer(data, w[k])))
  BY <1>2 DEF Bare, OnPointer
<1>5. (k = K) = FALSE
  BY <1>2
<1>6. CASE OnPointer(data, w[k])
  <2>1. F[k] = F[k + 1]
    BY <1>6 DEF LabelsAlong, IsLabel
  <2>2. ReadAs(<<DNS!Join(read)>>, F[k + 1], Bare(data, w, K), FALSE)
    BY <1>1, <1>4, <1>6, PointerReadAs
  <2>3. DNS!WithPointer(w[k], r) = [end |-> w[k] + 2, labels |-> <<DNS!Join(read)>>]
    BY <1>1, WithPointerIs
  <2>4. EndOf(data, w, K, k, w[k] + 2)
    BY <1>1, <1>6, EndOfStep
  <2>5. ReadAs(<<DNS!Join(read)>>, F[k], Bare(data, w, K), k = K)
    BY <1>5, <2>1, <2>2
  <2>6. ReadsTo(data, w, K, F, k, DNS!WithPointer(w[k], r))
    BY <2>3, <2>4, <2>5 DEF ReadsTo
  <2>. QED BY <1>6, <2>6
<1>7. CASE ~OnPointer(data, w[k])
  <2> DEFINE s == LabelAt(data, w[k])
  <2>1. F[k] = <<s>> \o F[k + 1]
    BY <1>3, <1>7 DEF LabelsAlong, IsLabel, GoesOn
  <2>2. DNS!Slice(data, w[k] + 1, data[w[k] + 1]) = s /\ s \in Seq(Nat)
    BY <1>7, LabelOnWay
  <2> HIDE DEF s
  <2>4. ReadAs(<<s>> \o read, <<s>> \o F[k + 1], Bare(data, w, K), FALSE)
    BY <1>1, <1>4, <1>7, <2>2, LabelReadAs
  <2>5. DNS!WithLabel(data, w[k], r) = [end |-> e, labels |-> <<s>> \o read]
    <3>1. DNS!WithLabel(data, w[k], r) = Longer(e, s, read)
      BY <1>1, <2>2, WithLabelIs
    <3>. QED BY <3>1, Zenon DEF Longer
  <2>6. EndOf(data, w, K, k, e)
    BY <1>1, <1>7, EndOfStep
  <2>7. ReadAs(<<s>> \o read, F[k], Bare(data, w, K), k = K)
    BY <1>5, <2>1, <2>4
  <2>8. ReadsTo(data, w, K, F, k, DNS!WithLabel(data, w[k], r))
    BY <2>5, <2>6, <2>7 DEF ReadsTo
  <2>. QED BY <1>7, <2>8
<1>. QED BY <1>6, <1>7

LEMMA WayToTheEnd ==
    ASSUME NEW data \in Seq(Octet), NEW K \in Nat, NEW w, WayTo(data, w, K),
           PointersFrom(data, w, K, 0) <= MaxRecursion,
           Within(data, w[K]), At(data, w[K]) = 0, NEW F, LabelsAlong(data, w, K, F)
    PROVE  ReadsTo(data, w, K, F, 0, Read(data, MaxRecursion, 0))
<1> DEFINE Good(d, k) == ReadsTo(data, w, K, F, k, Read(data, d, w[k]))
           calls(k) == {d \in 0 .. MaxRecursion : PointersFrom(data, w, K, k) <= d}
           U == {m \in 0 .. K : \A d \in calls(K - m) : Good(d, K - m)}
<1>0. MaxRecursion \in Nat /\ K \in Nat
  BY FormatsAssumption DEF FormatsAssumption
<1>1. 0 \in U
  <2>1. w[K] \in Nat
    BY <1>0 DEF WayTo
  <2>2. ASSUME NEW d \in 0 .. MaxRecursion PROVE Good(d, K)
    <3>1. Read(data, d, w[K]) = [end |-> w[K] + 1, labels |-> <<>>]
      BY <2>1, ReadEnds
    <3>2. ReadAs(<<>>, F[K], Bare(data, w, K), K = K)
      <4>1. F[K] = <<>> /\ (K = K) = TRUE
        BY DEF LabelsAlong
      <4>. QED BY <4>1, NoneReadAs
    <3>3. EndOf(data, w, K, K, w[K] + 1)
      <4>1. \A j \in K .. K - 1 : FALSE
        BY <1>0
      <4>. QED BY <4>1 DEF EndOf
    <3>. QED BY <3>1, <3>2, <3>3 DEF ReadsTo
  <2>3. K - 0 = K /\ calls(K) \subseteq 0 .. MaxRecursion
    BY <1>0
  <2> HIDE DEF Good, calls
  <2>. QED BY <1>0, <2>2, <2>3
<1>2. ASSUME NEW m \in 0 .. K - 1, m \in U PROVE m + 1 \in U
  <2> DEFINE k == K - (m + 1)
  <2>1. k \in 0 .. K /\ k \in 0 .. K - 1 /\ k + 1 = K - m /\ m + 1 \in 0 .. K
    BY <1>0
  <2> HIDE DEF k
  <2>2. w[k] \in Nat /\ GoesOn(data, w[k]) /\ w[k + 1] = Follow(data, w[k])
    BY <2>1 DEF WayTo
  <2>3. \A d \in calls(k + 1) : ReadsTo(data, w, K, F, k + 1, Read(data, d, Follow(data, w[k])))
    <3> HIDE DEF calls
    <3>. QED BY <1>2, <2>1, <2>2
  <2>4. ASSUME NEW d \in calls(k) PROVE Good(d, k)
    <3>1. /\ d \in 0 .. MaxRecursion
          /\ OnPointer(data, w[k]) => d # 0 /\ d - 1 \in calls(k + 1)
          /\ ~OnPointer(data, w[k]) => d \in calls(k + 1)
      BY <1>0, <2>1, CallsLeft
    <3> DEFINE there == Read(data, d, Follow(data, w[k]))
               led == Read(data, d - 1, Follow(data, w[k]))
    <3>2. /\ ~OnPointer(data, w[k]) => Read(data, d, w[k]) = DNS!WithLabel(data, w[k], there)
          /\ OnPointer(data, w[k]) => Read(data, d, w[k]) = DNS!WithPointer(w[k], led)
      BY <2>2, <3>1, ReadOn
    <3>3. /\ ~OnPointer(data, w[k]) => ReadsTo(data, w, K, F, k + 1, there)
          /\ OnPointer(data, w[k]) => ReadsTo(data, w, K, F, k + 1, led)
      BY <2>3, <3>1
    <3> HIDE DEF there, led
    <3>4. /\ OnPointer(data, w[k]) => ReadsTo(data, w, K, F, k, DNS!WithPointer(w[k], led))
          /\ ~OnPointer(data, w[k]) => ReadsTo(data, w, K, F, k, DNS!WithLabel(data, w[k], there))
      BY <1>0, <2>1, <3>3, ReadsBackOne
    <3>. QED BY <3>2, <3>4
  <2> HIDE DEF Good, calls
  <2>. QED BY <2>1, <2>4 DEF k
<1> HIDE DEF Good
<1>3. K \in U
  <2>1. \A m \in 0 .. K : m \in U
    <3> HIDE DEF U
    <3>. QED BY <1>0, <1>1, <1>2, UpTo
  <2>. QED BY <1>0, <2>1
<1>4. MaxRecursion \in calls(0) /\ K - K = 0
  BY <1>0
<1>5. Good(MaxRecursion, 0)
  BY <1>3, <1>4
<1>6. w[0] = 0
  BY DEF WayTo
<1>. QED BY <1>5, <1>6 DEF Good

(* Where the walk stops, if it does.                                                *)
LEMMA WalkStops ==
    ASSUME NEW data \in Seq(Octet), NEW n \in Nat, n = Len(data), NEW w, w[0] = 0,
           \A k \in 1 .. n + 1 : w[k] = Onward(data, w[k - 1]),
           \A k \in 0 .. n + 1 : w[k] \in Nat,
           NEW x \in 0 .. n, ~GoesOn(data, w[x])
    PROVE  \E K \in 0 .. n : WayTo(data, w, K) /\ ~GoesOn(data, w[K]) /\ w[n + 1] = w[K]
<1> DEFINE ends == {k \in 0 .. n : ~GoesOn(data, w[k])}
<1>1. PICK K \in ends : \A y \in ends : K <= y
  <2>1. ends \in SUBSET Nat /\ ends # {}
    OBVIOUS
  <2> HIDE DEF ends
  <2>. QED BY <2>1, LeastExists
<1>2. K \in 0 .. n /\ ~GoesOn(data, w[K]) /\ \A k \in 0 .. K - 1 : GoesOn(data, w[k])
  BY <1>1
<1>3. WayTo(data, w, K)
  <2>1. ASSUME NEW k \in 0 .. K - 1 PROVE w[k + 1] = Follow(data, w[k])
    <3>1. k + 1 \in 1 .. n + 1 /\ (k + 1) - 1 = k
      BY <1>2
    <3>2. w[k + 1] = Onward(data, w[k])
      BY <3>1
    <3>. QED BY <1>2, <3>2 DEF Onward, GoesOn
  <2>2. \A k \in 0 .. K : w[k] \in Nat
    BY <1>2
  <2>. QED BY <1>2, <2>1, <2>2 DEF WayTo
<1>4. w[n + 1] = w[K]
  <2> DEFINE q == n + 1 - K
             U == {m \in 0 .. q : w[K + m] = w[K]}
  <2>1. q \in Nat /\ K + q = n + 1 /\ K + 0 = K
    BY <1>2
  <2>2. 0 \in U
    BY <2>1
  <2>3. ASSUME NEW m \in 0 .. q - 1, m \in U PROVE m + 1 \in U
    <3>1. K + (m + 1) \in 1 .. n + 1 /\ (K + (m + 1)) - 1 = K + m /\ m + 1 \in 0 .. q
      BY <1>2, <2>1
    <3>2. w[K + (m + 1)] = Onward(data, w[K + m])
      BY <3>1
    <3>3. w[K + m] = w[K]
      BY <2>3
    <3>4. Onward(data, w[K]) = w[K]
      BY <1>2 DEF Onward, GoesOn
    <3>. QED BY <3>1, <3>2, <3>3, <3>4
  <2> HIDE DEF q, U
  <2>4. \A m \in 0 .. q : m \in U
    BY <2>1, <2>2, <2>3, UpTo
  <2>5. q \in U
    BY <2>1, <2>4
  <2>. QED BY <2>1, <2>5 DEF U
<1>. QED BY <1>2, <1>3, <1>4

(* The way of NamesExact.                                                           *)
IsWay(way, w, K) ==
    way \in Seq(Nat) /\ Len(way) = K + 1 /\ \A k \in 1 .. K + 1 : way[k] = w[k - 1]

FirstAt(steps, stop) == Min({k \in DOMAIN steps : steps[k] = stop})
IsSteps(steps, w, n) == steps = [k \in 1 .. n + 1 |-> w[k - 1]]

LEMMA WayOfSteps ==
    ASSUME NEW n \in Nat, NEW w, \A k \in 0 .. n + 1 : w[k] \in Nat,
           NEW K \in 0 .. n, \A k \in 0 .. K - 1 : w[k] # w[K],
           NEW steps, IsSteps(steps, w, n)
    PROVE  IsWay(SubSeq(steps, 1, FirstAt(steps, w[K])), w, K)
<1> DEFINE at == {k \in DOMAIN steps : steps[k] = w[K]}
<1>1. /\ DOMAIN steps = 1 .. n + 1
      /\ \A k \in 1 .. n + 1 : k - 1 \in 0 .. n + 1 /\ steps[k] = w[k - 1] /\ steps[k] \in Nat
  BY DEF IsSteps
<1>2. steps \in Seq(Nat) /\ Len(steps) = n + 1
  <2>1. steps = [k \in 1 .. n + 1 |-> steps[k]] /\ n + 1 \in Nat
    BY DEF IsSteps
  <2>2. steps \in [1 .. n + 1 -> Nat]
    BY <1>1, <2>1
  <2>. QED BY <2>1, <2>2, TakenAsSequence
<1>3. K + 1 \in at
  <2>1. K + 1 \in 1 .. n + 1 /\ (K + 1) - 1 = K
    OBVIOUS
  <2>. QED BY <1>1, <2>1
<1>4. ASSUME NEW k \in at PROVE K + 1 <= k
  <2>1. k \in 1 .. n + 1 /\ w[k - 1] = w[K]
    BY <1>1
  <2>2. k - 1 \notin 0 .. K - 1
    BY <2>1
  <2>. QED BY <2>1, <2>2
<1>5. Min(at) = K + 1
  <2>1. at \in SUBSET Nat /\ at # {}
    <3>1. \A k \in at : k \in Nat
      BY <1>1
    <3> HIDE DEF at
    <3>. QED BY <1>3, <3>1
  <2> HIDE DEF at
  <2>2. Min(at) \in at /\ \A y \in at : Min(at) <= y
    BY <2>1, MinIsLeast
  <2>3. K + 1 <= Min(at) /\ Min(at) <= K + 1 /\ Min(at) \in Nat
    BY <1>3, <1>4, <2>1, <2>2
  <2>. QED BY <2>3
<1> DEFINE way == SubSeq(steps, 1, K + 1)
<1>6. K + 1 \in 0 .. Len(steps)
  BY <1>2
<1>7. way \in Seq(Nat) /\ Len(way) = K + 1 /\ \A k \in 1 .. K + 1 : way[k] = steps[k]
  BY <1>2, <1>6, Beginning
<1> HIDE DEF way
<1>8. IsWay(way, w, K)
  <2>1. \A k \in 1 .. K + 1 : k \in 1 .. n + 1
    OBVIOUS
  <2>. QED BY <1>1, <1>7, <2>1 DEF IsWay
<1>. QED BY <1>5, <1>8 DEF way, FirstAt

LEMMA LabelsOfWay ==
    ASSUME NEW data \in Seq(Octet), NEW K \in Nat, NEW w, WayTo(data, w, K),
           Within(data, w[K]), At(data, w[K]) = 0, NEW way, IsWay(way, w, K)
    PROVE  \E F : LabelsAlong(data, w, K, F) /\ F[0] = LabelsOf(data, way)
<1> DEFINE T == TheLabels(data, way)
           F == [k \in 0 .. K |-> T[k + 1]]
<1>1. /\ K + 1 \in Nat /\ Len(way) = K + 1
      /\ \A k \in 0 .. K : k + 1 \in 1 .. K + 1 /\ way[k + 1] = w[k] /\ F[k] = T[k + 1]
  <2>1. \A k \in 0 .. K : k + 1 \in 1 .. K + 1 /\ (k + 1) - 1 = k
    OBVIOUS
  <2>. QED BY <2>1 DEF IsWay
<1>2. ~IsLabel(data, w[K])
  BY DEF IsLabel
<1>3. ASSUME NEW k \in 1 .. K + 1, IsLabel(data, way[k]) PROVE LabelAt(data, way[k]) \in Seq(Nat)
  <2>1. k - 1 \in 0 .. K /\ way[k] = w[k - 1]
    BY DEF IsWay
  <2>2. k - 1 # K
    BY <1>2, <1>3, <2>1
  <2>3. k - 1 \in 0 .. K - 1 /\ ~OnPointer(data, w[k - 1])
    BY <1>3, <2>1, <2>2 DEF IsLabel
  <2>. QED BY <2>1, <2>3, LabelOnWay
<1> HIDE DEF F
<1>4. /\ T[(K + 1) + 1] = <<>>
      /\ \A k \in 1 .. K + 1 :
            /\ IsLabel(data, way[k]) => T[k] = <<LabelAt(data, way[k])>> \o T[k + 1]
            /\ ~IsLabel(data, way[k]) => T[k] = T[k + 1]
  <2> DEFINE N == K + 1
  <2>1. N \in Nat /\ N = Len(way)
    BY <1>1
  <2>2. \A k \in 1 .. N : IsLabel(data, way[k]) => LabelAt(data, way[k]) \in Seq(Nat)
    BY <1>3
  <2> HIDE DEF N
  <2>3. LabelledBy(data, way, N, T)
    BY <2>1, <2>2, TheLabelsAre
  <2>. QED BY <2>3, Zenon DEF N, LabelledBy
<1> HIDE DEF T
<1>5. F[K] = <<>>
  <2>1. K \in 0 .. K
    OBVIOUS
  <2>2. T[K + 1] = T[(K + 1) + 1]
    BY <1>1, <1>2, <1>4, <2>1
  <2>. QED BY <1>1, <1>4, <2>1, <2>2
<1>6. ASSUME NEW k \in 0 .. K - 1
      PROVE  /\ IsLabel(data, w[k]) => F[k] = <<LabelAt(data, w[k])>> \o F[k + 1]
             /\ ~IsLabel(data, w[k]) => F[k] = F[k + 1]
  <2>1. k \in 0 .. K /\ k + 1 \in 0 .. K
    OBVIOUS
  <2>2. F[k] = T[k + 1] /\ F[k + 1] = T[(k + 1) + 1] /\ k + 1 \in 1 .. K + 1 /\ way[k + 1] = w[k]
    BY <1>1, <2>1
  <2>. QED BY <1>4, <2>2, Zenon
<1>7. F[0] = LabelsOf(data, way)
  <2>1. 0 \in 0 .. K /\ 0 + 1 = 1
    OBVIOUS
  <2>2. LabelsOf(data, way) = T[1]
    BY LabelsOfIs DEF T
  <2>. QED BY <1>1, <2>1, <2>2
<1>. QED BY <1>5, <1>6, <1>7 DEF LabelsAlong

(* What NamesExact says of a name that ends.                                        *)
NameIs(r, data, way, stop) ==
    LET jumps == {k \in DOMAIN way : OnPointer(data, way[k])}
        bare == /\ Len(way) > 1 /\ OnPointer(data, way[Len(way) - 1])
                /\ LabelsOf(data, way) # <<>>
    IN /\ ~DNS!Raised(r)
       /\ r.name = DNS!Join(LabelsOf(data, way)) \o (IF bare THEN <<46>> ELSE <<>>)
       /\ r.len = IF jumps = {} THEN stop + 1 ELSE way[Min(jumps)] + 2

EndsAt(e, data, way, stop) ==
    LET jumps == {k \in DOMAIN way : OnPointer(data, way[k])}
    IN e = IF jumps = {} THEN stop + 1 ELSE way[Min(jumps)] + 2

LEMMA EndOfWay ==
    ASSUME NEW data, NEW K \in Nat, NEW w, \A k \in 0 .. K : w[k] \in Nat,
           ~OnPointer(data, w[K]), NEW way, IsWay(way, w, K), NEW e, EndOf(data, w, K, 0, e)
    PROVE  e \in Nat /\ EndsAt(e, data, way, w[K])
<1> DEFINE jumps == {k \in DOMAIN way : OnPointer(data, way[k])}
<1> SUFFICES e \in Nat /\ e = IF jumps = {} THEN w[K] + 1 ELSE way[Min(jumps)] + 2
  BY DEF EndsAt
<1>0. \A k \in DOMAIN way : k \in jumps <=> OnPointer(data, way[k])
  OBVIOUS
<1>9. jumps \subseteq DOMAIN way
  OBVIOUS
<1> HIDE DEF jumps
<1>1. /\ DOMAIN way = 1 .. K + 1 /\ \A k \in 1 .. K + 1 : way[k] = w[k - 1] /\ k - 1 \in 0 .. K
  BY DEF IsWay
<1>2. \A j \in 0 .. K : j + 1 \in 1 .. K + 1 /\ (j + 1) - 1 = j
  OBVIOUS
<1>3. CASE jumps = {}
  <2>1. ASSUME NEW j \in 0 .. K - 1 PROVE ~OnPointer(data, w[j])
    <3>1. j \in 0 .. K
      OBVIOUS
    <3>. QED BY <1>0, <1>1, <1>2, <1>3, <3>1
  <2>2. e = w[K] + 1
    BY <2>1 DEF EndOf
  <2>3. w[K] \in Nat
    OBVIOUS
  <2>. QED BY <1>3, <2>2, <2>3
<1>4. CASE jumps # {}
  <2>1. jumps \in SUBSET Nat
    <3>1. \A k \in jumps : k \in Nat
      BY <1>1, <1>9
    <3>. QED BY <3>1
  <2>2. Min(jumps) \in jumps /\ \A y \in jumps : Min(jumps) <= y
    BY <1>4, <2>1, MinIsLeast
  <2>3. PICK m \in 1 .. K + 1 : m = Min(jumps) /\ OnPointer(data, way[m])
    BY <1>0, <1>1, <1>9, <2>2
  <2>4. m - 1 \in 0 .. K /\ way[m] = w[m - 1] /\ OnPointer(data, w[m - 1])
    BY <1>1, <2>3
  <2>5. m - 1 \in 0 .. K - 1
    <3>1. m - 1 # K
      BY <2>4
    <3>. QED BY <2>4, <3>1
  <2>6. ASSUME NEW i \in 0 .. (m - 1) - 1 PROVE ~OnPointer(data, w[i])
    <3>1. i \in 0 .. K /\ ~(m <= i + 1)
      OBVIOUS
    <3>2. i + 1 \in 1 .. K + 1 /\ way[i + 1] = w[i]
      BY <1>1, <1>2, <3>1
    <3>3. i + 1 \notin jumps
      BY <2>2, <2>3, <3>1
    <3>. QED BY <1>0, <1>1, <3>2, <3>3
  <2>7. e = w[m - 1] + 2
    BY <2>4, <2>5, <2>6 DEF EndOf
  <2>8. w[m - 1] \in Nat
    BY <2>4
  <2>. QED BY <1>4, <2>3, <2>4, <2>7, <2>8
<1>. QED BY <1>3, <1>4

LEMMA EndedName ==
    ASSUME NEW data \in Seq(Octet), NEW K \in Nat, NEW w, WayTo(data, w, K),
           PointersFrom(data, w, K, 0) <= MaxRecursion,
           Within(data, w[K]), At(data, w[K]) = 0, NEW way, IsWay(way, w, K),
           NEW r, r = DNS!ParseName(data, 0)
    PROVE  NameIs(r, data, way, w[K])
<1>0. K \in Nat
  OBVIOUS
<1>1. PICK F : LabelsAlong(data, w, K, F) /\ F[0] = LabelsOf(data, way)
  BY <1>0, LabelsOfWay
<1>2. ReadsTo(data, w, K, F, 0, Read(data, MaxRecursion, 0))
  BY <1>1, WayToTheEnd
<1>3. PICK read, e : /\ Read(data, MaxRecursion, 0) = [end |-> e, labels |-> read]
                     /\ ReadAs(read, F[0], Bare(data, w, K), 0 = K)
                     /\ EndOf(data, w, K, 0, e)
  BY <1>2 DEF ReadsTo
<1>4. ~OnPointer(data, w[K])
  BY DEF OnPointer
<1>5. \A k \in 0 .. K : w[k] \in Nat
  BY DEF WayTo
<1>6. e \in Nat /\ EndsAt(e, data, way, w[K])
  BY <1>0, <1>3, <1>4, <1>5, EndOfWay
<1>7. ~DNS!Raised(r) /\ r.len = e /\ r.name = DNS!Join(read)
  <2> DEFINE all == [end |-> e, labels |-> read]
  <2>1. ~DNS!Raised(all) /\ all.end = e /\ all.labels = read
    BY DEF DNS!Raised
  <2> HIDE DEF all
  <2>2. DNS!LabelsFrom(data)[MaxRecursion][0] = all
    BY <1>3 DEF Read, all
  <2>3. r = [len |-> e - 0, name |-> DNS!Join(read)]
    BY <2>1, <2>2, Zenon DEF DNS!ParseName
  <2>4. e - 0 = e
    BY <1>6
  <2>5. ~DNS!Raised([len |-> e - 0, name |-> DNS!Join(read)])
    BY DEF DNS!Raised
  <2>. QED BY <2>3, <2>4, <2>5
<1> DEFINE labels == LabelsOf(data, way)
           bare == /\ Len(way) > 1 /\ OnPointer(data, way[Len(way) - 1])
                   /\ labels # <<>>
<1>8. bare <=> (Bare(data, w, K) /\ labels # <<>> /\ ~(0 = K))
  <2>1. Len(way) = K + 1
    BY DEF IsWay
  <2>2. CASE K = 0
    BY <2>1, <2>2 DEF Bare
  <2>3. CASE K # 0
    <3>1. K \in 1 .. K + 1 /\ (K + 1) - 1 = K /\ K + 1 > 1
      BY <1>0, <2>3
    <3>2. way[Len(way) - 1] = w[K - 1]
      BY <2>1, <3>1 DEF IsWay
    <3>. QED BY <2>1, <2>3, <3>1, <3>2 DEF Bare
  <2>. QED BY <2>2, <2>3
<1>9. DNS!Join(read) = DNS!Join(labels) \o (IF bare THEN <<46>> ELSE <<>>)
  <2>1. labels \in Seq(Seq(Nat))
    BY <1>1, <1>3 DEF ReadAs, Names
  <2>2. DNS!Join(read) = IF bare THEN Cat(DNS!Join(labels), <<DNS!Dot>>) ELSE DNS!Join(labels)
    BY <1>1, <1>3, <1>8, Zenon DEF ReadAs
  <2> HIDE DEF bare, labels
  <2>3. DNS!Join(labels) \in Seq(Nat)
    BY <2>1, JoinIsName
  <2>4. DNS!Join(labels) \o <<>> = DNS!Join(labels)
    BY <2>3, ConcatEmptySeq
  <2>5. CASE bare
    BY <2>2, <2>5, Zenon DEF Cat, DNS!Dot
  <2>6. CASE ~bare
    BY <2>2, <2>4, <2>6, Zenon
  <2>. QED BY <2>5, <2>6
<1>. QED BY <1>6, <1>7, <1>9, Zenon DEF NameIs, EndsAt

LEMMA NamesAreExact ==
    ASSUME NEW i \in NameInputs, i = input, result = NameAnswer(i)
    PROVE  NamesExact
<1> DEFINE data == input.data
           n == Len(data)
           w == Walk(data)
           stop == w[n + 1]
           steps == [k \in 1 .. n + 1 |-> w[k - 1]]
           way == SubSeq(steps, 1, Min({k \in DOMAIN steps : steps[k] = stop}))
<1>1. result = DNS!ParseName(data, 0)
  BY DEF NameAnswer
<1>2. data \in BoundedSeq(Octets, MaxOctets)
  BY DEF NameInputs
<1>3. data \in Seq(Octet) /\ n \in 0 .. MaxOctets /\ n \in Nat /\ MaxOctets \in Nat
  <2>1. MaxOctets \in Nat /\ Octets \subseteq Octet
    BY FormatsAssumption DEF FormatsAssumption, Octet
  <2> HIDE DEF data
  <2>2. Len(data) \in 0 .. MaxOctets /\ data \in Seq(Octets) /\ \A k \in 1 .. Len(data) : data[k] \in Octets
    BY <1>2, <2>1, BoundedIsSeq
  <2>3. PICK m \in Nat : m = Len(data)
    BY <2>1, <2>2
  <2>4. data \in [1 .. m -> Octet]
    BY <2>1, <2>2, <2>3
  <2>5. data \in Seq(Octet)
    BY <2>4, TakenAsSequence
  <2>. QED BY <2>1, <2>2, <2>5
<1> DEFINE Claim == IF ~Within(data, stop)
                    THEN result \in {DNS!Raises("IndexError"), DNS!Raises("struct.error")}
                    ELSE IF At(data, stop) # 0 THEN result = DNS!Raises("RecursionError")
                    ELSE NameIs(result, data, way, stop)
<1> SUFFICES Claim
  BY Zenon DEF NamesExact, NameIs
<1> HIDE DEF data
<1>4. /\ w[0] = 0
      /\ \A k \in 1 .. n + 1 : w[k] = Onward(data, w[k - 1])
      /\ \A k \in 0 .. n + 1 : w[k] \in Nat
  BY <1>3, WalkIs
<1>5. \A e : Read(data, MaxRecursion, 0) = DNS!Raises(e) => result = DNS!Raises(e)
  <2>1. \A e : DNS!Raised(DNS!Raises(e))
    BY DEF DNS!Raised, DNS!Raises
  <2>. QED BY <1>1, <2>1 DEF DNS!ParseName, Read
<1> HIDE DEF w, n
<1>6. CASE \A k \in 0 .. n : GoesOn(data, w[k])
  <2>1. \A k \in 0 .. n : w[k] \in Nat /\ GoesOn(data, w[k])
    BY <1>3, <1>4, <1>6
  <2>2. GoesOn(data, stop) /\ Read(data, MaxRecursion, 0) = DNS!Raises("RecursionError")
    BY <1>3, <1>4, <2>1, RoundName DEF n
  <2>. QED BY <1>5, <2>2 DEF GoesOn
<1>7. CASE \E k \in 0 .. n : ~GoesOn(data, w[k])
  <2>1. PICK K \in 0 .. n : WayTo(data, w, K) /\ ~GoesOn(data, w[K]) /\ stop = w[K]
    BY <1>3, <1>4, <1>7, WalkStops DEF n
  <2>2. K \in Nat /\ PointersFrom(data, w, K, 0) <= MaxRecursion
    <3>1. /\ MaxRecursion \in Nat
          /\ MaxOctets <= MaxRecursion \/ (MaxOctets <= 1024 /\ 640 <= MaxRecursion)
      BY FormatsAssumption DEF FormatsAssumption
    <3>2. PointersFrom(data, w, K, 0) \in 0 .. K
      BY PointersAtEnd
    <3>3. n <= 1024 => PointersFrom(data, w, K, 0) <= 640
      BY <1>3, <2>1, FewPointers DEF n
    <3>. QED BY <1>3, <3>1, <3>2, <3>3
  <2>3. CASE ~Within(data, w[K])
    <3>1. Read(data, MaxRecursion, 0) \in Errors
      BY <1>3, <2>1, <2>2, <2>3, WayToAnError
    <3>2. result \in Errors
      BY <1>5, <3>1 DEF Errors
    <3>. QED BY <2>1, <2>3, <3>2 DEF Errors
  <2>4. CASE Within(data, w[K])
    <3>1. At(data, w[K]) = 0
      BY <2>1, <2>4 DEF GoesOn
    <3>2. IsWay(way, w, K)
      <4>1. \A k \in 0 .. K - 1 : w[k] # w[K]
        BY <2>1 DEF WayTo
      <4>2. way = SubSeq(steps, 1, FirstAt(steps, w[K]))
        BY <2>1 DEF FirstAt
      <4>3. IsSteps(steps, w, n)
        BY DEF IsSteps
      <4> HIDE DEF steps, way
      <4>4. IsWay(SubSeq(steps, 1, FirstAt(steps, w[K])), w, K)
        BY <1>3, <1>4, <4>1, <4>3, WayOfSteps
      <4>. QED BY <4>2, <4>4
    <3> HIDE DEF way
    <3>3. NameIs(result, data, way, w[K])
      BY <1>1, <1>3, <2>1, <2>2, <2>4, <3>1, <3>2, EndedName
    <3>. QED BY <2>1, <2>4, <3>1, <3>3
  <2>. QED BY <2>3, <2>4
<1>. QED BY <1>6, <1>7

(* A name is read as the labels that following it passes, for every message that    *)
(* recvfrom(1024) returns: the calls suffice if it ends, and a way that comes back  *)
(* to where it was ends in a RecursionError and not in a loop                       *)
(* (dnsresolver.py 112-130, 373).                                                   *)
THEOREM NamesHold == Spec => []NamesExact
<1>1. ASSUME IInv PROVE NamesExact
  <2>1. CASE Handled("name")
    <3>1. input \in NameInputs /\ result = NameAnswer(input)
      BY <1>1, <2>1, InputOfKind, InputSets DEF IInv, Handled, Answered
    <3>. QED BY <3>1, NamesAreExact
  <2>. QED BY <2>1 DEF NamesExact
<1>2. IInv => NamesExact
  BY <1>1
<1>. QED BY <1>2, IInvHolds, PTL

-----------------------------------------------------------------------------------
(* Hostnames.  Labels joined in two ways: what a sequence of labels makes depends    *)
(* on its last label and on what those before it make.                              *)

LEMMA SameBeginning ==
    ASSUME NEW u \in Seq(Seq(Nat)), NEW v \in Seq(Seq(Nat)), NEW n \in Nat,
           n <= Len(u), n <= Len(v), \A k \in 1 .. n : u[k] = v[k]
    PROVE  Joined(u)[n] = Joined(v)[n]
<1> DEFINE f == Joined(u)
           g == Joined(v)
           U == {k \in 0 .. n : f[k] = g[k]}
<1>0. PICK a \in Nat, b \in Nat : a = Len(u) /\ b = Len(v)
  OBVIOUS
<1>1. JoinedUpTo(u, a, f) /\ JoinedUpTo(v, b, g)
  BY <1>0, JoinedIs
<1> HIDE DEF f, g
<1>2. 0 \in U
  BY <1>1 DEF JoinedUpTo
<1>3. ASSUME NEW m \in 0 .. n - 1, m \in U PROVE m + 1 \in U
  <2>1. m + 1 \in 1 .. n /\ m + 1 \in 0 .. n /\ (m + 1) - 1 = m /\ a # 0 /\ b # 0
    BY <1>0
  <2>2. u[m + 1] = v[m + 1] /\ f[m] = g[m]
    BY <1>3, <2>1
  <2>3. CASE m = 0
    BY <1>1, <2>1, <2>2, <2>3 DEF JoinedUpTo
  <2>4. CASE m # 0
    <3>1. m + 1 \in 2 .. a /\ m + 1 \in 2 .. b
      BY <1>0, <2>4
    <3>2. f[m + 1] = DotBetween(f[m], u[m + 1]) /\ g[m + 1] = DotBetween(g[m], v[m + 1])
      BY <1>1, <2>1, <3>1 DEF JoinedUpTo
    <3>. QED BY <2>1, <2>2, <3>2
  <2>. QED BY <2>3, <2>4
<1> HIDE DEF U
<1>4. \A m \in 0 .. n : m \in U
  BY <1>2, <1>3, UpTo
<1>5. n \in U
  BY <1>4
<1>. QED BY <1>5 DEF U, f, g

LEMMA JoinedLast ==
    ASSUME NEW u \in Seq(Seq(Nat)), NEW n \in Nat, n = Len(u)
    PROVE  /\ DNS!Join(u) = Joined(u)[n]
           /\ n = 1 => DNS!Join(u) = u[1]
           /\ n > 1 => DNS!Join(u) = DotBetween(Joined(u)[n - 1], u[n])
           /\ \A k \in 0 .. n : Joined(u)[k] \in Seq(Nat)
<1> DEFINE f == Joined(u)
<1>1. JoinedUpTo(u, n, f) /\ DNS!Join(u) = f[n]
  BY JoinedIs, JoinIsJoined
<1> HIDE DEF f
<1>2. /\ n # 0 => f[1] = u[1]
      /\ \A k \in 2 .. n : f[k] = DotBetween(f[k - 1], u[k])
      /\ \A k \in 0 .. n : f[k] \in Seq(Nat)
  BY <1>1 DEF JoinedUpTo
<1>3. n = 1 => f[n] = u[1]
  BY <1>2
<1>4. n > 1 => f[n] = DotBetween(f[n - 1], u[n])
  <2>1. n > 1 => n \in 2 .. n
    OBVIOUS
  <2>. QED BY <1>2, <2>1
<1>5. /\ DNS!Join(u) = f[n]
      /\ n = 1 => DNS!Join(u) = u[1]
      /\ n > 1 => DNS!Join(u) = DotBetween(f[n - 1], u[n])
      /\ \A k \in 0 .. n : f[k] \in Seq(Nat)
  BY <1>1, <1>2, <1>3, <1>4, Zenon
<1>. QED BY <1>5 DEF f

(* An octet more: of the last label, or a dot and a new label.                      *)
GrownBy(v, c) == [v EXCEPT ![Len(v)] = Append(@, c)]

LEMMA GrownIs ==
    ASSUME NEW v \in Seq(Seq(Nat)), NEW n \in Nat, n = Len(v), n # 0, NEW c \in Nat
    PROVE  /\ GrownBy(v, c) \in Seq(Seq(Nat)) /\ Len(GrownBy(v, c)) = n
           /\ \A k \in 1 .. n - 1 : GrownBy(v, c)[k] = v[k]
           /\ GrownBy(v, c)[n] = Append(v[n], c)
<1> DEFINE g == GrownBy(v, c)
           T == Seq(Nat)
<1>1. /\ DOMAIN v = 1 .. n /\ \A k \in 1 .. n : v[k] \in T
  OBVIOUS
<1>2. g = [k \in 1 .. n |-> IF k = n THEN Append(v[n], c) ELSE v[k]]
  BY <1>1 DEF GrownBy
<1>3. Append(v[n], c) \in T
  <2>1. n \in 1 .. n
    OBVIOUS
  <2>2. v[n] \in T
    BY <1>1, <2>1
  <2>. QED BY <2>2, AppendProperties
<1> HIDE DEF T
<1>4. /\ \A k \in 1 .. n : g[k] = IF k = n THEN Append(v[n], c) ELSE v[k]
      /\ g = [k \in 1 .. n |-> g[k]]
  BY <1>2
<1> HIDE DEF g
<1>5. g \in [1 .. n -> T]
  BY <1>1, <1>3, <1>4
<1>6. g \in Seq(T) /\ Len(g) = n
  BY <1>5, TakenAsSequence
<1>7. (\A k \in 1 .. n - 1 : g[k] = v[k]) /\ g[n] = Append(v[n], c)
  <2>1. n \in 1 .. n /\ \A k \in 1 .. n - 1 : k \in 1 .. n /\ k # n
    OBVIOUS
  <2>. QED BY <1>4, <2>1
<1>. QED BY <1>6, <1>7 DEF g, T

LEMMA JoinGrown ==
    ASSUME NEW v \in Seq(Seq(Nat)), v # <<>>, NEW c \in Nat
    PROVE  DNS!Join(GrownBy(v, c)) = Cat(DNS!Join(v), <<c>>)
<1> DEFINE u == GrownBy(v, c)
           one == <<c>>
           dot == <<DNS!Dot>>
<1>0. PICK n \in Nat : n = Len(v) /\ n # 0
  OBVIOUS
<1>1. /\ u \in Seq(Seq(Nat)) /\ Len(u) = n
      /\ \A k \in 1 .. n - 1 : u[k] = v[k]
      /\ u[n] = Append(v[n], c)
  BY <1>0, GrownIs
<1>2. v[n] \in Seq(Nat)
  <2>1. n \in 1 .. Len(v)
    BY <1>0
  <2>. QED BY <2>1
<1>3. u[n] = Cat(v[n], one)
  BY <1>1, <1>2, AppendIsConcat DEF Cat
<1>4. one \in Seq(Nat) /\ dot \in Seq(Nat)
  BY DotIsOctet
<1>5. \A x, y : DotBetween(x, y) = Cat(Cat(x, dot), y)
  BY DEF DotBetween, Cat
<1> HIDE DEF u, one, dot
<1>6. /\ n = 1 => DNS!Join(u) = u[1] /\ DNS!Join(v) = v[1]
      /\ n > 1 => /\ DNS!Join(u) = DotBetween(Joined(u)[n - 1], u[n])
                  /\ DNS!Join(v) = DotBetween(Joined(v)[n - 1], v[n])
                  /\ Joined(v)[n - 1] \in Seq(Nat)
  <2>1. n > 1 => n - 1 \in 0 .. n
    OBVIOUS
  <2>. QED BY <1>0, <1>1, <2>1, JoinedLast
<1>7. ASSUME n = 1 PROVE DNS!Join(u) = Cat(DNS!Join(v), one)
  <2>1. DNS!Join(u) = u[n] /\ DNS!Join(v) = v[n]
    BY <1>6, <1>7
  <2>. QED BY <1>3, <2>1
<1>8. ASSUME n # 1 PROVE DNS!Join(u) = Cat(DNS!Join(v), one)
  <2>1. n > 1 /\ n - 1 \in Nat /\ n - 1 <= n
    BY <1>0, <1>8
  <2>2. Joined(u)[n - 1] = Joined(v)[n - 1]
    BY <1>0, <1>1, <2>1, SameBeginning
  <2> DEFINE x == Joined(v)[n - 1]
  <2>3. DNS!Join(u) = Cat(Cat(x, dot), Cat(v[n], one)) /\ DNS!Join(v) = Cat(Cat(x, dot), v[n])
    BY <1>3, <1>5, <1>6, <2>1, <2>2
  <2>4. x \in Seq(Nat)
    BY <1>6, <2>1
  <2> HIDE DEF x
  <2>5. Cat(x, dot) \in Seq(Nat)
    BY <1>4, <2>4, CatIsSequence
  <2>6. Cat(Cat(Cat(x, dot), v[n]), one) = Cat(Cat(x, dot), Cat(v[n], one))
    BY <1>2, <1>4, <2>5, CatAssociates
  <2>. QED BY <2>3, <2>6
<1>9. DNS!Join(u) = Cat(DNS!Join(v), one)
  BY <1>7, <1>8
<1>. QED BY <1>9 DEF u, one

LEMMA JoinBegun ==
    ASSUME NEW v \in Seq(Seq(Nat)), v # <<>>
    PROVE  DNS!Join(Append(v, <<>>)) = Cat(DNS!Join(v), <<DNS!Dot>>)
<1> DEFINE u == Append(v, <<>>)
           dot == <<DNS!Dot>>
<1>0. PICK n \in Nat : n = Len(v) /\ n # 0
  OBVIOUS
<1>1. /\ u \in Seq(Seq(Nat)) /\ Len(u) = n + 1 /\ u[n + 1] = <<>>
      /\ \A k \in 1 .. n : u[k] = v[k]
  <2>1. <<>> \in Seq(Nat)
    OBVIOUS
  <2>. QED BY <1>0, <2>1, AppendProperties
<1>2. dot \in Seq(Nat)
  BY DotIsOctet
<1>3. \A x, y : DotBetween(x, y) = Cat(Cat(x, dot), y)
  BY DEF DotBetween, Cat
<1> HIDE DEF u, dot
<1>4. Joined(u)[n] = Joined(v)[n]
  <2>1. n <= Len(u) /\ n <= Len(v) /\ \A k \in 1 .. n : u[k] = v[k]
    BY <1>0, <1>1
  <2>2. u \in Seq(Seq(Nat))
    BY <1>1
  <2>. QED BY <2>1, <2>2, SameBeginning
<1>5. DNS!Join(v) = Joined(v)[n] /\ DNS!Join(v) \in Seq(Nat)
  <2>1. n \in 0 .. n
    OBVIOUS
  <2>. QED BY <1>0, <2>1, JoinedLast
<1>6. DNS!Join(u) = DotBetween(Joined(u)[n], u[n + 1])
  <2>1. n + 1 \in Nat /\ n + 1 > 1 /\ (n + 1) - 1 = n
    BY <1>0
  <2>. QED BY <1>1, <2>1, JoinedLast
<1>7. Cat(Cat(DNS!Join(v), dot), <<>>) = Cat(DNS!Join(v), dot)
  <2>1. Cat(DNS!Join(v), dot) \in Seq(Nat)
    BY <1>2, <1>5, CatIsSequence
  <2>2. \A x \in Seq(Nat) : Cat(x, <<>>) = x
    BY ConcatEmptySeq DEF Cat
  <2>. QED BY <2>1, <2>2
<1>. QED BY <1>1, <1>3, <1>4, <1>5, <1>6, <1>7 DEF u, dot

-----------------------------------------------------------------------------------
(* The pieces between separators.                                                   *)

PieceStep(s, sep, v, i) ==
    IF s[i] = sep THEN Append(v, <<>>) ELSE GrownBy(v, s[i])
PiecesBy(s, sep, f) ==
    f = [i \in 0 .. Len(s) |->
            IF i = 0 THEN <<<<>>>>
            ELSE IF s[i] = sep THEN Append(f[i - 1], <<>>)
            ELSE [f[i - 1] EXCEPT ![Len(f[i - 1])] = Append(@, s[i])]]
ThePieces(s, sep) == CHOOSE f : PiecesBy(s, sep, f)

LEMMA SplitIs ==
    ASSUME NEW s, NEW sep PROVE DNS!Split(s, sep) = ThePieces(s, sep)[Len(s)]
BY DEF DNS!Split, ThePieces, PiecesBy

SomePieces == {v \in Names : v # <<>>}

LEMMA PieceStepIsPieces ==
    ASSUME NEW s \in Seq(Nat), NEW i \in 1 .. Len(s), NEW v \in SomePieces, NEW sep
    PROVE  PieceStep(s, sep, v, i) \in SomePieces
<1>1. s[i] \in Nat
  OBVIOUS
<1>2. PICK n \in Nat : n = Len(v) /\ n # 0
  BY DEF SomePieces, Names
<1>3. v \in Seq(Seq(Nat)) /\ <<>> \in Seq(Nat)
  BY DEF SomePieces, Names
<1>4. Append(v, <<>>) \in Seq(Seq(Nat)) /\ Append(v, <<>>) # <<>>
  BY <1>3, AppendProperties
<1>5. GrownBy(v, s[i]) \in Seq(Seq(Nat)) /\ Len(GrownBy(v, s[i])) = n
  BY <1>1, <1>2, <1>3, GrownIs
<1>6. GrownBy(v, s[i]) # <<>>
  <2> DEFINE g == GrownBy(v, s[i])
  <2>1. g \in Seq(Seq(Nat)) /\ Len(g) # 0
    BY <1>2, <1>5
  <2> HIDE DEF g
  <2>2. g # <<>>
    BY <2>1
  <2>. QED BY <2>2 DEF g
<1>. QED BY <1>4, <1>5, <1>6 DEF PieceStep, SomePieces, Names

LEMMA PiecesExist ==
    ASSUME NEW s \in Seq(Nat), NEW sep PROVE \E f : PiecesBy(s, sep, f)
<1> DEFINE T == SomePieces
           step == [x \in (1 .. Len(s)) \X T |-> PieceStep(s, sep, x[2], x[1])]
<1>0. PICK n \in Nat : n = Len(s)
  OBVIOUS
<1>1. \A k \in 1 .. n, v \in T : PieceStep(s, sep, v, k) \in T
  BY <1>0, PieceStepIsPieces
<1>2. <<<<>>>> \in T
  <2>1. <<<<>>>> \in Seq(Seq(Nat)) /\ <<<<>>>> # <<>>
    OBVIOUS
  <2>. QED BY <2>1 DEF SomePieces, Names
<1> HIDE DEF T
<1>3. \A k \in 1 .. n, v \in T : step[<<k, v>>] = PieceStep(s, sep, v, k)
  BY <1>0
<1>4. step \in [(1 .. n) \X T -> T]
  BY <1>0, <1>1
<1> HIDE DEF step
<1>5. PICK f \in [0 .. n -> T] : Stepped(f, n, <<<<>>>>, step)
  BY <1>2, <1>4, StepsExist
<1>6. ASSUME NEW i \in 0 .. n
      PROVE  f[i] = IF i = 0 THEN <<<<>>>>
                    ELSE IF s[i] = sep THEN Append(f[i - 1], <<>>)
                    ELSE [f[i - 1] EXCEPT ![Len(f[i - 1])] = Append(@, s[i])]
  <2>1. i = 0 => f[i] = <<<<>>>>
    BY <1>5 DEF Stepped
  <2>2. ASSUME i # 0 PROVE f[i] = PieceStep(s, sep, f[i - 1], i)
    <3>1. i \in 1 .. n /\ i - 1 \in 0 .. n
      BY <2>2
    <3>2. f[i - 1] \in T /\ f[i] = step[<<i, f[i - 1]>>]
      BY <1>5, <3>1 DEF Stepped
    <3>. QED BY <1>3, <3>1, <3>2
  <2>. QED BY <2>1, <2>2, Zenon DEF PieceStep, GrownBy
<1>7. PiecesBy(s, sep, f)
  <2>1. f = [i \in 0 .. n |-> f[i]]
    BY <1>5
  <2>2. [i \in 0 .. n |-> f[i]] =
          [i \in 0 .. n |->
              IF i = 0 THEN <<<<>>>>
              ELSE IF s[i] = sep THEN Append(f[i - 1], <<>>)
              ELSE [f[i - 1] EXCEPT ![Len(f[i - 1])] = Append(@, s[i])]]
    BY <1>6, Zenon
  <2>. QED BY <1>0, <2>1, <2>2, Zenon DEF PiecesBy
<1>. QED BY <1>7

LEMMA ThePiecesAre ==
    ASSUME NEW s \in Seq(Nat), NEW sep, NEW n \in Nat, n = Len(s)
    PROVE  /\ ThePieces(s, sep)[0] = <<<<>>>>
           /\ \A i \in 1 .. n :
                ThePieces(s, sep)[i] = PieceStep(s, sep, ThePieces(s, sep)[i - 1], i)
<1> DEFINE f == ThePieces(s, sep)
<1>1. PiecesBy(s, sep, f)
  BY PiecesExist, Zenon DEF ThePieces
<1> HIDE DEF f
<1>2. \A i \in 0 .. n :
        f[i] = IF i = 0 THEN <<<<>>>>
               ELSE IF s[i] = sep THEN Append(f[i - 1], <<>>)
               ELSE [f[i - 1] EXCEPT ![Len(f[i - 1])] = Append(@, s[i])]
  BY <1>1, Zenon DEF PiecesBy
<1>3. 0 \in 0 .. n /\ \A i \in 1 .. n : i \in 0 .. n /\ i # 0
  OBVIOUS
<1>4. f[0] = <<<<>>>> /\ \A i \in 1 .. n : f[i] = PieceStep(s, sep, f[i - 1], i)
  BY <1>2, <1>3, Zenon DEF PieceStep, GrownBy
<1>. QED BY <1>4 DEF f

(* v are the pieces of the first i octets of s: joined again they are those octets, *)
(* and a dot at an end leaves an empty piece there.                                 *)
PiecesOf(s, i, v) ==
    /\ v \in Seq(Seq(Nat)) /\ v # <<>>
    /\ DNS!Join(v) = SubSeq(s, 1, i)
    /\ \A k \in 1 .. Len(v) : \A j \in 1 .. Len(v[k]) : \E m \in 1 .. i : v[k][j] = s[m]
    /\ i # 0 /\ s[1] = DNS!Dot => Len(v) > 1 /\ v[1] = <<>>
    /\ i # 0 /\ s[i] = DNS!Dot => v[Len(v)] = <<>>

LEMMA OneMore ==
    ASSUME NEW s \in Seq(Nat), NEW i \in Nat, i < Len(s)
    PROVE  SubSeq(s, 1, i + 1) = Cat(SubSeq(s, 1, i), <<s[i + 1]>>)
<1> DEFINE a == SubSeq(s, 1, i)
           b == SubSeq(s, 1, i + 1)
           c == s[i + 1]
           d == Append(a, c)
<1>0. i \in 0 .. Len(s) /\ i + 1 \in 0 .. Len(s) /\ i + 1 \in 1 .. Len(s)
  OBVIOUS
<1>1. a \in Seq(Nat) /\ Len(a) = i /\ \A k \in 1 .. i : a[k] = s[k]
  BY <1>0, Beginning
<1>2. b \in Seq(Nat) /\ Len(b) = i + 1 /\ \A k \in 1 .. i + 1 : b[k] = s[k]
  BY <1>0, Beginning
<1>3. c \in Nat
  BY <1>0
<1>5. c = s[i + 1]
  OBVIOUS
<1> HIDE DEF a, b, c
<1>4. /\ d \in Seq(Nat) /\ Len(d) = i + 1 /\ \A k \in 1 .. i : d[k] = a[k]
      /\ d[i + 1] = c
  BY <1>1, <1>3, AppendProperties
<1>6. d = Cat(a, <<c>>)
  BY <1>1, <1>3, AppendIsConcat DEF Cat
<1> HIDE DEF d
<1>7. \A k \in 1 .. i + 1 : b[k] = d[k]
  <2>1. ASSUME NEW k \in 1 .. i + 1 PROVE b[k] = d[k]
    <3>1. CASE k = i + 1
      BY <1>2, <1>4, <1>5, <3>1
    <3>2. CASE k # i + 1
      <4>1. k \in 1 .. i
        BY <3>2
      <4>. QED BY <1>1, <1>2, <1>4, <4>1
    <3>. QED BY <3>1, <3>2
  <2>. QED BY <2>1
<1>8. b = d
  BY <1>2, <1>4, <1>7, SeqEqual
<1>. QED BY <1>6, <1>8 DEF a, b, c

LEMMA BegunIs ==
    ASSUME NEW v \in Seq(Seq(Nat)), NEW n \in Nat, n = Len(v), NEW e \in Seq(Nat)
    PROVE  /\ Append(v, e) \in Seq(Seq(Nat)) /\ Len(Append(v, e)) = n + 1
           /\ Append(v, e) # <<>>
           /\ \A k \in 1 .. n : Append(v, e)[k] = v[k]
           /\ Append(v, e)[n + 1] = e
BY AppendProperties

LEMMA PiecesGrow ==
    ASSUME NEW s \in Seq(Nat), NEW i \in Nat, i < Len(s), NEW v, PiecesOf(s, i, v)
    PROVE  PiecesOf(s, i + 1, PieceStep(s, DNS!Dot, v, i + 1))
<1> DEFINE c == s[i + 1]
<1>0. PICK n \in Nat : n = Len(v) /\ n # 0
  BY DEF PiecesOf
<1>1. c \in Nat
  <2>1. i + 1 \in 1 .. Len(s)
    OBVIOUS
  <2>. QED BY <2>1
<1>2. v \in Seq(Seq(Nat)) /\ v # <<>> /\ DNS!Join(v) = SubSeq(s, 1, i)
  BY DEF PiecesOf
<1>3. SubSeq(s, 1, i + 1) = Cat(SubSeq(s, 1, i), <<c>>)
  BY OneMore
<1>4. i + 1 \in 1 .. i + 1 /\ i + 1 # 0 /\ \A m \in 1 .. i : m \in 1 .. i + 1
  OBVIOUS
<1>5. c = s[i + 1]
  OBVIOUS
<1> HIDE DEF c
<1>6. CASE c = DNS!Dot
  <2> DEFINE u == Append(v, <<>>)
  <2>1. u = PieceStep(s, DNS!Dot, v, i + 1)
    BY <1>5, <1>6 DEF PieceStep
  <2>2. /\ u \in Seq(Seq(Nat)) /\ Len(u) = n + 1 /\ u[n + 1] = <<>> /\ u # <<>>
        /\ \A k \in 1 .. n : u[k] = v[k]
    <3>1. <<>> \in Seq(Nat)
      OBVIOUS
    <3>. QED BY <1>0, <1>2, <3>1, BegunIs
  <2>3. DNS!Join(u) = SubSeq(s, 1, i + 1)
    BY <1>2, <1>3, <1>6, JoinBegun
  <2> HIDE DEF u
  <2>4. ASSUME NEW k \in 1 .. Len(u), NEW j \in 1 .. Len(u[k])
        PROVE  \E m \in 1 .. i + 1 : u[k][j] = s[m]
    <3>1. CASE k = n + 1
      <4>1. Len(u[k]) = 0
        BY <2>2, <3>1
      <4>. QED BY <4>1
    <3>2. CASE k # n + 1
      <4>0. k \in 1 .. n
        <5>1. Len(u) = n + 1 /\ n \in Nat
          BY <1>0, <2>2
        <5> HIDE DEF PiecesOf
        <5>. QED BY <3>2, <5>1
      <4>1. k \in 1 .. n /\ u[k] = v[k]
        BY <2>2, <4>0
      <4>2. PICK m \in 1 .. i : v[k][j] = s[m]
        BY <1>0, <4>1 DEF PiecesOf
      <4>. QED BY <1>4, <4>1, <4>2
    <3>. QED BY <3>1, <3>2
  <2>5. ASSUME s[1] = DNS!Dot PROVE Len(u) > 1 /\ u[1] = <<>>
    <3>1. v[1] = <<>>
      <4>1. CASE i = 0
        <5>1. v[1] \in Seq(Nat)
          <6>1. 1 \in 1 .. n
            BY <1>0
          <6>. QED BY <1>0, <1>2, <6>1
        <5>2. Len(v[1]) = 0
          <6>1. \A j \in 1 .. Len(v[1]) : \E m \in 1 .. 0 : v[1][j] = s[m]
            <7>1. 1 \in 1 .. n
              BY <1>0
            <7>. QED BY <1>0, <4>1, <7>1 DEF PiecesOf
          <6>2. 1 \notin 1 .. Len(v[1])
            BY <6>1
          <6>. QED BY <5>1, <6>2
        <5>. QED BY <5>1, <5>2
      <4>2. CASE i # 0
        BY <2>5, <4>2 DEF PiecesOf
      <4>. QED BY <4>1, <4>2
    <3>2. 1 \in 1 .. n /\ n + 1 > 1
      BY <1>0
    <3>. QED BY <2>2, <3>1, <3>2
  <2>6. u[Len(u)] = <<>>
    BY <2>2
  <2>7. PiecesOf(s, i + 1, u)
    BY <2>2, <2>3, <2>4, <2>5, <2>6 DEF PiecesOf
  <2>. QED BY <2>1, <2>7
<1>7. CASE c # DNS!Dot
  <2> DEFINE u == GrownBy(v, c)
  <2>1. u = PieceStep(s, DNS!Dot, v, i + 1)
    BY <1>5, <1>7 DEF PieceStep
  <2>2. /\ u \in Seq(Seq(Nat)) /\ Len(u) = n
        /\ \A k \in 1 .. n - 1 : u[k] = v[k]
        /\ u[n] = Append(v[n], c)
    BY <1>0, <1>1, <1>2, GrownIs
  <2>3. DNS!Join(u) = SubSeq(s, 1, i + 1)
    BY <1>1, <1>2, <1>3, JoinGrown
  <2> HIDE DEF u
  <2>4. u # <<>>
    BY <1>0, <2>2
  <2>5. n \in 1 .. n /\ v[n] \in Seq(Nat)
    BY <1>0, <1>2
  <2>6. /\ Len(u[n]) = Len(v[n]) + 1 /\ u[n][Len(v[n]) + 1] = c
        /\ \A j \in 1 .. Len(v[n]) : u[n][j] = v[n][j]
    BY <1>1, <2>2, <2>5, AppendProperties
  <2>7. ASSUME NEW k \in 1 .. Len(u), NEW j \in 1 .. Len(u[k])
        PROVE  \E m \in 1 .. i + 1 : u[k][j] = s[m]
    <3>1. CASE k = n /\ j = Len(v[n]) + 1
      BY <1>4, <1>5, <2>6, <3>1
    <3>2. CASE ~(k = n /\ j = Len(v[n]) + 1)
      <4>1. k \in 1 .. n /\ j \in 1 .. Len(v[k]) /\ u[k][j] = v[k][j]
        <5>1. k \in 1 .. n
          BY <2>2
        <5>2. CASE k = n
          <6>1. j \in 1 .. Len(v[n]) + 1 /\ j # Len(v[n]) + 1 /\ Len(v[n]) \in Nat
            BY <2>5, <2>6, <3>2, <5>2
          <6>2. j \in 1 .. Len(v[n])
            BY <6>1
          <6>. QED BY <2>6, <5>1, <5>2, <6>2
        <5>3. CASE k # n
          <6>1. k \in 1 .. n - 1
            BY <5>1, <5>3
          <6>. QED BY <2>2, <5>1, <6>1
        <5>. QED BY <5>2, <5>3
      <4>2. PICK m \in 1 .. i : v[k][j] = s[m]
        BY <1>0, <4>1 DEF PiecesOf
      <4>. QED BY <1>4, <4>1, <4>2
    <3>. QED BY <3>1, <3>2
  <2>8. ASSUME s[1] = DNS!Dot PROVE Len(u) > 1 /\ u[1] = <<>>
    <3>1. i # 0
      BY <1>5, <1>7, <2>8
    <3>2. n > 1 /\ v[1] = <<>>
      BY <1>0, <2>8, <3>1 DEF PiecesOf
    <3>3. 1 \in 1 .. n - 1
      BY <3>2
    <3>. QED BY <2>2, <3>2, <3>3
  <2>9. PiecesOf(s, i + 1, u)
    BY <1>5, <1>7, <2>2, <2>3, <2>4, <2>7, <2>8 DEF PiecesOf
  <2>. QED BY <2>1, <2>9
<1>. QED BY <1>6, <1>7

LEMMA SplitIntoPieces ==
    ASSUME NEW s \in Seq(Nat), NEW n \in Nat, n = Len(s)
    PROVE  PiecesOf(s, n, DNS!Split(s, DNS!Dot))
<1> DEFINE f == ThePieces(s, DNS!Dot)
           U == {i \in 0 .. n : PiecesOf(s, i, f[i])}
<1>1. /\ f[0] = <<<<>>>>
      /\ \A i \in 1 .. n : f[i] = PieceStep(s, DNS!Dot, f[i - 1], i)
  BY ThePiecesAre
<1>2. DNS!Split(s, DNS!Dot) = f[n]
  BY SplitIs
<1> HIDE DEF f
<1>3. 0 \in U
  <2> DEFINE none == <<<<>>>>
  <2>1. none \in Seq(Seq(Nat)) /\ none # <<>> /\ Len(none) = 1 /\ none[1] = <<>>
    OBVIOUS
  <2>2. DNS!Join(none) = <<>>
    <3>1. <<>> \in Seq(Nat)
      OBVIOUS
    <3>. QED BY <3>1, JoinOfOne
  <2>3. SubSeq(s, 1, 0) = <<>>
    <3>1. 0 \in 0 .. Len(s)
      OBVIOUS
    <3>2. SubSeq(s, 1, 0) \in Seq(Nat) /\ Len(SubSeq(s, 1, 0)) = 0
      BY <3>1, Beginning
    <3>. QED BY <3>2
  <2> HIDE DEF none
  <2>4. \A k \in 1 .. Len(none) : \A j \in 1 .. Len(none[k]) : FALSE
    <3>1. \A k \in 1 .. 1 : k = 1
      OBVIOUS
    <3>2. \A j \in 1 .. Len(none[1]) : FALSE
      BY <2>1
    <3>. QED BY <2>1, <3>1, <3>2
  <2>5. PiecesOf(s, 0, none)
    BY <2>1, <2>2, <2>3, <2>4 DEF PiecesOf
  <2>. QED BY <1>1, <2>5 DEF none
<1>4. ASSUME NEW m \in 0 .. n - 1, m \in U PROVE m + 1 \in U
  <2>1. m \in Nat /\ m < Len(s) /\ m + 1 \in 1 .. n /\ m + 1 \in 0 .. n /\ (m + 1) - 1 = m
    OBVIOUS
  <2>2. PiecesOf(s, m + 1, PieceStep(s, DNS!Dot, f[m], m + 1))
    BY <1>4, <2>1, PiecesGrow
  <2>. QED BY <1>1, <2>1, <2>2
<1> HIDE DEF U
<1>5. \A m \in 0 .. n : m \in U
  BY <1>3, <1>4, UpTo
<1>6. n \in U
  BY <1>5
<1>. QED BY <1>2, <1>6 DEF U

-----------------------------------------------------------------------------------
(* A hostname that is accepted has no empty label, so no dot at an end.             *)

LEMMA LabelsAreNotEmpty ==
    ASSUME NEW s \in Seq(Nat), DNS!ValidLabel(s) PROVE s # <<>>
<1> SUFFICES ASSUME s = <<>> PROVE FALSE
  OBVIOUS
<1>1. Len(s) \in 1 .. MaxLabel
  BY DEF DNS!ValidLabel
<1>. QED BY <1>1, FormatsAssumption DEF FormatsAssumption

LEMMA LongLabelEndsInNewline ==
    ASSUME NEW s \in Seq(Nat), DNS!ValidLabel(s), Len(s) > MaxLabel
    PROVE  \E j \in 1 .. Len(s) : s[j] = DNS!Newline
<1>0. MaxLabel \in Nat /\ MaxLabel >= 1
  BY FormatsAssumption DEF FormatsAssumption
<1>1. DNS!Last(s) = DNS!Newline
  <2> SUFFICES ASSUME DNS!Last(s) # DNS!Newline PROVE FALSE
    OBVIOUS
  <2>1. Len(s) \in 1 .. MaxLabel
    BY DEF DNS!ValidLabel
  <2>. QED BY <1>0, <2>1
<1>2. Len(s) \in 1 .. Len(s)
  BY <1>0
<1>. QED BY <1>1, <1>2 DEF DNS!Last

LEMMA NotStripped ==
    ASSUME NEW h \in Seq(Nat), NEW n \in Nat, n = Len(h), n # 0,
           h[1] # DNS!Dot, h[n] # DNS!Dot
    PROVE  DNS!Stripped(h) = SubSeq(h, 1, n)
<1> DEFINE kept == {i \in 1 .. n : h[i] # DNS!Dot}
<1>1. 1 \in kept /\ n \in kept /\ kept \in SUBSET Nat /\ kept \in SUBSET (0 .. n)
      /\ (\A y \in kept : 1 <= y) /\ (\A y \in kept : n >= y)
  OBVIOUS
<1>2. DNS!Stripped(h) = IF kept = {} THEN <<>> ELSE SubSeq(h, DNS!Min(kept), DNS!Max(kept))
  BY DEF DNS!Stripped
<1> HIDE DEF kept
<1>3. Min(kept) = 1 /\ Max(kept) = n
  BY <1>1, MinIs, MaxIs
<1>4. DNS!Min(kept) = 1 /\ DNS!Max(kept) = n
  BY <1>3 DEF Min, Max, DNS!Min, DNS!Max
<1>5. kept # {}
  BY <1>1
<1>. QED BY <1>2, <1>4, <1>5

LEMMA WholeSequence ==
    ASSUME NEW h \in Seq(Nat), NEW n \in Nat, n = Len(h)
    PROVE  SubSeq(h, 1, n) = h
<1> DEFINE s == SubSeq(h, 1, n)
<1>1. n \in 0 .. Len(h)
  OBVIOUS
<1>2. s \in Seq(Nat) /\ Len(s) = n /\ \A k \in 1 .. n : s[k] = h[k]
  BY <1>1, Beginning
<1> HIDE DEF s
<1>3. s = h
  BY <1>2, SeqEqual
<1>. QED BY <1>3 DEF s

(* The labels of an accepted name: none is empty, their octets are the name's, and  *)
(* joined they are the name again.                                                  *)
LabelsOfName(h, labels) ==
    /\ labels \in Seq(Seq(Nat)) /\ labels # <<>>
    /\ DNS!Join(labels) = h
    /\ \A k \in 1 .. Len(labels) : labels[k] # <<>> /\ DNS!ValidLabel(labels[k])
    /\ \A k \in 1 .. Len(labels) : \A j \in 1 .. Len(labels[k]) :
         \E m \in 1 .. Len(h) : labels[k][j] = h[m]

LEMMA AcceptedName ==
    ASSUME NEW h \in Seq(Nat), h # <<>>, DNS!IsValidHostname(h)
    PROVE  /\ DNS!Stripped(h) = h
           /\ LabelsOfName(h, DNS!Split(h, DNS!Dot))
<1> DEFINE v == DNS!Split(h, DNS!Dot)
<1>1. PICK n \in Nat : n = Len(h) /\ n # 0
  OBVIOUS
<1>2. PiecesOf(h, n, v)
  BY <1>1, SplitIntoPieces
<1>3. \A k \in DOMAIN v : DNS!ValidLabel(v[k])
  BY DEF DNS!IsValidHostname
<1> HIDE DEF v
<1>4. v \in Seq(Seq(Nat)) /\ v # <<>> /\ DNS!Join(v) = SubSeq(h, 1, n)
  BY <1>2 DEF PiecesOf
<1>5. DOMAIN v = 1 .. Len(v) /\ Len(v) \in Nat /\ \A k \in 1 .. Len(v) : v[k] \in Seq(Nat)
  BY <1>4
<1>6. \A k \in 1 .. Len(v) : v[k] # <<>> /\ DNS!ValidLabel(v[k])
  BY <1>3, <1>5, LabelsAreNotEmpty
<1>7. 1 \in 1 .. Len(v) /\ Len(v) \in 1 .. Len(v)
  BY <1>4, <1>5
<1>8. h[1] # DNS!Dot /\ h[n] # DNS!Dot
  BY <1>1, <1>2, <1>6, <1>7 DEF PiecesOf
<1>9. SubSeq(h, 1, n) = h
  BY <1>1, WholeSequence
<1>10. DNS!Stripped(h) = h
  BY <1>1, <1>8, <1>9, NotStripped
<1>11. \A k \in 1 .. Len(v) : \A j \in 1 .. Len(v[k]) : \E m \in 1 .. Len(h) : v[k][j] = h[m]
  BY <1>1, <1>2 DEF PiecesOf
<1>12. LabelsOfName(h, v)
  BY <1>4, <1>6, <1>9, <1>11 DEF LabelsOfName
<1>. QED BY <1>10, <1>12 DEF v

(* The octets of a name: each label behind its length.  Flat(blocks)[k] are those of *)
(* the first k blocks.                                                               *)
FlatBy(blocks, f) ==
    f = [i \in 1 .. Len(blocks) |-> IF i = 1 THEN blocks[i] ELSE f[i - 1] \o blocks[i]]
Flat(blocks) == CHOOSE f : FlatBy(blocks, f)

LEMMA FlattenIs ==
    ASSUME NEW blocks, Len(blocks) # 0
    PROVE  DNS!FlattenSeq(blocks) = Flat(blocks)[Len(blocks)]
BY DEF DNS!FlattenSeq, Flat, FlatBy

LEMMA FlatExists ==
    ASSUME NEW blocks \in Seq(Seq(Nat)) PROVE \E f : FlatBy(blocks, f)
<1> DEFINE T == Seq(Nat)
           step == [x \in (1 .. Len(blocks)) \X T |->
                      IF x[1] = 1 THEN blocks[x[1]] ELSE Cat(x[2], blocks[x[1]])]
<1>0. PICK n \in Nat : n = Len(blocks)
  OBVIOUS
<1>1. \A k \in 1 .. n : blocks[k] \in T
  BY <1>0
<1>2. <<>> \in T /\ \A a, b \in T : Cat(a, b) \in T
  BY CatIsSequence
<1> HIDE DEF T
<1>3. \A k \in 1 .. n, v \in T :
        step[<<k, v>>] = IF k = 1 THEN blocks[k] ELSE Cat(v, blocks[k])
  BY <1>0
<1>4. step \in [(1 .. n) \X T -> T]
  BY <1>0, <1>1, <1>2
<1> HIDE DEF step
<1>5. PICK h \in [0 .. n -> T] : Stepped(h, n, <<>>, step)
  BY <1>2, <1>4, StepsExist
<1> DEFINE f == [i \in 1 .. n |-> h[i]]
<1>6. ASSUME NEW i \in 1 .. n
      PROVE  h[i] = IF i = 1 THEN blocks[i] ELSE f[i - 1] \o blocks[i]
  <2>1. i - 1 \in 0 .. n /\ (i # 1 => i - 1 \in 1 .. n)
    OBVIOUS
  <2>2. h[i - 1] \in T /\ h[i] = step[<<i, h[i - 1]>>]
    BY <1>5, <2>1 DEF Stepped
  <2>3. i # 1 => f[i - 1] = h[i - 1]
    BY <2>1
  <2> HIDE DEF f
  <2>4. h[i] = IF i = 1 THEN blocks[i] ELSE Cat(h[i - 1], blocks[i])
    BY <1>3, <2>2
  <2>. QED BY <2>3, <2>4, Zenon DEF Cat
<1>7. FlatBy(blocks, f)
  <2>1. [i \in 1 .. n |-> h[i]] =
          [i \in 1 .. n |-> IF i = 1 THEN blocks[i] ELSE f[i - 1] \o blocks[i]]
    <3> HIDE DEF f
    <3>. QED BY <1>6, Zenon
  <2>2. f = [i \in 1 .. n |-> IF i = 1 THEN blocks[i] ELSE f[i - 1] \o blocks[i]]
    BY <2>1
  <2> HIDE DEF f
  <2>. QED BY <1>0, <2>2, Zenon DEF FlatBy
<1>. QED BY <1>7

(* From the first block on, each is put behind those before it.                     *)
FlatUpTo(blocks, n, f) ==
    /\ f[0] = <<>>
    /\ \A k \in 1 .. n : f[k] = Cat(f[k - 1], blocks[k])
    /\ \A k \in 0 .. n : f[k] \in Seq(Nat)

LEMMA FlatIs ==
    ASSUME NEW blocks \in Seq(Seq(Nat)), NEW n \in Nat, n = Len(blocks), n # 0
    PROVE  \E f : FlatUpTo(blocks, n, f) /\ DNS!FlattenSeq(blocks) = f[n]
<1> DEFINE g == Flat(blocks)
           f == [k \in 0 .. n |-> IF k = 0 THEN <<>> ELSE g[k]]
           T == Seq(Nat)
           U == {k \in 0 .. n : f[k] \in T}
<1>1. FlatBy(blocks, g)
  BY FlatExists, Zenon DEF Flat
<1>2. DNS!FlattenSeq(blocks) = g[n]
  BY FlattenIs
<1>3. \A k \in 1 .. n : blocks[k] \in T
  OBVIOUS
<1>4. <<>> \in T /\ \A a, b \in T : Cat(a, b) \in T
  BY CatIsSequence
<1> HIDE DEF g, T
<1>5. \A k \in 1 .. n : g[k] = IF k = 1 THEN blocks[k] ELSE Cat(g[k - 1], blocks[k])
  BY <1>1, Zenon DEF FlatBy, Cat
<1>6. f[0] = <<>> /\ \A k \in 1 .. n : f[k] = g[k]
  OBVIOUS
<1> HIDE DEF f
<1>7. ASSUME NEW k \in 1 .. n PROVE f[k] = Cat(f[k - 1], blocks[k])
  <2>1. CASE k = 1
    <3>1. f[k] = blocks[k] /\ f[k - 1] = <<>>
      BY <1>5, <1>6, <2>1
    <3>2. \A x \in Seq(Nat) : Cat(<<>>, x) = x
      BY ConcatEmptySeq DEF Cat
    <3>3. blocks[k] \in Seq(Nat)
      BY <1>3 DEF T
    <3>. QED BY <3>1, <3>2, <3>3
  <2>2. CASE k # 1
    <3>1. k - 1 \in 1 .. n
      BY <2>2
    <3>. QED BY <1>5, <1>6, <2>2, <3>1
  <2>. QED BY <2>1, <2>2
<1>8. 0 \in U
  BY <1>4, <1>6
<1>9. ASSUME NEW m \in 0 .. n - 1, m \in U PROVE m + 1 \in U
  <2>1. m + 1 \in 1 .. n /\ m + 1 \in 0 .. n /\ (m + 1) - 1 = m
    OBVIOUS
  <2>2. f[m + 1] = Cat(f[m], blocks[m + 1]) /\ f[m] \in T
    BY <1>7, <1>9, <2>1
  <2>. QED BY <1>3, <1>4, <2>1, <2>2
<1> HIDE DEF U
<1>10. \A k \in 0 .. n : k \in U
  BY <1>8, <1>9, UpTo
<1>11. \A k \in 0 .. n : f[k] \in Seq(Nat)
  BY <1>10 DEF U, T
<1>12. FlatUpTo(blocks, n, f)
  BY <1>6, <1>7, <1>11 DEF FlatUpTo
<1>13. n \in 1 .. n
  OBVIOUS
<1>. QED BY <1>2, <1>6, <1>12, <1>13

(* a begins b.                                                                      *)
Begins(a, b) == Len(a) <= Len(b) /\ \A j \in 1 .. Len(a) : b[j] = a[j]

LEMMA CatBegins ==
    ASSUME NEW a \in Seq(Nat), NEW b \in Seq(Nat)
    PROVE  Begins(a, Cat(a, b)) /\ GlueOf(Nat, a, b, Cat(a, b))
<1> DEFINE c == Cat(a, b)
<1>1. GlueOf(Nat, a, b, c)
  BY GluedAs DEF Cat
<1> HIDE DEF c
<1>2. Len(a) \in Nat /\ Len(b) \in Nat
  OBVIOUS
<1>3. Begins(a, c)
  BY <1>1, <1>2 DEF GlueOf, Begins
<1>. QED BY <1>1, <1>3 DEF c

LEMMA BeginsOn ==
    ASSUME NEW a \in Seq(Nat), NEW b \in Seq(Nat), NEW c \in Seq(Nat), Begins(a, b), Begins(b, c)
    PROVE  Begins(a, c)
<1>1. PICK k \in Nat, l \in Nat, m \in Nat : k = Len(a) /\ l = Len(b) /\ m = Len(c)
  OBVIOUS
<1>2. k <= l /\ l <= m
  BY <1>1 DEF Begins
<1>3. \A j \in 1 .. k : j \in 1 .. l
  BY <1>2
<1>4. \A j \in 1 .. k : c[j] = a[j]
  BY <1>1, <1>3 DEF Begins
<1>. QED BY <1>1, <1>2, <1>4 DEF Begins

LEMMA FlatBegins ==
    ASSUME NEW n \in Nat, NEW blocks \in [1 .. n -> Seq(Nat)], NEW f, FlatUpTo(blocks, n, f)
    PROVE  \A k \in 0 .. n : Begins(f[k], f[n])
<1> DEFINE U == {m \in 0 .. n : \A k \in 0 .. m : Begins(f[k], f[m])}
<1>1. /\ \A k \in 0 .. n : f[k] \in Seq(Nat)
      /\ \A k \in 1 .. n : f[k] = Cat(f[k - 1], blocks[k])
  BY DEF FlatUpTo
<1>2. \A a \in Seq(Nat) : Begins(a, a)
  BY DEF Begins
<1>3. 0 \in U
  BY <1>1, <1>2
<1>4. ASSUME NEW m \in 0 .. n - 1, m \in U PROVE m + 1 \in U
  <2>1. m + 1 \in 1 .. n /\ m + 1 \in 0 .. n /\ m \in 0 .. n /\ (m + 1) - 1 = m
    OBVIOUS
  <2>2. f[m] \in Seq(Nat) /\ f[m + 1] \in Seq(Nat) /\ blocks[m + 1] \in Seq(Nat)
        /\ f[m + 1] = Cat(f[m], blocks[m + 1])
    BY <1>1, <2>1
  <2>3. Begins(f[m], f[m + 1])
    BY <2>2, CatBegins
  <2>4. ASSUME NEW k \in 0 .. m + 1 PROVE Begins(f[k], f[m + 1])
    <3>1. CASE k = m + 1
      BY <1>2, <2>2, <3>1
    <3>2. CASE k # m + 1
      <4>1. k \in 0 .. m /\ k \in 0 .. n
        BY <3>2
      <4>2. Begins(f[k], f[m]) /\ f[k] \in Seq(Nat)
        BY <1>1, <1>4, <4>1
      <4>. QED BY <2>2, <2>3, <4>2, BeginsOn
    <3>. QED BY <3>1, <3>2
  <2>. QED BY <2>1, <2>4
<1>5. \A m \in 0 .. n : m \in U
  <2> HIDE DEF U
  <2>. QED BY <1>3, <1>4, UpTo
<1>6. n \in 0 .. n
  OBVIOUS
<1>. QED BY <1>5, <1>6

-----------------------------------------------------------------------------------
(* A question's name reads back.  The octets at the k-th label are its length and   *)
(* the label, and behind the last label is a zero.                                  *)
Block(s) == <<Len(s)>> \o s
Blocks(labels) == [k \in 1 .. Len(labels) |-> Block(labels[k])]

WireOf(labels) == DNS!FlattenSeq(Blocks(labels)) \o << 0 >>

(* The labels that a question may carry.                                            *)
ShortLabels(labels) ==
    /\ labels \in Seq(Seq(Nat)) /\ labels # <<>>
    /\ \A k \in 1 .. Len(labels) : /\ Len(labels[k]) \in 1 .. MaxLabel
                                   /\ \A j \in 1 .. Len(labels[k]) : labels[k][j] \in Octet

LEMMA BlockIs ==
    ASSUME NEW s \in Seq(Nat), NEW n \in Nat, n = Len(s)
    PROVE  /\ Block(s) \in Seq(Nat) /\ Len(Block(s)) = n + 1 /\ Block(s)[1] = n
           /\ \A j \in 1 .. n : Block(s)[j + 1] = s[j]
BY InFront DEF Block

(* Where the labels stand.                                                          *)
LabelIn(wire, p, s) ==
    /\ p + 1 + Len(s) < Len(wire)
    /\ wire[p + 1] = Len(s)
    /\ \A j \in 1 .. Len(s) : wire[p + 1 + j] = s[j]

Placed(labels, wire, at) ==
    /\ wire \in Seq(Nat)
    /\ at[1] = 0
    /\ \A k \in 1 .. Len(labels) :
         /\ at[k] \in Nat /\ LabelIn(wire, at[k], labels[k])
         /\ at[k + 1] = at[k] + 1 + Len(labels[k])
    /\ at[Len(labels) + 1] \in Nat
    /\ Len(wire) = at[Len(labels) + 1] + 1 /\ wire[Len(wire)] = 0

LEMMA BlockPlaced ==
    ASSUME NEW s \in Seq(Nat), NEW a \in Seq(Nat), NEW b \in Seq(Nat), NEW wire \in Seq(Nat),
           NEW flat \in Seq(Nat), b = Cat(a, Block(s)), Begins(b, flat), GlueOf(Nat, flat, << 0 >>, wire)
    PROVE  LabelIn(wire, Len(a), s) /\ Len(b) = Len(a) + 1 + Len(s)
<1>1. PICK n \in Nat, p \in Nat, q \in Nat, l \in Nat :
        n = Len(s) /\ p = Len(a) /\ q = Len(flat) /\ l = Len(wire)
  OBVIOUS
<1> DEFINE c == Block(s)
           zero == << 0 >>
<1>2. c \in Seq(Nat) /\ Len(c) = n + 1 /\ c[1] = n /\ \A j \in 1 .. n : c[j + 1] = s[j]
  BY <1>1, BlockIs
<1>3. zero \in Seq(Nat) /\ Len(zero) = 1
  OBVIOUS
<1>4. GlueOf(Nat, flat, zero, wire)
  OBVIOUS
<1> HIDE DEF c, zero
<1>5. GlueOf(Nat, a, c, b)
  BY <1>2, CatBegins DEF c
<1>6. Len(b) = p + (n + 1) /\ \A j \in 1 .. n + 1 : b[p + j] = c[j]
  BY <1>1, <1>2, <1>5 DEF GlueOf
<1>7. p + (n + 1) <= q /\ \A j \in 1 .. p + (n + 1) : flat[j] = b[j]
  BY <1>1, <1>6 DEF Begins
<1>8. l = q + 1 /\ \A j \in 1 .. q : wire[j] = flat[j]
  BY <1>1, <1>3, <1>4 DEF GlueOf
<1>9. ASSUME NEW j \in 1 .. n + 1 PROVE wire[p + j] = c[j]
  <2>1. p + j \in 1 .. p + (n + 1) /\ p + j \in 1 .. q
    BY <1>7
  <2>. QED BY <1>6, <1>7, <1>8, <2>1
<1>10. wire[p + 1] = n
  <2>1. 1 \in 1 .. n + 1
    OBVIOUS
  <2>. QED BY <1>2, <1>9, <2>1
<1>11. ASSUME NEW j \in 1 .. n PROVE wire[p + 1 + j] = s[j]
  <2>1. j + 1 \in 1 .. n + 1 /\ p + (j + 1) = p + 1 + j
    OBVIOUS
  <2>. QED BY <1>2, <1>9, <2>1
<1>12. p + 1 + n < l /\ p + (n + 1) = p + 1 + n
  BY <1>7, <1>8
<1>. QED BY <1>1, <1>6, <1>10, <1>11, <1>12 DEF LabelIn

LEMMA WirePlaced ==
    ASSUME NEW labels \in Seq(Seq(Nat)), labels # <<>>
    PROVE  \E at : Placed(labels, WireOf(labels), at)
<1> DEFINE blocks == Blocks(labels)
           wire == WireOf(labels)
           zero == << 0 >>
<1>1. PICK n \in Nat : n = Len(labels) /\ n # 0
  OBVIOUS
<1>2. \A k \in 1 .. n : labels[k] \in Seq(Nat)
  BY <1>1
<1>3. /\ blocks = [k \in 1 .. n |-> Block(labels[k])]
      /\ \A k \in 1 .. n : blocks[k] = Block(labels[k])
  BY <1>1 DEF Blocks
<1>4. wire = Cat(DNS!FlattenSeq(blocks), zero)
  BY DEF WireOf, Cat
<1> HIDE DEF blocks, wire
<1>5. blocks \in [1 .. n -> Seq(Nat)]
  <2>1. \A k \in 1 .. n : Block(labels[k]) \in Seq(Nat)
    BY <1>2, BlockIs
  <2>. QED BY <1>3, <2>1
<1>6. blocks \in Seq(Seq(Nat)) /\ Len(blocks) = n
  BY <1>5, TakenAsSequence
<1>7. PICK f : FlatUpTo(blocks, n, f) /\ DNS!FlattenSeq(blocks) = f[n]
  BY <1>1, <1>6, FlatIs
<1>8. /\ f[0] = <<>>
      /\ \A k \in 1 .. n : f[k] = Cat(f[k - 1], Block(labels[k]))
      /\ \A k \in 0 .. n : f[k] \in Seq(Nat)
  BY <1>3, <1>7 DEF FlatUpTo
<1>9. \A k \in 0 .. n : Begins(f[k], f[n])
  BY <1>5, <1>7, FlatBegins
<1>10. zero \in Seq(Nat) /\ Len(zero) = 1 /\ zero[1] = 0 /\ 1 \in 1 .. 1
  OBVIOUS
<1>11. f[n] \in Seq(Nat) /\ n \in 0 .. n /\ Len(f[n]) \in Nat
  BY <1>8
<1>12. GlueOf(Nat, f[n], zero, wire)
  <2>1. wire = Cat(f[n], zero)
    BY <1>4, <1>7
  <2> HIDE DEF zero
  <2>. QED BY <1>10, <1>11, <2>1, CatBegins
<1>13. /\ wire \in Seq(Nat) /\ Len(wire) = Len(f[n]) + 1 /\ wire[Len(f[n]) + 1] = 0
  <2> HIDE DEF zero
  <2>. QED BY <1>10, <1>12 DEF GlueOf
<1> DEFINE at == [k \in 1 .. n + 1 |-> Len(f[k - 1])]
<1>14. \A k \in 1 .. n + 1 : at[k] = Len(f[k - 1]) /\ k - 1 \in 0 .. n
  OBVIOUS
<1> HIDE DEF at
<1>15. at[1] = 0
  <2>1. 1 \in 1 .. n + 1 /\ 1 - 1 = 0
    OBVIOUS
  <2>2. Len(<<>>) = 0
    OBVIOUS
  <2>. QED BY <1>8, <1>14, <2>1, <2>2
<1>16. ASSUME NEW k \in 1 .. n
       PROVE  /\ at[k] \in Nat /\ LabelIn(wire, at[k], labels[k])
              /\ at[k + 1] = at[k] + 1 + Len(labels[k])
  <2>1. k \in 1 .. n + 1 /\ k + 1 \in 1 .. n + 1 /\ (k + 1) - 1 = k /\ k - 1 \in 0 .. n
        /\ k \in 0 .. n
    OBVIOUS
  <2>2. at[k] = Len(f[k - 1]) /\ at[k + 1] = Len(f[k])
    BY <1>14, <2>1
  <2>3. f[k - 1] \in Seq(Nat) /\ f[k] \in Seq(Nat) /\ labels[k] \in Seq(Nat)
        /\ f[k] = Cat(f[k - 1], Block(labels[k])) /\ Begins(f[k], f[n])
    BY <1>2, <1>8, <1>9, <2>1
  <2>4. LabelIn(wire, Len(f[k - 1]), labels[k])
        /\ Len(f[k]) = Len(f[k - 1]) + 1 + Len(labels[k])
    BY <1>11, <1>12, <1>13, <2>3, BlockPlaced
  <2>5. Len(f[k - 1]) \in Nat
    BY <2>3
  <2>. QED BY <2>2, <2>4, <2>5
<1>17. at[n + 1] = Len(f[n])
  <2>1. n + 1 \in 1 .. n + 1 /\ (n + 1) - 1 = n
    OBVIOUS
  <2>. QED BY <1>14, <2>1
<1>18. Placed(labels, wire, at)
  BY <1>1, <1>11, <1>13, <1>15, <1>16, <1>17 DEF Placed
<1>. QED BY <1>18 DEF wire

LEMMA OctetsTaken ==
    ASSUME NEW s \in Seq(Nat), \A j \in 1 .. Len(s) : s[j] \in Octet PROVE s \in Seq(Octet)
<1>1. PICK n \in Nat : n = Len(s)
  OBVIOUS
<1>2. s \in [1 .. n -> Octet]
  BY <1>1
<1>. QED BY <1>2, TakenAsSequence

LEMMA GluedOctets ==
    ASSUME NEW a \in Seq(Octet), NEW b \in Seq(Octet) PROVE Cat(a, b) \in Seq(Octet)
BY ConcatProperties DEF Cat

LEMMA LabelLength ==
    ASSUME NEW m \in 1 .. MaxLabel PROVE m \in 1 .. 63 /\ m \in Nat /\ m \in Octet
<1>1. MaxLabel \in 1 .. 63
  BY FormatsAssumption DEF FormatsAssumption
<1>. QED BY <1>1 DEF Octet

LEMMA BlockOfOctets ==
    ASSUME NEW s \in Seq(Nat), Len(s) \in 1 .. MaxLabel, \A j \in 1 .. Len(s) : s[j] \in Octet
    PROVE  Block(s) \in Seq(Octet)
<1>1. s \in Seq(Octet)
  BY OctetsTaken
<1>2. Len(s) \in Octet
  BY LabelLength
<1> DEFINE n == Len(s)
<1>3. n \in Octet
  BY <1>2
<1> HIDE DEF n
<1>4. <<n>> \o s \in Seq(Octet)
  BY <1>1, <1>3, InFront
<1>. QED BY <1>4 DEF Block, n

LEMMA WireOfOctets ==
    ASSUME NEW labels, ShortLabels(labels) PROVE WireOf(labels) \in Seq(Octet)
<1> DEFINE blocks == Blocks(labels)
           zero == << 0 >>
           T == Seq(Octet)
<1>1. PICK n \in Nat : n = Len(labels) /\ n # 0
  BY DEF ShortLabels
<1>2. \A k \in 1 .. n : Block(labels[k]) \in Seq(Nat) /\ Block(labels[k]) \in T
  <2>1. ASSUME NEW k \in 1 .. n PROVE Block(labels[k]) \in Seq(Nat) /\ Block(labels[k]) \in T
    <3>1. labels[k] \in Seq(Nat) /\ Len(labels[k]) \in 1 .. MaxLabel
          /\ \A j \in 1 .. Len(labels[k]) : labels[k][j] \in Octet
      BY <1>1 DEF ShortLabels
    <3>. QED BY <3>1, BlockOfOctets, BlockIs
  <2>. QED BY <2>1
<1>3. /\ blocks = [k \in 1 .. n |-> Block(labels[k])]
      /\ \A k \in 1 .. n : blocks[k] = Block(labels[k])
  BY <1>1 DEF Blocks
<1>4. WireOf(labels) = Cat(DNS!FlattenSeq(blocks), zero)
  BY DEF WireOf, Cat
<1>5. zero \in T /\ <<>> \in T
  <2>1. 0 \in Octet
    BY DEF Octet
  <2>. QED BY <2>1
<1> HIDE DEF blocks, zero
<1>6. blocks \in [1 .. n -> Seq(Nat)]
  BY <1>2, <1>3
<1>7. blocks \in Seq(Seq(Nat)) /\ Len(blocks) = n
  BY <1>6, TakenAsSequence
<1>8. PICK f : FlatUpTo(blocks, n, f) /\ DNS!FlattenSeq(blocks) = f[n]
  BY <1>1, <1>7, FlatIs
<1>9. \A a, b \in T : Cat(a, b) \in T
  BY GluedOctets
<1> HIDE DEF T
<1>10. f[0] = <<>> /\ \A k \in 1 .. n : f[k] = Cat(f[k - 1], blocks[k]) /\ blocks[k] \in T
  BY <1>2, <1>3, <1>8 DEF FlatUpTo
<1> DEFINE U == {k \in 0 .. n : f[k] \in T}
<1>11. 0 \in U
  BY <1>5, <1>10
<1>12. ASSUME NEW m \in 0 .. n - 1, m \in U PROVE m + 1 \in U
  <2>1. m + 1 \in 1 .. n /\ m + 1 \in 0 .. n /\ (m + 1) - 1 = m
    OBVIOUS
  <2>2. f[m + 1] = Cat(f[m], blocks[m + 1]) /\ f[m] \in T /\ blocks[m + 1] \in T
    BY <1>10, <1>12, <2>1
  <2>. QED BY <1>9, <2>1, <2>2
<1> HIDE DEF U
<1>13. \A m \in 0 .. n : m \in U
  BY <1>11, <1>12, UpTo
<1>14. f[n] \in T
  <2>1. n \in 0 .. n
    OBVIOUS
  <2>. QED BY <1>13, <2>1 DEF U
<1>. QED BY <1>4, <1>5, <1>8, <1>9, <1>14 DEF T

(* At a label the name goes on with it, to the next.                                *)
LEMMA LabelReadIn ==
    ASSUME NEW wire \in Seq(Octet), NEW p \in Nat, NEW s \in Seq(Nat),
           Len(s) \in 1 .. MaxLabel, LabelIn(wire, p, s)
    PROVE  /\ GoesOn(wire, p) /\ ~OnPointer(wire, p)
           /\ Follow(wire, p) = p + 1 + Len(s)
           /\ DNS!Slice(wire, p + 1, wire[p + 1]) = s
<1>1. PICK n \in 1 .. 63 : n = Len(s)
  BY LabelLength, Zenon
<1>2. PICK l \in Nat : l = Len(wire)
  BY OctetsAreNumbers
<1>3. p + 1 + n < l /\ At(wire, p) = n /\ \A j \in 1 .. n : wire[p + 1 + j] = s[j]
  BY <1>1, <1>2 DEF LabelIn, At
<1>0. PICK q \in Nat : q = p + 1
  OBVIOUS
<1>4. ~OnPointer(wire, p)
  <2>1. ~(n >= 192)
    OBVIOUS
  <2>. QED BY <1>3, <2>1 DEF OnPointer
<1>5. GoesOn(wire, p)
  <2>1. p < l /\ n # 0
    BY <1>3
  <2>. QED BY <1>2, <1>3, <1>4, <2>1 DEF GoesOn, Within
<1>6. Follow(wire, p) = p + 1 + n /\ Follow(wire, p) < Len(wire)
  BY <1>2, <1>3, <1>4 DEF Follow
<1>7. DNS!Slice(wire, p + 1, wire[p + 1]) = LabelAt(wire, p)
  BY <1>4, <1>5, <1>6, WholeLabel
<1> DEFINE t == SubSeq(wire, q + 1, q + n)
<1>8. LabelAt(wire, p) = t
  <2>1. q + 1 = p + 2 /\ q + n = p + 1 + n
    BY <1>0
  <2>. QED BY <1>3, <2>1 DEF LabelAt
<1>9. t \in Seq(Nat) /\ Len(t) = n /\ \A j \in 1 .. n : t[j] = wire[q + j]
  <2>1. n \in Nat /\ q + n <= Len(wire)
    BY <1>0, <1>2, <1>3
  <2>2. wire \in Seq(Nat)
    BY OctetsAreNumbers
  <2>. QED BY <2>1, <2>2, Middle
<1> HIDE DEF t
<1>10. t = s
  <2>1. \A j \in 1 .. n : t[j] = s[j]
    BY <1>0, <1>3, <1>9
  <2>. QED BY <1>1, <1>9, <2>1, SeqEqual
<1>. QED BY <1>1, <1>4, <1>5, <1>6, <1>7, <1>8, <1>10

(* r are the last m labels.                                                         *)
LastLabels(labels, n, m, r) ==
    /\ r \in Seq(Seq(Nat)) /\ Len(r) = m
    /\ \A i \in 1 .. m : r[i] = labels[n - m + i]

(* What reading makes of the last m labels.                                         *)
ReadLast(labels, wire, n, m, p) ==
    \E r : /\ Read(wire, MaxRecursion, p) = [end |-> Len(wire), labels |-> r]
           /\ LastLabels(labels, n, m, r)

LEMMA ReadLastEnds ==
    ASSUME NEW labels, NEW wire \in Seq(Octet), NEW n \in Nat, NEW p \in Nat,
           Len(wire) = p + 1, wire[Len(wire)] = 0
    PROVE  ReadLast(labels, wire, n, 0, p)
<1>1. At(wire, p) = 0
  BY DEF At
<1>2. Within(wire, p)
  BY <1>1 DEF Within, OnPointer
<1>3. MaxRecursion \in 0 .. MaxRecursion
  BY FormatsAssumption DEF FormatsAssumption
<1>4. Read(wire, MaxRecursion, p) = [end |-> p + 1, labels |-> <<>>]
  BY <1>1, <1>2, <1>3, ReadEnds
<1>5. LastLabels(labels, n, 0, <<>>)
  BY DEF LastLabels
<1>6. Read(wire, MaxRecursion, p) = [end |-> Len(wire), labels |-> <<>>]
  BY <1>4
<1>. QED BY <1>5, <1>6, Zenon DEF ReadLast

LEMMA ReadLastGoesOn ==
    ASSUME NEW labels, NEW wire \in Seq(Octet), NEW n \in Nat, NEW m \in Nat, m < n, NEW p \in Nat,
           NEW s \in Seq(Nat), s = labels[n - m], Len(s) \in 1 .. MaxLabel,
           LabelIn(wire, p, s), ReadLast(labels, wire, n, m, p + 1 + Len(s))
    PROVE  ReadLast(labels, wire, n, m + 1, p)
<1>1. /\ GoesOn(wire, p) /\ ~OnPointer(wire, p)
      /\ Follow(wire, p) = p + 1 + Len(s)
      /\ DNS!Slice(wire, p + 1, wire[p + 1]) = s
  BY LabelReadIn
<1>2. PICK r : /\ Read(wire, MaxRecursion, p + 1 + Len(s)) = [end |-> Len(wire), labels |-> r]
               /\ LastLabels(labels, n, m, r)
  BY Zenon DEF ReadLast
<1>3. MaxRecursion \in 0 .. MaxRecursion
  BY FormatsAssumption DEF FormatsAssumption
<1>4. Read(wire, MaxRecursion, p)
        = DNS!WithLabel(wire, p, Read(wire, MaxRecursion, p + 1 + Len(s)))
  BY <1>1, <1>3, ReadOn
<1>5. Read(wire, MaxRecursion, p) = Longer(Len(wire), s, r)
  <2>1. PICK t : t = Read(wire, MaxRecursion, p + 1 + Len(s))
    OBVIOUS
  <2>2. t = [end |-> Len(wire), labels |-> r]
    BY <1>2, <2>1
  <2>3. s = DNS!Slice(wire, p + 1, wire[p + 1])
    BY <1>1
  <2>4. DNS!WithLabel(wire, p, t) = Longer(Len(wire), s, r)
    <3>1. ~DNS!Raised(t) /\ t.end = Len(wire) /\ t.labels = r
      BY <2>2 DEF DNS!Raised
    <3>. QED BY <2>3, <3>1 DEF DNS!WithLabel, Longer
  <2>. QED BY <1>4, <2>1, <2>4
<1> DEFINE u == <<s>> \o r
<1>6. /\ u \in Seq(Seq(Nat)) /\ Len(u) = m + 1 /\ u[1] = s
      /\ \A i \in 1 .. m : u[i + 1] = r[i]
  <2> DEFINE T == Seq(Nat)
  <2>1. r \in Seq(T) /\ Len(r) = m /\ s \in T
    BY <1>2 DEF LastLabels
  <2> HIDE DEF T
  <2>2. /\ u \in Seq(T) /\ Len(u) = Len(r) + 1 /\ u[1] = s
        /\ \A i \in 1 .. Len(r) : u[i + 1] = r[i]
    BY <2>1, InFront
  <2> HIDE DEF u
  <2>. QED BY <2>1, <2>2 DEF T
<1>7. Read(wire, MaxRecursion, p) = [end |-> Len(wire), labels |-> u]
  BY <1>5 DEF Longer
<1> HIDE DEF u
<1>8. ASSUME NEW i \in 1 .. m + 1 PROVE u[i] = labels[n - (m + 1) + i]
  <2>1. CASE i = 1
    <3>1. n - (m + 1) + i = n - m
      BY <2>1
    <3>. QED BY <1>6, <2>1, <3>1
  <2>2. CASE i # 1
    <3>1. PICK j \in 1 .. m : i = j + 1
      <4>1. i - 1 \in 1 .. m /\ i = (i - 1) + 1
        BY <2>2
      <4>. QED BY <4>1
    <3>2. n - (m + 1) + i = n - m + j
      BY <3>1
    <3>3. u[i] = r[j] /\ r[j] = labels[n - m + j]
      BY <1>2, <1>6, <3>1 DEF LastLabels
    <3>. QED BY <3>2, <3>3
  <2>. QED BY <2>1, <2>2
<1>9. LastLabels(labels, n, m + 1, u)
  BY <1>6, <1>8 DEF LastLabels
<1>. QED BY <1>7, <1>9, Zenon DEF ReadLast

LEMMA WireReadsBack ==
    ASSUME NEW labels, ShortLabels(labels)
    PROVE  /\ WireOf(labels) # DNS!None
           /\ DNS!ParseName(WireOf(labels), 0)
                = [len |-> Len(WireOf(labels)), name |-> DNS!Join(labels)]
<1> DEFINE wire == WireOf(labels)
<1>1. PICK n \in Nat : n = Len(labels) /\ n # 0
  BY DEF ShortLabels
<1>2. labels \in Seq(Seq(Nat)) /\ labels # <<>>
      /\ \A k \in 1 .. n : labels[k] \in Seq(Nat) /\ Len(labels[k]) \in 1 .. MaxLabel
  BY <1>1 DEF ShortLabels
<1>3. wire \in Seq(Octet)
  BY WireOfOctets
<1>4. PICK at : Placed(labels, wire, at)
  BY <1>2, WirePlaced
<1> HIDE DEF wire
<1>5. /\ at[1] = 0
      /\ \A k \in 1 .. n : /\ at[k] \in Nat /\ LabelIn(wire, at[k], labels[k])
                           /\ at[k + 1] = at[k] + 1 + Len(labels[k])
      /\ at[n + 1] \in Nat /\ Len(wire) = at[n + 1] + 1 /\ wire[Len(wire)] = 0
  BY <1>1, <1>4 DEF Placed
<1> DEFINE U == {m \in 0 .. n : ReadLast(labels, wire, n, m, at[n + 1 - m])}
<1>6. 0 \in U
  <2>1. n + 1 - 0 = n + 1
    OBVIOUS
  <2>2. ReadLast(labels, wire, n, 0, at[n + 1])
    BY <1>3, <1>5, ReadLastEnds
  <2>. QED BY <2>1, <2>2
<1>7. ASSUME NEW m \in 0 .. n - 1, m \in U PROVE m + 1 \in U
  <2>1. PICK k \in 1 .. n : k = n - m
    <3>1. n - m \in 1 .. n
      OBVIOUS
    <3>. QED BY <3>1
  <2>2. n + 1 - m = k + 1 /\ n + 1 - (m + 1) = k /\ m + 1 \in 0 .. n /\ m < n /\ m \in Nat
    BY <2>1
  <2>3. ReadLast(labels, wire, n, m, at[k + 1])
    BY <1>7, <2>2
  <2>4. /\ at[k] \in Nat /\ LabelIn(wire, at[k], labels[k])
        /\ at[k + 1] = at[k] + 1 + Len(labels[k])
        /\ labels[k] \in Seq(Nat) /\ Len(labels[k]) \in 1 .. MaxLabel
    BY <1>2, <1>5
  <2>5. ReadLast(labels, wire, n, m + 1, at[k])
    BY <1>3, <2>1, <2>2, <2>3, <2>4, ReadLastGoesOn
  <2>. QED BY <2>2, <2>5
<1> HIDE DEF U
<1>8. \A m \in 0 .. n : m \in U
  BY <1>6, <1>7, UpTo
<1>9. ReadLast(labels, wire, n, n, 0)
  <2>1. n \in 0 .. n /\ n + 1 - n = 1
    OBVIOUS
  <2>2. n \in U
    BY <1>8, <2>1
  <2>. QED BY <1>5, <2>1, <2>2 DEF U
<1>10. PICK r : /\ Read(wire, MaxRecursion, 0) = [end |-> Len(wire), labels |-> r]
                /\ LastLabels(labels, n, n, r)
  BY <1>9, Zenon DEF ReadLast
<1>11. r = labels
  <2>1. \A i \in 1 .. n : n - n + i = i
    OBVIOUS
  <2>2. r \in Seq(Seq(Nat)) /\ Len(r) = n /\ \A i \in 1 .. n : r[i] = labels[i]
    BY <1>10, <2>1 DEF LastLabels
  <2>. QED BY <1>1, <1>2, <2>2, SeqEqual
<1>12. DNS!ParseName(wire, 0) = [len |-> Len(wire), name |-> DNS!Join(labels)]
  <2> DEFINE made == [end |-> Len(wire), labels |-> labels]
  <2>1. ~DNS!Raised(made) /\ made.end = Len(wire) /\ made.labels = labels
    BY DEF DNS!Raised
  <2>2. Read(wire, MaxRecursion, 0) = made
    BY <1>10, <1>11
  <2>3. made.end - 0 = Len(wire)
    <3>1. Len(wire) \in Nat
      BY <1>3, OctetsAreNumbers
    <3>. QED BY <2>1, <3>1
  <2> HIDE DEF made
  <2>. QED BY <2>1, <2>2, <2>3, Zenon DEF DNS!ParseName, Read
<1>13. wire # DNS!None
  <2>1. DOMAIN DNS!None = {"none"}
    BY DEF DNS!None
  <2>2. 1 \in DOMAIN wire /\ 2 \in DOMAIN wire
    <3>1. 1 \in 1 .. n
      BY <1>1
    <3>2. PICK l \in Nat, a \in 1 .. 63 : l = Len(wire) /\ a = Len(labels[1])
      BY <1>2, <1>3, <3>1, OctetsAreNumbers, LabelLength, Zenon
    <3>3. 0 + 1 + a < l
      BY <1>5, <3>1, <3>2 DEF LabelIn
    <3>4. 1 \in 1 .. l /\ 2 \in 1 .. l
      BY <3>3
    <3>5. DOMAIN wire = 1 .. Len(wire)
      BY <1>3
    <3>. QED BY <3>2, <3>4, <3>5
  <2>. QED BY <2>1, <2>2
<1>. QED BY <1>12, <1>13 DEF wire

LEMMA HostnamesAreReadBack ==
    ASSUME NEW i \in HostnameInputs, i = input, result = HostnameAnswer(i)
    PROVE  HostnamesReadBack
<1> SUFFICES ASSUME result.valid PROVE HostnamesReadBack
  BY DEF HostnamesReadBack
<1> DEFINE h == input.name
           v == DNS!Split(h, DNS!Dot)
           long == \E k \in DOMAIN v : Len(v[k]) > MaxLabel
           Claim == \/ /\ result.wire # DNS!None
                       /\ DNS!ParseName(result.wire, 0) = [len |-> Len(result.wire), name |-> h]
                    \/ /\ result.wire = DNS!None
                       /\ \E k \in DOMAIN h : h[k] = DNS!Newline
<1> SUFFICES Claim
  BY Zenon DEF HostnamesReadBack
<1>1. result.wire = DNS!BuildAddress(h) /\ DNS!IsValidHostname(h)
  BY DEF HostnameAnswer
<1>2. h \in BoundedSeq(Letters, MaxLetters) /\ h # <<>>
  BY DEF HostnameInputs
<1> HIDE DEF h
<1>3. PICK n \in Nat : n = Len(h) /\ h \in Seq(Nat) /\ DOMAIN h = 1 .. n
                       /\ \A k \in 1 .. n : h[k] \in Octet
  <2>1. MaxLetters \in Nat /\ Letters \subseteq Octet
    BY FormatsAssumption DEF FormatsAssumption, Octet
  <2>2. Len(h) \in 0 .. MaxLetters /\ h \in Seq(Letters) /\ \A k \in 1 .. Len(h) : h[k] \in Letters
    BY <1>2, <2>1, BoundedIsSeq
  <2>3. PICK m \in Nat : m = Len(h)
    BY <2>1, <2>2
  <2>4. h \in [1 .. m -> Octet]
    BY <2>1, <2>2, <2>3
  <2>5. h \in Seq(Octet)
    BY <2>4, TakenAsSequence
  <2>6. h \in Seq(Nat)
    BY <2>5, OctetsAreNumbers
  <2>7. DOMAIN h = 1 .. m /\ \A k \in 1 .. m : h[k] \in Octet
    BY <2>4
  <2>. QED BY <2>3, <2>6, <2>7
<1>4. DNS!Stripped(h) = h /\ LabelsOfName(h, v)
  BY <1>1, <1>2, <1>3, AcceptedName
<1>5. result.wire = IF long THEN DNS!None ELSE WireOf(v)
  <2>1. DOMAIN v = 1 .. Len(v)
    <3> HIDE DEF v
    <3>1. v \in Seq(Seq(Nat))
      BY <1>4 DEF LabelsOfName
    <3>. QED BY <3>1
  <2>2. [k \in DOMAIN v |-> <<Len(v[k])>> \o v[k]] = Blocks(v)
    <3> HIDE DEF v
    <3>. QED BY <2>1 DEF Blocks, Block
  <2>. QED BY <1>1, <1>4, <2>2, Zenon DEF DNS!BuildAddress, WireOf
<1> HIDE DEF v
<1>6. /\ v \in Seq(Seq(Nat)) /\ v # <<>> /\ DNS!Join(v) = h
      /\ DOMAIN v = 1 .. Len(v)
      /\ \A k \in 1 .. Len(v) : v[k] \in Seq(Nat) /\ v[k] # <<>> /\ DNS!ValidLabel(v[k])
      /\ \A k \in 1 .. Len(v) : \A j \in 1 .. Len(v[k]) : \E m \in 1 .. n : v[k][j] = h[m]
  BY <1>3, <1>4 DEF LabelsOfName
<1>7. CASE long
  <2>1. PICK k \in 1 .. Len(v) : Len(v[k]) > MaxLabel
    BY <1>6, <1>7
  <2>2. PICK j \in 1 .. Len(v[k]) : v[k][j] = DNS!Newline
    BY <1>6, <2>1, LongLabelEndsInNewline
  <2>3. \E m \in DOMAIN h : h[m] = DNS!Newline
    BY <1>3, <1>6, <2>2
  <2>. QED BY <1>5, <1>7, <2>3
<1>8. CASE ~long
  <2>1. ASSUME NEW k \in 1 .. Len(v)
        PROVE  /\ Len(v[k]) \in 1 .. MaxLabel
               /\ \A j \in 1 .. Len(v[k]) : v[k][j] \in Octet
    <3>1. v[k] \in Seq(Nat) /\ v[k] # <<>> /\ ~(Len(v[k]) > MaxLabel)
      BY <1>6, <1>8
    <3>2. MaxLabel \in Nat
      BY FormatsAssumption DEF FormatsAssumption
    <3>3. Len(v[k]) \in 1 .. MaxLabel
      BY <3>1, <3>2
    <3>4. \A j \in 1 .. Len(v[k]) : v[k][j] \in Octet
      BY <1>3, <1>6
    <3>. QED BY <3>3, <3>4
  <2>2. ShortLabels(v)
    BY <1>6, <2>1 DEF ShortLabels
  <2>3. WireOf(v) # DNS!None
        /\ DNS!ParseName(WireOf(v), 0) = [len |-> Len(WireOf(v)), name |-> h]
    BY <1>6, <2>2, WireReadsBack
  <2>4. result.wire = WireOf(v)
    BY <1>5, <1>8
  <2>. QED BY <2>3, <2>4
<1>. QED BY <1>7, <1>8

(* A hostname that is accepted is put into a question that reads back as it, for    *)
(* names and labels of every length; without a question it has a newline            *)
(* (dnsresolver.py 36, 79-90, 232-237).                                             *)
THEOREM HostnamesHold == Spec => []HostnamesReadBack
<1>1. ASSUME IInv PROVE HostnamesReadBack
  <2>1. CASE Handled("hostname")
    <3>1. input \in HostnameInputs /\ result = HostnameAnswer(input)
      BY <1>1, <2>1, InputOfKind, InputSets DEF IInv, Handled, Answered
    <3>. QED BY <3>1, HostnamesAreReadBack
  <2>. QED BY <2>1 DEF HostnamesReadBack
<1>2. IInv => HostnamesReadBack
  BY <1>1
<1>. QED BY <1>2, IInvHolds, PTL
=================================================================================

--------------------------- MODULE Ciphers_proofs ---------------------------
(* Theorems about Ciphers, for every block and buffer size, every length of *)
(* IV and messages of any number and size.                                  *)
EXTENDS Ciphers, SequenceTheorems, TLAPS

Owner == Proc \cup {"none", "empty", "wrong", "table"}

-----------------------------------------------------------------------------
(* The cipher objects.                                                      *)

LEMMA XorType ==
    ASSUME NEW iv \in Owner, NEW k \in Nat, NEW u \in Unit
    PROVE  Xor(iv, k, u) \in Unit
BY DEF Owner, Unit, Xor, Plain, Garbage

LEMMA BlockAndOffset ==
    ASSUME NEW counter \in Nat
    PROVE  /\ counter % Block \in 0 .. Block - 1
           /\ counter \div Block \in Nat
           /\ (counter \div Block) * Block + (counter % Block) = counter
BY CiphersAssumption DEF CiphersAssumption

LEMMA GrownSuffices ==
    ASSUME NEW size \in Nat, NEW needed \in Nat
    PROVE  Grown(size, needed) \in Nat /\ Grown(size, needed) >= needed
BY DEF Grown

(* What an object that has processed pos units makes of data.               *)
Stream(iv, pos, data) == [i \in 1 .. Len(data) |-> Xor(iv, pos + i - 1, data[i])]

LEMMA StreamType ==
    ASSUME NEW iv \in Owner, NEW pos \in Nat, NEW data \in Seq(Unit)
    PROVE  /\ Stream(iv, pos, data) \in Seq(Unit)
           /\ Len(Stream(iv, pos, data)) = Len(data)
           /\ \A i \in 1 .. Len(data) :
                 Stream(iv, pos, data)[i] = Xor(iv, pos + i - 1, data[i])
<1>1. Len(data) \in Nat
  OBVIOUS
<1>2. ASSUME NEW i \in 1 .. Len(data) PROVE Xor(iv, pos + i - 1, data[i]) \in Unit
  <2>1. pos + i - 1 \in Nat /\ data[i] \in Unit
    BY <1>1
  <2>. QED BY <2>1, XorType
<1>3. Stream(iv, pos, data) \in [1 .. Len(data) -> Unit]
  BY <1>2 DEF Stream
<1>. QED BY <1>1, <1>3 DEF Stream

(* A buffer that was grown cuts nothing off.                                *)
LEMMA NothingCut ==
    ASSUME NEW out \in Seq(Unit), NEW buf \in Nat, buf >= Len(out)
    PROVE  (IF buf < Len(out) THEN buf ELSE Len(out)) = Len(out)
OBVIOUS

(* SodiumCrypto.update addresses the key stream in blocks and pads; what    *)
(* comes out is what one counter of units would give, whatever part of a    *)
(* block earlier calls left over and however small the buffer was.          *)
THEOREM PaddingAligns ==
    ASSUME NEW iv \in Owner, NEW data \in Seq(Unit), NEW counter \in Nat, NEW size \in Nat
    PROVE  SodiumUpdate(iv, data, counter, size) = Stream(iv, counter, data)
<1>. DEFINE padding == counter % Block
            pad == [i \in 1 .. padding |-> Plain(0)]
            padded == pad \o data
            ic == counter \div Block
            out == XorIc(iv, padded, ic)
            buf == Grown(size, padding + Len(data))
<1>1. padding \in Nat /\ ic \in Nat /\ ic * Block + padding = counter /\ Len(data) \in Nat
      /\ Block \in Nat
  <2>1. Block \in Nat \ {0} /\ Len(data) \in Nat
    BY CiphersAssumption DEF CiphersAssumption
  <2>2. padding \in 0 .. Block - 1 /\ ic \in Nat /\ ic * Block + padding = counter
    BY BlockAndOffset
  <2>. HIDE DEF padding, ic
  <2>. QED BY <2>1, <2>2
<1>. HIDE DEF padding, ic
<1>2. pad \in Seq(Unit) /\ Len(pad) = padding
  <2>1. Plain(0) \in Unit
    BY DEF Plain, Unit
  <2>2. pad \in [1 .. padding -> Unit]
    BY <2>1
  <2>. QED BY <1>1, <2>2
<1>. HIDE DEF pad
<1>3. /\ padded \in Seq(Unit) /\ Len(padded) = padding + Len(data)
      /\ \A i \in 1 .. Len(data) : padded[padding + i] = data[i]
  <2>1. /\ padded \in Seq(Unit) /\ Len(padded) = padding + Len(data)
        /\ \A i \in 1 .. padding + Len(data) :
              padded[i] = IF i <= padding THEN pad[i] ELSE data[i - padding]
    BY <1>2, ConcatProperties
  <2>2. ASSUME NEW i \in 1 .. Len(data) PROVE padded[padding + i] = data[i]
    <3>1. padding + i \in 1 .. padding + Len(data) /\ ~(padding + i <= padding)
          /\ (padding + i) - padding = i
      BY <1>1
    <3>. QED BY <2>1, <3>1
  <2>. QED BY <2>1, <2>2
<1>. HIDE DEF padded
<1>4. /\ out \in Seq(Unit) /\ Len(out) = Len(padded)
      /\ \A i \in 1 .. Len(padded) : out[i] = Xor(iv, ic * Block + i - 1, padded[i])
  <2>1. ic * Block \in Nat
    BY <1>1
  <2>2. out = Stream(iv, ic * Block, padded)
    BY DEF XorIc, Stream
  <2>. QED BY <1>3, <2>1, <2>2, StreamType
<1>5. SodiumUpdate(iv, data, counter, size) = SubSeq(out, padding + 1, Len(out))
  <2>1. buf \in Nat /\ buf >= Len(out)
    BY <1>1, <1>3, <1>4, GrownSuffices
  <2>2. SodiumUpdate(iv, data, counter, size) =
           SubSeq(out, padding + 1, IF buf < Len(out) THEN buf ELSE Len(out))
    BY DEF SodiumUpdate, padding, pad, padded, ic
  <2>. QED BY <1>4, <2>1, <2>2, NothingCut
<1>. HIDE DEF out
<1>6. /\ SubSeq(out, padding + 1, Len(out)) \in Seq(Unit)
      /\ Len(SubSeq(out, padding + 1, Len(out))) = Len(data)
      /\ \A i \in 1 .. Len(data) : SubSeq(out, padding + 1, Len(out))[i] = out[padding + i]
  <2>1. Len(out) = padding + Len(data) /\ Len(out) \in Int /\ padding + 1 \in Int
    BY <1>1, <1>3, <1>4
  <2>2. \A i \in padding + 1 .. Len(out) : out[i] \in Unit
    BY <1>1, <1>4, <2>1
  <2>3. /\ SubSeq(out, padding + 1, Len(out)) \in Seq(Unit)
        /\ Len(SubSeq(out, padding + 1, Len(out))) =
              IF padding + 1 <= Len(out) THEN Len(out) - (padding + 1) + 1 ELSE 0
        /\ \A i \in 1 .. Len(out) - (padding + 1) + 1 :
              SubSeq(out, padding + 1, Len(out))[i] = out[(padding + 1) + i - 1]
    BY <2>1, <2>2, SubSeqProperties
  <2>4. ASSUME NEW i \in 1 .. Len(data)
        PROVE  (padding + 1) + i - 1 = padding + i /\ i \in 1 .. Len(out) - (padding + 1) + 1
    BY <1>1, <2>1
  <2>. QED BY <1>1, <2>1, <2>3, <2>4
<1>7. ASSUME NEW i \in 1 .. Len(data)
      PROVE  out[padding + i] = Xor(iv, counter + i - 1, data[i])
  <2>1. padding + i \in 1 .. Len(padded)
        /\ ic * Block + (padding + i) - 1 = counter + i - 1
    <3>1. ic * Block \in Nat
      BY <1>1
    <3>. QED BY <1>1, <1>3, <3>1
  <2>. QED BY <1>3, <1>4, <2>1
<1>. DEFINE cut == SubSeq(out, padding + 1, Len(out))
            direct == Stream(iv, counter, data)
<1>8. /\ direct \in Seq(Unit) /\ Len(direct) = Len(data)
      /\ \A i \in 1 .. Len(data) : direct[i] = Xor(iv, counter + i - 1, data[i])
  BY StreamType
<1>9. cut \in Seq(Unit) /\ Len(cut) = Len(direct) /\ \A i \in 1 .. Len(cut) : cut[i] = direct[i]
  <2>. HIDE DEF direct
  <2>. QED BY <1>6, <1>7, <1>8
<1>10. cut = direct
  <2>. HIDE DEF cut, direct
  <2>. QED BY <1>8, <1>9, SeqEqual
<1>. QED BY <1>5, <1>10

LEMMA OpenSSLIsStream ==
    ASSUME NEW iv \in Owner, NEW data \in Seq(Unit), NEW pos \in Nat, NEW size \in Nat
    PROVE  OpenSSLUpdate(iv, data, pos, size) = Stream(iv, pos, data)
<1>. DEFINE out == Stream(iv, pos, data)
            buf == Grown(size, Len(data))
<1>1. out \in Seq(Unit) /\ Len(out) = Len(data)
  BY StreamType
<1>2. buf \in Nat /\ buf >= Len(out)
  <2>1. Len(data) \in Nat
    OBVIOUS
  <2>2. buf \in Nat /\ buf >= Len(data)
    BY <2>1, GrownSuffices
  <2>. HIDE DEF buf, out
  <2>. QED BY <1>1, <2>2
<1>3. OpenSSLUpdate(iv, data, pos, size) =
         SubSeq(out, 1, IF buf < Len(out) THEN buf ELSE Len(out))
  BY DEF OpenSSLUpdate, Stream
<1>. HIDE DEF out, buf
<1>4. OpenSSLUpdate(iv, data, pos, size) = SubSeq(out, 1, Len(out))
  BY <1>1, <1>2, <1>3, NothingCut
<1>. QED BY <1>1, <1>4, SubSeqFull DEF out

-----------------------------------------------------------------------------
(* Every method is a stream; for table the position does not matter.        *)
KeyOf(m, iv) == IF m = "table" THEN "table" ELSE iv
AtOf(m, k) == IF m = "table" THEN 0 ELSE k
OutOf(m, iv, pos, data) == [i \in 1 .. Len(data) |-> Xor(KeyOf(m, iv), AtOf(m, pos + i - 1), data[i])]
Key(iv) == KeyOf(method, iv)
At(k) == AtOf(method, k)
Out(iv, pos, data) == OutOf(method, iv, pos, data)

LEMMA UpdateIsOut ==
    ASSUME NEW iv \in Owner, NEW data \in Seq(Unit), NEW pos \in Nat, NEW size \in Nat
    PROVE  Update(iv, data, pos, size) = Out(iv, pos, data)
<1>1. CASE method = "table"
  BY <1>1 DEF Update, TableUpdate, Out, OutOf, KeyOf, AtOf
<1>2. CASE method = "salsa20"
  BY <1>2, PaddingAligns DEF Update, Out, Stream, OutOf, KeyOf, AtOf
<1>3. CASE method \notin {"table", "salsa20"}
  <2>1. Update(iv, data, pos, size) = OpenSSLUpdate(iv, data, pos, size)
    BY <1>3 DEF Update
  <2>2. OpenSSLUpdate(iv, data, pos, size) = Stream(iv, pos, data)
    BY OpenSSLIsStream
  <2>3. Stream(iv, pos, data) = Out(iv, pos, data)
    BY <1>3 DEF Stream, Out, OutOf, KeyOf, AtOf
  <2>. QED BY <2>1, <2>2, <2>3
<1>. QED BY <1>1, <1>2, <1>3

PlainUnit == {Plain(n) : n \in Nat}

LEMMA PlainIsUnit == PlainUnit \subseteq Unit /\ Seq(PlainUnit) \subseteq Seq(Unit)
<1>1. PlainUnit \subseteq Unit
  BY DEF PlainUnit, Plain, Unit
<1>. QED BY <1>1

LEMMA OutType ==
    ASSUME NEW iv \in Owner, NEW pos \in Nat, NEW data \in Seq(Unit)
    PROVE  /\ Out(iv, pos, data) \in Seq(Unit)
           /\ Len(Out(iv, pos, data)) = Len(data)
           /\ \A i \in 1 .. Len(data) :
                 Out(iv, pos, data)[i] = Xor(Key(iv), At(pos + i - 1), data[i])
<1>1. Len(data) \in Nat
  OBVIOUS
<1>2. ASSUME NEW i \in 1 .. Len(data)
      PROVE  Xor(Key(iv), At(pos + i - 1), data[i]) \in Unit
  <2>1. At(pos + i - 1) \in Nat /\ data[i] \in Unit /\ Key(iv) \in Owner
    BY <1>1 DEF At, Key, Owner, KeyOf, AtOf
  <2>. QED BY <2>1, XorType
<1>3. Out(iv, pos, data) \in [1 .. Len(data) -> Unit]
  BY <1>2 DEF Out, OutOf, Key, At
<1>. QED BY <1>1, <1>3 DEF Out, OutOf, Key, At

(* Deciphering at the position of the enciphering gives the text back.      *)
LEMMA OutOfOut ==
    ASSUME NEW iv \in Owner, NEW pos \in Nat, NEW data \in Seq(PlainUnit)
    PROVE  Out(iv, pos, Out(iv, pos, data)) = data
<1>. DEFINE once == Out(iv, pos, data)
            twice == Out(iv, pos, once)
<1>1. data \in Seq(Unit)
  BY PlainIsUnit
<1>2. /\ once \in Seq(Unit) /\ Len(once) = Len(data)
      /\ \A i \in 1 .. Len(data) : once[i] = Xor(Key(iv), At(pos + i - 1), data[i])
  BY <1>1, OutType
<1>. HIDE DEF once
<1>3. /\ twice \in Seq(Unit) /\ Len(twice) = Len(once)
      /\ \A i \in 1 .. Len(once) : twice[i] = Xor(Key(iv), At(pos + i - 1), once[i])
  BY <1>2, OutType
<1>4. ASSUME NEW i \in 1 .. Len(data) PROVE twice[i] = data[i]
  <2>1. PICK n \in Nat : data[i] = Plain(n)
    BY DEF PlainUnit
  <2>2. ASSUME NEW key, NEW k PROVE Xor(key, k, Xor(key, k, Plain(n))) = Plain(n)
    BY DEF Xor, Plain
  <2>. HIDE DEF twice
  <2>. QED BY <1>2, <1>3, <2>1, <2>2
<1>. HIDE DEF twice
<1>5. twice = data
  BY <1>1, <1>2, <1>3, <1>4, SeqEqual
<1>. QED BY <1>5 DEF twice, once

-----------------------------------------------------------------------------
(* The inductive invariant of RoundTrip.                                    *)

Types ==
    /\ method \in Method
    /\ ivSent \in [Proc -> BOOLEAN]
    /\ encPos \in [Proc -> Nat]
    /\ decIv \in [Proc -> Proc \cup {"none", "empty", "wrong"}]
    /\ decPos \in [Proc -> Nat]
    /\ bufSize \in [Proc -> Nat]
    /\ sent \in [Proc -> Seq(Seq(Unit))]
    /\ plain \in [Proc -> Seq(Seq(PlainUnit))]
    /\ taken \in [Proc -> Seq(Nat)]
    /\ opened \in [Proc -> Seq(Seq(Unit))]

(* Where message i of p begins and ends in the key stream: a plain unit is  *)
(* its place.                                                               *)
Start(p, i) == plain[p][i][1].plain - 1
End(p, i) == IF i = 0 THEN 0 ELSE Start(p, i) + Len(plain[p][i])

(* What p has sent is its text at consecutive positions of one key stream,  *)
(* behind the IV that the other one needs.                                  *)
Prefix(p, i) == IF i = 1 THEN Iv(p) ELSE <<>>

SentAtPosition ==
    \A p \in Proc :
        /\ Len(sent[p]) = Len(plain[p])
        /\ encPos[p] = End(p, Len(plain[p]))
        /\ ivSent[p] <=> plain[p] # <<>>
        /\ \A i \in 1 .. Len(plain[p]) :
              /\ plain[p][i] # <<>>
              /\ Start(p, i) \in Nat /\ Start(p, i) = End(p, i - 1)
              /\ sent[p][i] = Prefix(p, i) \o Out(OwnIv(p), Start(p, i), plain[p][i])

(* A process that has taken every message in order is where the sender was. *)
OpenedInStep ==
    \A p \in Proc :
        /\ Len(opened[p]) = Len(taken[p])
        /\ InOrder(p) =>
              /\ Len(taken[p]) <= Len(plain[Other(p)])
              /\ \A t \in 1 .. Len(taken[p]) : opened[p][t] = plain[Other(p)][t]
              /\ decPos[p] = End(Other(p), Len(taken[p]))
              /\ decIv[p] = IF taken[p] = <<>> THEN "none" ELSE OwnIv(Other(p))

Inv == Types /\ SentAtPosition /\ OpenedInStep

LEMMA IvType ==
    ASSUME method \in Method, NEW p \in Proc
    PROVE  /\ IvLen[method] \in Nat
           /\ Iv(p) \in Seq(Unit) /\ Len(Iv(p)) = IvLen[method]
           /\ OwnIv(p) \in Proc \cup {"empty", "wrong"}
<1>1. IvLen[method] \in Nat
  BY CiphersAssumption DEF CiphersAssumption, Method
<1>2. ASSUME NEW i \in 1 .. IvLen[method]
      PROVE  [part |-> "iv", of |-> p, k |-> i, plain |-> 0] \in Unit
  BY <1>1 DEF Unit
<1>3. Iv(p) \in [1 .. IvLen[method] -> Unit]
  BY <1>2 DEF Iv
<1>4. OwnIv(p) \in Proc \cup {"empty", "wrong"}
  BY DEF OwnIv, IvOwner
<1>. QED BY <1>1, <1>3, <1>4

LEMMA IvOwnerType ==
    ASSUME NEW units PROVE IvOwner(units) \in Proc \cup {"empty", "wrong"}
BY DEF IvOwner

LEMMA InvInit == ASSUME Init PROVE Inv
<1>1. Types
  <2>1. encPos \in [Proc -> Nat] /\ decPos \in [Proc -> Nat] /\ method \in Method
        /\ ivSent \in [Proc -> BOOLEAN]
    BY DEF Init
  <2>2. bufSize \in [Proc -> Nat]
    BY CiphersAssumption DEF Init, CiphersAssumption
  <2>3. decIv \in [Proc -> Proc \cup {"none", "empty", "wrong"}]
    BY DEF Init
  <2>4. sent \in [Proc -> Seq(Seq(Unit))] /\ plain \in [Proc -> Seq(Seq(PlainUnit))]
    BY DEF Init
  <2>5. taken \in [Proc -> Seq(Nat)] /\ opened \in [Proc -> Seq(Seq(Unit))]
    BY DEF Init
  <2>. QED BY <2>1, <2>2, <2>3, <2>4, <2>5 DEF Types
<1>2. SentAtPosition
  BY DEF Init, SentAtPosition, End
<1>3. OpenedInStep
  <2>1. \A p \in Proc : Other(p) \in Proc
    BY DEF Proc, Other
  <2>. QED BY <2>1 DEF Init, OpenedInStep, End
<1>. QED BY <1>1, <1>2, <1>3 DEF Inv

-----------------------------------------------------------------------------
(* The method stays what it is, and all that depends on it.                 *)
LEMMA MethodFixed ==
    ASSUME method' = method
    PROVE  /\ \A p : Iv(p)' = Iv(p)
           /\ \A p : OwnIv(p)' = OwnIv(p)
           /\ \A iv, pos, data : Out(iv, pos, data)' = Out(iv, pos, data)
<1>1. \A p : Iv(p)' = Iv(p)
  BY DEF Iv
<1>2. \A p : OwnIv(p)' = OwnIv(p)
  BY DEF OwnIv, IvOwner, Iv
<1>3. \A iv, pos, data : Out(iv, pos, data)' = Out(iv, pos, data)
  BY DEF Out
<1>. QED BY <1>1, <1>2, <1>3

LEMMA BufType ==
    ASSUME NEW pos \in Nat, NEW len \in Nat, NEW size \in Nat
    PROVE  BufAfter(pos, len, size) \in Nat
<1>1. (pos % Block) + len \in Nat
  <2>1. pos % Block \in 0 .. Block - 1 /\ Block \in Nat
    BY BlockAndOffset, CiphersAssumption DEF CiphersAssumption
  <2>. QED BY <2>1
<1>2. Grown(size, (pos % Block) + len) \in Nat /\ Grown(size, len) \in Nat
  BY <1>1, GrownSuffices
<1>. QED BY <1>2 DEF BufAfter

LEMMA Appended ==
    ASSUME NEW S, NEW s \in Seq(S), NEW e \in S, NEW n \in Nat, Len(s) = n
    PROVE  /\ Append(s, e) \in Seq(S) /\ Len(Append(s, e)) = n + 1
           /\ \A i \in 1 .. n : Append(s, e)[i] = s[i]
           /\ Append(s, e)[n + 1] = e
OBVIOUS

LEMMA EncryptKeeps ==
    ASSUME Inv, NEW p \in Proc, NEW len \in 1 .. MaxLen, Encrypt(p, len) PROVE Inv'
<1>. DEFINE data == [i \in 1 .. len |-> Plain(encPos[p] + i)]
            head == IF ivSent[p] THEN <<>> ELSE Iv(p)
            body == Out(OwnIv(p), encPos[p], data)
<1>. PICK n \in Nat : n = Len(plain[p])
  <2>1. Len(plain[p]) \in Nat
    BY DEF Inv, Types
  <2>. QED BY <2>1
<1>0. /\ encPos[p] \in Nat /\ bufSize[p] \in Nat /\ n \in Nat /\ len \in Nat \ {0}
      /\ method \in Method /\ plain[p] \in Seq(Seq(PlainUnit)) /\ sent[p] \in Seq(Seq(Unit))
      /\ Len(sent[p]) = n /\ Len(plain[p]) = n
  BY CiphersAssumption DEF Inv, Types, SentAtPosition, CiphersAssumption
<1>1. data \in Seq(PlainUnit) /\ Len(data) = len /\ data # <<>> /\ data[1] = Plain(encPos[p] + 1)
  <2>1. \A i \in 1 .. len : Plain(encPos[p] + i) \in PlainUnit
    BY <1>0 DEF PlainUnit
  <2>2. data \in [1 .. len -> PlainUnit] /\ 1 \in 1 .. len
    BY <1>0, <2>1
  <2>3. data[1] = Plain(encPos[p] + 1)
    BY <2>2
  <2>. HIDE DEF data
  <2>4. data \in Seq(PlainUnit) /\ Len(data) = len
    BY <1>0, <2>2
  <2>. QED BY <1>0, <2>3, <2>4
<1>2. /\ method' = method /\ UNCHANGED <<decIv, decPos, taken, opened>>
      /\ plain' = [plain EXCEPT ![p] = Append(@, data)]
      /\ EncryptData(p, data)
      /\ bufSize' = [bufSize EXCEPT ![p] = BufAfter(encPos[p], len, @)]
  BY DEF Encrypt
<1>. HIDE DEF data
<1>3. OwnIv(p) \in Owner /\ data \in Seq(Unit) /\ Iv(p) \in Seq(Unit)
  BY <1>0, <1>1, IvType, PlainIsUnit DEF Owner
<1>4. Update(OwnIv(p), data, encPos[p], bufSize[p]) = body /\ body \in Seq(Unit)
  BY <1>0, <1>3, UpdateIsOut, OutType
<1>5. /\ sent' = [sent EXCEPT ![p] = Append(@, head \o body)]
      /\ ivSent' = [ivSent EXCEPT ![p] = TRUE]
      /\ encPos' = [encPos EXCEPT ![p] = @ + len]
  BY <1>1, <1>2, <1>4 DEF EncryptData
<1>. HIDE DEF body
<1>6. head \in Seq(Unit) /\ head \o body \in Seq(Unit)
  BY <1>3, <1>4
<1>. HIDE DEF head
<1>7. /\ sent'[p] \in Seq(Seq(Unit)) /\ Len(sent'[p]) = n + 1
      /\ \A i \in 1 .. n : sent'[p][i] = sent[p][i]
      /\ sent'[p][n + 1] = head \o body
  <2>1. sent'[p] = Append(sent[p], head \o body)
    BY <1>5 DEF Inv, Types
  <2>. QED BY <1>0, <1>6, <2>1, Appended
<1>8. /\ plain'[p] \in Seq(Seq(PlainUnit)) /\ Len(plain'[p]) = n + 1
      /\ \A i \in 1 .. n : plain'[p][i] = plain[p][i]
      /\ plain'[p][n + 1] = data
  <2>1. plain'[p] = Append(plain[p], data)
    BY <1>2 DEF Inv, Types
  <2>. QED BY <1>0, <1>1, <2>1, Appended
<1>9. \A q \in Proc \ {p} : sent'[q] = sent[q] /\ plain'[q] = plain[q] /\ ivSent'[q] = ivSent[q]
                             /\ encPos'[q] = encPos[q]
  BY <1>2, <1>5 DEF Inv, Types
<1>10. Types'
  <2>1. sent' \in [Proc -> Seq(Seq(Unit))]
    BY <1>5, <1>7 DEF Inv, Types
  <2>2. plain' \in [Proc -> Seq(Seq(PlainUnit))]
    BY <1>2, <1>8 DEF Inv, Types
  <2>3. encPos' \in [Proc -> Nat] /\ ivSent' \in [Proc -> BOOLEAN]
    BY <1>0, <1>5 DEF Inv, Types
  <2>4. bufSize' \in [Proc -> Nat]
    BY <1>0, <1>2, BufType DEF Inv, Types
  <2>. QED BY <1>2, <2>1, <2>2, <2>3, <2>4 DEF Inv, Types
<1>11. Start(p, n + 1)' = encPos[p] /\ \A i \in 1 .. n : Start(p, i)' = Start(p, i)
  <2>1. Start(p, n + 1)' = encPos[p]
    <3>1. plain'[p][n + 1][1] = Plain(encPos[p] + 1)
      BY <1>1, <1>8
    <3>2. Plain(encPos[p] + 1).plain = encPos[p] + 1
      BY DEF Plain
    <3>3. Start(p, n + 1)' = plain'[p][n + 1][1].plain - 1
      BY DEF Start
    <3>. QED BY <1>0, <3>1, <3>2, <3>3
  <2>. QED BY <1>8, <2>1 DEF Start
<1>12. \A i \in 0 .. n : End(p, i)' = End(p, i)
  <2>. SUFFICES ASSUME NEW i \in 0 .. n PROVE End(p, i)' = End(p, i)
    OBVIOUS
  <2>1. CASE i = 0
    BY <2>1 DEF End
  <2>2. CASE i # 0
    <3>1. i \in 1 .. n
      BY <2>2
    <3>2. Start(p, i)' = Start(p, i) /\ plain'[p][i] = plain[p][i]
      BY <1>8, <1>11, <3>1
    <3>. QED BY <2>2, <3>2 DEF End
  <2>. QED BY <2>1, <2>2
<1>13. End(p, n + 1)' = encPos[p] + len /\ encPos[p] = End(p, n)
  <2>1. Start(p, n + 1)' = encPos[p] /\ Len(plain'[p][n + 1]) = len /\ n + 1 # 0
    BY <1>1, <1>8, <1>11
  <2>2. End(p, n + 1)' = Start(p, n + 1)' + Len(plain'[p][n + 1])
    BY <2>1 DEF End
  <2>3. encPos[p] = End(p, n)
    BY <1>0 DEF Inv, SentAtPosition
  <2>. QED BY <2>1, <2>2, <2>3
<1>14. \A q \in Proc \ {p} : \A i : Start(q, i)' = Start(q, i) /\ End(q, i)' = End(q, i)
  BY <1>9 DEF Start, End
<1>15. SentAtPosition'
  <2>. SUFFICES ASSUME NEW q \in Proc
                PROVE  /\ Len(sent'[q]) = Len(plain'[q])
                       /\ encPos'[q] = End(q, Len(plain[q]))'
                       /\ ivSent'[q] <=> plain'[q] # <<>>
                       /\ \A i \in 1 .. Len(plain'[q]) :
                             /\ plain'[q][i] # <<>>
                             /\ Start(q, i)' \in Nat /\ Start(q, i)' = End(q, i - 1)'
                             /\ sent'[q][i] = Prefix(q, i)'
                                   \o Out(OwnIv(q), Start(q, i), plain[q][i])'
    BY DEF SentAtPosition
  <2>0. /\ \A i : Prefix(q, i)' = Prefix(q, i)
        /\ OwnIv(q)' = OwnIv(q)
        /\ \A iv, pos, text : Out(iv, pos, text)' = Out(iv, pos, text)
    BY <1>2, MethodFixed DEF Prefix
  <2>1. CASE q # p
    <3>1. /\ sent'[q] = sent[q] /\ plain'[q] = plain[q] /\ ivSent'[q] = ivSent[q]
          /\ encPos'[q] = encPos[q]
      BY <1>9, <2>1
    <3>2. \A i : Start(q, i)' = Start(q, i) /\ End(q, i)' = End(q, i)
      BY <1>14, <2>1
    <3>3. End(q, Len(plain[q]))' = End(q, Len(plain[q]))
      BY <3>1 DEF End, Start
    <3>4. ASSUME NEW i \in 1 .. Len(plain[q])
          PROVE  Out(OwnIv(q), Start(q, i), plain[q][i])' = Out(OwnIv(q), Start(q, i), plain[q][i])
      BY <1>2, <2>0, <3>1, <3>2 DEF Out
    <3>5. /\ Len(sent[q]) = Len(plain[q])
          /\ encPos[q] = End(q, Len(plain[q]))
          /\ ivSent[q] <=> plain[q] # <<>>
          /\ \A i \in 1 .. Len(plain[q]) :
                /\ plain[q][i] # <<>>
                /\ Start(q, i) \in Nat /\ Start(q, i) = End(q, i - 1)
                /\ sent[q][i] = Prefix(q, i) \o Out(OwnIv(q), Start(q, i), plain[q][i])
      BY DEF Inv, SentAtPosition
    <3>6. ivSent'[q] <=> plain'[q] # <<>>
      BY <3>1, <3>5
    <3>. QED BY <2>0, <3>1, <3>2, <3>3, <3>4, <3>5, <3>6
  <2>2. CASE q = p
    <3>1. Len(sent'[p]) = Len(plain'[p]) /\ encPos'[p] = End(p, Len(plain[p]))'
      <4>1. encPos'[p] = encPos[p] + len
        BY <1>5 DEF Inv, Types
      <4>2. End(p, Len(plain[p]))' = End(p, n + 1)'
        BY <1>8 DEF End, Start
      <4>. QED BY <1>7, <1>8, <1>13, <4>1, <4>2
    <3>2. ivSent'[p] <=> plain'[p] # <<>>
      <4>1. ivSent'[p] = TRUE
        BY <1>5 DEF Inv, Types
      <4>2. plain'[p] # <<>>
        BY <1>8
      <4>. QED BY <4>1, <4>2
    <3>3. ASSUME NEW i \in 1 .. n
          PROVE  /\ plain'[p][i] # <<>>
                 /\ Start(p, i)' \in Nat /\ Start(p, i)' = End(p, i - 1)'
                 /\ sent'[p][i] = Prefix(p, i)'
                       \o Out(OwnIv(p), Start(p, i), plain[p][i])'
      <4>1. i - 1 \in 0 .. n
        BY <1>0
      <4>2. /\ plain[p][i] # <<>>
            /\ Start(p, i) \in Nat /\ Start(p, i) = End(p, i - 1)
            /\ sent[p][i] = Prefix(p, i) \o Out(OwnIv(p), Start(p, i), plain[p][i])
        BY <1>0 DEF Inv, SentAtPosition
      <4>3. /\ plain'[p][i] = plain[p][i] /\ sent'[p][i] = sent[p][i]
            /\ Start(p, i)' = Start(p, i) /\ End(p, i - 1)' = End(p, i - 1)
        BY <1>7, <1>8, <1>11, <1>12, <4>1
      <4>4. Out(OwnIv(p), Start(p, i), plain[p][i])' = Out(OwnIv(p), Start(p, i), plain[p][i])
        BY <1>2, <2>0, <2>2, <4>3 DEF Out
      <4>. QED BY <2>0, <2>2, <4>2, <4>3, <4>4
    <3>4. head = Prefix(p, n + 1)'
      <4>1. ivSent[p] <=> plain[p] # <<>>
        BY DEF Inv, SentAtPosition
      <4>2. plain[p] # <<>> <=> n + 1 # 1
        BY <1>0
      <4>3. head = IF n + 1 = 1 THEN Iv(p) ELSE <<>>
        BY <4>1, <4>2 DEF head
      <4>4. Prefix(p, n + 1)' = IF n + 1 = 1 THEN Iv(p)' ELSE <<>>
        BY DEF Prefix
      <4>. QED BY <1>2, <4>3, <4>4, MethodFixed
    <3>5. /\ plain'[p][n + 1] # <<>>
          /\ Start(p, n + 1)' \in Nat /\ Start(p, n + 1)' = End(p, (n + 1) - 1)'
      <4>1. (n + 1) - 1 = n /\ n \in 0 .. n
        OBVIOUS
      <4>2. End(p, (n + 1) - 1)' = encPos[p]
        BY <1>12, <1>13, <4>1
      <4>. QED BY <1>0, <1>1, <1>8, <1>11, <4>2
    <3>6. sent'[p][n + 1] = Prefix(p, n + 1)'
                \o Out(OwnIv(p), Start(p, n + 1), plain[p][n + 1])'
      <4>1. Out(OwnIv(p), Start(p, n + 1), plain[p][n + 1])' = body
        BY <1>2, <1>8, <1>11, <2>0, <2>2 DEF body, Out
      <4>. QED BY <1>7, <3>4, <4>1
    <3>7. \A i \in 1 .. Len(plain'[p]) : i \in 1 .. n \/ i = n + 1
      BY <1>0, <1>8
    <3>. QED BY <2>2, <3>1, <3>2, <3>3, <3>5, <3>6, <3>7
  <2>. QED BY <2>1, <2>2
<1>16. OpenedInStep'
  <2>. SUFFICES ASSUME NEW q \in Proc
                PROVE  /\ Len(opened[q]) = Len(taken[q])
                       /\ InOrder(q) =>
                             /\ Len(taken[q]) <= Len(plain'[Other(q)])
                             /\ \A t \in 1 .. Len(taken[q]) : opened[q][t] = plain'[Other(q)][t]
                             /\ decPos[q] = End(Other(q), Len(taken[q]))'
                             /\ decIv[q] = IF taken[q] = <<>> THEN "none" ELSE OwnIv(Other(q))'
    BY <1>2 DEF OpenedInStep, InOrder
  <2>0. Other(q) \in Proc /\ Len(taken[q]) \in Nat
    BY DEF Other, Proc, Inv, Types
  <2>1. CASE Other(q) # p
    BY <1>2, <1>9, <1>14, <2>0, <2>1, MethodFixed DEF Inv, OpenedInStep
  <2>2. CASE Other(q) = p
    <3>1. Len(opened[q]) = Len(taken[q])
      BY DEF Inv, OpenedInStep
    <3>2. ASSUME InOrder(q)
          PROVE  /\ Len(taken[q]) <= Len(plain'[p])
                 /\ \A t \in 1 .. Len(taken[q]) : opened[q][t] = plain'[p][t]
                 /\ decPos[q] = End(p, Len(taken[q]))'
                 /\ decIv[q] = IF taken[q] = <<>> THEN "none" ELSE OwnIv(p)'
      <4>1. /\ Len(taken[q]) <= n
            /\ \A t \in 1 .. Len(taken[q]) : opened[q][t] = plain[p][t]
            /\ decPos[q] = End(p, Len(taken[q]))
            /\ decIv[q] = IF taken[q] = <<>> THEN "none" ELSE OwnIv(p)
        BY <2>2, <3>2 DEF Inv, OpenedInStep
      <4>2. Len(taken[q]) \in 0 .. n
        BY <1>0, <2>0, <4>1
      <4>. QED BY <1>0, <1>2, <1>8, <1>12, <4>1, <4>2, MethodFixed
    <3>. QED BY <2>2, <3>1, <3>2
  <2>. QED BY <2>1, <2>2
<1>. QED BY <1>10, <1>15, <1>16 DEF Inv

(* What is sent stays as it is where nothing is sent.                       *)
LEMMA SentUnchanged ==
    ASSUME SentAtPosition, UNCHANGED <<method, ivSent, encPos, sent, plain>>
    PROVE  /\ SentAtPosition'
           /\ \A r, t : End(r, t)' = End(r, t)
           /\ \A r : OwnIv(r)' = OwnIv(r)
<1>1. /\ \A r, t : End(r, t)' = End(r, t) /\ Start(r, t)' = Start(r, t)
      /\ \A r : OwnIv(r)' = OwnIv(r)
      /\ \A r, t : Prefix(r, t)' = Prefix(r, t)
  BY MethodFixed DEF End, Start, Prefix
<1>2. SentAtPosition'
  <2>. SUFFICES ASSUME NEW r \in Proc
                PROVE  /\ Len(sent[r]) = Len(plain[r])
                       /\ encPos[r] = End(r, Len(plain[r]))'
                       /\ ivSent[r] <=> plain[r] # <<>>
                       /\ \A t \in 1 .. Len(plain[r]) :
                             /\ plain[r][t] # <<>>
                             /\ Start(r, t)' \in Nat /\ Start(r, t)' = End(r, t - 1)'
                             /\ sent[r][t] = Prefix(r, t)'
                                   \o Out(OwnIv(r), Start(r, t), plain[r][t])'
    BY DEF SentAtPosition
  <2>1. /\ Len(sent[r]) = Len(plain[r])
        /\ encPos[r] = End(r, Len(plain[r]))
        /\ ivSent[r] <=> plain[r] # <<>>
        /\ \A t \in 1 .. Len(plain[r]) :
              /\ plain[r][t] # <<>>
              /\ Start(r, t) \in Nat /\ Start(r, t) = End(r, t - 1)
              /\ sent[r][t] = Prefix(r, t) \o Out(OwnIv(r), Start(r, t), plain[r][t])
    BY DEF SentAtPosition
  <2>2. End(r, Len(plain[r]))' = End(r, Len(plain[r]))
    BY DEF End, Start
  <2>3. \A t \in 1 .. Len(plain[r]) :
           Out(OwnIv(r), Start(r, t), plain[r][t])' = Out(OwnIv(r), Start(r, t), plain[r][t])
    BY <1>1 DEF Out
  <2>. QED BY <1>1, <2>1, <2>2, <2>3
<1>. QED BY <1>1, <1>2

LEMMA InvUnchanged ==
    ASSUME Inv, UNCHANGED vars PROVE SentAtPosition' /\ OpenedInStep'
<1>1. SentAtPosition' /\ (\A r, t : End(r, t)' = End(r, t)) /\ (\A r : OwnIv(r)' = OwnIv(r))
  BY SentUnchanged DEF Inv, vars
<1>2. OpenedInStep'
  <2>. SUFFICES ASSUME NEW r \in Proc
                PROVE  /\ Len(opened[r]) = Len(taken[r])
                       /\ InOrder(r) =>
                             /\ Len(taken[r]) <= Len(plain[Other(r)])
                             /\ \A t \in 1 .. Len(taken[r]) : opened[r][t] = plain[Other(r)][t]
                             /\ decPos[r] = End(Other(r), Len(taken[r]))
                             /\ decIv[r] = IF taken[r] = <<>> THEN "none" ELSE OwnIv(Other(r))
    BY <1>1 DEF vars, OpenedInStep, InOrder, End, Start
  <2>. QED BY DEF Inv, OpenedInStep
<1>. QED BY <1>1, <1>2

LEMMA PartsOfConcat ==
    ASSUME NEW s \in Seq(Unit), NEW t \in Seq(Unit)
    PROVE  /\ Len(s) \in Nat /\ Len(s) <= Len(s \o t)
           /\ SubSeq(s \o t, 1, Len(s)) = s
           /\ SubSeq(s \o t, Len(s) + 1, Len(s \o t)) = t
<1>1. Len(s) \in Nat /\ Len(t) \in Nat /\ s \o t \in Seq(Unit) /\ Len(s \o t) = Len(s) + Len(t)
  OBVIOUS
<1>2. SubSeq(s \o t, 1, Len(s)) = s
  <2>1. /\ SubSeq(s \o t, 1, Len(s)) \in Seq(Unit)
        /\ Len(SubSeq(s \o t, 1, Len(s))) = Len(s)
        /\ \A i \in 1 .. Len(s) : SubSeq(s \o t, 1, Len(s))[i] = s[i]
    BY <1>1
  <2>. QED BY <2>1, SeqEqual
<1>3. SubSeq(s \o t, Len(s) + 1, Len(s \o t)) = t
  <2>1. /\ SubSeq(s \o t, Len(s) + 1, Len(s \o t)) \in Seq(Unit)
        /\ Len(SubSeq(s \o t, Len(s) + 1, Len(s \o t))) = Len(t)
        /\ \A i \in 1 .. Len(t) : SubSeq(s \o t, Len(s) + 1, Len(s \o t))[i] = t[i]
    BY <1>1
  <2>. QED BY <2>1, SeqEqual
<1>. QED BY <1>1, <1>2, <1>3

LEMMA DecryptKeeps ==
    ASSUME Inv, NEW p \in Proc, NEW i \in 1 .. Len(sent[Other(p)]), Decrypt(p, i) PROVE Inv'
<1>. DEFINE q == Other(p)
            buf == sent[q][i]
            len == IvLen[method]
            short == IF len < Len(buf) THEN len ELSE Len(buf)
<1>0. q \in Proc /\ method \in Method
  BY DEF q, Other, Proc, Inv, Types
<1>. PICK n \in Nat : n = Len(taken[p])
  <2>1. Len(taken[p]) \in Nat
    BY DEF Inv, Types
  <2>. QED BY <2>1
<1>1. /\ i \in Nat /\ buf \in Seq(Unit) /\ len \in Nat /\ decPos[p] \in Nat /\ bufSize[p] \in Nat
      /\ taken[p] \in Seq(Nat) /\ Len(taken[p]) = n /\ opened[p] \in Seq(Seq(Unit))
      /\ Len(opened[p]) = n
  <2>1. len \in Nat
    BY <1>0, IvType
  <2>2. sent[q] \in Seq(Seq(Unit)) /\ i \in 1 .. Len(sent[q])
    BY <1>0 DEF Inv, Types
  <2>3. i \in Nat /\ buf \in Seq(Unit)
    BY <2>2
  <2>. QED BY <2>1, <2>3 DEF Inv, Types, OpenedInStep
<1>. HIDE DEF len
<1>2. /\ taken' = [taken EXCEPT ![p] = Append(@, i)]
      /\ UNCHANGED <<method, ivSent, encPos, sent, plain>>
  BY DEF Decrypt
<1>3. PICK iv \in Proc \cup {"none", "empty", "wrong"}, data \in Seq(Unit) :
         /\ DecryptData(p, iv, data)
         /\ decIv[p] # "none" => iv = decIv[p] /\ data = buf
         /\ decIv[p] = "none" => /\ iv = IvOwner(SubSeq(buf, 1, short))
                                 /\ data = SubSeq(buf, short + 1, Len(buf))
  <2>1. CASE decIv[p] # "none"
    <3>1. DecryptData(p, decIv[p], buf)
      BY <2>1 DEF Decrypt
    <3>2. decIv[p] \in Proc \cup {"none", "empty", "wrong"}
      BY DEF Inv, Types
    <3>. QED BY <1>1, <2>1, <3>1, <3>2
  <2>2. CASE decIv[p] = "none"
    <3>1. DecryptData(p, IvOwner(SubSeq(buf, 1, short)), SubSeq(buf, short + 1, Len(buf)))
      BY <2>2 DEF Decrypt, len
    <3>2. SubSeq(buf, short + 1, Len(buf)) \in Seq(Unit)
      <4>1. short \in Nat /\ short <= Len(buf)
        BY <1>1
      <4>. HIDE DEF short, buf
      <4>. QED BY <1>1, <4>1
    <3>3. IvOwner(SubSeq(buf, 1, short)) \in Proc \cup {"none", "empty", "wrong"}
      BY IvOwnerType
    <3>. HIDE DEF short, buf
    <3>. QED BY <2>2, <3>1, <3>2, <3>3
  <2>. QED BY <2>1, <2>2
<1>4. /\ decIv' = [decIv EXCEPT ![p] = iv]
      /\ opened' = [opened EXCEPT ![p] = Append(@, Out(iv, decPos[p], data))]
      /\ bufSize' = [bufSize EXCEPT ![p] = BufAfter(decPos[p], Len(data), @)]
      /\ decPos' = [decPos EXCEPT ![p] = @ + Len(data)]
  <2>1. Update(iv, data, decPos[p], bufSize[p]) = Out(iv, decPos[p], data)
    BY <1>1, <1>3, UpdateIsOut DEF Owner
  <2>. QED BY <1>3, <2>1 DEF DecryptData
<1>5. Out(iv, decPos[p], data) \in Seq(Unit) /\ Len(data) \in Nat
  BY <1>1, <1>3, OutType DEF Owner
<1>. HIDE DEF q, buf, short
<1>6. /\ taken'[p] \in Seq(Nat) /\ Len(taken'[p]) = n + 1
      /\ \A t \in 1 .. n : taken'[p][t] = taken[p][t]
      /\ taken'[p][n + 1] = i
  <2>1. taken'[p] = Append(taken[p], i)
    BY <1>2 DEF Inv, Types
  <2>. QED BY <1>1, <2>1, Appended
<1>7. /\ opened'[p] \in Seq(Seq(Unit)) /\ Len(opened'[p]) = n + 1
      /\ \A t \in 1 .. n : opened'[p][t] = opened[p][t]
      /\ opened'[p][n + 1] = Out(iv, decPos[p], data)
  <2>1. opened'[p] = Append(opened[p], Out(iv, decPos[p], data))
    BY <1>4 DEF Inv, Types
  <2>. QED BY <1>1, <1>5, <2>1, Appended
<1>8. Types'
  <2>1. taken' \in [Proc -> Seq(Nat)] /\ opened' \in [Proc -> Seq(Seq(Unit))]
    BY <1>2, <1>4, <1>6, <1>7 DEF Inv, Types
  <2>2. bufSize' \in [Proc -> Nat]
    BY <1>1, <1>4, <1>5, BufType DEF Inv, Types
  <2>3. decIv' \in [Proc -> Proc \cup {"none", "empty", "wrong"}]
    BY <1>3, <1>4 DEF Inv, Types
  <2>4. decPos' \in [Proc -> Nat]
    <3>0. decPos \in [Proc -> Nat]
      BY DEF Inv, Types
    <3>1. decPos[p] + Len(data) \in Nat
      BY <1>1, <1>5
    <3>2. PICK d \in Nat : d = decPos[p] + Len(data)
      BY <3>1
    <3>3. decPos' = [decPos EXCEPT ![p] = d]
      BY <1>4, <3>2
    <3>. QED BY <3>0, <3>3
  <2>. QED BY <1>2, <2>1, <2>2, <2>3, <2>4 DEF Inv, Types
<1>9. /\ SentAtPosition'
      /\ \A r, t : End(r, t)' = End(r, t)
      /\ \A r : OwnIv(r)' = OwnIv(r)
  BY <1>2, SentUnchanged DEF Inv
<1>10. OpenedInStep'
  <2>. SUFFICES ASSUME NEW r \in Proc
                PROVE  /\ Len(opened'[r]) = Len(taken'[r])
                       /\ InOrder(r)' =>
                             /\ Len(taken'[r]) <= Len(plain[Other(r)])
                             /\ \A t \in 1 .. Len(taken'[r]) : opened'[r][t] = plain[Other(r)][t]
                             /\ decPos'[r] = End(Other(r), Len(taken'[r]))
                             /\ decIv'[r] = IF taken'[r] = <<>> THEN "none" ELSE OwnIv(Other(r))
    BY <1>2, <1>9 DEF OpenedInStep, End, Start
  <2>1. CASE r # p
    <3>1. /\ opened'[r] = opened[r] /\ taken'[r] = taken[r] /\ decPos'[r] = decPos[r]
          /\ decIv'[r] = decIv[r]
      BY <1>2, <1>4, <2>1 DEF Inv, Types
    <3>2. InOrder(r)' => InOrder(r)
      BY <3>1 DEF InOrder
    <3>. QED BY <3>1, <3>2 DEF Inv, OpenedInStep
  <2>2. CASE r = p
    <3>1. Len(opened'[p]) = Len(taken'[p])
      BY <1>6, <1>7
    <3>. SUFFICES ASSUME InOrder(p)'
                  PROVE  /\ Len(taken'[p]) <= Len(plain[q])
                         /\ \A t \in 1 .. Len(taken'[p]) : opened'[p][t] = plain[q][t]
                         /\ decPos'[p] = End(q, Len(taken'[p]))
                         /\ decIv'[p] = IF taken'[p] = <<>> THEN "none" ELSE OwnIv(q)
      BY <2>2, <3>1 DEF q
    <3>2. \A t \in 1 .. n + 1 : taken'[p][t] = t
      BY <1>6 DEF InOrder
    <3>3. i = n + 1 /\ InOrder(p)
      <4>1. n + 1 \in 1 .. n + 1 /\ \A t \in 1 .. n : t \in 1 .. n + 1
        OBVIOUS
      <4>2. DOMAIN taken[p] = 1 .. n
        BY <1>1
      <4>. QED BY <1>6, <3>2, <4>1, <4>2 DEF InOrder
    <3>4. /\ n <= Len(plain[q])
          /\ \A t \in 1 .. n : opened[p][t] = plain[q][t]
          /\ decPos[p] = End(q, n)
          /\ decIv[p] = IF taken[p] = <<>> THEN "none" ELSE OwnIv(q)
      BY <1>1, <3>3 DEF Inv, OpenedInStep, q
    <3>5. n + 1 \in 1 .. Len(plain[q]) /\ Len(plain[q]) \in Nat
      <4>1. Len(sent[q]) = Len(plain[q])
        BY <1>0 DEF Inv, SentAtPosition
      <4>2. Len(plain[q]) \in Nat
        BY <1>0 DEF Inv, Types
      <4>. QED BY <3>3, <4>1, <4>2 DEF q
    <3>. DEFINE text == plain[q][n + 1]
                body == Out(OwnIv(q), Start(q, n + 1), text)
    <3>6. /\ Start(q, n + 1) \in Nat /\ Start(q, n + 1) = decPos[p]
          /\ buf = Prefix(q, n + 1) \o body
      <4>1. (n + 1) - 1 = n
        OBVIOUS
      <4>2. /\ Start(q, n + 1) \in Nat /\ Start(q, n + 1) = End(q, (n + 1) - 1)
            /\ sent[q][n + 1] = Prefix(q, n + 1) \o body
        BY <1>0, <3>5 DEF Inv, SentAtPosition
      <4>. QED BY <3>3, <3>4, <4>1, <4>2 DEF buf
    <3>7. text \in Seq(PlainUnit) /\ text \in Seq(Unit) /\ Len(text) \in Nat
      <4>1. plain[q] \in Seq(Seq(PlainUnit))
        BY <1>0 DEF Inv, Types
      <4>2. text \in Seq(PlainUnit)
        BY <3>5, <4>1
      <4>. HIDE DEF text
      <4>. QED BY <4>2, PlainIsUnit
    <3>8. OwnIv(q) \in Proc \cup {"empty", "wrong"} /\ Iv(q) \in Seq(Unit) /\ Len(Iv(q)) = len
      BY <1>0, IvType DEF len
    <3>9. body \in Seq(Unit) /\ Len(body) = Len(text)
      <4>1. OwnIv(q) \in Owner
        BY <3>8 DEF Owner
      <4>. HIDE DEF text
      <4>. QED BY <3>6, <3>7, <4>1, OutType
    <3>. HIDE DEF text, body
    <3>10. iv = OwnIv(q) /\ data = body
      <4>1. CASE n = 0
        <5>1. decIv[p] = "none"
          <6>1. taken[p] = <<>>
            BY <1>1, <4>1, EmptySeq
          <6>. QED BY <3>4, <6>1
        <5>2. buf = Iv(q) \o body
          BY <3>6, <4>1 DEF Prefix
        <5>3. /\ len <= Len(buf) /\ SubSeq(buf, 1, len) = Iv(q)
              /\ SubSeq(buf, len + 1, Len(buf)) = body
          BY <3>8, <3>9, <5>2, PartsOfConcat
        <5>4. short = len
          BY <1>1, <5>3 DEF short
        <5>. QED BY <1>3, <5>1, <5>3, <5>4 DEF OwnIv
      <4>2. CASE n # 0
        <5>1. decIv[p] = OwnIv(q) /\ OwnIv(q) # "none"
          BY <1>1, <3>4, <3>8, <4>2 DEF Proc
        <5>2. Prefix(q, n + 1) = <<>>
          BY <4>2 DEF Prefix
        <5>3. buf = body
          BY <3>6, <3>9, <5>2
        <5>. QED BY <1>3, <5>1, <5>3
      <4>. QED BY <4>1, <4>2
    <3>11. opened'[p][n + 1] = text
      <4>1. OwnIv(q) \in Owner
        BY <3>8 DEF Owner
      <4>2. Out(OwnIv(q), Start(q, n + 1), body) = text
        BY <3>6, <3>7, <4>1, OutOfOut DEF body
      <4>. QED BY <1>7, <3>6, <3>10, <4>2
    <3>12. decPos'[p] = End(q, n + 1)
      <4>1. decPos'[p] = decPos[p] + Len(text)
        <5>1. decPos \in [Proc -> Nat]
          BY DEF Inv, Types
        <5>2. decPos'[p] = decPos[p] + Len(data)
          BY <1>4, <5>1
        <5>. QED BY <3>9, <3>10, <5>2
      <4>2. End(q, n + 1) = Start(q, n + 1) + Len(text)
        BY DEF End, text
      <4>. QED BY <3>6, <4>1, <4>2
    <3>13. decIv'[p] = OwnIv(q) /\ taken'[p] # <<>>
      <4>1. decIv'[p] = OwnIv(q)
        BY <1>4, <3>10 DEF Inv, Types
      <4>2. taken'[p] # <<>>
        BY <1>6
      <4>. QED BY <4>1, <4>2
    <3>14. \A t \in 1 .. n + 1 : opened'[p][t] = plain[q][t]
      <4>1. \A t \in 1 .. n + 1 : t \in 1 .. n \/ t = n + 1
        OBVIOUS
      <4>. QED BY <1>7, <3>4, <3>11, <4>1 DEF text
    <3>. QED BY <1>6, <3>5, <3>12, <3>13, <3>14
  <2>. QED BY <2>1, <2>2
<1>. QED BY <1>8, <1>9, <1>10 DEF Inv

-----------------------------------------------------------------------------
(* Every reachable state satisfies the inductive invariant: each message is  *)
(* enciphered where the one before it ended, and a process that has taken    *)
(* all in order is where the sender was.                                     *)
THEOREM InvHolds == Spec => []Inv
<1>1. Init => Inv
  BY InvInit
<1>2. Inv /\ [Next]_vars => Inv'
  <2>. SUFFICES ASSUME Inv, [Next]_vars PROVE Inv'
    OBVIOUS
  <2>1. CASE Next
    <3>1. PICK p \in Proc : \/ \E len \in 1 .. MaxLen : Encrypt(p, len)
                            \/ \E i \in 1 .. Len(sent[Other(p)]) : Decrypt(p, i)
      BY <2>1 DEF Next
    <3>2. CASE \E len \in 1 .. MaxLen : Encrypt(p, len)
      BY <3>2, EncryptKeeps
    <3>3. CASE \E i \in 1 .. Len(sent[Other(p)]) : Decrypt(p, i)
      BY <3>3, DecryptKeeps
    <3>. QED BY <3>1, <3>2, <3>3
  <2>2. CASE UNCHANGED vars
    <3>1. Types'
      BY <2>2 DEF vars, Inv, Types
    <3>2. SentAtPosition' /\ OpenedInStep'
      BY <2>2, InvUnchanged
    <3>. QED BY <3>1, <3>2 DEF Inv
  <2>. QED BY <2>1, <2>2
<1>. QED BY <1>1, <1>2, PTL DEF Spec

(* Messages deciphered in the order in which they were ciphered give their  *)
(* plain text, for every block size, buffer size and length of IV, whatever *)
(* the sizes of the messages and however the two directions of the process  *)
(* share its buffer (crypto.py, Encryptor.encrypt and decrypt).             *)
THEOREM RoundTripHolds == Spec => []RoundTrip
<1>1. Inv => RoundTrip
  <2>. SUFFICES ASSUME Inv, NEW p \in Proc, InOrder(p)
                PROVE  opened[p] = SubSeq(plain[Other(p)], 1, Len(taken[p]))
    BY DEF RoundTrip
  <2>. DEFINE q == Other(p)
              n == Len(taken[p])
  <2>1. q \in Proc
    BY DEF q, Other, Proc
  <2>. HIDE DEF q
  <2>2. /\ opened[p] \in Seq(Seq(Unit)) /\ plain[q] \in Seq(Seq(PlainUnit)) /\ n \in Nat
    BY <2>1 DEF Inv, Types
  <2>3. /\ Len(opened[p]) = n /\ n <= Len(plain[q])
        /\ \A t \in 1 .. n : opened[p][t] = plain[q][t]
    BY DEF Inv, OpenedInStep, q
  <2>. HIDE DEF n
  <2>4. plain[q] \in Seq(Seq(Unit))
    <3>1. Seq(PlainUnit) \subseteq Seq(Unit)
      BY PlainIsUnit
    <3>. QED BY <2>2, <3>1
  <2>5. /\ SubSeq(plain[q], 1, n) \in Seq(Seq(Unit)) /\ Len(SubSeq(plain[q], 1, n)) = n
        /\ \A t \in 1 .. n : SubSeq(plain[q], 1, n)[t] = plain[q][t]
    BY <2>2, <2>3, <2>4
  <2>6. opened[p] = SubSeq(plain[q], 1, n)
    BY <2>2, <2>3, <2>5, SeqEqual
  <2>. QED BY <2>6 DEF q, n
<1>. QED BY <1>1, InvHolds, PTL


-----------------------------------------------------------------------------
(* The inductive invariant of OutOfPlaceGarbled: no two messages have the   *)
(* same place, and only what was sent is deciphered.                        *)

PlacesGrow ==
    \A p \in Proc : \A i, j \in 1 .. Len(plain[p]) : i < j => End(p, i) <= Start(p, j)
TakenSent ==
    \A p \in Proc : \A t \in DOMAIN taken[p] : taken[p][t] \in 1 .. Len(plain[Other(p)])
PlaceInv == Inv /\ PlacesGrow /\ TakenSent /\ OutOfPlaceGarbled

LEMMA PlaceNat ==
    ASSUME Inv, NEW q \in Proc
    PROVE  /\ Len(plain[q]) \in Nat
           /\ \A i \in 1 .. Len(plain[q]) :
                /\ plain[q][i] \in Seq(PlainUnit) /\ Len(plain[q][i]) \in Nat
                /\ Len(plain[q][i]) > 0 /\ Start(q, i) \in Nat
                /\ End(q, i) = Start(q, i) + Len(plain[q][i]) /\ End(q, i) \in Nat
<1>1. plain[q] \in Seq(Seq(PlainUnit))
  BY DEF Inv, Types
<1>2. Len(plain[q]) \in Nat
  BY <1>1
<1>3. ASSUME NEW i \in 1 .. Len(plain[q])
      PROVE  /\ plain[q][i] \in Seq(PlainUnit) /\ Len(plain[q][i]) \in Nat
             /\ Len(plain[q][i]) > 0 /\ Start(q, i) \in Nat
             /\ End(q, i) = Start(q, i) + Len(plain[q][i]) /\ End(q, i) \in Nat
  <2>1. plain[q][i] \in Seq(PlainUnit) /\ plain[q][i] # <<>> /\ Start(q, i) \in Nat
    BY <1>1 DEF Inv, SentAtPosition
  <2>2. Len(plain[q][i]) \in Nat /\ Len(plain[q][i]) > 0
    BY <2>1, EmptySeq
  <2>3. End(q, i) = Start(q, i) + Len(plain[q][i])
    BY <1>2 DEF End
  <2>. QED BY <2>1, <2>2, <2>3
<1>. QED BY <1>2, <1>3

(* Message i does not begin where another one does.                         *)
LEMMA PlaceDiffers ==
    ASSUME Inv, PlacesGrow, NEW q \in Proc, NEW n \in Nat, n <= Len(plain[q]),
           NEW i \in 1 .. Len(plain[q]), i # n + 1
    PROVE  Start(q, i) # End(q, n)
<1>1. /\ Start(q, i) \in Nat /\ End(q, i) \in Nat /\ Start(q, i) < End(q, i)
      /\ Len(plain[q]) \in Nat /\ i \in Nat
  BY PlaceNat
<1>2. CASE i <= n
  <2>1. n \in 1 .. Len(plain[q])
    BY <1>1, <1>2
  <2>2. Start(q, n) \in Nat /\ End(q, n) \in Nat /\ Start(q, n) <= End(q, n)
    BY <2>1, PlaceNat
  <2>3. CASE i = n
    BY <1>1, <2>3
  <2>4. CASE i < n
    <3>1. End(q, i) <= Start(q, n)
      BY <2>1, <2>4 DEF PlacesGrow
    <3>. QED BY <1>1, <2>2, <3>1
  <2>. QED BY <1>1, <1>2, <2>3, <2>4
<1>3. CASE i > n
  <2>1. n + 1 \in 1 .. Len(plain[q]) /\ n + 1 < i /\ (n + 1) - 1 = n
    BY <1>1, <1>3
  <2>2. Start(q, n + 1) = End(q, n)
    BY <2>1 DEF Inv, SentAtPosition
  <2>3. End(q, n + 1) <= Start(q, i)
    BY <2>1 DEF PlacesGrow
  <2>4. Start(q, n + 1) \in Nat /\ End(q, n + 1) \in Nat /\ Start(q, n + 1) < End(q, n + 1)
    BY <2>1, PlaceNat
  <2>. QED BY <1>1, <2>2, <2>3, <2>4
<1>. QED BY <1>1, <1>2, <1>3

LEMMA PlainGrows ==
    ASSUME Inv, NEW p \in Proc, NEW len \in 1 .. MaxLen, Encrypt(p, len), NEW q \in Proc
    PROVE  /\ Len(plain'[q]) = Len(plain[q]) \/ Len(plain'[q]) = Len(plain[q]) + 1
           /\ \A i \in 1 .. Len(plain[q]) : plain'[q][i] = plain[q][i]
<1> DEFINE data == [i \in 1 .. len |-> Plain(encPos[p] + i)]
<1>1. plain' = [plain EXCEPT ![p] = Append(@, data)]
  BY DEF Encrypt
<1> HIDE DEF data
<1>2. plain \in [Proc -> Seq(Seq(PlainUnit))]
  BY DEF Inv, Types
<1>3. CASE q = p
  <2>1. plain'[q] = Append(plain[q], data) /\ plain[q] \in Seq(Seq(PlainUnit))
    BY <1>1, <1>2, <1>3
  <2>. QED BY <2>1
<1>4. CASE q # p
  BY <1>1, <1>2, <1>4
<1>. QED BY <1>3, <1>4

LEMMA EncryptKeepsPlaces ==
    ASSUME PlaceInv, Inv', NEW p \in Proc, NEW len \in 1 .. MaxLen, Encrypt(p, len)
    PROVE  PlaceInv'
<1>0. Inv /\ method' = method /\ taken' = taken /\ opened' = opened
  BY DEF PlaceInv, Encrypt
<1>1. ASSUME NEW q \in Proc, NEW i \in 1 .. Len(plain[q])
      PROVE  Start(q, i)' = Start(q, i) /\ End(q, i)' = End(q, i) /\ plain'[q][i] = plain[q][i]
  <2>1. plain'[q][i] = plain[q][i] /\ i # 0
    BY <1>0, PlainGrows, PlaceNat
  <2>. QED BY <2>1 DEF Start, End
<1>2. PlacesGrow'
  <2> SUFFICES ASSUME NEW q \in Proc, NEW i \in 1 .. Len(plain'[q]), NEW j \in 1 .. Len(plain'[q]),
                      i < j
               PROVE  End(q, i)' <= Start(q, j)'
    BY DEF PlacesGrow
  <2>1. PICK n \in Nat : n = Len(plain[q])
    BY <1>0, PlaceNat
  <2>2. Len(plain'[q]) = n \/ Len(plain'[q]) = n + 1
    BY <1>0, <2>1, PlainGrows
  <2>3. i \in 1 .. n
    BY <2>1, <2>2
  <2>4. CASE j \in 1 .. n
    BY <1>1, <2>1, <2>3, <2>4 DEF PlaceInv, PlacesGrow
  <2>5. CASE j \notin 1 .. n
    <3>1. j = n + 1 /\ (n + 1) - 1 = n /\ n \in 1 .. n /\ Len(plain'[q]) = n + 1
      BY <2>1, <2>2, <2>3, <2>5
    <3>2. Start(q, j)' = End(q, n)'
      BY <3>1 DEF Inv, SentAtPosition
    <3>3. /\ End(q, n)' = End(q, n) /\ End(q, i)' = End(q, i)
          /\ End(q, n) \in Nat /\ End(q, i) \in Nat /\ Start(q, n) \in Nat /\ Start(q, n) <= End(q, n)
      <4>1. End(q, n)' = End(q, n) /\ End(q, i)' = End(q, i)
        BY <1>1, <2>1, <2>3, <3>1
      <4>2. /\ End(q, n) \in Nat /\ End(q, i) \in Nat /\ Start(q, n) \in Nat
            /\ Len(plain[q][n]) \in Nat /\ End(q, n) = Start(q, n) + Len(plain[q][n])
        BY <1>0, <2>1, <2>3, <3>1, PlaceNat
      <4>3. Start(q, n) <= End(q, n)
        BY <4>2
      <4>. QED BY <4>1, <4>2, <4>3
    <3>4. i = n \/ End(q, i) <= Start(q, n)
      BY <2>1, <2>3, <3>1 DEF PlaceInv, PlacesGrow
    <3>. QED BY <3>2, <3>3, <3>4
  <2>. QED BY <2>4, <2>5
<1>3. \A q \in Proc : Other(q) \in Proc
  BY DEF Other, Proc
<1>4. TakenSent'
  <2> SUFFICES ASSUME NEW q \in Proc, NEW t \in DOMAIN taken[q]
               PROVE  taken[q][t] \in 1 .. Len(plain'[Other(q)])
    BY <1>0 DEF TakenSent
  <2>1. taken[q][t] \in 1 .. Len(plain[Other(q)])
    BY DEF PlaceInv, TakenSent
  <2>. QED BY <1>0, <1>3, <2>1, PlainGrows, PlaceNat
<1>5. OutOfPlaceGarbled'
  <2> SUFFICES ASSUME NEW q \in Proc, NEW t \in DOMAIN taken[q],
                      \A s \in 1 .. t - 1 : taken[q][s] = s, taken[q][t] # t
               PROVE  opened[q][t] = plain'[Other(q)][taken[q][t]] <=> method = "table"
    BY <1>0 DEF OutOfPlaceGarbled
  <2>1. taken[q][t] \in 1 .. Len(plain[Other(q)])
    BY DEF PlaceInv, TakenSent
  <2>2. plain'[Other(q)][taken[q][t]] = plain[Other(q)][taken[q][t]]
    BY <1>1, <1>3, <2>1
  <2>. QED BY <2>2 DEF PlaceInv, OutOfPlaceGarbled
<1>. QED BY <1>2, <1>4, <1>5 DEF PlaceInv

(* What decrypt() makes of a message.                                       *)
LEMMA DecryptMakes ==
    ASSUME Inv, NEW p \in Proc, NEW i \in 1 .. Len(sent[Other(p)]), Decrypt(p, i)
    PROVE  \E iv \in Proc \cup {"none", "empty", "wrong"}, data \in Seq(Unit) :
             LET buf == sent[Other(p)][i]
                 short == IF IvLen[method] < Len(buf) THEN IvLen[method] ELSE Len(buf) IN
             /\ opened' = [opened EXCEPT ![p] = Append(@, Out(iv, decPos[p], data))]
             /\ decIv[p] # "none" => iv = decIv[p] /\ data = buf
             /\ decIv[p] = "none" => data = SubSeq(buf, short + 1, Len(buf))
<1>. DEFINE q == Other(p)
            buf == sent[q][i]
            len == IvLen[method]
            short == IF len < Len(buf) THEN len ELSE Len(buf)
<1>1. /\ buf \in Seq(Unit) /\ len \in Nat /\ decPos[p] \in Nat /\ bufSize[p] \in Nat
  <2>1. q \in Proc /\ method \in Method
    BY DEF q, Other, Proc, Inv, Types
  <2>2. sent[q] \in Seq(Seq(Unit)) /\ i \in 1 .. Len(sent[q])
    BY <2>1 DEF Inv, Types
  <2>3. buf \in Seq(Unit)
    BY <2>2
  <2>. QED BY <2>1, <2>3, IvType DEF Inv, Types
<1>2. ASSUME NEW iv \in Proc \cup {"none", "empty", "wrong"}, NEW data \in Seq(Unit),
             DecryptData(p, iv, data)
      PROVE  opened' = [opened EXCEPT ![p] = Append(@, Out(iv, decPos[p], data))]
  <2>1. Update(iv, data, decPos[p], bufSize[p]) = Out(iv, decPos[p], data)
    BY <1>1, UpdateIsOut DEF Owner
  <2>. QED BY <1>2, <2>1 DEF DecryptData
<1>3. CASE decIv[p] # "none"
  <2>1. DecryptData(p, decIv[p], buf) /\ decIv[p] \in Proc \cup {"none", "empty", "wrong"}
    BY <1>3 DEF Decrypt, Inv, Types
  <2>. QED BY <1>1, <1>2, <1>3, <2>1
<1>4. CASE decIv[p] = "none"
  <2> DEFINE iv == IvOwner(SubSeq(buf, 1, short))
             data == SubSeq(buf, short + 1, Len(buf))
  <2>1. DecryptData(p, iv, data)
    BY <1>4 DEF Decrypt
  <2>2. iv \in Proc \cup {"none", "empty", "wrong"}
    BY IvOwnerType
  <2>3. data \in Seq(Unit)
    <3>1. short \in Nat /\ short <= Len(buf)
      BY <1>1
    <3>. HIDE DEF short, buf
    <3>. QED BY <1>1, <3>1
  <2>4. opened' = [opened EXCEPT ![p] = Append(@, Out(iv, decPos[p], data))]
    <3> HIDE DEF iv, data
    <3>. QED BY <1>2, <2>1, <2>2, <2>3
  <2>. QED BY <1>4, <2>2, <2>3, <2>4
<1>. QED BY <1>3, <1>4

LEMMA Lengths ==
    ASSUME NEW s \in Seq(Unit), NEW t \in Seq(Unit)
    PROVE  /\ Len(s) \in Nat /\ Len(s \o t) = Len(s) + Len(t)
           /\ \A k \in Nat : k <= Len(s) => Len(SubSeq(s, k + 1, Len(s))) = Len(s) - k
           /\ SubSeq(s, 0 + 1, Len(s)) = s
<1>1. Len(s) \in Nat /\ Len(s \o t) = Len(s) + Len(t)
  OBVIOUS
<1>2. ASSUME NEW k \in Nat, k <= Len(s) PROVE Len(SubSeq(s, k + 1, Len(s))) = Len(s) - k
  BY <1>1, <1>2
<1>. QED BY <1>1, <1>2, SubSeqFull

(* The first unit of another message, or a message of another length.       *)
LEMMA OutOfPlace ==
    ASSUME PlaceInv, NEW p \in Proc, NEW i \in 1 .. Len(sent[Other(p)]), Decrypt(p, i),
           InOrder(p), i # Len(taken[p]) + 1
    PROVE  opened'[p][Len(taken[p]) + 1] = plain[Other(p)][i] <=> method = "table"
<1>. PICK q \in Proc : q = Other(p)
  BY DEF Other, Proc
<1>. PICK n \in Nat : n = Len(taken[p])
  BY DEF PlaceInv, Inv, Types
<1>. PICK buf : buf = sent[q][i]
  OBVIOUS
<1>. PICK text : text = plain[q][i]
  OBVIOUS
<1>1. /\ Inv /\ PlacesGrow /\ method \in Method /\ Len(sent[q]) = Len(plain[q])
      /\ i \in 1 .. Len(plain[q]) /\ n <= Len(plain[q]) /\ decPos[p] = End(q, n)
      /\ decIv[p] = IF taken[p] = <<>> THEN "none" ELSE OwnIv(q)
      /\ Len(opened[p]) = n /\ i # n + 1 /\ taken[p] \in Seq(Nat)
  BY DEF PlaceInv, Inv, Types, SentAtPosition, OpenedInStep
<1>2. /\ text \in Seq(PlainUnit) /\ text \in Seq(Unit) /\ Len(text) \in Nat /\ Len(text) > 0
      /\ Start(q, i) \in Nat
  BY <1>1, PlaceNat, PlainIsUnit
<1>3. /\ IvLen[method] \in Nat /\ Iv(q) \in Seq(Unit) /\ Len(Iv(q)) = IvLen[method]
      /\ OwnIv(q) \in Proc \cup {"empty", "wrong"}
  BY <1>1, IvType
<1>. PICK len \in Nat : len = IvLen[method]
  BY <1>3
<1>. PICK body : body = Out(OwnIv(q), Start(q, i), text)
  OBVIOUS
<1>4. /\ body \in Seq(Unit) /\ Len(body) = Len(text)
      /\ \A t \in 1 .. Len(text) :
            body[t] = Xor(Key(OwnIv(q)), At(Start(q, i) + t - 1), text[t])
  BY <1>2, <1>3, OutType DEF Owner
<1>5. buf = Prefix(q, i) \o body
  BY <1>1 DEF Inv, SentAtPosition
<1>6. PICK iv \in Proc \cup {"none", "empty", "wrong"}, data \in Seq(Unit) :
         LET short == IF len < Len(buf) THEN len ELSE Len(buf) IN
         /\ opened' = [opened EXCEPT ![p] = Append(@, Out(iv, decPos[p], data))]
         /\ decIv[p] # "none" => iv = decIv[p] /\ data = buf
         /\ decIv[p] = "none" => data = SubSeq(buf, short + 1, Len(buf))
  <2>1. sent[Other(p)][i] = buf /\ IvLen[method] = len
    OBVIOUS
  <2>2. \E iv \in Proc \cup {"none", "empty", "wrong"}, data \in Seq(Unit) :
             LET b == sent[Other(p)][i]
                 short == IF IvLen[method] < Len(b) THEN IvLen[method] ELSE Len(b) IN
             /\ opened' = [opened EXCEPT ![p] = Append(@, Out(iv, decPos[p], data))]
             /\ decIv[p] # "none" => iv = decIv[p] /\ data = b
             /\ decIv[p] = "none" => data = SubSeq(b, short + 1, Len(b))
    BY <1>1, DecryptMakes
  <2>. QED BY <2>1, <2>2, Zenon
<1>. PICK out : out = Out(iv, decPos[p], data)
  OBVIOUS
<1>7. opened'[p][n + 1] = out
  <2>1. opened \in [Proc -> Seq(Seq(Unit))]
    BY <1>1 DEF Inv, Types
  <2>2. opened'[p] = Append(opened[p], out) /\ opened[p] \in Seq(Seq(Unit))
    BY <1>6, <2>1
  <2>. QED BY <1>1, <2>2
<1>8. /\ decPos[p] \in Nat /\ out \in Seq(Unit) /\ Len(out) = Len(data) /\ Len(data) \in Nat
      /\ \A t \in 1 .. Len(data) : out[t] = Xor(Key(iv), At(decPos[p] + t - 1), data[t])
  <2>1. decPos[p] \in Nat /\ iv \in Owner
    BY <1>1 DEF Inv, Types, Owner
  <2>2. /\ Out(iv, decPos[p], data) \in Seq(Unit)
        /\ Len(Out(iv, decPos[p], data)) = Len(data)
        /\ \A t \in 1 .. Len(data) :
              Out(iv, decPos[p], data)[t] = Xor(Key(iv), At(decPos[p] + t - 1), data[t])
    BY <2>1, OutType
  <2>3. Len(data) \in Nat
    OBVIOUS
  <2>. QED BY <2>1, <2>2, <2>3, Zenon
<1>11. decIv[p] = "none" /\ buf = body /\ len = 0 => data = body
  <2> SUFFICES ASSUME decIv[p] = "none", buf = body, len = 0 PROVE data = body
    OBVIOUS
  <2>1. (IF len < Len(buf) THEN len ELSE Len(buf)) = 0
    BY <1>2, <1>4
  <2>2. data = SubSeq(body, 0 + 1, Len(body))
    BY <1>6, <2>1
  <2>. QED BY <1>4, <2>2, Lengths
<1>9. CASE method = "table"
  <2>1. len = 0 /\ Iv(q) = <<>>
    BY <1>9, CiphersAssumption, <1>3, EmptySeq DEF CiphersAssumption
  <2>2. buf = body
    BY <1>4, <1>5, <2>1 DEF Prefix
  <2>3. data = body
    <3>1. CASE decIv[p] # "none"
      BY <1>6, <2>2, <3>1
    <3>2. CASE decIv[p] = "none"
      BY <1>11, <2>1, <2>2, <3>2
    <3>. QED BY <3>1, <3>2
  <2>4. out = Out(OwnIv(q), Start(q, i), body)
    BY <1>9, <2>3 DEF Out, OutOf, KeyOf, AtOf
  <2>5. out = text
    <3>1. OwnIv(q) \in Owner
      BY <1>3 DEF Owner
    <3>2. Out(OwnIv(q), Start(q, i), Out(OwnIv(q), Start(q, i), text)) = text
      BY <1>2, <3>1, OutOfOut
    <3>. QED BY <2>4, <3>2, Zenon
  <2>. QED BY <1>7, <1>9, <2>5
<1>10. CASE method # "table"
  <2>1. CASE data = body
    <3>1. Start(q, i) # decPos[p]
      BY <1>1, PlaceDiffers
    <3>2. out[1] = Xor(iv, decPos[p], body[1])
      <4>1. out[1] = Xor(Key(iv), At(decPos[p] + 1 - 1), body[1])
        BY <1>2, <1>4, <1>8, <2>1
      <4>2. decPos[p] + 1 - 1 = decPos[p]
        BY <1>8
      <4>. QED BY <1>10, <4>1, <4>2 DEF Key, KeyOf, At, AtOf
    <3>3. body[1] = Xor(OwnIv(q), Start(q, i), text[1])
      <4>1. body[1] = Xor(Key(OwnIv(q)), At(Start(q, i) + 1 - 1), text[1])
        BY <1>2, <1>4
      <4>2. Start(q, i) + 1 - 1 = Start(q, i)
        BY <1>2
      <4>. QED BY <1>10, <4>1, <4>2 DEF Key, KeyOf, At, AtOf
    <3>4. PICK m \in Nat : text[1] = Plain(m)
      <4>1. text[1] \in PlainUnit
        BY <1>2
      <4>. QED BY <4>1 DEF PlainUnit
    <3>5. out[1] = Garbage
      BY <3>1, <3>2, <3>3, <3>4 DEF Xor, Plain
    <3>6. m - 1 \in Nat
      BY <1>2, <3>4 DEF Start, Plain
    <3>7. out # text
      BY <3>4, <3>5, <3>6 DEF Garbage, Plain
    <3>. QED BY <1>7, <1>10, <3>7
  <2>2. CASE Len(data) # Len(text)
    <3>1. out # text
      BY <1>8, <2>2
    <3>. QED BY <1>7, <1>10, <3>1
  <2>3. data = body \/ Len(data) # Len(text)
    <3>1. CASE n = 0
      <4>1. decIv[p] = "none"
        BY <1>1, <3>1, EmptySeq
      <4>2. buf = body
        BY <1>1, <1>4, <1>5, <3>1 DEF Prefix
      <4>3. CASE len = 0
        BY <1>11, <4>1, <4>2, <4>3
      <4>4. CASE len # 0
        <5>. PICK short \in Nat : short = IF len < Len(buf) THEN len ELSE Len(buf)
          BY <1>2, <1>4, <4>2
        <5>1. short > 0 /\ short <= Len(body)
          BY <1>2, <1>4, <4>2, <4>4
        <5>2. data = SubSeq(body, short + 1, Len(body))
          BY <1>6, <4>1, <4>2
        <5>3. Len(data) = Len(body) - short
          <6>1. \A k \in Nat : k <= Len(body) => Len(SubSeq(body, k + 1, Len(body))) = Len(body) - k
            BY <1>4, Lengths
          <6>2. Len(SubSeq(body, short + 1, Len(body))) = Len(body) - short
            BY <5>1, <6>1
          <6>. QED BY <5>2, <6>2, Zenon
        <5>. QED BY <1>2, <1>4, <5>1, <5>3
      <4>. QED BY <4>3, <4>4
    <3>2. CASE n # 0
      <4>1. data = buf
        <5>1. taken[p] # <<>>
          BY <3>2
        <5>2. decIv[p] # "none"
          BY <1>1, <1>3, <5>1 DEF Proc
        <5>. QED BY <1>6, <5>2
      <4>2. CASE i = 1
        <5>1. data = Iv(q) \o body
          BY <1>5, <4>1, <4>2 DEF Prefix
        <5>2. CASE len = 0
          <6>1. Iv(q) = <<>>
            BY <1>3, <5>2, EmptySeq
          <6>. QED BY <1>4, <5>1, <6>1
        <5>3. CASE len # 0
          <6>1. Len(Iv(q) \o body) = Len(Iv(q)) + Len(body)
            BY <1>3, <1>4, Lengths
          <6>2. Len(Iv(q)) = len /\ len \in Nat /\ Len(body) = Len(text) /\ Len(text) \in Nat
            BY <1>2, <1>3, <1>4
          <6>3. Len(data) = len + Len(text)
            BY <5>1, <6>1, <6>2, Zenon
          <6>. QED BY <5>3, <6>2, <6>3
        <5>. QED BY <5>2, <5>3
      <4>3. CASE i # 1
        BY <1>4, <1>5, <4>1, <4>3 DEF Prefix
      <4>. QED BY <4>2, <4>3
    <3>. QED BY <3>1, <3>2
  <2>. QED BY <2>1, <2>2, <2>3
<1>. QED BY <1>9, <1>10

LEMMA DecryptKeepsPlaces ==
    ASSUME PlaceInv, Inv', NEW p \in Proc, NEW i \in 1 .. Len(sent[Other(p)]), Decrypt(p, i)
    PROVE  PlaceInv'
<1>1. /\ Inv /\ PlacesGrow /\ TakenSent /\ OutOfPlaceGarbled
      /\ method' = method /\ plain' = plain /\ sent' = sent
      /\ taken' = [taken EXCEPT ![p] = Append(@, i)]
  BY DEF PlaceInv, Decrypt
<1>2. /\ taken \in [Proc -> Seq(Nat)] /\ opened \in [Proc -> Seq(Seq(Unit))]
      /\ \A r \in Proc : Other(r) \in Proc
      /\ \A r \in Proc : Len(sent[r]) = Len(plain[r]) /\ Len(opened[r]) = Len(taken[r])
  BY <1>1 DEF Inv, Types, SentAtPosition, OpenedInStep, Other, Proc
<1>. PICK n \in Nat : n = Len(taken[p])
  BY <1>2
<1>3. /\ taken'[p] = Append(taken[p], i) /\ taken[p] \in Seq(Nat) /\ i \in Nat
      /\ \A r \in Proc : r # p => taken'[r] = taken[r]
  BY <1>1, <1>2
<1>4. /\ Len(taken'[p]) = n + 1 /\ DOMAIN taken'[p] = 1 .. n + 1 /\ DOMAIN taken[p] = 1 .. n
      /\ taken'[p][n + 1] = i /\ \A t \in 1 .. n : taken'[p][t] = taken[p][t]
  BY <1>3
<1>5. /\ \A t \in 1 .. n : opened'[p][t] = opened[p][t]
      /\ \A r \in Proc : r # p => opened'[r] = opened[r]
  <2>1. PICK out : opened' = [opened EXCEPT ![p] = Append(@, out)]
    BY <1>1, DecryptMakes
  <2>2. /\ opened'[p] = Append(opened[p], out) /\ opened[p] \in Seq(Seq(Unit))
        /\ Len(opened[p]) = n
    BY <1>2, <2>1
  <2>. QED BY <1>2, <2>1, <2>2
<1>6. PlacesGrow'
  BY <1>1 DEF PlacesGrow, Start, End
<1>7. TakenSent'
  <2> SUFFICES ASSUME NEW r \in Proc, NEW t \in DOMAIN taken'[r]
               PROVE  taken'[r][t] \in 1 .. Len(plain[Other(r)])
    BY <1>1 DEF TakenSent
  <2>1. CASE r # p
    BY <1>1, <1>3, <2>1 DEF TakenSent
  <2>2. CASE r = p /\ t \in 1 .. n
    BY <1>1, <1>4, <2>2 DEF TakenSent
  <2>3. CASE r = p /\ t \notin 1 .. n
    <3>1. t = n + 1
      BY <1>4, <2>3
    <3>. QED BY <1>2, <1>4, <2>3, <3>1
  <2>. QED BY <2>1, <2>2, <2>3
<1>8. OutOfPlaceGarbled'
  <2> SUFFICES ASSUME NEW r \in Proc, NEW t \in DOMAIN taken'[r],
                      \A s \in 1 .. t - 1 : taken'[r][s] = s, taken'[r][t] # t
               PROVE  opened'[r][t] = plain[Other(r)][taken'[r][t]] <=> method = "table"
    BY <1>1 DEF OutOfPlaceGarbled
  <2>1. CASE r # p
    BY <1>1, <1>3, <1>5, <2>1 DEF OutOfPlaceGarbled
  <2>2. CASE r = p /\ t \in 1 .. n
    <3>1. taken[p][t] = taken'[p][t] /\ opened'[p][t] = opened[p][t] /\ t \in DOMAIN taken[p]
      BY <1>4, <1>5, <2>2
    <3>2. \A s \in 1 .. t - 1 : taken[p][s] = s
      <4>1. \A s \in 1 .. t - 1 : s \in 1 .. n
        BY <2>2
      <4>. QED BY <1>4, <2>2, <4>1
    <3>. QED BY <1>1, <2>2, <3>1, <3>2 DEF OutOfPlaceGarbled
  <2>3. CASE r = p /\ t \notin 1 .. n
    <3>1. t = n + 1 /\ t - 1 = n
      BY <1>4, <2>3
    <3>2. InOrder(p) /\ i # n + 1
      BY <1>4, <2>3, <3>1 DEF InOrder
    <3>. QED BY <1>4, <2>3, <3>1, <3>2, OutOfPlace
  <2>. QED BY <2>1, <2>2, <2>3
<1>. QED BY <1>6, <1>7, <1>8 DEF PlaceInv

LEMMA PlaceInvHolds == Spec => []PlaceInv
<1>1. Init => PlaceInv
  <2>1. Init => Inv
    BY InvInit
  <2>2. Init => \A p \in Proc : plain[p] = <<>> /\ taken[p] = <<>>
    BY DEF Init
  <2>. QED BY <2>1, <2>2 DEF PlaceInv, PlacesGrow, TakenSent, OutOfPlaceGarbled
<1>2. PlaceInv /\ Inv' /\ [Next]_vars => PlaceInv'
  <2> SUFFICES ASSUME PlaceInv, Inv', [Next]_vars PROVE PlaceInv'
    OBVIOUS
  <2>1. CASE Next
    <3>1. PICK p \in Proc : \/ \E len \in 1 .. MaxLen : Encrypt(p, len)
                            \/ \E i \in 1 .. Len(sent[Other(p)]) : Decrypt(p, i)
      BY <2>1 DEF Next
    <3>2. CASE \E len \in 1 .. MaxLen : Encrypt(p, len)
      BY <3>2, EncryptKeepsPlaces
    <3>3. CASE \E i \in 1 .. Len(sent[Other(p)]) : Decrypt(p, i)
      BY <3>3, DecryptKeepsPlaces
    <3>. QED BY <3>1, <3>2, <3>3
  <2>2. CASE UNCHANGED vars
    BY <2>2 DEF vars, PlaceInv, PlacesGrow, TakenSent, OutOfPlaceGarbled, Start, End
  <2>. QED BY <2>1, <2>2
<1>. QED BY <1>1, <1>2, InvHolds, PTL DEF Spec

(* The first message that is deciphered out of order, or a second time,     *)
(* gives anything but its text, except with table: each message has a place *)
(* of its own in the key stream of its sender, the decipher object is at    *)
(* the place of the one that should come, and where an IV is cut off or     *)
(* left in front not even the length is right (crypto.py, decrypt).         *)
THEOREM OutOfPlaceIsGarbled == Spec => []OutOfPlaceGarbled
<1>1. PlaceInv => OutOfPlaceGarbled
  BY DEF PlaceInv
<1>. QED BY <1>1, PlaceInvHolds, PTL

-----------------------------------------------------------------------------
(* The units of a message are consecutive places.                           *)
Consecutive ==
    \A p \in Proc : \A i \in 1 .. Len(plain[p]) : \A k \in 1 .. Len(plain[p][i]) :
        plain[p][i][k] = Plain(Start(p, i) + k)

LEMMA EncryptKeepsConsecutive ==
    ASSUME Inv, Consecutive, NEW p \in Proc, NEW len \in 1 .. MaxLen, Encrypt(p, len)
    PROVE  Consecutive'
<1>. PICK place \in Nat : place = encPos[p]
  BY DEF Inv, Types
<1>. PICK data : data = [i \in 1 .. len |-> Plain(place + i)]
  OBVIOUS
<1>1. plain' = [plain EXCEPT ![p] = Append(@, data)] /\ plain \in [Proc -> Seq(Seq(PlainUnit))]
  BY DEF Encrypt, Inv, Types
<1>2. data[1].plain - 1 = place /\ Len(data) = len /\ \A k \in 1 .. len : data[k] = Plain(place + k)
  <2>1. len \in Nat /\ 1 \in 1 .. len
    BY CiphersAssumption DEF CiphersAssumption
  <2>2. data[1] = Plain(place + 1)
    BY <2>1
  <2>3. data[1].plain = place + 1
    BY <2>2 DEF Plain
  <2>. QED BY <2>1, <2>3
<1> SUFFICES ASSUME NEW q \in Proc, NEW i \in 1 .. Len(plain'[q]), NEW k \in 1 .. Len(plain'[q][i])
             PROVE  plain'[q][i][k] = Plain((plain'[q][i][1].plain - 1) + k)
  BY DEF Consecutive, Start
<1>3. CASE q = p
  <2>1. plain'[p] = Append(plain[p], data) /\ plain[p] \in Seq(Seq(PlainUnit))
    BY <1>1
  <2>. PICK n \in Nat : n = Len(plain[p])
    BY <2>1
  <2>2. Len(plain'[p]) = n + 1 /\ plain'[p][n + 1] = data /\ \A j \in 1 .. n : plain'[p][j] = plain[p][j]
    BY <2>1
  <2>3. CASE i = n + 1
    BY <1>2, <1>3, <2>2, <2>3
  <2>4. CASE i \in 1 .. n
    <3>1. plain'[q][i] = plain[q][i]
      BY <1>3, <2>2, <2>4
    <3>2. i \in 1 .. Len(plain[q]) /\ k \in 1 .. Len(plain[q][i])
      BY <1>3, <2>4, <3>1
    <3>3. plain[q][i][k] = Plain((plain[q][i][1].plain - 1) + k)
      BY <3>2 DEF Consecutive, Start
    <3>. QED BY <3>1, <3>3, Zenon
  <2>. QED BY <1>3, <2>2, <2>3, <2>4
<1>4. CASE q # p
  BY <1>1, <1>4 DEF Consecutive, Start
<1>. QED BY <1>3, <1>4

(* The position of the sender is behind all that it has sent.               *)
LEMMA EndsBefore ==
    ASSUME Inv, PlacesGrow, NEW q \in Proc, NEW i \in 1 .. Len(plain[q])
    PROVE  End(q, i) <= encPos[q]
<1>1. Len(plain[q]) \in Nat /\ Len(plain[q]) \in 1 .. Len(plain[q]) /\ i <= Len(plain[q])
  BY PlaceNat
<1>. PICK n \in 1 .. Len(plain[q]) : n = Len(plain[q])
  BY <1>1
<1>2. encPos[q] = End(q, n)
  BY DEF Inv, SentAtPosition
<1>3. /\ Start(q, n) \in Nat /\ End(q, n) = Start(q, n) + Len(plain[q][n])
      /\ Len(plain[q][n]) \in Nat /\ End(q, i) \in Nat
  BY PlaceNat
<1>4. CASE i = n
  BY <1>2, <1>3, <1>4
<1>5. CASE i < n
  <2>1. End(q, i) <= Start(q, n)
    BY <1>5 DEF PlacesGrow
  <2>. QED BY <1>2, <1>3, <2>1
<1>. QED BY <1>1, <1>4, <1>5

(* The units of t behind s, up to e.                                        *)
CutAt(t, s, e) ==
    /\ SubSeq(t, s + 1, e) \in Seq(Unit) /\ Len(SubSeq(t, s + 1, e)) = e - s
    /\ \A k \in 1 .. e - s : SubSeq(t, s + 1, e)[k] = t[s + k]

LEMMA PartOf ==
    ASSUME NEW t \in Seq(Unit), NEW s \in Nat, NEW e \in Nat, s <= e, e <= Len(t)
    PROVE  CutAt(t, s, e)
<1>1. /\ s + 1 \in Nat /\ e - (s + 1) + 1 = e - s /\ Len(t) \in Nat
      /\ \A k \in 1 .. e - s : (s + 1) + k - 1 = s + k
  OBVIOUS
<1>2. \A i \in s + 1 .. e : t[i] \in Unit
  BY <1>1
<1>3. Len(SubSeq(t, s + 1, e)) = e - s /\ SubSeq(t, s + 1, e) \in Seq(Unit)
  BY <1>1, <1>2
<1>4. \A k \in 1 .. e - s : SubSeq(t, s + 1, e)[k] = t[(s + 1) + k - 1]
  BY <1>1
<1>. QED BY <1>1, <1>3, <1>4 DEF CutAt

(* Behind a front part, and from the beginning of it on.                    *)
CutBehind(iv, t, s, e) ==
    /\ SubSeq(iv \o t, Len(iv) + s + 1, Len(iv) + e) = SubSeq(t, s + 1, e)
    /\ SubSeq(iv \o t, 1, Len(iv) + e) = iv \o SubSeq(t, 0 + 1, e)

LEMMA PartBehind ==
    ASSUME NEW iv \in Seq(Unit), NEW t \in Seq(Unit), NEW s \in Nat, NEW e \in Nat,
           s <= e, e <= Len(t)
    PROVE  CutBehind(iv, t, s, e)
<1>. PICK l \in Nat : l = Len(iv)
  OBVIOUS
<1>. PICK b : b = iv \o t
  OBVIOUS
<1>1. /\ b \in Seq(Unit) /\ Len(b) = l + Len(t)
      /\ \A k \in 1 .. l : b[k] = iv[k] /\ \A j \in 1 .. Len(t) : b[l + j] = t[j]
  OBVIOUS
<1>2. /\ SubSeq(t, s + 1, e) \in Seq(Unit) /\ Len(SubSeq(t, s + 1, e)) = e - s
      /\ \A k \in 1 .. e - s : SubSeq(t, s + 1, e)[k] = t[s + k]
  <2>1. CutAt(t, s, e)
    BY PartOf
  <2>. QED BY <2>1, Zenon DEF CutAt
<1>3. /\ SubSeq(t, 0 + 1, e) \in Seq(Unit) /\ Len(SubSeq(t, 0 + 1, e)) = e
      /\ \A k \in 1 .. e : SubSeq(t, 0 + 1, e)[k] = t[k]
  <2>1. 0 \in Nat /\ 0 <= e /\ e - 0 = e /\ \A k \in 1 .. e : 0 + k = k
    OBVIOUS
  <2>2. CutAt(t, 0, e)
    BY <2>1, PartOf
  <2>. QED BY <2>1, <2>2 DEF CutAt
<1>4. /\ SubSeq(b, (l + s) + 1, l + e) \in Seq(Unit) /\ Len(SubSeq(b, (l + s) + 1, l + e)) = e - s
      /\ \A k \in 1 .. e - s : SubSeq(b, (l + s) + 1, l + e)[k] = b[(l + s) + k]
  <2>1. l + s \in Nat /\ l + e \in Nat /\ l + s <= l + e /\ l + e <= Len(b) /\ (l + e) - (l + s) = e - s
    BY <1>1
  <2>2. CutAt(b, l + s, l + e)
    BY <1>1, <2>1, PartOf
  <2>. QED BY <2>1, <2>2, Zenon DEF CutAt
<1>5. /\ SubSeq(b, 0 + 1, l + e) \in Seq(Unit) /\ Len(SubSeq(b, 0 + 1, l + e)) = l + e
      /\ \A k \in 1 .. l + e : SubSeq(b, 0 + 1, l + e)[k] = b[k]
  <2>1. 0 \in Nat /\ l + e \in Nat /\ 0 <= l + e /\ l + e <= Len(b) /\ (l + e) - 0 = l + e
        /\ \A k \in 1 .. l + e : 0 + k = k
    BY <1>1
  <2>2. CutAt(b, 0, l + e)
    BY <1>1, <2>1, PartOf
  <2>. QED BY <2>1, <2>2 DEF CutAt
<1>6. SubSeq(b, (l + s) + 1, l + e) = SubSeq(t, s + 1, e)
  <2>1. \A k \in 1 .. e - s : s + k \in 1 .. Len(t) /\ (l + s) + k = l + (s + k)
    OBVIOUS
  <2>2. \A k \in 1 .. e - s : b[(l + s) + k] = t[s + k]
    BY <1>1, <2>1
  <2>. QED BY <1>2, <1>4, <2>2, SeqEqual
<1>7. SubSeq(b, 0 + 1, l + e) = iv \o SubSeq(t, 0 + 1, e)
  <2>. PICK u \in Seq(Unit) : u = SubSeq(t, 0 + 1, e)
    BY <1>3
  <2>1. Len(u) = e /\ \A k \in 1 .. e : u[k] = t[k]
    BY <1>3
  <2>2. /\ iv \o u \in Seq(Unit) /\ Len(iv \o u) = l + e
        /\ \A k \in 1 .. l : (iv \o u)[k] = iv[k] /\ \A j \in 1 .. e : (iv \o u)[l + j] = u[j]
    BY <2>1
  <2>3. ASSUME NEW k \in 1 .. l + e PROVE SubSeq(b, 0 + 1, l + e)[k] = (iv \o u)[k]
    <3>1. CASE k \in 1 .. l
      BY <1>1, <1>5, <2>2, <3>1
    <3>2. CASE k \notin 1 .. l
      <4>1. PICK j \in 1 .. e : k = l + j /\ j \in 1 .. Len(t)
        <5>1. k - l \in 1 .. e /\ k = l + (k - l) /\ k - l \in 1 .. Len(t)
          BY <3>2
        <5>. QED BY <5>1
      <4>. QED BY <1>1, <1>5, <2>1, <2>2, <4>1
    <3>. QED BY <3>1, <3>2
  <2>. QED BY <1>5, <2>2, <2>3, SeqEqual
<1>8. (l + s) + 1 = l + s + 1 /\ 0 + 1 = 1
  OBVIOUS
<1>. QED BY <1>6, <1>7, <1>8 DEF CutBehind

(* What a stream makes of a part is the part of what it makes of the whole. *)
CutOut(iv, text, s, e, part) ==
    /\ part = SubSeq(text, s + 1, e)
    /\ Out(iv, s, part) = SubSeq(Out(iv, 0, text), s + 1, e)

LEMMA OutOfPart ==
    ASSUME NEW iv \in Owner, NEW text \in Seq(Unit), NEW s \in Nat, NEW e \in Nat,
           s <= e, e <= Len(text), NEW part \in Seq(Unit), Len(part) = e - s,
           \A k \in 1 .. e - s : part[k] = text[s + k]
    PROVE  CutOut(iv, text, s, e, part)
<1>. PICK all : all = Out(iv, 0, text)
  OBVIOUS
<1>. PICK one : one = Out(iv, s, part)
  OBVIOUS
<1>1. /\ all \in Seq(Unit) /\ Len(all) = Len(text)
      /\ \A i \in 1 .. Len(text) : all[i] = Xor(Key(iv), At(0 + i - 1), text[i])
  <2>1. /\ Out(iv, 0, text) \in Seq(Unit) /\ Len(Out(iv, 0, text)) = Len(text)
        /\ \A i \in 1 .. Len(text) : Out(iv, 0, text)[i] = Xor(Key(iv), At(0 + i - 1), text[i])
    BY OutType
  <2>. QED BY <2>1, Zenon
<1>2. /\ one \in Seq(Unit) /\ Len(one) = Len(part)
      /\ \A i \in 1 .. Len(part) : one[i] = Xor(Key(iv), At(s + i - 1), part[i])
  <2>1. /\ Out(iv, s, part) \in Seq(Unit) /\ Len(Out(iv, s, part)) = Len(part)
        /\ \A i \in 1 .. Len(part) : Out(iv, s, part)[i] = Xor(Key(iv), At(s + i - 1), part[i])
    BY OutType
  <2>. QED BY <2>1, Zenon
<1>3. /\ SubSeq(text, s + 1, e) \in Seq(Unit) /\ Len(SubSeq(text, s + 1, e)) = e - s
      /\ \A k \in 1 .. e - s : SubSeq(text, s + 1, e)[k] = text[s + k]
  <2>1. CutAt(text, s, e)
    BY PartOf
  <2>. QED BY <2>1, Zenon DEF CutAt
<1>4. /\ SubSeq(all, s + 1, e) \in Seq(Unit) /\ Len(SubSeq(all, s + 1, e)) = e - s
      /\ \A k \in 1 .. e - s : SubSeq(all, s + 1, e)[k] = all[s + k]
  <2>1. CutAt(all, s, e)
    BY <1>1, PartOf
  <2>. QED BY <2>1, Zenon DEF CutAt
<1>5. \A k \in 1 .. e - s : one[k] = all[s + k]
  <2> SUFFICES ASSUME NEW k \in 1 .. e - s PROVE one[k] = all[s + k]
    OBVIOUS
  <2>1. s + k \in 1 .. Len(text) /\ 0 + (s + k) - 1 = s + k - 1
    OBVIOUS
  <2>2. one[k] = Xor(Key(iv), At(s + k - 1), part[k])
    BY <1>2
  <2>3. all[s + k] = Xor(Key(iv), At(0 + (s + k) - 1), text[s + k])
    BY <1>1, <2>1
  <2>4. part[k] = text[s + k]
    OBVIOUS
  <2>. QED BY <2>1, <2>2, <2>3, <2>4, Zenon
<1>6. part = SubSeq(text, s + 1, e)
  BY <1>3, SeqEqual
<1>7. one = SubSeq(all, s + 1, e)
  BY <1>2, <1>4, <1>5, SeqEqual
<1>. QED BY <1>6, <1>7 DEF CutOut

LEMMA ChunksOfWhole ==
    ASSUME Inv, PlacesGrow, Consecutive PROVE ChunkingInvisible
<1> SUFFICES ASSUME NEW p \in Proc
             PROVE  /\ Len(sent[p]) = Len(plain[p]) /\ Upto(p, Len(plain[p])) = Len(Text(p))
                    /\ \A i \in 1 .. Len(plain[p]) :
                        /\ plain[p][i] = SubSeq(Text(p), Upto(p, i - 1) + 1, Upto(p, i))
                        /\ sent[p][i] = SubSeq(EncryptAll(p, Text(p)),
                                               IF i = 1 THEN 1 ELSE Len(Iv(p)) + Upto(p, i - 1) + 1,
                                               Len(Iv(p)) + Upto(p, i))
  BY DEF ChunkingInvisible
<1>. PICK text : text = Text(p)
  OBVIOUS
<1>. PICK n \in Nat : n = Len(plain[p])
  BY PlaceNat
<1>1. /\ encPos[p] \in Nat /\ encPos[p] = End(p, n) /\ Len(sent[p]) = n /\ method \in Method
      /\ FirstBuf \in Nat
  BY CiphersAssumption DEF CiphersAssumption, Inv, Types, SentAtPosition
<1>2. text \in Seq(Unit) /\ Len(text) = encPos[p] /\ \A k \in 1 .. encPos[p] : text[k] = Plain(k)
  <2>1. \A k \in 1 .. encPos[p] : Plain(k) \in Unit
    BY <1>1 DEF Plain, Unit
  <2>2. text \in [1 .. encPos[p] -> Unit]
    BY <2>1 DEF Text
  <2>. QED BY <1>1, <2>2 DEF Text
<1>3. ASSUME NEW i \in 1 .. n PROVE Upto(p, i) = End(p, i)
  <2>1. /\ Len(plain[p][i]) \in Nat /\ Len(plain[p][i]) > 0 /\ Start(p, i) \in Nat
        /\ End(p, i) = Start(p, i) + Len(plain[p][i])
    BY PlaceNat
  <2>2. plain[p][i][Len(plain[p][i])] = Plain(Start(p, i) + Len(plain[p][i]))
    BY <2>1 DEF Consecutive
  <2>. QED BY <2>1, <2>2 DEF Upto, Plain
<1>4. ASSUME NEW i \in 0 .. n PROVE Upto(p, i) = End(p, i)
  <2>1. CASE i = 0
    BY <2>1 DEF Upto, End
  <2>2. CASE i \in 1 .. n
    BY <1>3, <2>2
  <2>. QED BY <2>1, <2>2
<1>5. /\ OwnIv(p) \in Owner /\ Iv(p) \in Seq(Unit)
  BY <1>1, IvType DEF Owner
<1>. PICK whole : whole = Out(OwnIv(p), 0, text)
  OBVIOUS
<1>6. EncryptAll(p, text) = Iv(p) \o whole
  BY <1>1, <1>2, <1>5, UpdateIsOut DEF EncryptAll
<1>7. whole \in Seq(Unit) /\ Len(whole) = Len(text)
  BY <1>2, <1>5, OutType
<1>8. ASSUME NEW i \in 1 .. n
      PROVE  /\ plain[p][i] = SubSeq(text, Upto(p, i - 1) + 1, Upto(p, i))
             /\ sent[p][i] = SubSeq(Iv(p) \o whole,
                                    IF i = 1 THEN 1 ELSE Len(Iv(p)) + Upto(p, i - 1) + 1,
                                    Len(Iv(p)) + Upto(p, i))
  <2>. PICK part : part = plain[p][i]
    OBVIOUS
  <2>. PICK s \in Nat : s = Start(p, i)
    BY PlaceNat
  <2>. PICK e \in Nat : e = End(p, i)
    BY PlaceNat
  <2>1. /\ part \in Seq(Unit) /\ Len(part) \in Nat /\ e = s + Len(part)
    BY PlaceNat, PlainIsUnit
  <2>2. /\ Upto(p, i - 1) = s /\ Upto(p, i) = e /\ (i = 1 => s = 0)
        /\ sent[p][i] = Prefix(p, i) \o Out(OwnIv(p), s, part)
    <3>1. i - 1 \in 0 .. n /\ i \in 0 .. n /\ (i = 1 => i - 1 = 0)
      OBVIOUS
    <3>2. s = End(p, i - 1) /\ sent[p][i] = Prefix(p, i) \o Out(OwnIv(p), s, part)
      BY DEF Inv, SentAtPosition
    <3>3. i - 1 = 0 => End(p, i - 1) = 0
      BY DEF End
    <3>. QED BY <1>4, <3>1, <3>2, <3>3
  <2>3. s <= e /\ e <= Len(text) /\ Len(part) = e - s
    <3>1. s <= e /\ Len(part) = e - s
      BY <2>1
    <3>2. End(p, i) <= encPos[p]
      BY EndsBefore
    <3>. QED BY <1>2, <3>1, <3>2, Zenon
  <2>4. \A k \in 1 .. e - s : part[k] = text[s + k]
    <3> SUFFICES ASSUME NEW k \in 1 .. e - s PROVE part[k] = text[s + k]
      OBVIOUS
    <3>1. s + k \in 1 .. encPos[p] /\ k \in 1 .. Len(part)
      BY <1>1, <1>2, <2>1, <2>3
    <3>2. part[k] = Plain(s + k)
      BY <3>1 DEF Consecutive
    <3>. QED BY <1>2, <3>1, <3>2
  <2>5. part = SubSeq(text, s + 1, e) /\ Out(OwnIv(p), s, part) = SubSeq(whole, s + 1, e)
    <3>1. CutOut(OwnIv(p), text, s, e, part)
      BY <1>2, <1>5, <2>1, <2>3, <2>4, OutOfPart
    <3>. QED BY <3>1, Zenon DEF CutOut
  <2>6. /\ SubSeq(Iv(p) \o whole, Len(Iv(p)) + s + 1, Len(Iv(p)) + e) = SubSeq(whole, s + 1, e)
        /\ SubSeq(Iv(p) \o whole, 1, Len(Iv(p)) + e) = Iv(p) \o SubSeq(whole, 0 + 1, e)
    <3>1. e <= Len(whole)
      BY <1>7, <2>3
    <3>2. CutBehind(Iv(p), whole, s, e)
      BY <1>5, <1>7, <2>3, <3>1, PartBehind
    <3>. QED BY <3>2, Zenon DEF CutBehind
  <2>7. CASE i = 1
    <3>1. sent[p][i] = Iv(p) \o SubSeq(whole, 0 + 1, e)
      BY <2>2, <2>5, <2>7 DEF Prefix
    <3>. QED BY <2>2, <2>5, <2>6, <2>7, <3>1
  <2>8. CASE i # 1
    <3>1. SubSeq(whole, s + 1, e) \in Seq(Unit)
      <4>1. CutAt(whole, s, e)
        BY <1>7, <2>3, PartOf
      <4>. QED BY <4>1, Zenon DEF CutAt
    <3>2. sent[p][i] = SubSeq(whole, s + 1, e)
      BY <2>2, <2>5, <2>8, <3>1 DEF Prefix
    <3>. QED BY <2>2, <2>5, <2>6, <2>8, <3>2
  <2>. QED BY <2>7, <2>8
<1>9. Upto(p, n) = Len(text)
  BY <1>1, <1>2, <1>4
<1>. QED BY <1>1, <1>6, <1>8, <1>9

(* Whatever the sizes of the messages, however they lie across the blocks   *)
(* of the cipher and the ends of the buffer: what is sent for the messages  *)
(* is, cut at their ends, what encrypt_all makes of the whole text          *)
(* (crypto.py, encrypt and encrypt_all; sodium.py, update).                 *)
THEOREM ChunkingIsInvisible == Spec => []ChunkingInvisible
<1>1. Init => Consecutive
  <2>1. Init => \A p \in Proc : plain[p] = <<>>
    BY DEF Init
  <2>. QED BY <2>1 DEF Consecutive
<1>2. Inv /\ Consecutive /\ [Next]_vars => Consecutive'
  <2> SUFFICES ASSUME Inv, Consecutive, [Next]_vars PROVE Consecutive'
    OBVIOUS
  <2>1. ASSUME NEW p \in Proc, NEW len \in 1 .. MaxLen, Encrypt(p, len) PROVE Consecutive'
    BY <2>1, EncryptKeepsConsecutive
  <2>2. ASSUME NEW p \in Proc, NEW i, Decrypt(p, i) PROVE Consecutive'
    BY <2>2 DEF Decrypt, Consecutive, Start
  <2>3. CASE UNCHANGED vars
    BY <2>3 DEF vars, Consecutive, Start
  <2>. QED BY <2>1, <2>2, <2>3 DEF Next
<1>3. Inv /\ PlaceInv /\ Consecutive => ChunkingInvisible
  BY ChunksOfWhole DEF PlaceInv
<1>. QED BY <1>1, <1>2, <1>3, InvHolds, PlaceInvHolds, PTL DEF Spec
=============================================================================

------------------------------ MODULE Ciphers ------------------------------
(* ptshadowsocks/crypto.py and cryptolib: the Encryptor that all handlers   *)
(* of a process share.  Both relays build on what is checked here: a frame  *)
(* is deciphered at its place in the sender's stream and nowhere else.      *)
(*                                                                         *)
(* Each process has one Encryptor with a cipher and a decipher object and   *)
(* one output buffer for both.  It ciphers messages (the contents of        *)
(* frames) of any size; they reach the other process whole, and in any      *)
(* order and number, as frames of several connections do.                   *)
(*                                                                         *)
(* A unit of text is a record: a plain unit is the place it has in what its *)
(* sender ciphers, a cipher unit also says with which unit of which key     *)
(* stream it was xor-ed.                                                    *)
EXTENDS Integers, Sequences

CONSTANTS Block,        \* BLOCK_SIZE
          FirstBuf,     \* buf_size before the first update
          IvLen,        \* units of the IV, by method
          MaxLen,       \* bound: units in a message
          MaxMessages,  \* bound: messages of both processes
          MaxTaken      \* bound: messages deciphered by a process

Proc == {"client", "server"}
Other(p) == IF p = "client" THEN "server" ELSE "client"
Method == DOMAIN IvLen

ASSUME CiphersAssumption ==
    /\ Block \in Nat \ {0} /\ FirstBuf \in Nat
    /\ IvLen \in [{"salsa20", "aes-256-cfb", "rc4", "table"} -> Nat]
    /\ IvLen["rc4"] = 0 /\ IvLen["table"] = 0
    /\ MaxLen \in Nat /\ MaxMessages \in Nat /\ MaxTaken \in Nat

VARIABLES
    method,   \* self.method, the same on both sides
    ivSent,   \* self.iv_sent
    encPos,   \* units the cipher object has processed (SodiumCrypto.counter)
    decIv,    \* whose IV the decipher object was made with; "none": not made
    decPos,   \* units the decipher object has processed
    bufSize,  \* buf_size of the process
    sent,     \* messages each process has ciphered
    plain,    \* ... and their plain text
    taken,    \* which messages of the other one each process has deciphered
    opened    \* ... and what that gave

vars == <<method, ivSent, encPos, decIv, decPos, bufSize, sent, plain, taken, opened>>

Unit == [part : {"iv", "text", "plain"}, of : Proc \cup {"none", "empty", "wrong", "table"},
         k : Nat, plain : Nat]

Plain(n) == [part |-> "plain", of |-> "none", k |-> 0, plain |-> n]
Garbage == Plain(0)
Iv(p) == [i \in 1 .. IvLen[method] |-> [part |-> "iv", of |-> p, k |-> i, plain |-> 0]]

(* What an object is made with by get_cipher when it is given these units.  *)
IvOwner(units) ==
    IF units = <<>> THEN "empty"
    ELSE IF \E p \in Proc : units = Iv(p) THEN CHOOSE p \in Proc : units = Iv(p)
    ELSE "wrong"

TypeOK ==
    /\ method \in Method
    /\ ivSent \in [Proc -> BOOLEAN]
    /\ encPos \in [Proc -> 0 .. MaxLen * MaxMessages]
    /\ decIv \in [Proc -> Proc \cup {"none", "empty", "wrong"}]
    /\ decPos \in [Proc -> 0 .. (MaxLen + IvLen[method]) * MaxTaken]
    /\ bufSize \in [Proc -> Nat]
    /\ sent \in [Proc -> Seq(Seq(Unit))] /\ plain \in [Proc -> Seq(Seq(Unit))]
    /\ taken \in [Proc -> Seq(1 .. MaxMessages)]
    /\ opened \in [Proc -> Seq(Seq(Unit))]

Init ==
    /\ method \in Method
    /\ ivSent = [p \in Proc |-> FALSE]
    /\ encPos = [p \in Proc |-> 0]
    /\ decIv = [p \in Proc |-> "none"]
    /\ decPos = [p \in Proc |-> 0]
    /\ bufSize = [p \in Proc |-> FirstBuf]
    /\ sent = [p \in Proc |-> <<>>]
    /\ plain = [p \in Proc |-> <<>>]
    /\ taken = [p \in Proc |-> <<>>]
    /\ opened = [p \in Proc |-> <<>>]

-----------------------------------------------------------------------------
(* The cipher objects.                                                      *)

(* Unit u against unit k of the key stream of an IV.  Enciphering and       *)
(* deciphering are one operation; what comes out is plain text only where   *)
(* the same unit of the key stream has been applied before.                 *)
Xor(iv, k, u) ==
    IF u.part = "plain" THEN [part |-> "text", of |-> iv, k |-> k, plain |-> u.plain]
    ELSE IF u.part = "text" /\ u.of = iv /\ u.k = k THEN Plain(u.plain)
    ELSE Garbage

(* libsodium: crypto_stream_*_xor_ic, from block ic of the key stream.      *)
XorIc(iv, data, ic) == [i \in 1 .. Len(data) |-> Xor(iv, ic * Block + i - 1, data[i])]

(* The buffer that update() has for what it is about to write.              *)
Grown(size, needed) == IF size < needed THEN needed * 2 ELSE size

(* Mutants of SodiumCrypto.update: no padding; a buffer without room for it.*)
SodiumUnpadded(iv, data, counter, size) == XorIc(iv, data, counter \div Block)
SodiumShortBuffer(iv, data, counter, size) ==
    LET padding == counter % Block
        padded == [i \in 1 .. padding |-> Plain(0)] \o data
        buf == Grown(size, Len(data))
        out == XorIc(iv, padded, counter \div Block)
    IN  SubSeq(out, padding + 1, IF buf < Len(out) THEN buf ELSE Len(out))

(* SodiumCrypto.update: the data behind as much padding as the last block   *)
(* was filled, from that block on; the padding is cut off again.            *)
SodiumUpdate(iv, data, counter, size) ==
    LET padding == counter % Block
        padded == [i \in 1 .. padding |-> Plain(0)] \o data
        buf == Grown(size, padding + Len(data))
        out == XorIc(iv, padded, counter \div Block)
    IN  SubSeq(out, padding + 1, IF buf < Len(out) THEN buf ELSE Len(out))

(* OpenSSLCrypto.update: the context in libcrypto keeps the position.  (In  *)
(* cfb mode its register also recovers some units after a wrong place;      *)
(* nothing below depends on what follows the first wrong unit.)             *)
OpenSSLUpdate(iv, data, position, size) ==
    LET buf == Grown(size, Len(data))
        out == [i \in 1 .. Len(data) |-> Xor(iv, position + i - 1, data[i])]
    IN  SubSeq(out, 1, IF buf < Len(out) THEN buf ELSE Len(out))

(* TableCipher.update: a permutation of the bytes, and back by its inverse. *)
TableUpdate(data) == [i \in 1 .. Len(data) |-> Xor("table", 0, data[i])]

Update(iv, data, pos, size) ==
    CASE method = "salsa20" -> SodiumUpdate(iv, data, pos, size)
      [] method = "table"   -> TableUpdate(data)
      [] OTHER              -> OpenSSLUpdate(iv, data, pos, size)

(* The buffer of the process afterwards, for salsa20 with the padding.      *)
BufAfter(pos, len, size) ==
    CASE method = "salsa20" -> Grown(size, (pos % Block) + len)
      [] method = "table"   -> size
      [] OTHER              -> Grown(size, len)

-----------------------------------------------------------------------------
(* Encryptor.                                                               *)

OwnIv(p) == IvOwner(Iv(p))

(* encrypt(): the first message is preceded by the IV.                      *)
EncryptData(p, data) ==
    /\ sent' = [sent EXCEPT ![p] = Append(@,
           (IF ivSent[p] THEN <<>> ELSE Iv(p)) \o Update(OwnIv(p), data, encPos[p], bufSize[p]))]
    /\ ivSent' = [ivSent EXCEPT ![p] = TRUE]
    /\ encPos' = [encPos EXCEPT ![p] = @ + Len(data)]

(* Messages are never empty: they begin with the metadata.                  *)
Encrypt(p, len) ==
    LET data == [i \in 1 .. len |-> Plain(encPos[p] + i)] IN
    /\ Len(sent["client"]) + Len(sent["server"]) < MaxMessages
    /\ len \in 1 .. MaxLen
    /\ EncryptData(p, data)
    /\ plain' = [plain EXCEPT ![p] = Append(@, data)]
    /\ bufSize' = [bufSize EXCEPT ![p] = BufAfter(encPos[p], len, @)]
    /\ UNCHANGED <<method, decIv, decPos, taken, opened>>

(* Mutant: an object without a position.                                    *)
DecryptStays(p, iv, data) ==
    /\ decIv' = [decIv EXCEPT ![p] = iv]
    /\ opened' = [opened EXCEPT ![p] = Append(@, Update(iv, data, decPos[p], bufSize[p]))]
    /\ bufSize' = [bufSize EXCEPT ![p] = BufAfter(decPos[p], Len(data), @)]
    /\ UNCHANGED decPos

DecryptData(p, iv, data) ==
    /\ decIv' = [decIv EXCEPT ![p] = iv]
    /\ opened' = [opened EXCEPT ![p] = Append(@, Update(iv, data, decPos[p], bufSize[p]))]
    /\ bufSize' = [bufSize EXCEPT ![p] = BufAfter(decPos[p], Len(data), @)]
    /\ decPos' = [decPos EXCEPT ![p] = @ + Len(data)]

(* decrypt() of message i of the other process.  The first that comes is    *)
(* taken to begin with the IV; if nothing follows, nothing is deciphered.   *)
Decrypt(p, i) ==
    LET buf == sent[Other(p)][i]
        len == IvLen[method]
        short == IF len < Len(buf) THEN len ELSE Len(buf)
    IN
    /\ Len(taken[p]) < MaxTaken
    /\ i \in DOMAIN sent[Other(p)]
    /\ IF decIv[p] # "none"
       THEN DecryptData(p, decIv[p], buf)
       ELSE DecryptData(p, IvOwner(SubSeq(buf, 1, short)), SubSeq(buf, short + 1, Len(buf)))
    /\ taken' = [taken EXCEPT ![p] = Append(@, i)]
    /\ UNCHANGED <<method, ivSent, encPos, sent, plain>>

Next ==
    \E p \in Proc :
        \/ \E len \in 1 .. MaxLen : Encrypt(p, len)
        \/ \E i \in 1 .. Len(sent[Other(p)]) : Decrypt(p, i)

Spec == Init /\ [][Next]_vars

-----------------------------------------------------------------------------
(* encrypt_all: a fresh object in one call.                                 *)
EncryptAll(p, text) == Iv(p) \o Update(OwnIv(p), text, 0, FirstBuf)

(* Everything p has ciphered, and where message i ends in it.               *)
Text(p) == [k \in 1 .. encPos[p] |-> Plain(k)]
Upto(p, i) == IF i = 0 THEN 0 ELSE plain[p][i][Len(plain[p][i])].plain

(* Whatever the sizes of the messages, however they lie across the blocks   *)
(* of the cipher and the ends of the buffer: the messages cut the text, and *)
(* what is sent for each is cut at the same places out of what encrypt_all  *)
(* makes of the whole, the first with the IV in front.                      *)
ChunkingInvisible ==
    \A p \in Proc :
        /\ Len(sent[p]) = Len(plain[p]) /\ Upto(p, Len(plain[p])) = Len(Text(p))
        /\ \A i \in 1 .. Len(plain[p]) :
            /\ plain[p][i] = SubSeq(Text(p), Upto(p, i - 1) + 1, Upto(p, i))
            /\ sent[p][i] = SubSeq(EncryptAll(p, Text(p)),
                                   IF i = 1 THEN 1 ELSE Len(Iv(p)) + Upto(p, i - 1) + 1,
                                   Len(Iv(p)) + Upto(p, i))

InOrder(p) == \A t \in DOMAIN taken[p] : taken[p][t] = t

(* Messages taken in the order they were ciphered give their plain text,    *)
(* also while the same process ciphers with the same buffer.                *)
RoundTrip ==
    \A p \in Proc : InOrder(p) =>
        opened[p] = SubSeq(plain[Other(p)], 1, Len(taken[p]))

(* The first message taken out of order, or taken again, gives anything but *)
(* its plain text, except with table, where the place does not matter.      *)
OutOfPlaceGarbled ==
    \A p \in Proc : \A t \in DOMAIN taken[p] :
        ((\A s \in 1 .. t - 1 : taken[p][s] = s) /\ taken[p][t] # t)
            => (opened[p][t] = plain[Other(p)][taken[p][t]] <=>
                   method = "table")
=============================================================================

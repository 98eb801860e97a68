----------------------------- MODULE MCCiphers -----------------------------
(* An instance of Ciphers for TLC.                                         *)
EXTENDS Ciphers

IvLenSmall ==
    [m \in {"salsa20", "aes-256-cfb", "rc4", "table"} |->
        CASE m = "salsa20" -> 1 [] m = "aes-256-cfb" -> 2 [] OTHER -> 0]
=============================================================================

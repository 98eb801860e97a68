--------------------------- MODULE MCDNSResolver ---------------------------
(* An instance of DNSResolver for TLC.                                     *)
EXTENDS DNSResolver, TLC

CallbackSymmetry == Permutations(Callback)
=============================================================================

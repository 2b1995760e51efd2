----------------------------- MODULE MCDNSProxy -----------------------------
(* Small instances of DNSProxy: two ids in place of 2^16, a timeout of one  *)
(* tick, and a d_xor that swaps the two ids.                               *)
EXTENDS DNSProxy

MCMask == [i \in Ids |-> N - 1 - i]
=============================================================================

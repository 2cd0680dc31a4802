-------------------------- MODULE MCCommandPipeline --------------------------
(* CommandPipeline on small instances.  Credentials, messages and nonces   *)
(* are interchangeable names, so they are symmetric where no liveness is   *)
(* checked.                                                                *)
EXTENDS CommandPipeline, TLC

CONSTANTS c1, c2, m1, m2, n1, n2

MCSymmetry == Permutations(Message) \cup Permutations(Nonce)
=============================================================================

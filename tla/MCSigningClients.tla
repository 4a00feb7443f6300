-------------------------- MODULE MCSigningClients --------------------------
(***************************************************************************)
(* Instances of SigningClients for TLC.                                    *)
(***************************************************************************)
EXTENDS SigningClients, TLC

ClientRequests ==
    {[op |-> "computePubkey", len |-> <<32, 0, 0>>],
     [op |-> "signRecoverable", len |-> <<32, 32, 0>>],
     [op |-> "contextCleanup", len |-> <<0, 0, 0>>]}

Symmetry == Permutations(Threads) \cup Permutations(Ctxs)
=============================================================================

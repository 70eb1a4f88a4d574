---------------------------- MODULE MCHubThreads ----------------------------
(* Small instances of HubThreads.                                          *)
EXTENDS HubThreads, TLC

CONSTANTS h1, h2

SomeCaptured == <<2, 3, 5>>

HandlerSymmetry == Permutations({h1, h2})

=============================================================================

------------------------------ MODULE MCBridge -------------------------------
(* Small instances of Bridge.                                              *)
EXTENDS Bridge

SomeCaptured == <<2, 3>>

=============================================================================

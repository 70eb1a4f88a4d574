---------------------------- MODULE MCHubServer -----------------------------
(* Small instances of HubServer.                                           *)
EXTENDS HubDelivers, TLC

CONSTANTS h1, h2

Morning == {0}
Both == {0, 1}

(* Captured generations are not consecutive, as in checksums.py.           *)
SomeCaptured == <<2, 3, 5, 7, 8>>

OneSchedule == [n \in Names |-> Morning]

(* The schedule that is not active at first is the longer one.             *)
TwoSchedules == [n \in Names |-> IF n = ActiveName THEN Morning ELSE Both]

ThreadSymmetry == Permutations({h1, h2})

=============================================================================

----------------------------- MODULE HubDelivers -----------------------------
(***************************************************************************)
(* The exchange of HubServer.tla implements Delivery.tla.                  *)
(***************************************************************************)
EXTENDS HubServer

order ==
  IF pending = NoCommand THEN "none" ELSE IF runs > 0 THEN "done" ELSE "waiting"

D == INSTANCE Delivery WITH
  trusted <- ~ reused,
  synced  <- held = generation,
  current <- Current(programme),
  given   <- issue

(* Every step of server, hub and controller, in any order and with any     *)
(* losses, is a step Delivery allows: the hub is outdated by every change, *)
(* brought up to date by programmes only, and loses a command unexecuted   *)
(* to another one or a restart at most.                                    *)
Delivers == D!Spec

=============================================================================

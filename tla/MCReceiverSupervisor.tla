------------------------ MODULE MCReceiverSupervisor ------------------------
(* The instances of ReceiverSupervisor that TLC explores are in the .cfg   *)
(* files; all constants are numbers.                                       *)
EXTENDS ReceiverSupervisor
==============================================================================

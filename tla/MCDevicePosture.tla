-------------------------- MODULE MCDevicePosture --------------------------
(* TLC instances of DevicePosture. *)
EXTENDS DevicePosture, TLC

=============================================================================

------------------------- MODULE MCDeviceEnrolment -------------------------
(* TLC instances of DeviceEnrolment. *)
EXTENDS DeviceEnrolment, TLC

Ids == Permutations(Devices) \union Permutations(Requests)

=============================================================================

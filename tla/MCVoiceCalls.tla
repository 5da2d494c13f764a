---------------------------- MODULE MCVoiceCalls ----------------------------
(* VoiceCalls for model checking: the accounts of the devices. *)
EXTENDS VoiceCalls, TLC

CONSTANTS a1, b1, A, B

OneDeviceEach == (a1 :> A) @@ (b1 :> B)
=============================================================================

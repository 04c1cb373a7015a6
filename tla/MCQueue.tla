------------------------------- MODULE MCQueue -------------------------------
(***************************************************************************)
(* Instances of CaptureQueue.                                              *)
(***************************************************************************)
EXTENDS CaptureQueue

CONSTANTS bundle, envelope, here, there

HomeHere == [e \in Entry |-> IF e = envelope THEN there ELSE here]
==============================================================================

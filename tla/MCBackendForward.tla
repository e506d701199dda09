-------------------------- MODULE MCBackendForward --------------------------
(* Small instances of BackendForward. *)
EXTENDS BackendForward, TLC

CONSTANTS b1, b2

TwoTargets == b1 :> "debug_getRawReceipts" @@ b2 :> "alchemy_getTransactionReceipts"
=============================================================================

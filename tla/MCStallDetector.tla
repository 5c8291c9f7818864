-------------------------- MODULE MCStallDetector --------------------------
(***************************************************************************)
(* An instance of the stall detector: a height rpc that fails returns -1.  *)
(***************************************************************************)
EXTENDS StallDetector

RpcError == {-1}
=============================================================================

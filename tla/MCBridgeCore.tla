---------------------------- MODULE MCBridgeCore ----------------------------
(* One approval of one session, no phone attached. *)
EXTENDS BridgeCore
CONSTANTS a1, s1
MCSessionOf == a1 :> s1
MCDeviceOf == <<>>
MCWeight(f) == 1
=============================================================================

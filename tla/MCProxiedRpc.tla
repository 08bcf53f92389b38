----------------------------- MODULE MCProxiedRpc -----------------------------
(***************************************************************************)
(* ProxiedRpc on small instances.                                          *)
(***************************************************************************)
EXTENDS ProxiedRpcProps, TLC
=============================================================================

------------------------------ MODULE MCConnPool ------------------------------
(***************************************************************************)
(* ConnPool on small instances: a destination with TLS, one that hangs and *)
(* one that takes both protocols on its port, as grpc-proxy itself does.   *)
(***************************************************************************)
EXTENDS ConnPool, TLC

CONSTANTS c1, c2, c3, secure, hanging, both

MCSpeaks == (secure :> {TRUE}) @@ (hanging :> {}) @@ (both :> BOOLEAN)
=============================================================================

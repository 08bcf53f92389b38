------------------------------ MODULE RpcMessages ------------------------------
(***************************************************************************)
(* The messages and the statuses of one gRPC call, shared by the abstract  *)
(* call (DirectRpc) and the proxied one (ProxiedRpc).                      *)
(*                                                                         *)
(* A payload is opaque to the proxy (internal/codec/codec.go passes bytes  *)
(* through), so a message is abstracted to what the properties tell apart: *)
(* who sent it, its rank among the messages of its sender, how many        *)
(* messages of the other side its sender had received when it sent it (the *)
(* causal past a replay of the dump has to respect) and its size in MiB.   *)
(***************************************************************************)
EXTENDS Integers, Sequences

CONSTANTS
    RequestSizes,   \* the sizes a client gives its messages, in MiB
    ResponseSizes   \* the sizes a server gives its messages, in MiB

ASSUME SizesAssumption ==
    /\ RequestSizes \subseteq Nat
    /\ ResponseSizes \subseteq Nat

Origins == {"client", "server"}

Message == [from : Origins, n : Nat, seen : Nat, size : Nat]

\* The next message of a client that sent `sent` and received `got`.
Request(sent, got, sz) ==
    [from |-> "client", n |-> Len(sent) + 1, seen |-> Len(got), size |-> sz]

\* The next message of a server that sent `sent` and received `got`.
Response(sent, got, sz) ==
    [from |-> "server", n |-> Len(sent) + 1, seen |-> Len(got), size |-> sz]

\* The statuses a server chooses for its call: success, or an error of its own.
AppStatuses == {"OK", "ServerError"}

\* The statuses a client sees when something between it and the server failed.
Failures == {"SetupError", "Unavailable", "ResourceExhausted"}

\* Not an outcome: the call has no status yet.
NoStatus == "none"

=============================================================================

------------------------------- MODULE DirectRpc -------------------------------
(***************************************************************************)
(* What gRPC promises to a client and a server that talk to each other     *)
(* directly, for one bidirectional streaming call: messages arrive in the  *)
(* order they were sent, none invented, repeated or skipped; the server    *)
(* sees the end of the requests only after the last of them; the client    *)
(* sees the status the server chose, and only after the last response. The *)
(* connection may fail at any moment, with an error status at the client   *)
(* and a reset stream at the server, and the client may cancel.            *)
(*                                                                         *)
(* grpc-proxy claims to be transparent: ProxiedRpc implements this         *)
(* specification, with the same variables.                                 *)
(***************************************************************************)
EXTENDS RpcMessages

VARIABLES
    clientSent,     \* what the client sent, in order
    clientClosed,   \* the client has called CloseSend
    clientGot,      \* what the client received, in order
    clientStatus,   \* the outcome at the client, NoStatus while it runs
    serverGot,      \* what the server received, in order
    sawHalfClose,   \* the server has read the end of the requests
    serverSent,     \* what the server sent, in order
    server          \* "absent", "serving", "reset", or the status it chose

clientVars == <<clientSent, clientClosed, clientGot, clientStatus>>
serverVars == <<serverGot, sawHalfClose, serverSent, server>>
vars == <<clientVars, serverVars>>

ClientStates == AppStatuses \cup Failures \cup {"Canceled", NoStatus}
ServerStates == AppStatuses \cup {"absent", "serving", "reset"}

Init ==
    /\ clientSent = <<>>
    /\ clientClosed = FALSE
    /\ clientGot = <<>>
    /\ clientStatus = NoStatus
    /\ serverGot = <<>>
    /\ sawHalfClose = FALSE
    /\ serverSent = <<>>
    /\ server = "absent"

-----------------------------------------------------------------------------

ClientSend(sz) ==
    /\ clientStatus = NoStatus
    /\ ~clientClosed
    /\ clientSent' = Append(clientSent, Request(clientSent, clientGot, sz))
    /\ UNCHANGED <<clientClosed, clientGot, clientStatus, serverVars>>

ClientCloseSend ==
    /\ clientStatus = NoStatus
    /\ ~clientClosed
    /\ clientClosed' = TRUE
    /\ UNCHANGED <<clientSent, clientGot, clientStatus, serverVars>>

ClientRecv ==
    /\ clientStatus = NoStatus
    /\ Len(clientGot) < Len(serverSent)
    /\ clientGot' = Append(clientGot, serverSent[Len(clientGot) + 1])
    /\ UNCHANGED <<clientSent, clientClosed, clientStatus, serverVars>>

\* The status of the server, once everything it sent has arrived.
ClientFinish ==
    /\ clientStatus = NoStatus
    /\ server \in AppStatuses
    /\ clientGot = serverSent
    /\ clientStatus' = server
    /\ UNCHANGED <<clientSent, clientClosed, clientGot, serverVars>>

\* The client cancels, or learns that the connection failed.
ClientAbort ==
    /\ clientStatus = NoStatus
    /\ clientStatus' \in Failures \cup {"Canceled"}
    /\ UNCHANGED <<clientSent, clientClosed, clientGot, serverVars>>

ServerStart ==
    /\ server = "absent"
    /\ server' = "serving"
    /\ UNCHANGED <<clientVars, serverGot, sawHalfClose, serverSent>>

ServerRecv ==
    /\ server = "serving"
    /\ Len(serverGot) < Len(clientSent)
    /\ serverGot' = Append(serverGot, clientSent[Len(serverGot) + 1])
    /\ UNCHANGED <<clientVars, sawHalfClose, serverSent, server>>

ServerRecvEOF ==
    /\ server = "serving"
    /\ clientClosed
    /\ serverGot = clientSent
    /\ sawHalfClose' = TRUE
    /\ UNCHANGED <<clientVars, serverGot, serverSent, server>>

ServerSend(sz) ==
    /\ server = "serving"
    /\ serverSent' = Append(serverSent, Response(serverSent, serverGot, sz))
    /\ UNCHANGED <<clientVars, serverGot, sawHalfClose, server>>

ServerFinish ==
    /\ server = "serving"
    /\ server' \in AppStatuses \cup {"reset"}
    /\ UNCHANGED <<clientVars, serverGot, sawHalfClose, serverSent>>

Next ==
    \/ \E sz \in RequestSizes : ClientSend(sz)
    \/ ClientCloseSend
    \/ ClientRecv
    \/ ClientFinish
    \/ ClientAbort
    \/ ServerStart
    \/ ServerRecv
    \/ ServerRecvEOF
    \/ \E sz \in ResponseSizes : ServerSend(sz)
    \/ ServerFinish

Spec == Init /\ [][Next]_vars

=============================================================================

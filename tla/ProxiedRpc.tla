------------------------------ MODULE ProxiedRpc ------------------------------
(***************************************************************************)
(* One call through grpc-dump: proxyHandler and its two forwarding         *)
(* goroutines (grpc-proxy/grpc_handler.go), the stream wrapper that        *)
(* records what passes (grpc-dump/dump/recorded_server_stream.go) and the  *)
(* interceptor that writes the record once the handler has returned        *)
(* (grpc-dump/dump/dump_interceptor.go).                                   *)
(*                                                                         *)
(*   client --reqIn--> s2c goroutine --reqOut--> server                    *)
(*   client <--respOut-- c2s goroutine <--respIn-- server                  *)
(*                                                                         *)
(* As in the code, s2c forwards from the proxy's server stream (the        *)
(* client's side) to its client stream (the server's side), c2s the        *)
(* opposite way. The grpc library, the client and the server are outside   *)
(* the repository: they are modelled by the contract of the calls the      *)
(* code makes (RecvMsg, SendMsg, CloseSend, contexts). Part of it is who   *)
(* writes the client's status: the library does, once the interceptor has  *)
(* returned, or at once when RecvMsg fails; the first of them counts.      *)
(***************************************************************************)
EXTENDS RpcMessages

CONSTANTS
    MaxRequests,        \* bound: messages a client sends
    MaxResponses,       \* bound: messages a server sends
    Window,             \* bound: messages in flight on a wire (flow control)
    ServerRecvLimit,    \* MaxRecvMsgSize of the proxy's grpc.Server, in MiB
    ClientRecvLimit     \* MaxCallRecvMsgSize of the upstream dial, in MiB

ASSUME BoundsAssumption ==
    /\ MaxRequests \in Nat
    /\ MaxResponses \in Nat
    /\ Window \in Nat \ {0}
    /\ ServerRecvLimit \in Nat
    /\ ClientRecvLimit \in Nat

VARIABLES
    clientSent, clientClosed, clientGot, clientStatus,  \* as in DirectRpc
    serverGot, sawHalfClose, serverSent, server,        \* as in DirectRpc
    serverHeaders,  \* the server has set header metadata
    reqIn,          \* client to proxy: requests in flight
    reqOut,         \* proxy to server: requests in flight
    respIn,         \* server to proxy: responses in flight
    respOut,        \* proxy to client: responses in flight
    ssStatus,       \* the status written behind them, NoStatus before
    upstream,       \* the proxy's stream to the server
    closeSent,      \* CloseSend has reached the server's side of upstream
    handler,        \* proxyHandler and the interceptor around it
    s2c,            \* the goroutine of forwardServerToClient and its channel
    c2s,            \* the goroutine of forwardClientToServer and its channel
    dss,            \* the recordedServerStream
    output          \* what the interceptor has written

clientVars == <<clientSent, clientClosed, clientGot, clientStatus>>
serverVars == <<serverGot, sawHalfClose, serverSent, server, serverHeaders>>
wires == <<reqIn, reqOut, respIn, respOut, ssStatus>>
upVars == <<upstream, closeSent>>
vars == <<clientVars, serverVars, wires, upVars, handler, s2c, c2s, dss, output>>

\* An error channel of capacity 1: NoErr is the empty channel.
NoErr == "none"
EOF == "EOF"

\* Those of the dump. No client should see the last three.
Statuses == AppStatuses \cup Failures
               \cup {"Canceled", "Internal", "Unknown", "Unreachable"}

Direct == INSTANCE DirectRpc

Init ==
    /\ clientSent = <<>> /\ clientClosed = FALSE
    /\ clientGot = <<>> /\ clientStatus = NoStatus
    /\ serverGot = <<>> /\ sawHalfClose = FALSE
    /\ serverSent = <<>> /\ server = "absent"
    /\ serverHeaders = FALSE
    /\ reqIn = <<>> /\ reqOut = <<>> /\ respIn = <<>> /\ respOut = <<>>
    /\ ssStatus = NoStatus
    /\ upstream = "none" /\ closeSent = FALSE
    /\ handler = [pc |-> "setup", i |-> 0, err |-> NoStatus, cancelled |-> FALSE]
    /\ s2c = [pc |-> "idle", f |-> <<>>, err |-> NoErr]
    /\ c2s = [pc |-> "idle", f |-> <<>>, err |-> NoErr, first |-> TRUE]
    /\ dss = [events |-> <<>>, headers |-> FALSE, trailers |-> FALSE]
    /\ output = <<>>

\* ss.Context() is done: the client cancelled, or its status has been written.
\* (A deadline counts from the arrival of the headers, so it has passed at the
\* client first.)
ssDone == clientStatus = "Canceled" \/ ssStatus # NoStatus

\* Mutant: clientCtx derived from the background context.
DetachedCtxDone == handler.cancelled

\* clientCtx is derived from ss.Context() and also ends with clientCancel().
clientCtxDone == ssDone \/ handler.cancelled

-----------------------------------------------------------------------------
(* The client.                                                             *)

ClientSend(sz) ==
    /\ clientStatus = NoStatus /\ ~clientClosed
    /\ Len(clientSent) < MaxRequests /\ Len(reqIn) < Window
    /\ LET m == Request(clientSent, clientGot, sz)
       IN  clientSent' = Append(clientSent, m) /\ reqIn' = Append(reqIn, m)
    /\ UNCHANGED <<clientClosed, clientGot, clientStatus, serverVars, reqOut,
                   respIn, respOut, ssStatus, upVars, handler, s2c, c2s, dss,
                   output>>

ClientCloseSend ==
    /\ clientStatus = NoStatus /\ ~clientClosed
    /\ clientClosed' = TRUE
    /\ UNCHANGED <<clientSent, clientGot, clientStatus, serverVars, wires,
                   upVars, handler, s2c, c2s, dss, output>>

ClientRecv ==
    /\ clientStatus = NoStatus /\ respOut # <<>>
    /\ clientGot' = Append(clientGot, Head(respOut))
    /\ respOut' = Tail(respOut)
    /\ UNCHANGED <<clientSent, clientClosed, clientStatus, serverVars, reqIn,
                   reqOut, respIn, ssStatus, upVars, handler, s2c, c2s, dss,
                   output>>

\* The client cancels, its deadline passes or its connection goes away.
ClientCancel ==
    /\ clientStatus = NoStatus
    /\ clientStatus' = "Canceled"
    /\ UNCHANGED <<clientSent, clientClosed, clientGot, serverVars, wires,
                   upVars, handler, s2c, c2s, dss, output>>

\* The status stands behind the last response.
ClientFinish ==
    /\ clientStatus = NoStatus /\ ssStatus # NoStatus /\ respOut = <<>>
    /\ clientStatus' = ssStatus
    /\ UNCHANGED <<clientSent, clientClosed, clientGot, serverVars, wires,
                   upVars, handler, s2c, c2s, dss, output>>

-----------------------------------------------------------------------------
(* The server.                                                             *)

ServerRecv ==
    /\ server = "serving" /\ reqOut # <<>>
    /\ serverGot' = Append(serverGot, Head(reqOut))
    /\ reqOut' = Tail(reqOut)
    /\ UNCHANGED <<clientVars, sawHalfClose, serverSent, server, serverHeaders,
                   reqIn, respIn, respOut, ssStatus, upVars, handler, s2c, c2s,
                   dss, output>>

ServerRecvEOF ==
    /\ server = "serving" /\ reqOut = <<>> /\ closeSent /\ ~sawHalfClose
    /\ sawHalfClose' = TRUE
    /\ UNCHANGED <<clientVars, serverGot, serverSent, server, serverHeaders,
                   wires, upVars, handler, s2c, c2s, dss, output>>

\* Header metadata goes out before the first response.
ServerSetHeader ==
    /\ server = "serving" /\ serverSent = <<>> /\ ~serverHeaders
    /\ serverHeaders' = TRUE
    /\ UNCHANGED <<clientVars, serverGot, sawHalfClose, serverSent, server,
                   wires, upVars, handler, s2c, c2s, dss, output>>

\* What it writes to a stream that is gone reaches nobody: not counted as sent.
ServerSend(sz) ==
    /\ server = "serving" /\ upstream = "active"
    /\ Len(serverSent) < MaxResponses /\ Len(respIn) < Window
    /\ LET m == Response(serverSent, serverGot, sz)
       IN  serverSent' = Append(serverSent, m) /\ respIn' = Append(respIn, m)
    /\ UNCHANGED <<clientVars, serverGot, sawHalfClose, server, serverHeaders,
                   reqIn, reqOut, respOut, ssStatus, upVars, handler, s2c, c2s,
                   dss, output>>

ServerFinish ==
    /\ server = "serving"
    /\ server' \in AppStatuses
    /\ UNCHANGED <<clientVars, serverGot, sawHalfClose, serverSent, serverHeaders,
                   wires, upVars, handler, s2c, c2s, dss, output>>

\* The server learns that its stream was cancelled or its connection lost.
ServerReset ==
    /\ server = "serving" /\ upstream \in {"cancelled", "broken"}
    /\ server' = "reset"
    /\ UNCHANGED <<clientVars, serverGot, sawHalfClose, serverSent, serverHeaders,
                   wires, upVars, handler, s2c, c2s, dss, output>>

-----------------------------------------------------------------------------
(* The proxy's stream to the server, as the grpc library drives it.        *)

UpstreamBecomes(from, to) ==
    /\ upstream = from
    /\ upstream' = to
    /\ UNCHANGED <<clientVars, serverVars, wires, closeSent, handler, s2c, c2s,
                   dss, output>>

\* The server's trailers arrive.
UpstreamEnd == server \in AppStatuses /\ UpstreamBecomes("active", "ended")

\* The library notices that the stream's context is done.
UpstreamCancel == clientCtxDone /\ UpstreamBecomes("active", "cancelled")

\* The connection to the server is lost.
UpstreamBreak == UpstreamBecomes("active", "broken")

-----------------------------------------------------------------------------
(* proxyHandler, and the interceptor that called it.                       *)

Return(err) == [handler EXCEPT !.pc = "returned", !.err = err]

\* The connection of the pool is up, NewStream has sent the headers (on which
\* the server's handler starts) and both forwarders run.
OpenUpstream ==
    /\ handler.pc = "setup" /\ ~ssDone
    /\ handler' = [handler EXCEPT !.pc = "select"]
    /\ upstream' = "active"
    /\ server' = "serving"
    /\ s2c' = [s2c EXCEPT !.pc = "recv", !.f = <<>>]
    /\ c2s' = [c2s EXCEPT !.pc = "recv", !.f = <<>>]
    /\ UNCHANGED <<clientVars, serverGot, sawHalfClose, serverSent,
                   serverHeaders, wires, closeSent, dss, output>>

\* One of the early returns: no metadata, no destination, a loop, no stream.
SetupRejected ==
    /\ handler.pc = "setup"
    /\ handler' = Return("SetupError")
    /\ UNCHANGED <<clientVars, serverVars, wires, upVars, s2c, c2s, dss, output>>

\* Mutant: a dial that does not know the context of the call.
SetupUninterruptible == FALSE /\ UNCHANGED vars

\* The blocking dial gives up only with the context of the call.
SetupCancelled ==
    /\ handler.pc = "setup" /\ ssDone
    /\ handler' = Return("Canceled")
    /\ UNCHANGED <<clientVars, serverVars, wires, upVars, s2c, c2s, dss, output>>

\* Mutants: what the select makes of EOF. It returns, it forgets CloseSend, the
\* loop has one turn too few.
SelectS2CEofReturns ==
    /\ handler.pc = "select" /\ s2c.err = EOF
    /\ s2c' = [s2c EXCEPT !.err = NoErr]
    /\ handler' = Return("OK")
    /\ UNCHANGED <<clientVars, serverVars, wires, upVars, c2s, dss, output>>

SelectS2CEofSilent ==
    /\ handler.pc = "select" /\ s2c.err = EOF
    /\ s2c' = [s2c EXCEPT !.err = NoErr]
    /\ handler' = IF handler.i = 0 THEN [handler EXCEPT !.i = 1]
                                   ELSE Return("Unreachable")
    /\ UNCHANGED <<clientVars, serverVars, wires, upVars, c2s, dss, output>>

SelectS2CEofOnce ==
    /\ handler.pc = "select" /\ s2c.err = EOF
    /\ s2c' = [s2c EXCEPT !.err = NoErr]
    /\ closeSent' = (closeSent \/ upstream = "active")
    /\ handler' = Return("Unreachable")
    /\ UNCHANGED <<clientVars, serverVars, wires, upstream, c2s, dss, output>>

\* s2c met the end of the requests, or a SendMsg to a stream that is over:
\* CloseSend, then wait for the other channel. The loop's second turn ends in
\* the error nobody should see.
SelectS2CEof ==
    /\ handler.pc = "select" /\ s2c.err = EOF
    /\ s2c' = [s2c EXCEPT !.err = NoErr]
    /\ closeSent' = (closeSent \/ upstream = "active")
    /\ handler' = IF handler.i = 0 THEN [handler EXCEPT !.i = 1]
                                   ELSE Return("Unreachable")
    /\ UNCHANGED <<clientVars, serverVars, wires, upstream, c2s, dss, output>>

SelectS2CErr ==
    /\ handler.pc = "select" /\ s2c.err \notin {NoErr, EOF}
    /\ s2c' = [s2c EXCEPT !.err = NoErr]
    /\ handler' = [Return("Internal") EXCEPT !.cancelled = TRUE]
    /\ UNCHANGED <<clientVars, serverVars, wires, upVars, c2s, dss, output>>

\* Mutant: an error is returned before SetTrailer.
SelectC2SErrFirst ==
    /\ handler.pc = "select" /\ c2s.err # NoErr
    /\ c2s' = [c2s EXCEPT !.err = NoErr]
    /\ dss' = [dss EXCEPT !.trailers = (c2s.err = EOF)]
    /\ handler' = Return(IF c2s.err = EOF THEN "OK" ELSE c2s.err)
    /\ UNCHANGED <<clientVars, serverVars, wires, upVars, s2c, output>>

\* Mutant: the return waits for the other goroutine.
SelectC2SJoins ==
    /\ handler.pc = "select" /\ c2s.err # NoErr /\ s2c.pc = "exited"
    /\ c2s' = [c2s EXCEPT !.err = NoErr]
    /\ dss' = [dss EXCEPT !.trailers = (upstream = "ended")]
    /\ handler' = Return(IF c2s.err = EOF THEN "OK" ELSE c2s.err)
    /\ UNCHANGED <<clientVars, serverVars, wires, upVars, s2c, output>>

\* c2s has the outcome of the call; the trailers exist if the server ended it.
SelectC2S ==
    /\ handler.pc = "select" /\ c2s.err # NoErr
    /\ c2s' = [c2s EXCEPT !.err = NoErr]
    /\ dss' = [dss EXCEPT !.trailers = (upstream = "ended")]
    /\ handler' = Return(IF c2s.err = EOF THEN "OK" ELSE c2s.err)
    /\ UNCHANGED <<clientVars, serverVars, wires, upVars, s2c, output>>

\* The interceptor writes the call, holding the recorder's lock, releases it and
\* returns the handler's error. A forwarder that waits for the lock goes on.
Dump ==
    /\ handler.pc = "returned"
    /\ handler' = [handler EXCEPT !.pc = "finished"]
    /\ output' = Append(output, [messages |-> dss.events, status |-> handler.err,
                           headers |-> dss.headers, trailers |-> dss.trailers])
    /\ UNCHANGED <<clientVars, serverVars, wires, upVars, s2c, c2s, dss>>

\* What the interceptor returned becomes the client's status, which also ends
\* ss.Context(), unless one was written before.
WriteStatus ==
    /\ handler.pc = "finished" /\ ssStatus = NoStatus
    /\ ssStatus' = handler.err
    /\ UNCHANGED <<clientVars, serverVars, reqIn, reqOut, respIn, respOut,
                   upVars, handler, s2c, c2s, dss, output>>

-----------------------------------------------------------------------------
(* The recorder: it notes a request after RecvMsg has returned it, and a   *)
(* response before SendMsg sends it.                                       *)

Record(m) == dss' = [dss EXCEPT !.events = Append(dss.events, m)]

-----------------------------------------------------------------------------
(* forwardServerToClient: requests, from reqIn to reqOut.                  *)

s2cFrame == UNCHANGED <<clientVars, serverVars, respIn, respOut, upVars,
                        handler, c2s, output>>

s2cOnly == s2cFrame /\ UNCHANGED ssStatus

\* Mutant: a channel without a buffer, on which nobody listens any more.
S2CExitUnbuffered(err) ==
    s2c' = IF handler.pc = "select" THEN [s2c EXCEPT !.pc = "exited", !.err = err]
                                    ELSE s2c

\* What it holds when it gives up is lost.
S2CExit(err) == s2c' = [s2c EXCEPT !.pc = "exited", !.err = err]

S2CRecv ==
    /\ s2c.pc = "recv" /\ reqIn # <<>>
    /\ Head(reqIn).size <= ServerRecvLimit
    /\ s2c' = [s2c EXCEPT !.pc = "record", !.f = <<Head(reqIn)>>]
    /\ reqIn' = Tail(reqIn)
    /\ s2cOnly /\ UNCHANGED <<reqOut, dss>>

S2CRecvEOF ==
    /\ s2c.pc = "recv" /\ reqIn = <<>> /\ clientClosed
    /\ S2CExit(EOF)
    /\ s2cOnly /\ UNCHANGED <<reqIn, reqOut, dss>>

\* RecvMsg writes its own error to the client, if it still can, and returns it.
S2CRecvErr ==
    /\ s2c.pc = "recv"
    /\ \/ ssDone /\ S2CExit("Canceled") /\ UNCHANGED ssStatus
       \/ /\ reqIn # <<>> /\ Head(reqIn).size > ServerRecvLimit
          /\ S2CExit("ResourceExhausted")
          /\ ssStatus' = IF ssDone THEN ssStatus ELSE "ResourceExhausted"
    /\ s2cFrame /\ UNCHANGED <<reqIn, reqOut, dss>>

S2CRecord ==
    /\ s2c.pc = "record"
    /\ Record(Head(s2c.f))
    /\ s2c' = [s2c EXCEPT !.pc = "send"]
    /\ s2cOnly /\ UNCHANGED <<reqIn, reqOut>>

S2CSend ==
    /\ s2c.pc = "send" /\ upstream = "active" /\ Len(reqOut) < Window
    /\ reqOut' = Append(reqOut, Head(s2c.f))
    /\ s2c' = [s2c EXCEPT !.pc = "recv", !.f = <<>>]
    /\ s2cOnly /\ UNCHANGED <<reqIn, dss>>

\* Mutant: SendMsg's error is dropped.
S2CSendIgnored ==
    /\ s2c.pc = "send" /\ (upstream # "active" \/ clientCtxDone)
    /\ s2c' = [s2c EXCEPT !.pc = "recv", !.f = <<>>]
    /\ s2cOnly /\ UNCHANGED <<reqIn, reqOut, dss>>

\* SendMsg answers io.EOF when the stream is over, whatever ended it, and the
\* status of the context when it was the proxy's own context.
S2CSendErr ==
    /\ s2c.pc = "send"
    /\ \/ upstream # "active" /\ S2CExit(EOF)
       \/ clientCtxDone /\ S2CExit("Canceled")
    /\ s2cOnly /\ UNCHANGED <<reqIn, reqOut, dss>>

-----------------------------------------------------------------------------
(* forwardClientToServer: responses, from respIn to respOut.               *)

c2sOnly == UNCHANGED <<clientVars, serverVars, reqIn, reqOut, ssStatus,
                       closeSent, handler, s2c, output>>

C2SExit(err) == c2s' = [c2s EXCEPT !.pc = "exited", !.err = err]

C2SRecv ==
    /\ c2s.pc = "recv" /\ respIn # <<>>
    /\ Head(respIn).size <= ClientRecvLimit
    /\ c2s' = [c2s EXCEPT !.pc = IF c2s.first THEN "header" ELSE "record",
                          !.f = <<Head(respIn)>>]
    /\ respIn' = Tail(respIn)
    /\ c2sOnly /\ UNCHANGED <<respOut, upstream, dss>>

\* The server's own outcome, behind its last response.
C2SRecvEnd ==
    /\ c2s.pc = "recv" /\ respIn = <<>> /\ upstream = "ended"
    /\ C2SExit(IF server = "OK" THEN EOF ELSE server)
    /\ c2sOnly /\ UNCHANGED <<respIn, respOut, upstream, dss>>

\* An oversized message also makes the library cancel the stream.
C2SRecvErr ==
    /\ c2s.pc = "recv"
    /\ \/ clientCtxDone /\ C2SExit("Canceled") /\ UNCHANGED upstream
       \/ upstream = "broken" /\ C2SExit("Unavailable") /\ UNCHANGED upstream
       \/ /\ respIn # <<>> /\ Head(respIn).size > ClientRecvLimit
          /\ C2SExit("ResourceExhausted")
          /\ upstream' = IF upstream = "active" THEN "cancelled" ELSE upstream
    /\ c2sOnly /\ UNCHANGED <<respIn, respOut, dss>>

\* The headers of the server, known with its first message, go out before it.
\* On a stream that is done SendHeader has an error of its own, not a status.
C2SHeader ==
    /\ c2s.pc = "header"
    /\ dss' = [dss EXCEPT !.headers = serverHeaders]
    /\ IF ssDone THEN C2SExit("Unknown")
                 ELSE c2s' = [c2s EXCEPT !.pc = "record", !.first = FALSE]
    /\ c2sOnly /\ UNCHANGED <<respIn, respOut, upstream>>

C2SRecord ==
    /\ c2s.pc = "record"
    /\ Record(Head(c2s.f))
    /\ c2s' = [c2s EXCEPT !.pc = "send"]
    /\ c2sOnly /\ UNCHANGED <<respIn, respOut, upstream>>

C2SSend ==
    /\ c2s.pc = "send" /\ ssStatus = NoStatus /\ Len(respOut) < Window
    /\ respOut' = Append(respOut, Head(c2s.f))
    /\ c2s' = [c2s EXCEPT !.pc = "recv", !.f = <<>>]
    /\ c2sOnly /\ UNCHANGED <<respIn, upstream, dss>>

C2SSendErr ==
    /\ c2s.pc = "send" /\ ssDone
    /\ C2SExit("Canceled")
    /\ c2sOnly /\ UNCHANGED <<respIn, respOut, upstream, dss>>

-----------------------------------------------------------------------------

\* Everyone has stopped: the only state the call may rest in.
Terminated ==
    /\ clientStatus # NoStatus /\ server # "serving"
    /\ handler.pc = "finished" /\ ssStatus # NoStatus
    /\ s2c.pc \in {"idle", "exited"} /\ c2s.pc \in {"idle", "exited"}
    /\ UNCHANGED vars

Client == (\E sz \in RequestSizes : ClientSend(sz)) \/ ClientCloseSend
             \/ ClientRecv \/ ClientCancel \/ ClientFinish
Server == ServerRecv \/ ServerRecvEOF \/ ServerSetHeader
             \/ (\E sz \in ResponseSizes : ServerSend(sz))
             \/ ServerFinish \/ ServerReset
Upstream == UpstreamEnd \/ UpstreamCancel \/ UpstreamBreak
Handler == OpenUpstream \/ SetupRejected \/ SetupCancelled
             \/ SelectS2CEof \/ SelectS2CErr \/ SelectC2S \/ Dump
\* Mutants: a message is recorded once it has been forwarded.
S2CRecordsLate ==
    \/ S2CRecv \/ S2CRecvEOF \/ S2CRecvErr
    \/ /\ s2c.pc = "record" /\ upstream = "active" /\ Len(reqOut) < Window
       /\ reqOut' = Append(reqOut, Head(s2c.f))
       /\ s2c' = [s2c EXCEPT !.pc = "send"]
       /\ s2cOnly /\ UNCHANGED <<reqIn, dss>>
    \/ /\ s2c.pc = "record" /\ upstream # "active" /\ S2CExit(EOF)
       /\ s2cOnly /\ UNCHANGED <<reqIn, reqOut, dss>>
    \/ /\ s2c.pc = "send" /\ Record(Head(s2c.f))
       /\ s2c' = [s2c EXCEPT !.pc = "recv", !.f = <<>>]
       /\ s2cOnly /\ UNCHANGED <<reqIn, reqOut>>

C2SRecordsLate ==
    \/ C2SRecv \/ C2SRecvEnd \/ C2SRecvErr \/ C2SHeader
    \/ /\ c2s.pc = "record" /\ ssStatus = NoStatus /\ Len(respOut) < Window
       /\ respOut' = Append(respOut, Head(c2s.f))
       /\ c2s' = [c2s EXCEPT !.pc = "send"]
       /\ c2sOnly /\ UNCHANGED <<respIn, upstream, dss>>
    \/ /\ c2s.pc = "record" /\ ssDone /\ C2SExit("Canceled")
       /\ c2sOnly /\ UNCHANGED <<respIn, respOut, upstream, dss>>
    \/ /\ c2s.pc = "send" /\ Record(Head(c2s.f))
       /\ c2s' = [c2s EXCEPT !.pc = "recv", !.f = <<>>]
       /\ c2sOnly /\ UNCHANGED <<respIn, respOut, upstream>>

S2C == S2CRecv \/ S2CRecvEOF \/ S2CRecvErr \/ S2CRecord \/ S2CSend \/ S2CSendErr
C2S == C2SRecv \/ C2SRecvEnd \/ C2SRecvErr \/ C2SHeader \/ C2SRecord \/ C2SSend
          \/ C2SSendErr

Next == Client \/ Server \/ Upstream \/ Handler \/ WriteStatus \/ S2C \/ C2S
           \/ Terminated

Spec == Init /\ [][Next]_vars

\* Goroutines run, the library delivers what it was told, and a client or a
\* server that can read does. Nothing makes the server answer, the client send
\* or cancel, or the dial succeed.
Fairness ==
    /\ WF_vars(S2C) /\ WF_vars(C2S)
    /\ WF_vars(SetupCancelled \/ SelectS2CEof \/ SelectS2CErr \/ SelectC2S \/ Dump)
    /\ WF_vars(WriteStatus)
    /\ WF_vars(UpstreamEnd) /\ WF_vars(UpstreamCancel) /\ WF_vars(ServerReset)
    /\ WF_vars(ClientRecv) /\ WF_vars(ClientFinish)
    /\ WF_vars(ServerRecv \/ ServerRecvEOF)

FairSpec == Spec /\ Fairness

=============================================================================

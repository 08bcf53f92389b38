---------------------------- MODULE ProxiedRpcProps ----------------------------
(***************************************************************************)
(* What one call through grpc-dump must satisfy.                           *)
(***************************************************************************)
EXTENDS ProxiedRpc


Dumps == [messages : Seq(Message), status : Statuses,
          headers : BOOLEAN, trailers : BOOLEAN]

\* The type of every variable, and what a forwarder holds at each point of its
\* loop.
ClientTypeOK ==
    /\ clientSent \in Seq(Message) /\ clientClosed \in BOOLEAN
    /\ clientGot \in Seq(Message) /\ clientStatus \in Statuses \cup {NoStatus}

ServerTypeOK ==
    /\ serverGot \in Seq(Message) /\ sawHalfClose \in BOOLEAN
    /\ serverSent \in Seq(Message)
    /\ server \in AppStatuses \cup {"absent", "serving", "reset"}
    /\ serverHeaders \in BOOLEAN

WireTypeOK ==
    /\ reqIn \in Seq(Message) /\ reqOut \in Seq(Message)
    /\ respIn \in Seq(Message) /\ respOut \in Seq(Message)
    /\ ssStatus \in Statuses \cup {NoStatus}
    /\ upstream \in {"none", "active", "ended", "cancelled", "broken"}
    /\ upstream = "ended" => server \in AppStatuses
    /\ closeSent \in BOOLEAN

HandlerTypeOK ==
    /\ handler \in [pc : {"setup", "select", "returned", "finished"}, i : {0, 1},
                    err : Statuses \cup {NoStatus}, cancelled : BOOLEAN]
    /\ handler.err = NoStatus <=> handler.pc \in {"setup", "select"}

S2CTypeOK ==
    /\ s2c \in [pc : {"idle", "recv", "record", "send", "exited"},
                f : Seq(Message), err : Statuses \cup {EOF, NoErr}]
    /\ s2c.pc \in {"idle", "recv"} => s2c.f = <<>>
    /\ s2c.pc \in {"record", "send"} => Len(s2c.f) = 1

C2STypeOK ==
    /\ c2s \in [pc : {"idle", "recv", "header", "record", "send", "exited"},
                f : Seq(Message), err : Statuses \cup {EOF, NoErr},
                first : BOOLEAN]
    /\ c2s.pc \in {"idle", "recv"} => c2s.f = <<>>
    /\ c2s.pc \in {"header", "record", "send"} => Len(c2s.f) = 1

DumpTypeOK ==
    /\ dss \in [events : Seq(Message), headers : BOOLEAN, trailers : BOOLEAN]
    /\ output \in Seq(Dumps)

TypeOK ==
    /\ ClientTypeOK /\ ServerTypeOK /\ WireTypeOK
    /\ HandlerTypeOK /\ S2CTypeOK /\ C2STypeOK /\ DumpTypeOK

-----------------------------------------------------------------------------
(* Forwarding.                                                             *)

\* Every request is, in order, at the server, on its way there, in the hands of
\* s2c or on its way to it: forwardServerToClient neither loses (while it
\* runs), repeats nor reorders.
RequestFifo == serverGot \o reqOut \o s2c.f \o reqIn = clientSent

\* The same for the responses and forwardClientToServer.
ResponseFifo == clientGot \o respOut \o c2s.f \o respIn = serverSent

\* Both directions, each for itself, whatever the other one does.
Fifo == RequestFifo /\ ResponseFifo

\* The end of the requests overtakes none of them: when proxyHandler's CloseSend
\* has reached the server, the client had closed its side and every request it
\* sent has been forwarded.
HalfCloseIsLast == closeSent => clientClosed /\ serverGot \o reqOut = clientSent

\* Some request is longer than the proxy's server takes.
OversizedRequest == \E k \in 1..Len(clientSent) : clientSent[k].size > ServerRecvLimit

\* Some response is longer than the proxy's client takes.
OversizedResponse == \E k \in 1..Len(serverSent) : serverSent[k].size > ClientRecvLimit

\* A client that did not cancel gets the server's own status, behind everything
\* the server sent, or an error that something explains: an oversized message,
\* a lost connection, a call that never reached a server. The statuses the proxy
\* makes up when its forwarders are cut off (Internal, and Unknown from
\* SendHeader) stay with calls whose client knows better, and the error of
\* grpc_handler.go's last line is nobody's.
StatusExplained ==
    /\ handler.err # "Unreachable"
    /\ handler.err \in {"Canceled", "Internal", "Unknown"} =>
          clientStatus = "Canceled" \/ ssStatus = "ResourceExhausted"
    /\ clientStatus \in AppStatuses => clientStatus = server /\ clientGot = serverSent
    /\ clientStatus \notin {"Internal", "Unknown"}
    /\ clientStatus = "SetupError" => server = "absent"
    /\ clientStatus = "Unavailable" => upstream = "broken"
    /\ clientStatus = "ResourceExhausted" => OversizedRequest \/ OversizedResponse

\* The proxy is transparent: a client and a server cannot tell the proxied call
\* from a direct one.
Transparent == Direct!Spec

-----------------------------------------------------------------------------
(* The dump.                                                               *)

\* `events` holds the first k messages that o sent.
Holds(events, o, k) ==
    \A n \in 1..k : \E q \in 1..Len(events) : events[q].from = o /\ events[q].n = n

\* Each message stands behind every message its sender had received before it.
Causal(events) ==
    \A p \in 1..Len(events) : \A n \in 1..events[p].seen :
       \E q \in 1..(p - 1) : events[q].from # events[p].from /\ events[q].n = n

\* A dump can be replayed and served from: no answer is written before the
\* message it answers, on either side, although two goroutines record. This is
\* why a request is recorded before it is forwarded, and a response too.
DumpCausal == \A d \in 1..Len(output) : Causal(output[d].messages)

\* A client that learns the outcome of a call finds it in the dump, which is
\* written before the status is sent: except that of an oversized request, which
\* RecvMsg reports before the handler has returned. And a client never receives a
\* response that the dump lacks, although c2s may still run, and record, when the
\* dump has been written and the status has not.
DumpCoversClient ==
    /\ clientStatus \notin {NoStatus, "Canceled"} =>
          \/ output # <<>> /\ output[1].status = clientStatus
          \/ clientStatus = "ResourceExhausted" /\ OversizedRequest
    /\ \A d \in 1..Len(output) : Holds(output[d].messages, "server", Len(clientGot))

\* Unless the client cancelled, every request the server gets is in the dump.
\* (After a cancellation s2c may still forward the request in its hands.)
DumpCoversServer ==
    clientStatus # "Canceled" =>
       \A d \in 1..Len(output) :
          Holds(output[d].messages, "client", Len(serverGot) + Len(reqOut))

\* Whichever side one asks, the dump has what it has seen.
DumpCovers == DumpCoversClient /\ DumpCoversServer

\* The dump of a call that ended with the server's own status holds everything
\* the server received and sent, the trailers and, when it sent a message, the
\* headers.
DumpComplete ==
    \A d \in 1..Len(output) : output[d].status \in AppStatuses =>
       /\ output[d].status = server
       /\ Holds(output[d].messages, "client", Len(serverGot))
       /\ Holds(output[d].messages, "server", Len(serverSent))
       /\ output[d].trailers
       /\ serverSent # <<>> => output[d].headers = serverHeaders

-----------------------------------------------------------------------------
(* Liveness, under Fairness.                                               *)

\* A server's answer reaches the client, or the client cancelled.
AnswerArrives == server \in AppStatuses ~> clientStatus # NoStatus

\* Whatever stops the call, it is dumped.
EveryCallIsDumped ==
    server \in AppStatuses \cup {"reset"} \/ clientStatus # NoStatus ~> output # <<>>

\* The goroutines of a finished call go away: nobody reads their channel any
\* more, so its buffer must take their last word.
ForwardersExit ==
    handler.pc = "finished" ~> {s2c.pc, c2s.pc} \subseteq {"idle", "exited"}

\* A server does not go on serving a client that has cancelled.
CancelReachesServer == clientStatus = "Canceled" ~> server # "serving"

\* A client that has closed its side makes the server see it, unless the call
\* ends first.
HalfCloseArrives ==
    clientClosed /\ server = "serving" ~>
       sawHalfClose \/ server # "serving" \/ clientStatus # NoStatus
          \/ upstream = "broken"

=============================================================================

----------------------------- MODULE RoutingProps -----------------------------
(***************************************************************************)
(* What the routing of a call must satisfy, whatever the configuration of  *)
(* the proxies.                                                            *)
(***************************************************************************)
EXTENDS Routing

\* The type of every variable.
TypeOK ==
    /\ destination \in [Proxies -> MaybeAddress]
    /\ httpProxy \in [Proxies -> MaybeProxy]
    /\ sent \in Calls /\ rpc \in Calls
    /\ path \in Seq(Proxies)
    /\ outcome \in {"travelling", "served", "Unimplemented", "LoopDetected",
                    "NotReached"}
    /\ dump \in Seq(Calls) /\ Len(dump) <= 1
    /\ replayed \in BOOLEAN

ViaIds(via) == [k \in 1..Len(via) |-> via[k].id]
PathIds == [k \in 1..Len(path) |-> IdOf[path[k]]]

\* However often AddLoopCheck rewrites the header, the header names every proxy
\* that has passed the call on, in order, behind what the client had written: the
\* metadata map that it changes is the one getClientCtx sends and the one the
\* dump holds.
ViaRecordsPath == ViaIds(rpc.via) = ViaIds(sent.via) \o PathIds

\* A call is rejected as a loop only by a proxy whose id has passed it on, or
\* whose id the client itself had sent.
NoFalseAlarm ==
    outcome = "LoopDetected" =>
       \/ \E k \in 1..Len(path) : IdOf[path[k]] = IdOf[rpc.at]
       \/ Looped(sent.via, IdOf[rpc.at])

\* A proxy that is its own destination, the misconfiguration CHANGELOG.md:30
\* speaks of, passes a client's call on once.
SelfLoopIsDetected == sent.via = <<>> /\ Len(path) >= 2 => path[1] # path[2]

\* The loop check, both ways.
LoopCheckIsRight == NoFalseAlarm /\ SelfLoopIsDetected

\* Somebody named a: the client, or the -destination of a proxy of the path.
Named(a) == a = sent.authority \/ \E k \in 1..Len(path) : a = destination[path[k]]

Secure == sent.tls \/ sent.forwarded

\* A served call has come to the server of an address that its client or a proxy
\* of its path names, never to the host of another or to that host's other port,
\* and over TLS if and only if the client used TLS or its metadata claimed so: the
\* marker, the rewritten authority and the port filled in on the way agree, through
\* any chain of proxies. Which of two names wins is not said: the help text of
\* -destination (grpc-proxy/config.go:92) has it yield to what the request names,
\* calculateDestination (grpc_handler.go:103) has it win.
RightServer ==
    outcome = "served" => \E a \in Addresses :
       /\ Named(a)
       /\ rpc.at = a.host
       /\ rpc.authority = WithPort(a, Secure)
       /\ rpc.tls = Secure

-----------------------------------------------------------------------------
(* The inductive invariant.                                                *)

\* Before the first proxy has passed it on, the call is what was sent; a replay
\* may have gone to its server directly.
Fresh ==
    path = <<>> =>
       /\ rpc = sent
       /\ rpc.at \in Servers =>
             /\ sent.authority \in Addresses /\ rpc.at = sent.authority.host
             /\ WithPort(sent.authority, sent.tls) = sent.authority
             /\ ~sent.forwarded

\* One part of the header can match: the one that the first proxy wrote.
FirstHop ==
    sent.via = <<>> /\ Len(path) = 1 =>
       Len(rpc.via) = 1 /\ rpc.via[1].exact /\ rpc.via[1].id = IdOf[path[1]]

\* A part that can match stands for a proxy of the path or comes from the client.
ExactExplained ==
    \A i \in 1..Len(rpc.via) : rpc.via[i].exact =>
       \/ \E k \in 1..Len(path) : IdOf[path[k]] = rpc.via[i].id
       \/ Looped(sent.via, rpc.via[i].id)

\* Between two proxies the call is marked as it was sent, for an address of a name.
OnTheWay ==
    path # <<>> =>
       /\ rpc.tls = Secure /\ rpc.forwarded = Secure
       /\ \E a \in Addresses :
             /\ Named(a)
             /\ rpc.authority = WithPort(a, Secure)
             /\ rpc.at \in Servers => rpc.at = a.host

ServedByServer == outcome = "served" => rpc.at \in Servers

IInv == /\ TypeOK /\ ViaRecordsPath /\ Fresh /\ FirstHop /\ ExactExplained
        /\ OnTheWay /\ ServedByServer /\ NoFalseAlarm /\ SelfLoopIsDetected

-----------------------------------------------------------------------------
(* What the repository says of routing, and the code does not do.          *)

\* CHANGELOG.md:30, "Added proxy loop detection so that misconfiguration [...] do
\* not cause infinite loops and connection exhaustion": no proxy passes the same
\* call on twice.
LoopsEnd == \A j, k \in 1..Len(path) : path[j] = path[k] => j = k

=============================================================================

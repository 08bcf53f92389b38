------------------------------- MODULE Routing -------------------------------
(***************************************************************************)
(* Where a call goes: calculateDestination (grpc-proxy/grpc_handler.go),   *)
(* the loop check and the TLS marker (internal/marker), the dial through   *)
(* the proxy of the environment (internal/proxydialer), from proxy to      *)
(* proxy until a server answers or a proxy gives up. A dumped call may     *)
(* then be sent again by grpc-replay (grpc-replay/replay/replay.go).       *)
(*                                                                         *)
(* A call is its metadata: `authority`, `tls` (the connection it came over *)
(* was TLS), `forwarded` (it carries the marker of a TLS call) and `via`.  *)
(* A Via header is a sequence of comma separated parts; `exact` says that  *)
(* the part is, character for character, what the proxy of that id writes  *)
(* (no blank, no bracket around it). Proxies hold certificates for every   *)
(* server: a TLS call that a proxy cannot intercept passes it unseen.      *)
(***************************************************************************)
EXTENDS Integers, Sequences

CONSTANTS
    Proxies, Servers,   \* the hosts
    Ids,                \* what proxies are called in a Via header
    IdOf,               \* the listening address of each proxy
    ClientVias,         \* the Via headers clients send on their own
    MaxHops             \* bound: proxies a call passes

None == "none"

ViaPart == [id : Ids, exact : BOOLEAN]

ASSUME RoutingAssumption ==
    /\ Proxies \cap Servers = {} /\ None \notin Proxies \cup Servers
    /\ IdOf \in [Proxies -> Ids]
    /\ ClientVias \subseteq Seq(ViaPart)
    /\ MaxHops \in Nat

NoPort == 0
HTTP == 80
HTTPS == 443
OwnPort == 1024     \* where a proxy listens, for TLS and plain text alike

\* An address as it stands in a flag or in :authority. gRPC-Web leaves out
\* the default port.
Addresses == [host : Servers, port : {NoPort, HTTP, HTTPS}]
                \cup [host : Proxies, port : {OwnPort}]
NoAddress == [host |-> None, port |-> NoPort]
MaybeAddress == Addresses \cup {NoAddress}

MaybeProxy == Proxies \cup {None}

VARIABLES
    destination,    \* the -destination of each proxy
    httpProxy,      \* the proxy in the environment of each proxy
    sent,           \* the call as its client (or grpc-replay) sent it
    rpc,            \* the call as it arrives at rpc.at
    path,           \* the proxies that have passed it on, in order
    outcome,        \* "travelling", or how it ended
    dump,           \* the metadata in the dump of the first proxy, if written
    replayed        \* this is grpc-replay's call

config == <<destination, httpProxy>>
vars == <<config, sent, rpc, path, outcome, dump, replayed>>

Calls == [at : Proxies \cup Servers, authority : MaybeAddress, tls : BOOLEAN,
          forwarded : BOOLEAN, via : Seq(ViaPart)]

NoDump == <<>>

Init ==
    /\ destination \in [Proxies -> MaybeAddress]
    /\ httpProxy \in [Proxies -> MaybeProxy]
    /\ sent \in [at : Proxies, authority : MaybeAddress, tls : BOOLEAN,
                 forwarded : BOOLEAN, via : ClientVias]
    /\ rpc = sent
    /\ path = <<>>
    /\ outcome = "travelling"
    /\ dump = NoDump
    /\ replayed = FALSE

-----------------------------------------------------------------------------

\* Mutant: the middleware sets the marker, instead of adding it.
MarkedAfresh(c) == [c EXCEPT !.forwarded = c.tls]

\* withHttpsMiddleware adds the marker to what arrives over TLS.
Marked(c) == [c EXCEPT !.forwarded = c.forwarded \/ c.tls]

\* The address that a proxy takes for the destination of c, if it finds one: its
\* flag comes first, whatever the help text of the flag says.
Target(p, c) == IF destination[p] # NoAddress THEN destination[p] ELSE c.authority

WithPort(a, tls) ==
    IF a.port # NoPort THEN a ELSE [a EXCEPT !.port = IF tls THEN HTTPS ELSE HTTP]

\* Mutant: any proxy is taken for this one.
AnyLooped(via, id) == \E k \in 1..Len(via) : via[k].exact

Looped(via, id) == \E k \in 1..Len(via) : via[k].exact /\ via[k].id = id

\* Mutant: the header holds the last proxy only.
LastVia(via, id) == <<[id |-> id, exact |-> TRUE]>>

\* The whole header goes through "%s, %s" as a list: it comes back in brackets,
\* which stick to its first and its last part, and a blank precedes the new one.
AddVia(via, id) ==
    IF via = <<>> THEN <<[id |-> id, exact |-> TRUE]>>
    ELSE Append([k \in 1..Len(via) |->
                    [via[k] EXCEPT !.exact = via[k].exact /\ k \notin {1, Len(via)}]],
                [id |-> id, exact |-> FALSE])

\* Where a connection to `a` ends, for somebody whose environment names the
\* proxy e. An address on the loopback, where proxies listen, is dialled directly.
Reached(e, a) == IF a.host \in Proxies \/ e = None THEN a.host ELSE e

\* The protocol fits the port. Otherwise the blocking dial lasts as long as its
\* context.
Answers(a, tls) == a.host \in Proxies \/ a.port = (IF tls THEN HTTPS ELSE HTTP)

\* The dump of the first proxy holds the metadata as the handler left it.
Dumped(c) == IF dump = NoDump /\ ~replayed THEN <<c>> ELSE dump

Ends(how, c) ==
    /\ outcome' = how
    /\ dump' = Dumped(c)
    /\ UNCHANGED <<config, sent, rpc, path, replayed>>

\* calculateDestination finds no destination.
NoDestination(p) ==
    LET c == Marked(rpc) IN
    /\ outcome = "travelling" /\ rpc.at = p
    /\ Target(p, c) = NoAddress
    /\ Ends("Unimplemented", c)

\* marker.AddLoopCheck finds the proxy's own id.
LoopDetected(p) ==
    LET c == Marked(rpc) IN
    /\ outcome = "travelling" /\ rpc.at = p
    /\ Target(p, c) # NoAddress
    /\ Looped(c.via, IdOf[p])
    /\ Ends("LoopDetected", c)

\* The proxy dials, with TLS if the call is marked.
Handled(p) ==
    LET c == Marked(rpc) IN
    [c EXCEPT !.via = AddVia(c.via, IdOf[p])]

NotReached(p) ==
    LET c == Marked(rpc) IN
    /\ outcome = "travelling" /\ rpc.at = p
    /\ Target(p, c) # NoAddress /\ ~Looped(c.via, IdOf[p])
    /\ ~Answers(WithPort(Target(p, c), c.forwarded), c.forwarded)
    /\ Ends("NotReached", Handled(p))

Forward(p) ==
    LET c == Marked(rpc)
        a == WithPort(Target(p, c), c.forwarded)
    IN
    /\ outcome = "travelling" /\ rpc.at = p /\ Len(path) < MaxHops
    /\ Target(p, c) # NoAddress /\ ~Looped(c.via, IdOf[p])
    /\ Answers(a, c.forwarded)
    /\ rpc' = [Handled(p) EXCEPT !.at = Reached(httpProxy[p], a),
                                 !.authority = a, !.tls = c.forwarded]
    /\ path' = Append(path, p)
    /\ dump' = Dumped(Handled(p))
    /\ UNCHANGED <<config, sent, outcome, replayed>>

\* An HTTP server takes what its port speaks.
Serve ==
    /\ outcome = "travelling" /\ rpc.at \in Servers
    /\ outcome' = "served"
    /\ UNCHANGED <<config, sent, rpc, path, dump, replayed>>

\* grpc-replay reads the dump, chooses the connection with the metadata in it or
\* with its -destination, takes the TLS marker out and sends the rest.
Replay(override, e) ==
    LET c == dump[1]
        a == IF override # NoAddress THEN override ELSE c.authority
    IN
    /\ outcome # "travelling" /\ dump # NoDump /\ ~replayed
    /\ a # NoAddress /\ Answers(a, c.forwarded)
    /\ rpc' = [c EXCEPT !.at = Reached(e, a), !.authority = a,
                        !.tls = c.forwarded, !.forwarded = FALSE]
    /\ sent' = rpc'
    /\ path' = <<>>
    /\ outcome' = "travelling"
    /\ replayed' = TRUE
    /\ UNCHANGED <<config, dump>>

\* The call is over, or has used up the hops of the model.
Over ==
    /\ outcome # "travelling" \/ Len(path) = MaxHops
    /\ UNCHANGED vars

Handle(p) == NoDestination(p) \/ LoopDetected(p) \/ NotReached(p) \/ Forward(p)

Next ==
    \/ \E p \in Proxies : Handle(p)
    \/ Serve
    \/ \E o \in MaybeAddress, e \in MaybeProxy : Replay(o, e)
    \/ Over

Spec == Init /\ [][Next]_vars

=============================================================================

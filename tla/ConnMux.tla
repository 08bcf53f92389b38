-------------------------------- MODULE ConnMux --------------------------------
(***************************************************************************)
(* How one port serves everything: the listener that merges the network    *)
(* and CONNECTed connections (grpc-proxy/listener.go), the multiplexer     *)
(* that peeks at each one and sorts it (internal/tlsmux/tls_mux.go), and   *)
(* the two servers behind it (grpc-proxy/http_handler.go, proxy.go).       *)
(*                                                                         *)
(*   network --> listener --> peek --+--> plainQ --> bouncer --> handler   *)
(*                  ^                +--> tlsQ --> handshake --> handler   *)
(*                  |                +--> dial --> tunnel        |         *)
(*                  +------------------ redirect <-- CONNECT ----+         *)
(*                                                                         *)
(* A client is the protocols it speaks on its connection, one inside the   *)
(* other: its script. A layer is known by its first bytes:                 *)
(*   http     POST or PRI, which the proxy looks for                       *)
(*   get      another HTTP request                                         *)
(*   connect  CONNECT to a destination                                     *)
(*   tls      a TLS handshake                                              *)
(*   other    another protocol, at least 8 bytes                           *)
(*   brief    another protocol, 3 to 7 bytes and then it waits             *)
(*   short    fewer than 3 bytes and then it waits                         *)
(*   silent   a client that waits for the other side to speak first        *)
(*   gone     it has closed the connection, as every script ends           *)
(***************************************************************************)
EXTENDS Integers, Sequences, FiniteSets

CONSTANTS
    Conns,          \* the connections; each one comes once
    Destinations,   \* the host:port addresses that clients CONNECT to
    Certified,      \* those that the proxy's certificate is valid for
    Scripts,        \* what clients may speak
    QueueCap,       \* capacity of plainQ and tlsQ
    ErrCap,         \* capacity of nonTLSErrs and tlsErrs
    MaxAcceptErrors \* bound: errors of the network's Accept

None == "none"
Error == "error"

Kinds == {"http", "get", "connect", "tls", "other", "brief", "short", "silent", "gone"}
Layers == [kind : Kinds, to : Destinations \cup {None}]
Gone == [kind |-> "gone", to |-> None]

ASSUME MuxAssumption ==
    /\ None \notin Conns \cup Destinations /\ Error \notin Conns
    /\ Certified \subseteq Destinations
    /\ Scripts \subseteq Seq(Layers)
    /\ \A s \in Scripts : \A k \in 1..Len(s) :
          s[k].kind = "connect" => s[k].to \in Destinations
    /\ QueueCap \in Nat \ {0} /\ ErrCap \in Nat /\ MaxAcceptErrors \in Nat

VARIABLES
    script,         \* what each client speaks
    conn,           \* where each connection is
    plainQ, tlsQ,   \* the channels nonTLSConns and tlsConns
    acceptor,       \* what the listener's goroutine holds
    mux,            \* the loop in tlsmux.New
    bouncer,        \* the connection the plain listener's Accept peeks at
    errs,           \* errors in nonTLSErrs; nothing reads them
    acceptErrors,   \* how often the network's Accept has failed
    stopped         \* Start has returned and the process ends

queues == <<plainQ, tlsQ>>
loops == <<acceptor, mux, errs, acceptErrors>>
vars == <<script, conn, queues, loops, bouncer, stopped>>

\* Places in the hands of one goroutine, and places where a connection stays.
Moving == {"backlog", "listener", "redirect", "peek", "peekError", "toPlain", "plainQ",
           "bouncer", "bounce", "toTLS", "tlsQ", "dial", "handshake", "handler"}
Final == {"served", "tunnel", "closed", "abandoned"}

\* `k` is the layer it has come to, `dest` its OriginalDestination, `tls` whether
\* the HTTPS server has it.
ConnState == [at : Moving \cup Final, k : Nat \ {0},
              dest : Destinations \cup {None}, tls : BOOLEAN]

LayerAt(s, k) == IF k <= Len(s) THEN s[k] ELSE Gone
Layer(c) == LayerAt(script[c], conn[c].k)
Kind(c) == Layer(c).kind

Init ==
    /\ script \in [Conns -> Scripts]
    /\ conn = [c \in Conns |-> [at |-> "backlog", k |-> 1, dest |-> None, tls |-> FALSE]]
    /\ plainQ = <<>> /\ tlsQ = <<>>
    /\ acceptor = None /\ mux = "accept" /\ bouncer = None
    /\ errs = 0 /\ acceptErrors = 0
    /\ stopped = FALSE

Move(c, from, to) ==
    /\ conn[c].at = from
    /\ conn' = [conn EXCEPT ![c].at = to]

-----------------------------------------------------------------------------
(* The listener: newProxyListener's goroutine and Accept.                  *)

ListenerAccept(c) ==
    /\ acceptor = None
    /\ Move(c, "backlog", "listener")
    /\ acceptor' = c
    /\ UNCHANGED <<script, queues, mux, errs, acceptErrors, bouncer, stopped>>

ListenerError ==
    /\ acceptor = None /\ acceptErrors < MaxAcceptErrors
    /\ acceptor' = Error /\ acceptErrors' = acceptErrors + 1
    /\ UNCHANGED <<script, conn, queues, mux, errs, bouncer, stopped>>

\* Both channels are unbuffered: whoever sends hands over directly to the loop,
\* the listener's goroutine or a CONNECT handler.
MuxAccept(c) ==
    /\ mux = "accept"
    /\ conn[c].at \in {"listener", "redirect"}
    /\ conn' = [conn EXCEPT ![c].at = "peek"]
    /\ acceptor' = IF acceptor = c THEN None ELSE acceptor
    /\ UNCHANGED <<script, queues, mux, errs, acceptErrors, bouncer, stopped>>

MuxAcceptError ==
    /\ mux = "accept" /\ acceptor = Error
    /\ mux' = "error" /\ acceptor' = None
    /\ UNCHANGED <<script, conn, queues, errs, acceptErrors, bouncer, stopped>>

\* The loop sends the error to nonTLSErrs and to tlsErrs, which is never the
\* fuller one, and cannot go on before both have room.
MuxError ==
    /\ mux = "error" /\ errs < ErrCap
    /\ errs' = errs + 1 /\ mux' = "accept"
    /\ UNCHANGED <<script, conn, queues, acceptor, acceptErrors, bouncer, stopped>>

-----------------------------------------------------------------------------
(* One goroutine per connection peeks at 3 bytes and sorts.                *)

sortOnly == UNCHANGED <<script, queues, loops, bouncer, stopped>>

\* handleTLSConn: a connection it must take, one it can intercept, or neither.
\* The certificate is asked for the connection's own destination.
Intercepted(c) == conn[c].dest = None \/ conn[c].dest \in Certified

PeekTLS(c) ==
    /\ Kind(c) = "tls"
    /\ Move(c, "peek", IF Intercepted(c) THEN "toTLS" ELSE "dial")
    /\ sortOnly

PeekPlain(c) ==
    /\ Kind(c) \in {"http", "get", "connect", "other", "brief"}
    /\ Move(c, "peek", "toPlain")
    /\ sortOnly

\* The read fails or is too short.
PeekFails(c) ==
    /\ Kind(c) \in {"short", "gone"}
    /\ Move(c, "peek", "peekError")
    /\ sortOnly

\* Both error channels, and then, for there is no return, on as a plain one.
PeekError(c) ==
    /\ errs < ErrCap
    /\ Move(c, "peekError", "toPlain")
    /\ errs' = errs + 1
    /\ UNCHANGED <<script, queues, acceptor, mux, acceptErrors, bouncer, stopped>>

ToPlain(c) ==
    /\ Len(plainQ) < QueueCap
    /\ Move(c, "toPlain", "plainQ")
    /\ plainQ' = Append(plainQ, c)
    /\ UNCHANGED <<script, tlsQ, loops, bouncer, stopped>>

\* Mutant: no return behind the send, so the connection is dialled too.
ToTLSAndOn(c) ==
    /\ Len(tlsQ) < QueueCap
    /\ Move(c, "toTLS", IF conn[c].dest = None THEN "tlsQ" ELSE "dial")
    /\ tlsQ' = Append(tlsQ, c)
    /\ UNCHANGED <<script, plainQ, loops, bouncer, stopped>>

ToTLS(c) ==
    /\ Len(tlsQ) < QueueCap
    /\ Move(c, "toTLS", "tlsQ")
    /\ tlsQ' = Append(tlsQ, c)
    /\ UNCHANGED <<script, plainQ, loops, bouncer, stopped>>

\* What cannot be intercepted is proxied as it is, if its destination answers.
Dial(c) ==
    /\ Move(c, "dial", "tunnel") \/ Move(c, "dial", "closed")
    /\ sortOnly

-----------------------------------------------------------------------------
(* The listeners of the two servers.                                       *)

\* nonHTTPBouncer.Accept of the plain listener takes one that came directly...
PlainAccept(c) ==
    /\ bouncer = None /\ plainQ # <<>> /\ c = Head(plainQ)
    /\ plainQ' = Tail(plainQ)
    /\ Move(c, "plainQ", IF conn[c].dest = None THEN "handler" ELSE "bouncer")
    /\ bouncer' = IF conn[c].dest = None THEN None ELSE c
    /\ UNCHANGED <<script, tlsQ, loops, stopped>>

\* ... and peeks at 8 bytes of any other, still inside Accept.
BouncerMatch(c) ==
    /\ Kind(c) \in {"http", "connect"}
    /\ Move(c, "bouncer", "handler")
    /\ bouncer' = None
    /\ UNCHANGED <<script, queues, loops, stopped>>

\* Mutant: the bouncer dials before it accepts again.
BouncerWaits(c) ==
    /\ Kind(c) \in {"get", "other", "short"}
    /\ Move(c, "bouncer", "bounce")
    /\ UNCHANGED <<script, queues, loops, bouncer, stopped>>

\* No HTTP of interest: a goroutine of its own proxies it. (A short first read
\* has left zeros in the bytes that are compared.)
BouncerBounces(c) ==
    /\ Kind(c) \in {"get", "other", "short"}
    /\ Move(c, "bouncer", "bounce")
    /\ bouncer' = None
    /\ UNCHANGED <<script, queues, loops, stopped>>

\* Fewer than 8 bytes, or none: Accept returns the error, Serve and Start with it.
\* http.Server survives an error that calls itself temporary, a reset connection.
BouncerFails(c) ==
    /\ Kind(c) \in {"brief", "short", "gone"}
    /\ Move(c, "bouncer", "abandoned")
    /\ bouncer' = None
    /\ \/ stopped' = TRUE
       \/ Kind(c) = "gone" /\ stopped' = FALSE
    /\ UNCHANGED <<script, queues, loops>>

\* When the dial fails the client's connection is forgotten, not closed.
Bounce(c) ==
    /\ Move(c, "bounce", "tunnel") \/ Move(c, "bounce", "abandoned")
    /\ sortOnly

\* A *tls.Conn has no OriginalDestination: the bouncer passes every one on.
HttpsAccept(c) ==
    /\ tlsQ # <<>> /\ c = Head(tlsQ)
    /\ tlsQ' = Tail(tlsQ)
    /\ Move(c, "tlsQ", "handshake")
    /\ UNCHANGED <<script, plainQ, loops, bouncer, stopped>>

-----------------------------------------------------------------------------
(* The handlers.                                                           *)

\* A client that does not trust the certificate goes away.
Handshake(c) ==
    /\ conn[c].at = "handshake"
    /\ conn' = [conn EXCEPT ![c].k = conn[c].k + 1, ![c].tls = TRUE,
                            ![c].at = IF conn[c].k = Len(script[c]) THEN "closed"
                                                                   ELSE "handler"]
    /\ sortOnly

Serve(c) ==
    /\ Kind(c) \in {"http", "get"}
    /\ Move(c, "handler", "served")
    /\ sortOnly

\* Bad request.
Reject(c) ==
    /\ Kind(c) \in Kinds \ {"http", "get", "connect", "silent"}
    /\ Move(c, "handler", "closed")
    /\ sortOnly

\* Mutant: a connection keeps the destination of its first CONNECT.
HandleConnectOnce(c) ==
    /\ conn[c].at = "handler" /\ Kind(c) = "connect"
    /\ conn' = [conn EXCEPT ![c].at = "redirect", ![c].k = conn[c].k + 1,
                    ![c].dest = IF conn[c].dest = None THEN Layer(c).to ELSE conn[c].dest,
                    ![c].tls = FALSE]
    /\ sortOnly

\* handleConnect answers 200 and redirects the connection to the listener...
HandleConnect(c) ==
    /\ conn[c].at = "handler" /\ Kind(c) = "connect"
    /\ conn' = [conn EXCEPT ![c].at = "redirect", ![c].k = conn[c].k + 1,
                            ![c].dest = Layer(c).to, ![c].tls = FALSE]
    /\ sortOnly

\* ... unless it cannot be hijacked (HTTP/2) or the answer cannot be written.
RefuseConnect(c) ==
    /\ Kind(c) = "connect"
    /\ Move(c, "handler", "closed")
    /\ sortOnly

-----------------------------------------------------------------------------

Listener(c) == ListenerAccept(c) \/ MuxAccept(c)
Sort(c) == PeekTLS(c) \/ PeekPlain(c) \/ PeekFails(c) \/ PeekError(c)
              \/ ToPlain(c) \/ ToTLS(c) \/ Dial(c)
Accept(c) == PlainAccept(c) \/ BouncerMatch(c) \/ BouncerBounces(c)
                \/ BouncerFails(c) \/ Bounce(c) \/ HttpsAccept(c)
Handle(c) == Handshake(c) \/ Serve(c) \/ Reject(c) \/ HandleConnect(c)
                \/ RefuseConnect(c)
Mux == MuxAcceptError \/ MuxError

\* Why a connection that is not finished may stay where it is: its client keeps it
\* waiting, another one keeps the plain listener waiting, the errors are full.
Resting(c) ==
    \/ conn[c].at \in Final
    \/ conn[c].at \in {"peek", "handler"} /\ Kind(c) = "silent"
    \/ conn[c].at = "peekError" /\ errs = ErrCap
    \/ conn[c].at \in {"backlog", "listener", "redirect"} /\ mux = "error" /\ errs = ErrCap

Rest ==
    /\ stopped \/ \A c \in Conns : Resting(c)
    /\ UNCHANGED vars

Next ==
    \/ ~stopped /\ \E c \in Conns : Listener(c) \/ Sort(c) \/ Accept(c) \/ Handle(c)
    \/ ~stopped /\ (ListenerError \/ Mux)
    \/ Rest

Spec == Init /\ [][Next]_vars

\* Goroutines run, dials come to an end. A client that waits for an answer need
\* not send the bytes that a peek or a server waits for.
Waits(c) == Kind(c) \in {"brief", "short"} /\ conn[c].at \in {"bouncer", "handler"}
Fairness ==
    /\ WF_vars(Mux)
    /\ \A c \in Conns :
          WF_vars(/\ ~stopped /\ ~Waits(c)
                  /\ Listener(c) \/ Sort(c) \/ Accept(c) \/ Handle(c))
FairSpec == Spec /\ Fairness

-----------------------------------------------------------------------------
(* Properties.                                                             *)

\* The type of every variable.
TypeOK ==
    /\ script \in [Conns -> Scripts]
    /\ conn \in [Conns -> ConnState]
    /\ \A c \in Conns : conn[c].k <= Len(script[c]) + 1
    /\ plainQ \in Seq(Conns) /\ tlsQ \in Seq(Conns)
    /\ Len(plainQ) <= QueueCap /\ Len(tlsQ) <= QueueCap
    /\ acceptor \in Conns \cup {None, Error}
    /\ mux \in {"accept", "error"}
    /\ bouncer \in Conns \cup {None}
    /\ errs \in 0..ErrCap
    /\ acceptErrors \in 0..MaxAcceptErrors
    /\ stopped \in BOOLEAN

At(place) == {c \in Conns : conn[c].at = place}

\* q lists the members of S, once each.
Lists(q, S) ==
    /\ \A i \in 1..Len(q) : q[i] \in S
    /\ \A i, j \in 1..Len(q) : q[i] = q[j] => i = j
    /\ \A c \in S : \E i \in 1..Len(q) : q[i] = c

\* A connection has one owner, through all the channels and goroutines it passes:
\* none is delivered twice, to two servers, or both served and tunnelled, and none
\* drops out of a channel.
OneOwner ==
    /\ Lists(plainQ, At("plainQ")) /\ Lists(tlsQ, At("tlsQ"))
    /\ \A c \in Conns : acceptor = c <=> conn[c].at = "listener"
    /\ \A c \in Conns : bouncer = c <=> conn[c].at = "bouncer"

\* The destination that the client asked for last, before layer k.
AskedBefore(s, k) ==
    {s[i].to : i \in {j \in 1..(k - 1) : /\ s[j].kind = "connect"
                                        /\ \A m \in (j + 1)..(k - 1) : s[m].kind # "connect"}}

\* Through redirects, nested CONNECTs and TLS inside of TLS, the connection keeps
\* the destination of its client's last CONNECT, so a tunnel ends there.
OwnDestination ==
    \A c \in Conns :
       AskedBefore(script[c], conn[c].k) = IF conn[c].dest = None THEN {} ELSE {conn[c].dest}

\* The proxy shows its certificate only to a client that came directly or asked
\* for a host that the certificate is valid for, and it tunnels only what it
\* cannot intercept: TLS for another host, or something that is not HTTP for it. The
\* HTTPS server, which marks requests as TLS, has exactly the connections whose next
\* outer layer is TLS.
PlacedRightly ==
    \A c \in Conns :
       /\ conn[c].at \in {"toTLS", "tlsQ", "handshake"} \/ conn[c].tls => Intercepted(c)
       /\ conn[c].at \in {"dial", "bounce", "tunnel"} =>
             /\ conn[c].dest # None
             /\ \/ Kind(c) = "tls" /\ ~Intercepted(c)
                \/ Kind(c) \in {"get", "other", "short"}
       /\ conn[c].at \in {"handler", "served"} =>
             (conn[c].tls <=> conn[c].k > 1 /\ script[c][conn[c].k - 1].kind = "tls")

\* Both: how a connection came to where it is.
WellPlaced == OwnDestination /\ PlacedRightly

\* What one client may do to the others. A tunnelled client that has sent less than
\* the bouncer looks at ends the listener and with it the proxy, a broken connection
\* uses up room for errors.
BrieflyTunnelled(c) ==
    conn[c].at = "abandoned" /\ conn[c].dest # None /\ Kind(c) \in {"brief", "short", "gone"}
HeldUp == (\E c \in Conns : BrieflyTunnelled(c)) \/ errs = ErrCap

\* Whatever else the other clients do, a connection that begins with TLS is dealt
\* with, for each has a goroutine of its own to peek and to dial; and so is a plain
\* one, unless a tunnelled client makes the bouncer wait.
EachIsServed ==
    \A c \in Conns :
       /\ conn[c].at = "backlog" /\ Kind(c) = "tls"
             ~> conn[c].at \in {"handler"} \cup Final \/ HeldUp
       /\ conn[c].at = "backlog" /\ Kind(c) = "http"
             ~> conn[c].at = "served" \/ HeldUp \/ (bouncer # None /\ Waits(bouncer))

-----------------------------------------------------------------------------
(* The inductive invariant: OneOwner, and for each connection by itself    *)
(* how its place, its layer and its destination belong together.           *)

\* A connection in state r of a client with script s.
Sound(s, r) ==
    LET kind == LayerAt(s, r.k).kind
        intercepted == r.dest = None \/ r.dest \in Certified
    IN
    /\ r.k <= Len(s) + 1
    /\ AskedBefore(s, r.k) = IF r.dest = None THEN {} ELSE {r.dest}
    /\ r.at \in {"toTLS", "tlsQ", "handshake", "dial"} => kind = "tls"
    /\ r.at \in {"toTLS", "tlsQ", "handshake"} \/ r.tls => intercepted
    /\ r.at \in {"bouncer", "dial", "bounce", "tunnel"} => r.dest # None
    /\ r.at \in {"dial", "bounce", "tunnel"} =>
          \/ kind = "tls" /\ ~intercepted
          \/ kind \in {"get", "other", "short"}
    /\ r.tls => r.at \in {"handler", "served", "closed"} /\ r.k > 1 /\ s[r.k - 1].kind = "tls"
    /\ ~r.tls => r.k = 1 \/ s[r.k - 1].kind = "connect"

AllSound == \A c \in Conns : Sound(script[c], conn[c])

IInv == TypeOK /\ OneOwner /\ AllSound

=============================================================================

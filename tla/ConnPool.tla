------------------------------- MODULE ConnPool -------------------------------
(***************************************************************************)
(* The pool of connections to destinations (internal/connPool.go), as the  *)
(* concurrent calls of a proxy use it (proxyHandler in                     *)
(* grpc-proxy/grpc_handler.go, and, one after the other, grpc-replay).     *)
(*                                                                         *)
(* A connection is abstracted to where it goes, whether it is TLS, and the *)
(* call that dialled it. The mutex of the pool covers the lookup and the   *)
(* store, each one step here, but not the options and the dial between.    *)
(***************************************************************************)
EXTENDS Integers

CONSTANTS
    Calls,          \* the calls; each one comes once
    Destinations,   \* host:port addresses, the keys of the pool
    Speaks,         \* what a destination accepts: TRUE for TLS, FALSE without
    Spares          \* the spare capacities that s.dialOptions may have

ASSUME PoolAssumption ==
    /\ Speaks \in [Destinations -> SUBSET BOOLEAN]
    /\ Spares \subseteq Nat

VARIABLES
    conns,      \* the pool's map
    opened,     \* every connection that was dialled, pooled or not
    spare,      \* room behind the elements of the slice s.dialOptions
    slot,       \* the element of that room that holds credentials
    call        \* the state of each call

vars == <<conns, opened, spare, slot, call>>

Conn == [to : Destinations, tls : BOOLEAN, by : Calls]
NoDestination == "none"

\* The call in its handler: `creds` are the ones it dials with, `conn` holds its
\* connection once it has one, `earlier` the calls that had theirs when it started,
\* `rivals` those that started between its own start and its dial.
CallState ==
    [pc : {"idle", "lookup", "missed", "dial", "add", "done", "failed"},
     to : Destinations \cup {NoDestination}, tls : BOOLEAN,
     creds : BOOLEAN, conn : SUBSET Conn, earlier : SUBSET Calls,
     rivals : SUBSET Calls]

Idle == [pc |-> "idle", to |-> NoDestination, tls |-> FALSE, creds |-> FALSE,
         conn |-> {}, earlier |-> {}, rivals |-> {}]

Init ==
    /\ conns = [d \in {} |-> {}]
    /\ opened = {}
    /\ spare \in Spares
    /\ slot = FALSE
    /\ call = [c \in Calls |-> Idle]

-----------------------------------------------------------------------------

\* append(s.dialOptions, ...) takes two options and then the credentials. In the
\* spare room of the slice they are in the array that all calls share.
Aliased == spare >= 3

\* Mutant: a plain call does not write over the credentials of an earlier one.
SecureStays(tls) == slot \/ tls

Appended(tls) == IF Aliased THEN tls ELSE slot

BeforeDial == {"lookup", "missed"}

\* proxyHandler chooses the credentials by the call's marker.
Start(c, d, tls) ==
    /\ call[c].pc = "idle"
    /\ call' = [e \in Calls |->
          IF e = c THEN [Idle EXCEPT !.pc = "lookup", !.to = d, !.tls = tls,
                            !.earlier = {b \in Calls : call[b].pc = "done"}]
          ELSE IF call[e].pc \in BeforeDial
               THEN [call[e] EXCEPT !.rivals = call[e].rivals \cup {c}]
               ELSE call[e]]
    /\ slot' = Appended(tls)
    /\ UNCHANGED <<conns, opened, spare>>

Found(c) ==
    /\ call[c].pc = "lookup" /\ call[c].to \in DOMAIN conns
    /\ call' = [call EXCEPT ![c].pc = "done", ![c].conn = {conns[call[c].to]}]
    /\ UNCHANGED <<conns, opened, spare, slot>>

\* Mutant: the pool's lock is held from the lookup to the store.
MissedLocked(c) ==
    /\ call[c].pc = "lookup" /\ call[c].to \notin DOMAIN conns
    /\ \A e \in Calls : call[e].pc \notin {"missed", "dial", "add"}
    /\ call' = [call EXCEPT ![c].pc = "missed"]
    /\ UNCHANGED <<conns, opened, spare, slot>>

Missed(c) ==
    /\ call[c].pc = "lookup" /\ call[c].to \notin DOMAIN conns
    /\ call' = [call EXCEPT ![c].pc = "missed"]
    /\ UNCHANGED <<conns, opened, spare, slot>>

\* DialContext applies the options as it finds them now.
Dial(c) ==
    /\ call[c].pc = "missed"
    /\ call' = [call EXCEPT ![c].pc = "dial",
                            ![c].creds = IF Aliased THEN slot ELSE call[c].tls]
    /\ UNCHANGED <<conns, opened, spare, slot>>

Dialled(c) == [to |-> call[c].to, tls |-> call[c].creds, by |-> c]

\* The blocking dial returns once the destination has answered.
Connected(c) ==
    /\ call[c].pc = "dial" /\ call[c].creds \in Speaks[call[c].to]
    /\ call' = [call EXCEPT ![c].pc = "add", ![c].conn = {Dialled(c)}]
    /\ opened' = opened \cup {Dialled(c)}
    /\ UNCHANGED <<conns, spare, slot>>

Store(k) == conns' = [d \in DOMAIN conns \cup {k.to} |-> IF d = k.to THEN k ELSE conns[d]]

\* Mutant: the error is noticed after the connection has been stored.
DialFailedLate(c) ==
    /\ call[c].pc = "dial"
    /\ call' = [call EXCEPT ![c].pc = "failed"]
    /\ Store(Dialled(c))
    /\ UNCHANGED <<opened, spare, slot>>

\* It also returns when the context of the call is over: the client cancels, or
\* grpc-replay has waited for 5 seconds.
DialFailed(c) ==
    /\ call[c].pc = "dial"
    /\ call' = [call EXCEPT ![c].pc = "failed"]
    /\ UNCHANGED <<conns, opened, spare, slot>>

\* Mutant: the connection is not stored.
Unpooled(c) ==
    /\ call[c].pc = "add"
    /\ call' = [call EXCEPT ![c].pc = "done"]
    /\ UNCHANGED <<conns, opened, spare, slot>>

\* Whoever comes last overwrites; the other connection stays open, in use.
Add(c) ==
    /\ call[c].pc = "add"
    /\ Store(Dialled(c))
    /\ call' = [call EXCEPT ![c].pc = "done"]
    /\ UNCHANGED <<opened, spare, slot>>

Over ==
    /\ \A c \in Calls : call[c].pc \in {"done", "failed"}
    /\ UNCHANGED vars

GetClientConn(c) == Found(c) \/ Missed(c) \/ Dial(c) \/ Connected(c) \/ Add(c)

Next ==
    \/ \E c \in Calls, d \in Destinations, tls \in BOOLEAN : Start(c, d, tls)
    \/ \E c \in Calls : GetClientConn(c) \/ DialFailed(c)
    \/ Over

Spec == Init /\ [][Next]_vars

\* Handlers run, and a destination that accepts the connection does so in time.
FairSpec == Spec /\ \A c \in Calls : WF_vars(GetClientConn(c))

-----------------------------------------------------------------------------
(* Properties.                                                             *)

\* The type of every variable.
TypeOK ==
    /\ DOMAIN conns \subseteq Destinations /\ conns \in [DOMAIN conns -> Conn]
    /\ opened \subseteq Conn
    /\ spare \in Nat /\ slot \in BOOLEAN
    /\ call \in [Calls -> CallState]
    /\ \A c \in Calls : call[c].pc # "idle" => call[c].to \in Destinations

\* What the pool holds for a destination, and what a handler goes on with, is a
\* connection that was made, to that destination, in a protocol it speaks. A dial
\* that failed or was given up leaves nothing behind.
PoolIsSound ==
    /\ \A d \in DOMAIN conns :
          conns[d] \in opened /\ conns[d].to = d /\ conns[d].tls \in Speaks[d]
    /\ \A c \in Calls : call[c].pc = "done" =>
          \E k \in opened : call[c].conn = {k} /\ k.to = call[c].to

\* Calls can get at each other's credentials only where the appends of proxyHandler
\* share an array, and then only when they overlap: a connection with credentials
\* that its call did not choose has those of a call that chose them after that one
\* and before it dialled. With room for less, and for calls one after the other as
\* grpc-replay makes them, every call dials with its own.
OwnCredentials ==
    \A k \in opened : k.tls # call[k.by].tls =>
       Aliased /\ \E e \in call[k.by].rivals : call[e].tls = k.tls

\* The pool is used: a second connection to a destination is made only by a call
\* that overlapped with the one that made the first, never by a call that started
\* when another already had its connection.
RedialOnlyWhenRaced ==
    \A k \in opened : \A e \in call[k.by].earlier : call[e].to # k.to

\* A destination that hangs keeps nobody from another one: the lock is not held
\* while dialling. Only another call's credentials can hold a call up.
HangsAlone ==
    \A c \in Calls :
       call[c].pc = "lookup" /\ call[c].tls \in Speaks[call[c].to]
          ~> \/ call[c].pc \in {"done", "failed"}
             \/ call[c].pc = "dial" /\ call[c].creds # call[c].tls

-----------------------------------------------------------------------------
(* The inductive invariant.                                                *)

\* A call that has its connection finds it, or a later one, in the pool.
DoneIsPooled == \A c \in Calls : call[c].pc = "done" => call[c].to \in DOMAIN conns

\* Open connections are those of the calls that came through their dial.
OpenedByCalls ==
    /\ \A k \in opened : /\ call[k.by].pc \in {"add", "done"}
                          /\ k = Dialled(k.by) /\ k.tls \in Speaks[k.to]
    /\ \A c \in Calls : call[c].pc = "add" =>
          Dialled(c) \in opened /\ call[c].conn = {Dialled(c)}

Explained(c, tls) ==
    tls # call[c].tls => Aliased /\ \E e \in call[c].rivals : call[e].tls = tls

\* What lies in the shared slot is the call's own choice, or a later one's.
SlotExplained ==
    \A c \in Calls : Aliased /\ call[c].pc \in BeforeDial => Explained(c, slot)

CredsExplained ==
    \A c \in Calls : call[c].pc \in {"dial", "add"} \/ (\E k \in opened : k.by = c) =>
       Explained(c, call[c].creds)

RivalsStarted ==
    \A c \in Calls : \A e \in call[c].rivals : call[e].pc # "idle"

\* Who dials has seen the pool without its destination, so no earlier call had it.
DialIsNew ==
    \A c \in Calls :
       /\ \A e \in call[c].earlier : call[e].pc = "done"
       /\ call[c].pc \in {"missed", "dial", "add"} \/ (\E k \in opened : k.by = c) =>
             \A e \in call[c].earlier : call[e].to # call[c].to

IInv == /\ TypeOK /\ PoolIsSound /\ DoneIsPooled /\ OpenedByCalls
        /\ SlotExplained /\ CredsExplained /\ RivalsStarted /\ DialIsNew

=============================================================================

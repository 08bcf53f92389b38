------------------------------- MODULE Recordings -------------------------------
(***************************************************************************)
(* What a server that plays recordings back promises: wherever a call is,  *)
(* it goes on like the first of the recorded calls that came there too.    *)
(*                                                                         *)
(* There are the recordings and the exchanges, and nothing to look them up *)
(* in. An exchange is what its client asks, what has been said so far, and *)
(* how many of the client's messages are among it.                         *)
(***************************************************************************)
EXTENDS Integers, Sequences

CONSTANTS
    Dumps,    \* the recordings there may be
    Calls,
    Asked     \* the methods and messages with which a client may call

VARIABLES
    dump,     \* a sequence of [method, messages]; a message is [from, body]
    rpc       \* of each call: [method, asks, seen, taken, status]

vars == <<dump, rpc>>

Init ==
    /\ dump \in Dumps
    /\ \A c \in Calls : rpc[c].status = "none"

\* The recordings that go on after the messages of x, and how.
Lines(x) ==
    {l \in 1..Len(dump) :
        /\ dump[l].method = x.method /\ Len(x.seen) < Len(dump[l].messages)
        /\ SubSeq(dump[l].messages, 1, Len(x.seen)) = x.seen}
After(l, x) == dump[l].messages[Len(x.seen) + 1]

\* All that may come next is the server's.
ServersTurn(x) == Lines(x) # {} /\ \A l \in Lines(x) : After(l, x).from = "server"

\* m has been said; where nothing goes on the call is over.
With(x, m) ==
    LET y == [x EXCEPT !.seen = Append(@, m)] IN
    [y EXCEPT !.status = IF Lines(y) = {} THEN "ok" ELSE "open"]

Becomes(c, x) == rpc' = [rpc EXCEPT ![c] = x] /\ UNCHANGED dump

Begin(c) ==
    /\ rpc[c].status = "none"
    /\ \E q \in Asked :
          Becomes(c, [method |-> q.method, asks |-> q.asks, seen |-> <<>>, taken |-> 0,
                      status |-> IF \E l \in 1..Len(dump) : dump[l].method = q.method
                                 THEN "open" ELSE "unavailable"])

\* The server says what the first of the recordings has next.
Speak(c) ==
    /\ rpc[c].status = "open" /\ ServersTurn(rpc[c])
    /\ \E l \in Lines(rpc[c]) :
          /\ \A k \in Lines(rpc[c]) : l <= k
          /\ Becomes(c, With(rpc[c], After(l, rpc[c])))

\* The client's next message is taken if a recording has it here.
Listen(c) ==
    LET x == rpc[c]
        m == x.asks[x.taken + 1]
    IN
    /\ x.status = "open" /\ ~ServersTurn(x) /\ x.taken < Len(x.asks)
    /\ \/ /\ \E l \in Lines(x) : After(l, x) = m
          /\ Becomes(c, With([x EXCEPT !.taken = @ + 1], m))
       \/ /\ \A l \in Lines(x) : After(l, x) # m
          /\ Becomes(c, [x EXCEPT !.status = "unavailable"])

\* The client has cancelled, or it has ended where it was to say more.
GoesAway(c) ==
    /\ rpc[c].status = "open"
    /\ \/ Becomes(c, [rpc[c] EXCEPT !.status = "cancelled"])
       \/ /\ ~ServersTurn(rpc[c]) /\ rpc[c].taken = Len(rpc[c].asks)
          /\ Becomes(c, [rpc[c] EXCEPT !.status = "unknown"])

Next == \E c \in Calls : Begin(c) \/ Speak(c) \/ Listen(c) \/ GoesAway(c)

Spec == Init /\ [][Next]_vars

=============================================================================

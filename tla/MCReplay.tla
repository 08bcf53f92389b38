-------------------------------- MODULE MCReplay --------------------------------
(***************************************************************************)
(* Fixture and Replay with dumps of a few lines of a small stock.          *)
(***************************************************************************)
EXTENDS Replay, FiniteSets

CONSTANTS m1, m2, a, b, c1, s1, s2

C(body) == [from |-> "client", body |-> body]
S(body) == [from |-> "server", body |-> body]
R(method, ms) == [method |-> method, messages |-> ms]

\* Unary calls, a server that speaks first, streams that begin alike, go on one
\* after the other and differ in who speaks.
Stock ==
    {R(m1, ms) : ms \in {<<>>, <<C(a), S(a)>>, <<C(a), S(b)>>, <<C(b), S(a)>>, <<S(a), C(a)>>,
                         <<C(a), S(a), C(b), S(b)>>, <<C(a), C(b), S(a)>>, <<S(b)>>, <<C(a)>>}}
       \cup {R(m2, <<C(a), S(b)>>)}

\* Three lines are of those that share a beginning with others.
Branching == {r \in Stock : Len(r.messages) > 1 /\ r.messages[1] # C(b)}

UpToThree == [1..1 -> Stock] \cup [1..2 -> Stock] \cup [1..3 -> Branching]

Strangers == {R(m1, <<C(b), C(b)>>), R(m1, <<C(a), C(a)>>), R(m2, <<C(a), C(b)>>), R(m2, <<>>)}

TwoStreams == <<s1, s2>>

\* What is replayed: nothing, the dump itself, or another one. Two lines are replayed
\* where the second goes on after the beginning of the first, or instead of it, or where
\* the clients of two short calls begin differently.
Related(p, r) == p # <<>> /\ p # r /\ Len(p) <= Len(r) /\ p[1] = r[1]
Branched(p, r) ==
    /\ Len(p) = 2 /\ Len(r) = 2 /\ p[1] # r[1]
    /\ p[1].from = "client" /\ r[1].from = "client"
Others ==
    {<<R(m1, <<C(a), S(a)>>), R(m1, <<C(b), C(b), S(a)>>)>>, <<R(m1, <<S(a), C(b), C(a)>>)>>,
     <<R(m2, <<S(b)>>), R(m1, <<C(a)>>)>>, <<R(m1, <<C(a), S(a), C(b), C(b)>>)>>}
Replays ==
    [d \in UpToThree |->
       CASE Len(d) = 1 -> {<<>>, d} \cup Others
         [] Len(d) = 2 -> {<<>>} \cup {e \in {d} : \/ Related(d[1].messages, d[2].messages)
                                                 \/ Branched(d[1].messages, d[2].messages)}
         [] OTHER -> {<<>>}]

=============================================================================

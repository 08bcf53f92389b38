----------------------------- MODULE ConnMuxProofs -----------------------------
(***************************************************************************)
(* The safety properties of ConnMux, for any connections, scripts and      *)
(* capacities.                                                             *)
(***************************************************************************)
EXTENDS ConnMux, SequenceTheorems, TLAPS

-----------------------------------------------------------------------------
(* Queues and the sets they list.                                          *)

\* What is appended is listed once if it was not listed before.
LEMMA ListsAppend ==
    ASSUME NEW q \in Seq(Conns), NEW S \in SUBSET Conns, NEW c \in Conns, c \notin S,
           Lists(q, S)
    PROVE  Lists(Append(q, c), S \cup {c})
<1> DEFINE r == Append(q, c)
<1>1. /\ Len(q) \in Nat /\ Len(r) = Len(q) + 1 /\ r[Len(q) + 1] = c
      /\ \A i \in 1..Len(q) : r[i] = q[i]
  OBVIOUS
<1> HIDE DEF r
<1>2. \A i \in 1..Len(q) : q[i] # c
  BY DEF Lists
<1>3. ASSUME NEW i \in 1..Len(r) PROVE r[i] \in S \cup {c}
  <2>1. CASE i = Len(q) + 1
    BY <2>1, <1>1
  <2>2. CASE i # Len(q) + 1
    <3>1. i \in 1..Len(q)
      BY <1>1, <2>2
    <3> QED BY <3>1, <1>1 DEF Lists
  <2> QED BY <2>1, <2>2
<1>4. ASSUME NEW i \in 1..Len(r), NEW j \in 1..Len(r), r[i] = r[j] PROVE i = j
  <2>1. i = Len(q) + 1 \/ i \in 1..Len(q)
    BY <1>1
  <2>2. j = Len(q) + 1 \/ j \in 1..Len(q)
    BY <1>1
  <2> QED BY <1>1, <1>2, <1>4, <2>1, <2>2 DEF Lists
<1>5. ASSUME NEW d \in S \cup {c} PROVE \E i \in 1..Len(r) : r[i] = d
  <2>1. CASE d = c
    <3>1. Len(q) + 1 \in 1..Len(r)
      BY <1>1
    <3> QED BY <2>1, <3>1, <1>1
  <2>2. CASE d # c
    <3>1. PICK i \in 1..Len(q) : q[i] = d
      BY <2>2 DEF Lists
    <3>2. i \in 1..Len(r)
      BY <1>1
    <3> QED BY <3>1, <3>2, <1>1
  <2> QED BY <2>1, <2>2
<1>6. Lists(r, S \cup {c})
  BY <1>3, <1>4, <1>5 DEF Lists
<1> QED BY <1>6 DEF r

\* Taking the head leaves the others.
LEMMA ListsTail ==
    ASSUME NEW q \in Seq(Conns), NEW S \in SUBSET Conns, q # <<>>, Lists(q, S)
    PROVE  Lists(Tail(q), S \ {Head(q)}) /\ Head(q) \in S
<1> DEFINE r == Tail(q)
<1>1. /\ Len(q) \in Nat /\ Len(q) >= 1 /\ Len(r) = Len(q) - 1 /\ Head(q) = q[1]
      /\ \A i \in 1..Len(r) : r[i] = q[i + 1]
  BY HeadTailProperties
<1> HIDE DEF r
<1>2. 1 \in 1..Len(q)
  BY <1>1
<1>3. \A i \in 1..Len(r) : i + 1 \in 1..Len(q) /\ i + 1 # 1
  BY <1>1
<1>4. \A i \in 1..Len(r) : r[i] \in S \ {Head(q)}
  BY <1>1, <1>2, <1>3 DEF Lists
<1>5. ASSUME NEW i \in 1..Len(r), NEW j \in 1..Len(r), r[i] = r[j] PROVE i = j
  <2>1. q[i + 1] = q[j + 1]
    BY <1>1, <1>5
  <2>2. i + 1 = j + 1
    BY <2>1, <1>3 DEF Lists
  <2> QED BY <2>2, <1>1
<1>6. ASSUME NEW d \in S \ {Head(q)} PROVE \E i \in 1..Len(r) : r[i] = d
  <2>1. PICK i \in 1..Len(q) : q[i] = d
    BY DEF Lists
  <2>2. i # 1
    BY <2>1, <1>1
  <2>3. i - 1 \in 1..Len(r) /\ (i - 1) + 1 = i
    BY <1>1, <2>2
  <2> QED BY <2>1, <2>3, <1>1
<1> QED BY <1>1, <1>2, <1>4, <1>5, <1>6 DEF Lists, r

-----------------------------------------------------------------------------
(* The destination asked for before a layer.                               *)

LEMMA AskedNothing == ASSUME NEW s PROVE AskedBefore(s, 1) = {}
BY DEF AskedBefore

\* Behind a CONNECT it is that CONNECT's.
LEMMA AskedHere ==
    ASSUME NEW s, NEW k \in Nat \ {0}, s[k].kind = "connect"
    PROVE  AskedBefore(s, k + 1) = {s[k].to}
<1>1. (k + 1) - 1 = k
  OBVIOUS
<1>2. {j \in 1..k : s[j].kind = "connect" /\ \A m \in (j + 1)..k : s[m].kind # "connect"} = {k}
  <2>1. k \in 1..k /\ (k + 1)..k = {}
    OBVIOUS
  <2>2. \A j \in 1..k : j # k => k \in (j + 1)..k
    OBVIOUS
  <2> QED BY <2>1, <2>2
<1> QED BY <1>1, <1>2 DEF AskedBefore

\* Behind any other layer it is what it was.
LEMMA AskedStill ==
    ASSUME NEW s, NEW k \in Nat \ {0}, s[k].kind # "connect"
    PROVE  AskedBefore(s, k + 1) = AskedBefore(s, k)
<1> DEFINE A == {j \in 1..((k + 1) - 1) : /\ s[j].kind = "connect"
                   /\ \A m \in (j + 1)..((k + 1) - 1) : s[m].kind # "connect"}
           B == {j \in 1..(k - 1) : /\ s[j].kind = "connect"
                   /\ \A m \in (j + 1)..(k - 1) : s[m].kind # "connect"}
<1>1. ASSUME NEW j \in A PROVE j \in B
  <2>1. j \in 1..k /\ j # k
    OBVIOUS
  <2>2. \A m \in (j + 1)..(k - 1) : m \in (j + 1)..((k + 1) - 1)
    OBVIOUS
  <2> QED BY <2>1, <2>2
<1>2. ASSUME NEW j \in B PROVE j \in A
  <2>1. j \in 1..((k + 1) - 1)
    OBVIOUS
  <2>2. \A m \in (j + 1)..((k + 1) - 1) : m = k \/ m \in (j + 1)..(k - 1)
    OBVIOUS
  <2> QED BY <2>1, <2>2
<1>3. A = B
  BY <1>1, <1>2
<1> HIDE DEF A, B
<1>4. AskedBefore(s, k + 1) = {s[i].to : i \in A} /\ AskedBefore(s, k) = {s[i].to : i \in B}
  BY DEF AskedBefore, A, B
<1> QED BY <1>3, <1>4

-----------------------------------------------------------------------------
(* What one step does to the connection it moves, and to no other.         *)

\* The connection becomes r.
Becomes(c, r) ==
    /\ script' = script
    /\ conn' = [conn EXCEPT ![c] = r]

LEMMA BecomesSound ==
    ASSUME TypeOK, AllSound, NEW c \in Conns, NEW r \in ConnState,
           Sound(script[c], r), Becomes(c, r)
    PROVE  /\ script' \in [Conns -> Scripts]
           /\ conn' \in [Conns -> ConnState]
           /\ \A d \in Conns : conn'[d].k <= Len(script'[d]) + 1
           /\ AllSound'
           /\ conn'[c] = r /\ \A d \in Conns : d # c => conn'[d] = conn[d]
<1>1. conn'[c] = r /\ \A d \in Conns : d # c => conn'[d] = conn[d]
  BY DEF Becomes, TypeOK
<1>2. script' \in [Conns -> Scripts] /\ conn' \in [Conns -> ConnState]
  BY DEF Becomes, TypeOK
<1>3. ASSUME NEW d \in Conns PROVE Sound(script'[d], conn'[d])
  BY <1>1 DEF Becomes, AllSound
<1>4. ASSUME NEW d \in Conns PROVE conn'[d].k <= Len(script'[d]) + 1
  BY <1>3 DEF Sound
<1> QED BY <1>1, <1>2, <1>3, <1>4 DEF AllSound

\* The connections at a place are the same ones, one more or one less.
LEMMA Elsewhere ==
    ASSUME NEW c \in Conns, \A d \in Conns : d # c => conn'[d] = conn[d],
           NEW CONSTANT place
    PROVE  /\ conn[c].at # place /\ conn'[c].at # place => At(place)' = At(place)
           /\ conn[c].at # place /\ conn'[c].at = place =>
                 At(place)' = At(place) \cup {c} /\ c \notin At(place)
           /\ conn[c].at = place /\ conn'[c].at # place => At(place)' = At(place) \ {c}
BY DEF At

Owned == {"plainQ", "tlsQ", "listener", "bouncer"}

\* A step between places that have no queue and no variable of their own.
LEMMA Quiet ==
    ASSUME IInv, NEW c \in Conns, NEW r \in ConnState, Sound(script[c], r), Becomes(c, r),
           conn[c].at \notin Owned, r.at \notin Owned,
           UNCHANGED <<queues, acceptor, bouncer>>
    PROVE  /\ script' \in [Conns -> Scripts]
           /\ conn' \in [Conns -> ConnState]
           /\ \A d \in Conns : conn'[d].k <= Len(script'[d]) + 1
           /\ AllSound' /\ OneOwner'
<1>1. /\ conn'[c] = r /\ \A d \in Conns : d # c => conn'[d] = conn[d]
      /\ script' \in [Conns -> Scripts]
      /\ conn' \in [Conns -> ConnState]
      /\ \A d \in Conns : conn'[d].k <= Len(script'[d]) + 1
      /\ AllSound'
  BY BecomesSound DEF IInv
<1>2. At("plainQ")' = At("plainQ") /\ At("tlsQ")' = At("tlsQ")
  BY <1>1, Elsewhere DEF Owned
<1>3. Lists(plainQ, At("plainQ"))' /\ Lists(tlsQ, At("tlsQ"))'
  BY <1>2 DEF IInv, OneOwner, Lists, queues
<1>4. ASSUME NEW d \in Conns
      PROVE  /\ acceptor' = d <=> conn'[d].at = "listener"
             /\ bouncer' = d <=> conn'[d].at = "bouncer"
  <2>1. CASE d = c
    BY <2>1, <1>1 DEF IInv, OneOwner, Owned
  <2>2. CASE d # c
    BY <2>2, <1>1 DEF IInv, OneOwner, Owned
  <2> QED BY <2>1, <2>2
<1> QED BY <1>1, <1>3, <1>4 DEF OneOwner

-----------------------------------------------------------------------------
(* Moves: the connection keeps its layer, its destination and its server.  *)

\* What a place asks of the connection that comes to it.
Admits(place, c) ==
    /\ place \in {"toTLS", "tlsQ", "handshake", "dial"} => Kind(c) = "tls"
    /\ place \in {"toTLS", "tlsQ", "handshake"} => Intercepted(c)
    /\ place \in {"bouncer", "dial", "bounce", "tunnel"} => conn[c].dest # None
    /\ place \in {"dial", "bounce", "tunnel"} =>
          (Kind(c) = "tls" /\ ~Intercepted(c)) \/ Kind(c) \in {"get", "other", "short"}
    /\ conn[c].tls => place \in {"handler", "served", "closed"}

LEMMA Moved ==
    ASSUME TypeOK, AllSound, NEW c \in Conns, NEW CONSTANT from,
           NEW CONSTANT to \in Moving \cup Final,
           Move(c, from, to), script' = script, Admits(to, c)
    PROVE  LET r == [conn[c] EXCEPT !.at = to] IN
           /\ conn[c].at = from /\ r.at = to
           /\ r \in ConnState /\ Becomes(c, r) /\ Sound(script[c], r)
<1> DEFINE r == [conn[c] EXCEPT !.at = to]
<1>1. conn[c] \in ConnState /\ conn \in [Conns -> ConnState]
  BY DEF TypeOK
<1>2. /\ r \in ConnState /\ r.at = to
      /\ r.k = conn[c].k /\ r.dest = conn[c].dest /\ r.tls = conn[c].tls
  BY <1>1 DEF ConnState
<1>3. conn' = [conn EXCEPT ![c] = r]
  BY <1>1 DEF Move
<1> HIDE DEF r
<1>4. Sound(script[c], conn[c])
  BY DEF AllSound
<1>5. Sound(script[c], r)
  BY <1>2, <1>4 DEF Sound, Admits, Kind, Layer, Intercepted
<1>6. conn[c].at = from /\ Becomes(c, r)
  BY <1>3 DEF Becomes, Move
<1> QED BY <1>2, <1>5, <1>6 DEF r

\* What each step has to leave: the parts that depend on where the connections are.
Located ==
    /\ script \in [Conns -> Scripts]
    /\ conn \in [Conns -> ConnState]
    /\ \A c \in Conns : conn[c].k <= Len(script[c]) + 1
    /\ AllSound /\ OneOwner

LEMMA QuietMove ==
    ASSUME IInv, NEW c \in Conns, NEW CONSTANT from,
           NEW CONSTANT to \in Moving \cup Final, {from, to} \cap Owned = {},
           Move(c, from, to), Admits(to, c),
           UNCHANGED <<script, queues, acceptor, bouncer>>
    PROVE  Located'
<1> DEFINE r == [conn[c] EXCEPT !.at = to]
<1>1. /\ conn[c].at = from /\ r.at = to
      /\ r \in ConnState /\ Becomes(c, r) /\ Sound(script[c], r)
  BY Moved DEF IInv
<1> HIDE DEF r
<1>2. conn[c].at \notin Owned /\ r.at \notin Owned
  BY <1>1
<1> QED BY <1>1, <1>2, Quiet DEF Located

\* The actions of sortOnly that move a connection.
LEMMA QuietSorts ==
    ASSUME IInv, NEW c \in Conns,
           PeekTLS(c) \/ PeekPlain(c) \/ PeekFails(c) \/ Dial(c) \/ Bounce(c)
           \/ Serve(c) \/ Reject(c) \/ RefuseConnect(c)
    PROVE  IInv'
<1> DEFINE Goes(from, to) == Move(c, from, to) /\ Admits(to, c)
<1>0. sortOnly
  BY DEF PeekTLS, PeekPlain, PeekFails, Dial, Bounce, Serve, Reject, RefuseConnect
<1>s. Sound(script[c], conn[c])
  BY DEF IInv, AllSound
<1>1. ASSUME PeekTLS(c) PROVE Goes("peek", "toTLS") \/ Goes("peek", "dial")
  BY <1>1, <1>s DEF PeekTLS, Move, Admits, Sound, Intercepted, Kind
<1>2. ASSUME PeekPlain(c) PROVE Goes("peek", "toPlain")
  BY <1>2, <1>s DEF PeekPlain, Move, Admits, Sound
<1>3. ASSUME PeekFails(c) PROVE Goes("peek", "peekError")
  BY <1>3, <1>s DEF PeekFails, Move, Admits, Sound
<1>4. ASSUME Dial(c) PROVE Goes("dial", "tunnel") \/ Goes("dial", "closed")
  BY <1>4, <1>s DEF Dial, Move, Admits, Sound, Intercepted, Kind, Layer
<1>5. ASSUME Bounce(c) PROVE Goes("bounce", "tunnel") \/ Goes("bounce", "abandoned")
  BY <1>5, <1>s DEF Bounce, Move, Admits, Sound, Intercepted, Kind, Layer
<1>6. ASSUME Serve(c) PROVE Goes("handler", "served")
  BY <1>6, <1>s DEF Serve, Move, Admits, Sound
<1>7. ASSUME Reject(c) \/ RefuseConnect(c) PROVE Goes("handler", "closed")
  BY <1>7, <1>s DEF Reject, RefuseConnect, Move, Admits, Sound
<1>8. Located'
  <2>0. UNCHANGED <<script, queues, acceptor, bouncer>>
    BY <1>0 DEF sortOnly, loops
  <2>1. CASE Goes("peek", "toTLS")
    BY <2>0, <2>1, QuietMove DEF Owned, Moving
  <2>2. CASE Goes("peek", "dial")
    BY <2>0, <2>2, QuietMove DEF Owned, Moving
  <2>3. CASE Goes("peek", "toPlain")
    BY <2>0, <2>3, QuietMove DEF Owned, Moving
  <2>4. CASE Goes("peek", "peekError")
    BY <2>0, <2>4, QuietMove DEF Owned, Moving
  <2>5. CASE Goes("dial", "tunnel")
    BY <2>0, <2>5, QuietMove DEF Owned, Final
  <2>6. CASE Goes("dial", "closed")
    BY <2>0, <2>6, QuietMove DEF Owned, Final
  <2>7. CASE Goes("bounce", "tunnel")
    BY <2>0, <2>7, QuietMove DEF Owned, Final
  <2>8. CASE Goes("bounce", "abandoned")
    BY <2>0, <2>8, QuietMove DEF Owned, Final
  <2>9. CASE Goes("handler", "served")
    BY <2>0, <2>9, QuietMove DEF Owned, Final
  <2>10. CASE Goes("handler", "closed")
    BY <2>0, <2>10, QuietMove DEF Owned, Final
  <2> HIDE DEF Goes
  <2> QED BY <1>1, <1>2, <1>3, <1>4, <1>5, <1>6, <1>7, <2>1, <2>2, <2>3, <2>4,
             <2>5, <2>6, <2>7, <2>8, <2>9, <2>10
<1> QED BY <1>0, <1>8 DEF IInv, TypeOK, Located, sortOnly, queues, loops

LEMMA PeekErrorInv == ASSUME IInv, NEW c \in Conns, PeekError(c) PROVE IInv'
<1>1. Sound(script[c], conn[c])
  BY DEF IInv, AllSound
<1>2. Move(c, "peekError", "toPlain") /\ UNCHANGED <<script, queues, acceptor, bouncer>>
  BY DEF PeekError
<1>3. Admits("toPlain", c)
  BY <1>1, <1>2 DEF Admits, Sound, Move
<1>4. Located'
  BY <1>2, <1>3, QuietMove DEF Owned, Moving
<1>5. errs' \in 0..ErrCap
  BY MuxAssumption DEF PeekError, IInv, TypeOK
<1> QED BY <1>4, <1>5 DEF IInv, TypeOK, Located, PeekError, queues

-----------------------------------------------------------------------------
(* Steps to the next layer.                                                *)

LEMMA ScriptFacts ==
    ASSUME TypeOK, NEW c \in Conns
    PROVE  /\ script[c] \in Seq(Layers) /\ Len(script[c]) \in Nat
           /\ \A k \in 1..Len(script[c]) :
                 script[c][k].kind = "connect" => script[c][k].to \in Destinations
           /\ conn[c] \in ConnState /\ conn[c].k \in Nat \ {0}
           /\ conn[c].k <= Len(script[c]) + 1
<1>1. script[c] \in Scripts /\ conn[c] \in ConnState
  BY DEF TypeOK
<1> QED BY <1>1, MuxAssumption DEF TypeOK, ConnState

\* There is a layer of a kind other than gone.
LEMMA HasLayer ==
    ASSUME TypeOK, NEW c \in Conns, Kind(c) # "gone"
    PROVE  conn[c].k <= Len(script[c]) /\ Layer(c) = script[c][conn[c].k]
BY ScriptFacts DEF Kind, Layer, LayerAt, Gone

LEMMA HandshakeInv == ASSUME IInv, NEW c \in Conns, Handshake(c) PROVE IInv'
<1> DEFINE k == conn[c].k
           to == IF k = Len(script[c]) THEN "closed" ELSE "handler"
           r == [conn[c] EXCEPT !.k = k + 1, !.tls = TRUE, !.at = to]
<1>1. /\ Sound(script[c], conn[c]) /\ TypeOK /\ conn[c].at = "handshake"
      /\ conn \in [Conns -> ConnState]
  BY DEF IInv, AllSound, Handshake, TypeOK
<1>2. /\ conn[c] \in ConnState /\ k \in Nat \ {0} /\ Len(script[c]) \in Nat
  BY <1>1, ScriptFacts
<1>3. Kind(c) = "tls"
  BY <1>1 DEF Sound, Kind, Layer
<1>4. k <= Len(script[c]) /\ script[c][k].kind = "tls"
  BY <1>1, <1>3, HasLayer DEF Kind
<1>5. /\ r \in ConnState /\ r.k = k + 1 /\ r.tls = TRUE /\ r.dest = conn[c].dest
      /\ r.at \in {"closed", "handler"}
  <2>1. k + 1 \in Nat \ {0} /\ to \in {"closed", "handler"}
    BY <1>2
  <2>2. to \in Moving \cup Final
    BY <2>1 DEF Moving, Final
  <2> HIDE DEF k, to
  <2> QED BY <1>2, <2>1, <2>2 DEF ConnState
<1>6. Becomes(c, r)
  BY <1>1 DEF Handshake, sortOnly, Becomes
<1> HIDE DEF r
<1>7. AskedBefore(script[c], k + 1) = AskedBefore(script[c], k)
  BY <1>2, <1>4, AskedStill
<1>8. Sound(script[c], r)
  <2>1. (k + 1) - 1 = k /\ k + 1 > 1 /\ k + 1 <= Len(script[c]) + 1
    BY <1>2, <1>4
  <2> HIDE DEF k
  <2> QED BY <1>1, <1>4, <1>5, <1>7, <2>1 DEF Sound, k
<1>9. conn[c].at \notin Owned /\ r.at \notin Owned
  BY <1>1, <1>5 DEF Owned
<1>10. UNCHANGED <<queues, loops, bouncer, stopped>>
  BY DEF Handshake, sortOnly
<1>11. Located'
  BY <1>5, <1>6, <1>8, <1>9, <1>10, Quiet DEF Located, loops
<1> QED BY <1>10, <1>11 DEF IInv, TypeOK, Located, queues, loops

LEMMA HandleConnectInv == ASSUME IInv, NEW c \in Conns, HandleConnect(c) PROVE IInv'
<1> DEFINE k == conn[c].k
           r == [conn[c] EXCEPT !.at = "redirect", !.k = k + 1,
                                !.dest = Layer(c).to, !.tls = FALSE]
<1>1. /\ Sound(script[c], conn[c]) /\ TypeOK /\ conn[c].at = "handler" /\ Kind(c) = "connect"
      /\ conn \in [Conns -> ConnState]
  BY DEF IInv, AllSound, HandleConnect, TypeOK
<1>2. /\ conn[c] \in ConnState /\ k \in Nat \ {0} /\ Len(script[c]) \in Nat
  BY <1>1, ScriptFacts
<1>3. k <= Len(script[c]) /\ Layer(c) = script[c][k]
  BY <1>1, HasLayer
<1>4. script[c][k].kind = "connect" /\ script[c][k].to \in Destinations
  BY <1>1, <1>2, <1>3, ScriptFacts DEF Kind
<1>5. /\ r \in ConnState /\ r.k = k + 1 /\ r.tls = FALSE /\ r.dest = script[c][k].to
      /\ r.at = "redirect"
  <2>1. k + 1 \in Nat \ {0} /\ "redirect" \in Moving
    BY <1>2 DEF Moving
  <2> HIDE DEF k
  <2> QED BY <1>2, <1>3, <1>4, <2>1 DEF ConnState
<1>6. Becomes(c, r)
  BY <1>1 DEF HandleConnect, sortOnly, Becomes
<1> HIDE DEF r
<1>7. AskedBefore(script[c], k + 1) = {script[c][k].to}
  BY <1>2, <1>4, AskedHere
<1>8. Sound(script[c], r)
  <2>1. (k + 1) - 1 = k /\ k + 1 > 1 /\ k + 1 <= Len(script[c]) + 1
    BY <1>2, <1>3
  <2>2. r.dest # None
    BY <1>4, <1>5, MuxAssumption
  <2> HIDE DEF k
  <2> QED BY <1>4, <1>5, <1>7, <2>1, <2>2 DEF Sound
<1>9. conn[c].at \notin Owned /\ r.at \notin Owned
  BY <1>1, <1>5 DEF Owned
<1>10. UNCHANGED <<queues, loops, bouncer, stopped>>
  BY DEF HandleConnect, sortOnly
<1>11. Located'
  BY <1>5, <1>6, <1>8, <1>9, <1>10, Quiet DEF Located, loops
<1> QED BY <1>10, <1>11 DEF IInv, TypeOK, Located, queues, loops

-----------------------------------------------------------------------------
(* Steps into a queue or a variable, and out of it.                        *)

\* What a move does to the places that own their connections.
LEMMA OwnedMove ==
    ASSUME IInv, NEW c \in Conns, NEW CONSTANT from,
           NEW CONSTANT to \in Moving \cup Final,
           Move(c, from, to), Admits(to, c), script' = script, from # to
    PROVE  /\ script' \in [Conns -> Scripts]
           /\ conn' \in [Conns -> ConnState]
           /\ \A d \in Conns : conn'[d].k <= Len(script'[d]) + 1
           /\ AllSound'
           /\ conn[c].at = from /\ conn'[c].at = to
           /\ \A d \in Conns : d # c => conn'[d] = conn[d]
           /\ from # "plainQ" /\ to # "plainQ" => At("plainQ")' = At("plainQ")
           /\ from # "tlsQ" /\ to # "tlsQ" => At("tlsQ")' = At("tlsQ")
<1> DEFINE r == [conn[c] EXCEPT !.at = to]
<1>1. /\ conn[c].at = from /\ r.at = to
      /\ r \in ConnState /\ Becomes(c, r) /\ Sound(script[c], r)
  BY Moved DEF IInv
<1> HIDE DEF r
<1>2. /\ script' \in [Conns -> Scripts]
      /\ conn' \in [Conns -> ConnState]
      /\ \A d \in Conns : conn'[d].k <= Len(script'[d]) + 1
      /\ AllSound'
      /\ conn'[c] = r /\ \A d \in Conns : d # c => conn'[d] = conn[d]
  BY <1>1, BecomesSound DEF IInv
<1> QED BY <1>1, <1>2, Elsewhere

\* The queues stay as they are.
LEMMA SameQueues ==
    ASSUME OneOwner, UNCHANGED queues,
           At("plainQ")' = At("plainQ"), At("tlsQ")' = At("tlsQ")
    PROVE  Lists(plainQ, At("plainQ"))' /\ Lists(tlsQ, At("tlsQ"))'
BY DEF OneOwner, queues, Lists

\* Who is with the listener and the bouncer.
HeldOK ==
    /\ \A d \in Conns : acceptor = d <=> conn[d].at = "listener"
    /\ \A d \in Conns : bouncer = d <=> conn[d].at = "bouncer"

LEMMA ToPlainInv == ASSUME IInv, NEW c \in Conns, ToPlain(c) PROVE IInv'
<1>0. /\ Sound(script[c], conn[c]) /\ plainQ \in Seq(Conns) /\ Len(plainQ) <= QueueCap
      /\ QueueCap \in Nat /\ OneOwner
  BY MuxAssumption DEF IInv, AllSound, TypeOK
<1>1. /\ Move(c, "toPlain", "plainQ") /\ UNCHANGED <<script, tlsQ, loops, bouncer, stopped>>
      /\ plainQ' = Append(plainQ, c) /\ Len(plainQ) < QueueCap
  BY DEF ToPlain
<1>2. Admits("plainQ", c)
  BY <1>0, <1>1 DEF Admits, Sound, Move
<1>3. /\ Located' <=> OneOwner'
      /\ conn[c].at = "toPlain" /\ conn'[c].at = "plainQ"
      /\ \A d \in Conns : d # c => conn'[d] = conn[d]
      /\ At("tlsQ")' = At("tlsQ")
  BY <1>1, <1>2, OwnedMove DEF Moving, Located
<1>4. At("plainQ")' = At("plainQ") \cup {c} /\ c \notin At("plainQ")
  BY <1>3, Elsewhere
<1>5. Lists(plainQ', At("plainQ") \cup {c})
  <2>1. At("plainQ") \in SUBSET Conns
    BY DEF At
  <2> QED BY <1>0, <1>1, <1>4, <2>1, ListsAppend DEF OneOwner
<1>6. Lists(plainQ, At("plainQ"))' /\ Lists(tlsQ, At("tlsQ"))'
  BY <1>0, <1>1, <1>3, <1>4, <1>5 DEF OneOwner, Lists
<1>7. HeldOK'
  BY <1>0, <1>1, <1>3 DEF HeldOK, OneOwner, loops
<1>8. plainQ' \in Seq(Conns) /\ Len(plainQ') <= QueueCap
  BY <1>0, <1>1
<1>9. Located'
  BY <1>3, <1>6, <1>7 DEF OneOwner, HeldOK
<1> QED BY <1>1, <1>8, <1>9 DEF IInv, TypeOK, Located, loops

LEMMA ToTLSInv == ASSUME IInv, NEW c \in Conns, ToTLS(c) PROVE IInv'
<1>0. /\ Sound(script[c], conn[c]) /\ tlsQ \in Seq(Conns) /\ Len(tlsQ) <= QueueCap
      /\ QueueCap \in Nat /\ OneOwner
  BY MuxAssumption DEF IInv, AllSound, TypeOK
<1>1. /\ Move(c, "toTLS", "tlsQ") /\ UNCHANGED <<script, plainQ, loops, bouncer, stopped>>
      /\ tlsQ' = Append(tlsQ, c) /\ Len(tlsQ) < QueueCap
  BY DEF ToTLS
<1>2. Admits("tlsQ", c)
  BY <1>0, <1>1 DEF Admits, Sound, Move, Kind, Layer, Intercepted
<1>3. /\ Located' <=> OneOwner'
      /\ conn[c].at = "toTLS" /\ conn'[c].at = "tlsQ"
      /\ \A d \in Conns : d # c => conn'[d] = conn[d]
      /\ At("plainQ")' = At("plainQ")
  BY <1>1, <1>2, OwnedMove DEF Moving, Located
<1>4. At("tlsQ")' = At("tlsQ") \cup {c} /\ c \notin At("tlsQ")
  BY <1>3, Elsewhere
<1>5. Lists(tlsQ', At("tlsQ") \cup {c})
  <2>1. At("tlsQ") \in SUBSET Conns
    BY DEF At
  <2> QED BY <1>0, <1>1, <1>4, <2>1, ListsAppend DEF OneOwner
<1>6. Lists(plainQ, At("plainQ"))' /\ Lists(tlsQ, At("tlsQ"))'
  BY <1>0, <1>1, <1>3, <1>4, <1>5 DEF OneOwner, Lists
<1>7. HeldOK'
  BY <1>0, <1>1, <1>3 DEF HeldOK, OneOwner, loops
<1>8. tlsQ' \in Seq(Conns) /\ Len(tlsQ') <= QueueCap
  BY <1>0, <1>1
<1>9. Located'
  BY <1>3, <1>6, <1>7 DEF OneOwner, HeldOK
<1> QED BY <1>1, <1>8, <1>9 DEF IInv, TypeOK, Located, loops

LEMMA HttpsAcceptInv == ASSUME IInv, NEW c \in Conns, HttpsAccept(c) PROVE IInv'
<1>0. /\ Sound(script[c], conn[c]) /\ tlsQ \in Seq(Conns) /\ Len(tlsQ) <= QueueCap
      /\ QueueCap \in Nat /\ OneOwner
  BY MuxAssumption DEF IInv, AllSound, TypeOK
<1>1. /\ Move(c, "tlsQ", "handshake") /\ UNCHANGED <<script, plainQ, loops, bouncer, stopped>>
      /\ tlsQ # <<>> /\ c = Head(tlsQ) /\ tlsQ' = Tail(tlsQ)
  BY DEF HttpsAccept
<1>2. Admits("handshake", c)
  BY <1>0, <1>1 DEF Admits, Sound, Move, Kind, Layer, Intercepted
<1>3. /\ Located' <=> OneOwner'
      /\ conn[c].at = "tlsQ" /\ conn'[c].at = "handshake"
      /\ \A d \in Conns : d # c => conn'[d] = conn[d]
      /\ At("plainQ")' = At("plainQ")
  BY <1>1, <1>2, OwnedMove DEF Moving, Located
<1>4. At("tlsQ")' = At("tlsQ") \ {c}
  BY <1>3, Elsewhere
<1>5. Lists(tlsQ', At("tlsQ") \ {c})
  <2>1. At("tlsQ") \in SUBSET Conns
    BY DEF At
  <2> QED BY <1>0, <1>1, <2>1, ListsTail DEF OneOwner
<1>6. Lists(plainQ, At("plainQ"))' /\ Lists(tlsQ, At("tlsQ"))'
  BY <1>0, <1>1, <1>3, <1>4, <1>5 DEF OneOwner, Lists
<1>7. HeldOK'
  BY <1>0, <1>1, <1>3 DEF HeldOK, OneOwner, loops
<1>8. tlsQ' \in Seq(Conns) /\ Len(tlsQ') <= QueueCap
  BY <1>0, <1>1, HeadTailProperties
<1>9. Located'
  BY <1>3, <1>6, <1>7 DEF OneOwner, HeldOK
<1> QED BY <1>1, <1>8, <1>9 DEF IInv, TypeOK, Located, loops

LEMMA PlainAcceptInv == ASSUME IInv, NEW c \in Conns, PlainAccept(c) PROVE IInv'
<1>0. /\ Sound(script[c], conn[c]) /\ plainQ \in Seq(Conns) /\ Len(plainQ) <= QueueCap
      /\ QueueCap \in Nat /\ OneOwner
  BY MuxAssumption DEF IInv, AllSound, TypeOK
<1>1. /\ UNCHANGED <<script, tlsQ, loops, stopped>> /\ bouncer = None
      /\ plainQ # <<>> /\ c = Head(plainQ) /\ plainQ' = Tail(plainQ)
  BY DEF PlainAccept
<1>2. \/ conn[c].dest = None /\ Move(c, "plainQ", "handler") /\ bouncer' = None
      \/ conn[c].dest # None /\ Move(c, "plainQ", "bouncer") /\ bouncer' = c
  BY DEF PlainAccept, Move
<1>3. Admits("handler", c) /\ (conn[c].dest # None => Admits("bouncer", c))
  BY <1>0, <1>2 DEF Admits, Sound, Move
<1>4. /\ Located' <=> OneOwner'
      /\ conn[c].at = "plainQ" /\ conn'[c].at \in {"handler", "bouncer"}
      /\ bouncer' = IF conn'[c].at = "bouncer" THEN c ELSE None
      /\ \A d \in Conns : d # c => conn'[d] = conn[d]
      /\ At("tlsQ")' = At("tlsQ")
  <2>1. CASE conn[c].dest = None /\ Move(c, "plainQ", "handler") /\ bouncer' = None
    BY <1>1, <1>3, <2>1, OwnedMove DEF Moving, Located
  <2>2. CASE conn[c].dest # None /\ Move(c, "plainQ", "bouncer") /\ bouncer' = c
    BY <1>1, <1>3, <2>2, OwnedMove DEF Moving, Located
  <2> QED BY <1>2, <2>1, <2>2
<1>5. At("plainQ")' = At("plainQ") \ {c}
  BY <1>4, Elsewhere
<1>6. Lists(plainQ', At("plainQ") \ {c})
  <2>1. At("plainQ") \in SUBSET Conns
    BY DEF At
  <2> QED BY <1>0, <1>1, <2>1, ListsTail DEF OneOwner
<1>7. Lists(plainQ, At("plainQ"))' /\ Lists(tlsQ, At("tlsQ"))'
  BY <1>0, <1>1, <1>4, <1>5, <1>6 DEF OneOwner, Lists
<1>8. HeldOK'
  BY <1>0, <1>1, <1>4, MuxAssumption DEF HeldOK, OneOwner, loops
<1>9. plainQ' \in Seq(Conns) /\ Len(plainQ') <= QueueCap
  BY <1>0, <1>1, HeadTailProperties
<1>10. bouncer' \in Conns \cup {None}
  BY <1>4
<1>11. Located'
  BY <1>4, <1>7, <1>8 DEF OneOwner, HeldOK
<1> QED BY <1>1, <1>9, <1>10, <1>11 DEF IInv, TypeOK, Located, loops

\* The bouncer lets go of its connection, to the handler, a goroutine or nobody.
LEMMA BouncerInv ==
    ASSUME IInv, NEW c \in Conns, BouncerMatch(c) \/ BouncerBounces(c) \/ BouncerFails(c)
    PROVE  IInv'
<1>0. Sound(script[c], conn[c]) /\ OneOwner
  BY DEF IInv, AllSound
<1>1. /\ UNCHANGED <<script, queues, loops>> /\ bouncer' = None
      /\ conn[c].at = "bouncer" /\ stopped' \in BOOLEAN
  BY DEF BouncerMatch, BouncerBounces, BouncerFails, Move, IInv, TypeOK
<1>2. \/ Move(c, "bouncer", "handler") /\ Admits("handler", c)
      \/ Move(c, "bouncer", "bounce") /\ Admits("bounce", c)
      \/ Move(c, "bouncer", "abandoned") /\ Admits("abandoned", c)
  <2>1. ~conn[c].tls /\ conn[c].dest # None
    BY <1>0, <1>1 DEF Sound
  <2> QED BY <2>1 DEF BouncerMatch, BouncerBounces, BouncerFails, Admits
<1>3. /\ Located' <=> OneOwner'
      /\ conn'[c].at \in {"handler", "bounce", "abandoned"}
      /\ \A d \in Conns : d # c => conn'[d] = conn[d]
      /\ At("plainQ")' = At("plainQ") /\ At("tlsQ")' = At("tlsQ")
  <2>1. CASE Move(c, "bouncer", "handler") /\ Admits("handler", c)
    BY <1>1, <2>1, OwnedMove DEF Moving, Located
  <2>2. CASE Move(c, "bouncer", "bounce") /\ Admits("bounce", c)
    BY <1>1, <2>2, OwnedMove DEF Moving, Located
  <2>3. CASE Move(c, "bouncer", "abandoned") /\ Admits("abandoned", c)
    BY <1>1, <2>3, OwnedMove DEF Final, Located
  <2> QED BY <1>2, <2>1, <2>2, <2>3
<1>4. Lists(plainQ, At("plainQ"))' /\ Lists(tlsQ, At("tlsQ"))'
  BY <1>0, <1>1, <1>3, SameQueues
<1>5. HeldOK'
  BY <1>0, <1>1, <1>3, MuxAssumption DEF HeldOK, OneOwner, loops
<1>6. Located'
  BY <1>3, <1>4, <1>5 DEF OneOwner, HeldOK
<1> QED BY <1>1, <1>6 DEF IInv, TypeOK, Located, loops, queues

\* Into the listener's goroutine, and from there or from a CONNECT to the peek.
LEMMA ListenerInv == ASSUME IInv, NEW c \in Conns, Listener(c) PROVE IInv'
<1>0. Sound(script[c], conn[c]) /\ OneOwner /\ conn \in [Conns -> ConnState]
  BY DEF IInv, AllSound, TypeOK
<1>1. /\ UNCHANGED <<script, queues, bouncer, mux, errs, acceptErrors, stopped>>
  BY DEF Listener, ListenerAccept, MuxAccept
<1>2. \/ /\ Move(c, "backlog", "listener") /\ Admits("listener", c)
         /\ acceptor = None /\ acceptor' = c
      \/ /\ Move(c, "listener", "peek") /\ Admits("peek", c) /\ acceptor' = None
      \/ /\ Move(c, "redirect", "peek") /\ Admits("peek", c) /\ acceptor' = acceptor
  BY <1>0 DEF Listener, ListenerAccept, MuxAccept, Move, Admits, Sound, OneOwner
<1>3. /\ Located' <=> OneOwner'
      /\ \A d \in Conns : d # c => conn'[d] = conn[d]
      /\ At("plainQ")' = At("plainQ") /\ At("tlsQ")' = At("tlsQ")
      /\ conn[c].at # "bouncer" /\ conn'[c].at # "bouncer"
      /\ \/ conn'[c].at = "listener" /\ acceptor = None /\ acceptor' = c
         \/ conn[c].at = "listener" /\ conn'[c].at = "peek" /\ acceptor' = None
         \/ conn[c].at = "redirect" /\ conn'[c].at = "peek" /\ acceptor' = acceptor
  <2>1. CASE Move(c, "backlog", "listener") /\ Admits("listener", c)
             /\ acceptor = None /\ acceptor' = c
    BY <1>1, <2>1, OwnedMove DEF Moving, Located
  <2>2. CASE Move(c, "listener", "peek") /\ Admits("peek", c) /\ acceptor' = None
    BY <1>1, <2>2, OwnedMove DEF Moving, Located
  <2>3. CASE Move(c, "redirect", "peek") /\ Admits("peek", c) /\ acceptor' = acceptor
    BY <1>1, <2>3, OwnedMove DEF Moving, Located
  <2> QED BY <1>2, <2>1, <2>2, <2>3
<1>4. Lists(plainQ, At("plainQ"))' /\ Lists(tlsQ, At("tlsQ"))'
  BY <1>0, <1>1, <1>3, SameQueues
<1>5. HeldOK'
  BY <1>0, <1>1, <1>3, MuxAssumption DEF HeldOK, OneOwner
<1>6. Located'
  BY <1>3, <1>4, <1>5 DEF OneOwner, HeldOK
<1>7. acceptor' \in Conns \cup {None, Error}
  BY <1>3 DEF IInv, TypeOK
<1> QED BY <1>1, <1>6, <1>7 DEF IInv, TypeOK, Located, queues

\* Errors of the network's Accept, which move no connection.
LEMMA ErrorsInv == ASSUME IInv, ListenerError \/ Mux PROVE IInv'
<1>1. /\ UNCHANGED <<script, conn, queues, bouncer, stopped>>
      /\ \/ acceptor' = acceptor
         \/ acceptor \in {None, Error} /\ acceptor' \in {None, Error}
      /\ mux' \in {"accept", "error"} /\ errs' \in 0..ErrCap
      /\ acceptErrors' \in 0..MaxAcceptErrors
  BY MuxAssumption
     DEF ListenerError, Mux, MuxAcceptError, MuxError, IInv, TypeOK
<1>2. AllSound'
  BY <1>1 DEF IInv, AllSound
<1>3. At("plainQ")' = At("plainQ") /\ At("tlsQ")' = At("tlsQ")
  BY <1>1 DEF At
<1>4. Lists(plainQ, At("plainQ"))' /\ Lists(tlsQ, At("tlsQ"))'
  BY <1>1, <1>3, SameQueues DEF IInv
<1>5. HeldOK'
  BY <1>1, MuxAssumption DEF IInv, OneOwner, HeldOK
<1>6. OneOwner'
  BY <1>4, <1>5 DEF OneOwner, HeldOK
<1>7. TypeOK'
  BY <1>1 DEF IInv, TypeOK, queues
<1> QED BY <1>2, <1>6, <1>7 DEF IInv

-----------------------------------------------------------------------------
(* The theorems.                                                           *)

LEMMA InitInv == Init => IInv
<1> SUFFICES ASSUME Init PROVE IInv
  OBVIOUS
<1>1. ASSUME NEW c \in Conns
      PROVE  /\ conn[c] = [at |-> "backlog", k |-> 1, dest |-> None, tls |-> FALSE]
             /\ script[c] \in Scripts /\ Len(script[c]) \in Nat
  BY MuxAssumption DEF Init
<1>2. TypeOK
  <2>1. [at |-> "backlog", k |-> 1, dest |-> None, tls |-> FALSE] \in ConnState
    BY DEF ConnState, Moving
  <2>2. conn \in [Conns -> ConnState] /\ script \in [Conns -> Scripts]
    BY <2>1 DEF Init
  <2>3. \A c \in Conns : conn[c].k <= Len(script[c]) + 1
    BY <1>1
  <2>4. /\ plainQ \in Seq(Conns) /\ tlsQ \in Seq(Conns)
        /\ Len(plainQ) <= QueueCap /\ Len(tlsQ) <= QueueCap
    BY MuxAssumption DEF Init
  <2>5. /\ acceptor = None /\ mux = "accept" /\ bouncer = None /\ stopped = FALSE
        /\ errs \in 0..ErrCap /\ acceptErrors \in 0..MaxAcceptErrors
    BY MuxAssumption DEF Init
  <2> QED BY <2>2, <2>3, <2>4, <2>5 DEF TypeOK
<1>3. OneOwner
  BY <1>1, MuxAssumption DEF Init, OneOwner, Lists, At
<1>4. ASSUME NEW c \in Conns PROVE Sound(script[c], conn[c])
  <2>1. /\ conn[c].at = "backlog" /\ conn[c].k = 1 /\ conn[c].dest = None
        /\ conn[c].tls = FALSE /\ 1 <= Len(script[c]) + 1
    BY <1>1
  <2>2. AskedBefore(script[c], conn[c].k) = {}
    BY <2>1, AskedNothing
  <2> QED BY <2>1, <2>2 DEF Sound
<1> QED BY <1>2, <1>3, <1>4 DEF IInv, AllSound

LEMMA NextInv == IInv /\ [Next]_vars => IInv'
<1> SUFFICES ASSUME IInv, [Next]_vars PROVE IInv'
  OBVIOUS
<1>1. ASSUME NEW c \in Conns, Listener(c) \/ Sort(c) \/ Accept(c) \/ Handle(c)
      PROVE  IInv'
  <2>1. CASE Listener(c)
    BY <2>1, ListenerInv
  <2>2. CASE Sort(c)
    BY <2>2, QuietSorts, PeekErrorInv, ToPlainInv, ToTLSInv DEF Sort
  <2>3. CASE Accept(c)
    BY <2>3, PlainAcceptInv, BouncerInv, QuietSorts, HttpsAcceptInv DEF Accept
  <2>4. CASE Handle(c)
    BY <2>4, HandshakeInv, QuietSorts, HandleConnectInv DEF Handle
  <2> QED BY <1>1, <2>1, <2>2, <2>3, <2>4
<1>2. ASSUME UNCHANGED vars PROVE IInv'
  <2>1. /\ UNCHANGED <<script, conn, acceptor, mux, errs, acceptErrors, bouncer, stopped>>
        /\ UNCHANGED <<plainQ, tlsQ>>
    BY <1>2 DEF vars, queues, loops
  <2>2. At("plainQ")' = At("plainQ") /\ At("tlsQ")' = At("tlsQ")
    BY <2>1 DEF At
  <2>3. OneOwner'
    BY <2>1, <2>2 DEF IInv, OneOwner, Lists
  <2> QED BY <2>1, <2>3 DEF IInv, TypeOK, AllSound
<1>3. CASE Next
  BY <1>1, <1>2, <1>3, ErrorsInv DEF Next, Rest
<1> QED BY <1>2, <1>3

\* The inductive invariant holds: OneOwner, the types, and for every connection how
\* its place, layer, destination and server belong together.
THEOREM Inductive == Spec => []IInv
BY InitInv, NextInv, PTL DEF Spec

\* Every variable has its type, the queues and the errors stay within capacity.
THEOREM TypeCorrect == Spec => []TypeOK
<1>1. IInv => TypeOK
  BY DEF IInv
<1> QED BY <1>1, Inductive, PTL

\* A connection has one owner: each of the two queues lists those that are in it,
\* once, and the listener and the bouncer hold what they think they hold.
THEOREM OneOwnerAlways == Spec => []OneOwner
<1>1. IInv => OneOwner
  BY DEF IInv
<1> QED BY <1>1, Inductive, PTL

\* Through any nesting of CONNECTs and TLS a connection keeps its last destination.
THEOREM OwnDestinationAlways == Spec => []OwnDestination
<1>1. IInv => OwnDestination
  BY DEF IInv, AllSound, Sound, OwnDestination
<1> QED BY <1>1, Inductive, PTL

\* Only what the certificate covers is intercepted, only the rest is tunnelled, and
\* the HTTPS server has the connections whose next layer is TLS, and only those.
THEOREM PlacedRightlyAlways == Spec => []PlacedRightly
<1>1. ASSUME IInv PROVE PlacedRightly
  <2> SUFFICES ASSUME NEW c \in Conns
               PROVE
       /\ conn[c].at \in {"toTLS", "tlsQ", "handshake"} \/ conn[c].tls => Intercepted(c)
       /\ conn[c].at \in {"dial", "bounce", "tunnel"} =>
             /\ conn[c].dest # None
             /\ \/ Kind(c) = "tls" /\ ~Intercepted(c)
                \/ Kind(c) \in {"get", "other", "short"}
       /\ conn[c].at \in {"handler", "served"} =>
             (conn[c].tls <=> conn[c].k > 1 /\ script[c][conn[c].k - 1].kind = "tls")
    BY DEF PlacedRightly
  <2>1. Sound(script[c], conn[c]) /\ conn[c].tls \in BOOLEAN
    BY <1>1 DEF IInv, AllSound, TypeOK, ConnState
  <2>2. conn[c].at \in {"toTLS", "tlsQ", "handshake"} \/ conn[c].tls => Intercepted(c)
    BY <2>1 DEF Sound, Intercepted
  <2>3. conn[c].at \in {"dial", "bounce", "tunnel"} =>
             /\ conn[c].dest # None
             /\ \/ Kind(c) = "tls" /\ ~Intercepted(c)
                \/ Kind(c) \in {"get", "other", "short"}
    BY <2>1 DEF Sound, Kind, Layer, Intercepted
  <2>4. ASSUME conn[c].at \in {"handler", "served"}
        PROVE  conn[c].tls <=> conn[c].k > 1 /\ script[c][conn[c].k - 1].kind = "tls"
    <3>1. CASE conn[c].tls
      BY <2>1, <2>4, <3>1 DEF Sound
    <3>2. CASE ~conn[c].tls
      BY <2>1, <2>4, <3>2 DEF Sound
    <3> QED BY <2>1, <3>1, <3>2
  <2> QED BY <2>2, <2>3, <2>4
<1> QED BY <1>1, Inductive, PTL

\* Destination and place, together.
THEOREM WellPlacedAlways == Spec => []WellPlaced
BY OwnDestinationAlways, PlacedRightlyAlways, PTL DEF WellPlaced

=============================================================================

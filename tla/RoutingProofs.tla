----------------------------- MODULE RoutingProofs -----------------------------
(***************************************************************************)
(* The properties of Routing, for any proxies, servers, configuration and  *)
(* number of hops.                                                         *)
(***************************************************************************)
EXTENDS RoutingProps, TLAPS

-----------------------------------------------------------------------------
(* What the operators return.                                              *)

\* AddVia makes a header of one more part, with the same ids in front.
LEMMA AddViaFacts ==
    ASSUME NEW via \in Seq(ViaPart), NEW id \in Ids
    PROVE  /\ AddVia(via, id) \in Seq(ViaPart)
           /\ Len(AddVia(via, id)) = Len(via) + 1
           /\ \A k \in 1..Len(via) : AddVia(via, id)[k].id = via[k].id
           /\ \A k \in 1..Len(via) : AddVia(via, id)[k].exact => via[k].exact
           /\ AddVia(via, id)[Len(via) + 1].id = id
<1>1. CASE via = <<>>
  <2>1. AddVia(via, id) = <<[id |-> id, exact |-> TRUE]>>
    BY <1>1 DEF AddVia
  <2> DEFINE e == [id |-> id, exact |-> TRUE]
  <2>2. e \in ViaPart /\ e.id = id
    BY DEF ViaPart
  <2>3. Len(via) = 0
    BY <1>1
  <2> HIDE DEF e
  <2>4. <<e>> \in Seq(ViaPart) /\ Len(<<e>>) = 1 /\ <<e>>[1] = e
    BY <2>2
  <2>5. AddVia(via, id) = <<e>>
    BY <2>1 DEF e
  <2> QED BY <2>2, <2>3, <2>4, <2>5
<1>2. CASE via # <<>>
  <2> DEFINE v == [k \in 1..Len(via) |->
                      [via[k] EXCEPT !.exact = via[k].exact /\ k \notin {1, Len(via)}]]
             e == [id |-> id, exact |-> FALSE]
  <2>1. AddVia(via, id) = Append(v, e)
    BY <1>2 DEF AddVia
  <2>2. e \in ViaPart /\ e.id = id
    BY DEF ViaPart
  <2>3. \A k \in 1..Len(via) : via[k] \in ViaPart
    OBVIOUS
  <2>4. \A k \in 1..Len(via) :
           v[k] \in ViaPart /\ v[k].id = via[k].id /\ (v[k].exact => via[k].exact)
    BY <2>3 DEF ViaPart
  <2>5. Len(via) \in Nat
    OBVIOUS
  <2>6. v \in Seq(ViaPart) /\ Len(v) = Len(via)
    <3>1. v \in [1..Len(via) -> ViaPart]
      BY <2>4
    <3> QED BY <3>1, <2>5
  <2> HIDE DEF v, e
  <2> QED BY <2>1, <2>2, <2>4, <2>5, <2>6
<1> QED BY <1>1, <1>2

\* The ids of a header, as a sequence.
LEMMA AddViaIds ==
    ASSUME NEW via \in Seq(ViaPart), NEW id \in Ids
    PROVE  ViaIds(AddVia(via, id)) = Append(ViaIds(via), id)
<1> DEFINE w == AddVia(via, id)
<1>1. /\ w \in Seq(ViaPart) /\ Len(w) = Len(via) + 1
      /\ \A k \in 1..Len(via) : w[k].id = via[k].id
      /\ w[Len(via) + 1].id = id
  BY AddViaFacts
<1> HIDE DEF w
<1>2. Len(via) \in Nat
  OBVIOUS
<1>3. \A k \in 1..Len(via) : via[k].id \in Ids
  <2>1. \A k \in 1..Len(via) : via[k] \in ViaPart
    OBVIOUS
  <2> QED BY <2>1 DEF ViaPart
<1>4. ViaIds(via) \in Seq(Ids) /\ Len(ViaIds(via)) = Len(via)
  BY <1>2, <1>3 DEF ViaIds
<1>5. Append(ViaIds(via), id) =
         [k \in 1..(Len(via) + 1) |-> IF k = Len(via) + 1 THEN id ELSE via[k].id]
  BY <1>2, <1>4 DEF ViaIds
<1>6. ViaIds(w) = [k \in 1..(Len(via) + 1) |-> w[k].id]
  BY <1>1 DEF ViaIds
<1>7. \A k \in 1..(Len(via) + 1) :
         w[k].id = IF k = Len(via) + 1 THEN id ELSE via[k].id
  BY <1>1, <1>2
<1>8. ViaIds(w) = Append(ViaIds(via), id)
  BY <1>5, <1>6, <1>7
<1> QED BY <1>8 DEF w

LEMMA WithPortFacts ==
    ASSUME NEW a \in Addresses, NEW tls \in BOOLEAN
    PROVE  /\ WithPort(a, tls) \in Addresses
           /\ WithPort(a, tls).host = a.host
           /\ WithPort(WithPort(a, tls), tls) = WithPort(a, tls)
           /\ WithPort(a, tls) # NoAddress
<1>1. CASE a \in [host : Servers, port : {NoPort, HTTP, HTTPS}]
  BY <1>1, RoutingAssumption
     DEF WithPort, Addresses, NoAddress, NoPort, HTTP, HTTPS, OwnPort
<1>2. CASE a \in [host : Proxies, port : {OwnPort}]
  BY <1>2, RoutingAssumption
     DEF WithPort, Addresses, NoAddress, NoPort, HTTP, HTTPS, OwnPort
<1> QED BY <1>1, <1>2 DEF Addresses

LEMMA AppendConcat ==
    ASSUME NEW s \in Seq(Ids), NEW t \in Seq(Ids), NEW e \in Ids
    PROVE  Append(s \o t, e) = s \o Append(t, e)
OBVIOUS

LEMMA InitInv == Init => IInv
<1> SUFFICES ASSUME Init PROVE IInv
  OBVIOUS
<1> USE DEF Init
<1>1. sent \in Calls /\ rpc = sent /\ sent.via \in Seq(ViaPart)
  BY RoutingAssumption DEF Calls
<1>2. TypeOK
  <2>1. path \in Seq(Proxies) /\ dump \in Seq(Calls) /\ Len(dump) <= 1
    <3>1. path = <<>> /\ dump = <<>>
      BY DEF NoDump
    <3> QED BY <3>1
  <2>2. /\ destination \in [Proxies -> MaybeAddress] /\ httpProxy \in [Proxies -> MaybeProxy]
        /\ outcome = "travelling" /\ replayed \in BOOLEAN
    OBVIOUS
  <2> QED BY <1>1, <2>1, <2>2 DEF TypeOK
<1>3. ViaRecordsPath
  <2>1. PathIds = <<>>
    BY DEF PathIds
  <2>2. ViaIds(sent.via) \in Seq(Ids)
    <3>1. \A k \in 1..Len(sent.via) : sent.via[k] \in ViaPart
      BY <1>1
    <3>2. Len(sent.via) \in Nat
      BY <1>1
    <3> QED BY <3>1, <3>2 DEF ViaPart, ViaIds
  <2> QED BY <2>1, <2>2 DEF ViaRecordsPath
<1>4. Fresh
  <2>1. rpc.at \in Proxies
    OBVIOUS
  <2> QED BY <2>1, RoutingAssumption DEF Fresh
<1>5. FirstHop /\ OnTheWay /\ ServedByServer /\ NoFalseAlarm /\ SelfLoopIsDetected
  BY DEF FirstHop, OnTheWay, ServedByServer, NoFalseAlarm, SelfLoopIsDetected
<1>6. ExactExplained
  BY DEF ExactExplained, Looped
<1> QED BY <1>2, <1>3, <1>4, <1>5, <1>6 DEF IInv

LEMMA MarkedFacts ==
    ASSUME NEW c \in Calls
    PROVE  /\ Marked(c) \in Calls
           /\ Marked(c).at = c.at /\ Marked(c).authority = c.authority
           /\ Marked(c).tls = c.tls /\ Marked(c).via = c.via
           /\ Marked(c).forwarded = (c.forwarded \/ c.tls)
BY DEF Marked, Calls

LEMMA HandledFacts ==
    ASSUME TypeOK, NEW p \in Proxies
    PROVE  /\ Handled(p) \in Calls
           /\ Handled(p).via = AddVia(rpc.via, IdOf[p])
           /\ Handled(p).forwarded = (rpc.forwarded \/ rpc.tls)
           /\ Handled(p).authority = rpc.authority
<1> DEFINE c == Marked(rpc)
           v == AddVia(rpc.via, IdOf[p])
<1>1. c \in Calls /\ c.via = rpc.via /\ c.forwarded = (rpc.forwarded \/ rpc.tls)
         /\ c.authority = rpc.authority
  BY MarkedFacts DEF TypeOK
<1>2. v \in Seq(ViaPart)
  <2>1. rpc.via \in Seq(ViaPart) /\ IdOf[p] \in Ids
    BY RoutingAssumption DEF TypeOK, Calls
  <2> QED BY <2>1, AddViaFacts
<1>3. Handled(p) = [c EXCEPT !.via = v]
  BY <1>1 DEF Handled
<1> HIDE DEF c, v
<1>4. /\ Handled(p) \in Calls /\ Handled(p).via = v
      /\ Handled(p).forwarded = c.forwarded /\ Handled(p).authority = c.authority
  BY <1>1, <1>2, <1>3 DEF Calls
<1> QED BY <1>1, <1>4 DEF v

\* A handler that gives up leaves the call where it is.
LEMMA EndsInv ==
    ASSUME IInv, NEW p \in Proxies,
           NoDestination(p) \/ LoopDetected(p) \/ NotReached(p)
    PROVE  IInv'
<1> USE DEF IInv
<1>1. /\ UNCHANGED <<destination, httpProxy, sent, rpc, path, replayed>>
      /\ rpc.at = p
      /\ outcome' \in {"Unimplemented", "LoopDetected", "NotReached"}
      /\ \E c \in Calls : dump' = Dumped(c)
  <2>1. Marked(rpc) \in Calls /\ Handled(p) \in Calls
    BY MarkedFacts, HandledFacts DEF TypeOK
  <2> QED BY <2>1 DEF NoDestination, LoopDetected, NotReached, Ends, config
<1>2. TypeOK'
  BY <1>1 DEF TypeOK, Dumped, NoDump
<1>3. ViaRecordsPath' /\ Fresh' /\ FirstHop' /\ ExactExplained' /\ SelfLoopIsDetected'
  BY <1>1 DEF ViaRecordsPath, Fresh, FirstHop, ExactExplained, SelfLoopIsDetected,
              PathIds
<1>4. OnTheWay' /\ ServedByServer'
  BY <1>1 DEF OnTheWay, Named, Secure, ServedByServer
<1>5. NoFalseAlarm'
  <2> SUFFICES ASSUME outcome' = "LoopDetected" PROVE NoFalseAlarm'
    BY DEF NoFalseAlarm
  <2>1. LoopDetected(p)
    BY DEF NoDestination, NotReached, Ends
  <2>2. Looped(rpc.via, IdOf[rpc.at])
    BY <1>1, <2>1, MarkedFacts DEF LoopDetected, TypeOK
  <2>3. PICK i \in 1..Len(rpc.via) : rpc.via[i].exact /\ rpc.via[i].id = IdOf[rpc.at]
    BY <2>2 DEF Looped
  <2>4. \/ \E k \in 1..Len(path) : IdOf[path[k]] = IdOf[rpc.at]
        \/ Looped(sent.via, IdOf[rpc.at])
    BY <2>3 DEF ExactExplained
  <2> QED BY <1>1, <2>4 DEF NoFalseAlarm
<1> QED BY <1>2, <1>3, <1>4, <1>5

LEMMA ServeInv == IInv /\ Serve => IInv'
<1> SUFFICES ASSUME IInv, Serve PROVE IInv'
  OBVIOUS
<1> USE DEF IInv
<1>1. /\ UNCHANGED <<destination, httpProxy, sent, rpc, path, dump, replayed>>
      /\ rpc.at \in Servers /\ outcome' = "served"
  BY DEF Serve, config
<1>2. TypeOK'
  BY <1>1 DEF TypeOK
<1>3. ViaRecordsPath' /\ Fresh' /\ FirstHop' /\ ExactExplained' /\ SelfLoopIsDetected'
  BY <1>1 DEF ViaRecordsPath, Fresh, FirstHop, ExactExplained, SelfLoopIsDetected,
              PathIds
<1>4. OnTheWay' /\ ServedByServer' /\ NoFalseAlarm'
  BY <1>1 DEF OnTheWay, Named, Secure, ServedByServer, NoFalseAlarm
<1> QED BY <1>2, <1>3, <1>4

\* A path that grows by p: which prefix facts survive.
LEMMA PathFacts ==
    ASSUME path \in Seq(Proxies), NEW p \in Proxies, path' = Append(path, p)
    PROVE  /\ path' \in Seq(Proxies) /\ path' # <<>>
           /\ Len(path) \in Nat /\ Len(path') = Len(path) + 1
           /\ path'[Len(path')] = p
           /\ \A k \in 1..Len(path) : path'[k] = path[k]
           /\ PathIds' = Append(PathIds, IdOf[p])
<1>1. /\ path' \in Seq(Proxies) /\ path' # <<>>
      /\ Len(path) \in Nat /\ Len(path') = Len(path) + 1
      /\ path'[Len(path')] = p
      /\ \A k \in 1..Len(path) : path'[k] = path[k]
  OBVIOUS
<1>2. \A k \in 1..Len(path) : path[k] \in Proxies
  OBVIOUS
<1>3. PathIds \in Seq(Ids) /\ Len(PathIds) = Len(path)
  BY <1>1, <1>2, RoutingAssumption DEF PathIds
<1>4. Append(PathIds, IdOf[p]) =
         [k \in 1..(Len(path) + 1) |-> IF k = Len(path) + 1 THEN IdOf[p]
                                                            ELSE IdOf[path[k]]]
  BY <1>1, <1>3 DEF PathIds
<1>5. PathIds' = [k \in 1..(Len(path) + 1) |-> IdOf[path'[k]]]
  BY <1>1 DEF PathIds
<1>6. \A k \in 1..(Len(path) + 1) :
         IdOf[path'[k]] = IF k = Len(path) + 1 THEN IdOf[p] ELSE IdOf[path[k]]
  BY <1>1
<1> QED BY <1>1, <1>4, <1>5, <1>6

\* The destination a proxy takes is one that was named, with the port of its kind.
LEMMA TargetNamed ==
    ASSUME IInv, NEW p \in Proxies, Forward(p)
    PROVE  /\ rpc'.tls = Secure' /\ rpc'.forwarded = Secure'
           /\ \E a \in Addresses :
                 /\ Named(a)'
                 /\ rpc'.authority = WithPort(a, Secure')
                 /\ rpc'.at \in Servers => rpc'.at = a.host
<1> USE DEF IInv
<1> DEFINE c == Marked(rpc)
           t == Target(p, c)
           a == WithPort(t, c.forwarded)
<1>0. rpc \in Calls /\ sent \in Calls /\ path \in Seq(Proxies)
  BY DEF TypeOK
<1>1. /\ c \in Calls /\ c.authority = rpc.authority
      /\ c.forwarded = (rpc.forwarded \/ rpc.tls)
  BY <1>0, MarkedFacts
<1>2. /\ rpc.at = p /\ t # NoAddress /\ Answers(a, c.forwarded)
      /\ rpc' = [Handled(p) EXCEPT !.at = Reached(httpProxy[p], a),
                                   !.authority = a, !.tls = c.forwarded]
      /\ path' = Append(path, p)
      /\ UNCHANGED <<destination, httpProxy, sent>>
  BY DEF Forward, config
<1>3. Handled(p) \in Calls /\ Handled(p).forwarded = (rpc.forwarded \/ rpc.tls)
  BY HandledFacts
<1>4. t \in Addresses
  <2>1. destination[p] \in MaybeAddress /\ c.authority \in MaybeAddress
    BY <1>1 DEF TypeOK, Calls
  <2> QED BY <1>2, <2>1 DEF Target, MaybeAddress
<1>5. c.forwarded \in BOOLEAN
  BY <1>1 DEF Calls
<1>6. a \in Addresses /\ a.host = t.host
  BY <1>4, <1>5, WithPortFacts
<1>7. Secure' = Secure /\ Secure \in BOOLEAN
  BY <1>0, <1>2 DEF Secure, Calls
<1>8. c.forwarded = Secure
  <2>1. CASE path = <<>>
    BY <2>1, <1>1 DEF Fresh, Secure
  <2>2. CASE path # <<>>
    BY <2>2, <1>1, <1>7 DEF OnTheWay
  <2> QED BY <2>1, <2>2
<1>9. /\ rpc'.at = Reached(httpProxy[p], a) /\ rpc'.authority = a
      /\ rpc'.tls = c.forwarded /\ rpc'.forwarded = Handled(p).forwarded
  BY <1>2, <1>3 DEF Calls
<1>10. rpc'.tls = Secure' /\ rpc'.forwarded = Secure'
  BY <1>1, <1>3, <1>7, <1>8, <1>9
<1>11. rpc'.at \in Servers => rpc'.at = t.host
  <2>1. httpProxy[p] \in MaybeProxy
    BY DEF TypeOK
  <2>2. Reached(httpProxy[p], a) = a.host \/ Reached(httpProxy[p], a) \in Proxies
    BY <2>1 DEF Reached, MaybeProxy
  <2> QED BY <1>6, <1>9, <2>2, RoutingAssumption
<1>12. /\ Len(path) \in Nat /\ Len(path') = Len(path) + 1
       /\ path'[Len(path')] = p
       /\ \A k \in 1..Len(path) : path'[k] = path[k]
  BY <1>0, <1>2, PathFacts
<1> HIDE DEF c, t, a
<1>13. PICK d \in Addresses : d = t
  BY <1>4
<1>14. a = WithPort(d, Secure) /\ d.host = t.host
  BY <1>8, <1>13 DEF a
<1>15. ASSUME NEW b \in Addresses, Named(b) PROVE Named(b)'
  <2>1. \A k \in 1..Len(path) : k \in 1..Len(path') /\ destination'[path'[k]] = destination[path[k]]
    BY <1>2, <1>12
  <2> QED BY <1>15, <2>1, <1>2 DEF Named
<1>16. CASE destination[p] # NoAddress
  <2>1. d = destination[p]
    BY <1>13, <1>16 DEF Target, t
  <2>2. Len(path') \in 1..Len(path') /\ d = destination'[path'[Len(path')]]
    BY <2>1, <1>2, <1>12
  <2>3. Named(d)'
    BY <2>2 DEF Named
  <2> QED BY <2>3, <1>7, <1>9, <1>10, <1>11, <1>13, <1>14
<1>17. CASE destination[p] = NoAddress
  <2>1. d = rpc.authority
    BY <1>1, <1>13, <1>17 DEF Target, t
  <2>2. CASE path = <<>>
    <3>1. Named(d)'
      BY <2>1, <2>2, <1>2 DEF Named, Fresh
    <3> QED BY <3>1, <1>7, <1>9, <1>10, <1>11, <1>13, <1>14
  <2>3. CASE path # <<>>
    <3>1. PICK b \in Addresses : Named(b) /\ rpc.authority = WithPort(b, Secure)
      BY <2>3 DEF OnTheWay
    <3>2. Named(b)'
      BY <3>1, <1>15
    <3>3. t.host = b.host /\ a = WithPort(b, Secure)
      <4>1. WithPort(d, Secure) = WithPort(b, Secure) /\ d.host = b.host
        BY <2>1, <3>1, <1>7, WithPortFacts
      <4> QED BY <4>1, <1>13, <1>14
    <3> QED BY <3>2, <3>3, <1>7, <1>9, <1>10, <1>11
  <2> QED BY <2>2, <2>3
<1> QED BY <1>16, <1>17

LEMMA ForwardInv ==
    ASSUME IInv, NEW p \in Proxies, Forward(p)
    PROVE  IInv'
<1> USE DEF IInv
<1> DEFINE h == Handled(p)
           w == AddVia(rpc.via, IdOf[p])
<1>0. /\ rpc \in Calls /\ sent \in Calls /\ path \in Seq(Proxies)
      /\ rpc.via \in Seq(ViaPart) /\ sent.via \in Seq(ViaPart) /\ IdOf[p] \in Ids
  BY RoutingAssumption DEF TypeOK, Calls
<1>1. h \in Calls /\ h.via = w
  BY HandledFacts
<1>2. /\ path' = Append(path, p) /\ dump' = Dumped(h)
      /\ UNCHANGED <<destination, httpProxy, sent, outcome, replayed>>
      /\ outcome = "travelling" /\ ~Looped(rpc.via, IdOf[p])
  <2>1. Marked(rpc).via = rpc.via
    BY <1>0, MarkedFacts
  <2> QED BY <2>1 DEF Forward, config
<1>3. /\ path' \in Seq(Proxies) /\ path' # <<>>
      /\ Len(path) \in Nat /\ Len(path') = Len(path) + 1
      /\ path'[Len(path')] = p
      /\ \A k \in 1..Len(path) : path'[k] = path[k]
      /\ PathIds' = Append(PathIds, IdOf[p])
  BY <1>0, <1>2, PathFacts
<1>4. /\ w \in Seq(ViaPart) /\ Len(w) = Len(rpc.via) + 1 /\ Len(rpc.via) \in Nat
      /\ \A k \in 1..Len(rpc.via) : w[k].id = rpc.via[k].id
      /\ \A k \in 1..Len(rpc.via) : w[k].exact => rpc.via[k].exact
      /\ w[Len(rpc.via) + 1].id = IdOf[p]
  <2>1. Len(rpc.via) \in Nat
    BY <1>0
  <2> QED BY <2>1, <1>0, AddViaFacts
<1>5. rpc' \in Calls /\ rpc'.via = w
  <2> DEFINE c == Marked(rpc)
             a == WithPort(Target(p, c), c.forwarded)
             r == Reached(httpProxy[p], a)
  <2>1. c \in Calls /\ c.authority = rpc.authority
    BY <1>0, MarkedFacts
  <2>2. Target(p, c) \in Addresses
    <3>1. destination[p] \in MaybeAddress /\ c.authority \in MaybeAddress
      BY <2>1 DEF TypeOK, Calls
    <3> QED BY <3>1 DEF Target, MaybeAddress, Forward
  <2>3. c.forwarded \in BOOLEAN
    BY <2>1 DEF Calls
  <2>4. a \in Addresses /\ a.host = Target(p, c).host
    BY <2>2, <2>3, WithPortFacts
  <2>5. a.host \in Proxies \cup Servers
    BY <2>4 DEF Addresses
  <2>6. r \in Proxies \cup Servers
    BY <2>5 DEF Reached, TypeOK, MaybeProxy
  <2>7. rpc' = [h EXCEPT !.at = r, !.authority = a, !.tls = c.forwarded]
    BY DEF Forward
  <2> HIDE DEF c, a, r, h
  <2> QED BY <1>1, <2>3, <2>4, <2>6, <2>7 DEF Calls, MaybeAddress
<1> HIDE DEF h, w
<1>6. TypeOK'
  BY <1>1, <1>2, <1>3, <1>5 DEF TypeOK, Dumped, NoDump
<1>7. ViaRecordsPath'
  <2>1. ViaIds(rpc'.via) = Append(ViaIds(rpc.via), IdOf[p])
    BY <1>0, <1>5, AddViaIds DEF w
  <2>2. ViaIds(rpc.via) = ViaIds(sent.via) \o PathIds
    BY DEF ViaRecordsPath
  <2>3. ViaIds(sent.via) \in Seq(Ids) /\ PathIds \in Seq(Ids)
    <3>1. \A k \in 1..Len(sent.via) : sent.via[k] \in ViaPart
      BY <1>0
    <3>2. \A k \in 1..Len(path) : path[k] \in Proxies
      BY <1>0
    <3>3. Len(sent.via) \in Nat
      BY <1>0
    <3> QED BY <3>1, <3>2, <3>3, <1>3, RoutingAssumption DEF ViaIds, PathIds, ViaPart
  <2>4. Append(ViaIds(sent.via) \o PathIds, IdOf[p])
           = ViaIds(sent.via) \o Append(PathIds, IdOf[p])
    <3> HIDE DEF IInv
    <3>1. IdOf[p] \in Ids
      BY <1>0
    <3> DEFINE u == ViaIds(sent.via)
               v == PathIds
    <3>2. u \in Seq(Ids) /\ v \in Seq(Ids)
      BY <2>3
    <3> HIDE DEF u, v
    <3>3. Append(u \o v, IdOf[p]) = u \o Append(v, IdOf[p])
      BY <3>1, <3>2, AppendConcat
    <3> QED BY <3>3 DEF u, v
  <2>5. ViaIds(sent'.via) = ViaIds(sent.via)
    BY <1>2
  <2> QED BY <2>1, <2>2, <2>4, <2>5, <1>3 DEF ViaRecordsPath
<1>8. Fresh'
  BY <1>3 DEF Fresh
<1>9. FirstHop'
  <2> SUFFICES ASSUME sent'.via = <<>>, Len(path') = 1
               PROVE  Len(rpc'.via) = 1 /\ rpc'.via[1].exact
                        /\ rpc'.via[1].id = IdOf[path'[1]]
    BY DEF FirstHop
  <2>1. path = <<>> /\ rpc.via = <<>>
    BY <1>0, <1>2, <1>3 DEF Fresh
  <2>2. rpc'.via = <<[id |-> IdOf[p], exact |-> TRUE]>>
    BY <2>1, <1>5 DEF w, AddVia
  <2> QED BY <2>2, <1>3
<1>10. ExactExplained'
  <2> SUFFICES ASSUME NEW i \in 1..Len(rpc'.via), rpc'.via[i].exact
               PROVE  \/ \E k \in 1..Len(path') : IdOf[path'[k]] = rpc'.via[i].id
                      \/ Looped(sent'.via, rpc'.via[i].id)
    BY DEF ExactExplained
  <2>1. CASE i = Len(rpc.via) + 1
    <3>1. rpc'.via[i].id = IdOf[path'[Len(path')]]
      BY <2>1, <1>3, <1>4, <1>5
    <3>2. Len(path') \in 1..Len(path')
      BY <1>3
    <3> QED BY <3>1, <3>2
  <2>2. CASE i # Len(rpc.via) + 1
    <3>1. i \in 1..Len(rpc.via)
      BY <2>2, <1>4, <1>5
    <3>2. rpc'.via[i].id = rpc.via[i].id /\ rpc.via[i].exact
      BY <3>1, <1>4, <1>5
    <3>3. \/ \E k \in 1..Len(path) : IdOf[path[k]] = rpc.via[i].id
          \/ Looped(sent.via, rpc.via[i].id)
      BY <3>1, <3>2 DEF ExactExplained
    <3>4. ASSUME NEW k \in 1..Len(path), IdOf[path[k]] = rpc.via[i].id
          PROVE  k \in 1..Len(path') /\ IdOf[path'[k]] = rpc'.via[i].id
      BY <3>2, <3>4, <1>3
    <3> QED BY <3>2, <3>3, <3>4, <1>2
  <2> QED BY <2>1, <2>2
<1>11. OnTheWay'
  BY TargetNamed DEF OnTheWay
<1>12. ServedByServer' /\ NoFalseAlarm'
  BY <1>2 DEF ServedByServer, NoFalseAlarm
<1>13. SelfLoopIsDetected'
  <2> SUFFICES ASSUME sent'.via = <<>>, Len(path') >= 2
               PROVE  path'[1] # path'[2]
    BY DEF SelfLoopIsDetected
  <2>1. sent.via = <<>>
    BY <1>2
  <2>2. CASE Len(path) = 1
    <3>1. Len(rpc.via) = 1 /\ rpc.via[1].exact /\ rpc.via[1].id = IdOf[path[1]]
      BY <2>1, <2>2 DEF FirstHop
    <3>2. IdOf[path[1]] # IdOf[p]
      BY <3>1, <1>2 DEF Looped
    <3>3. path'[1] = path[1] /\ path'[2] = p
      BY <2>2, <1>3
    <3> QED BY <3>2, <3>3
  <2>3. CASE Len(path) # 1
    <3>0. Len(path) \in Nat /\ Len(path') = Len(path) + 1
      BY <1>3
    <3>1. Len(path) >= 2
      <4> DEFINE n == Len(path)
      <4>1. n \in Nat /\ n + 1 >= 2 /\ n # 1
        BY <2>3, <3>0
      <4> HIDE DEF n
      <4>2. n >= 2
        BY <4>1
      <4> QED BY <4>2 DEF n
    <3>2. path'[1] = path[1] /\ path'[2] = path[2]
      BY <3>1, <1>3
    <3> QED BY <3>1, <3>2, <2>1 DEF SelfLoopIsDetected
  <2> QED BY <2>2, <2>3
<1> QED BY <1>6, <1>7, <1>8, <1>9, <1>10, <1>11, <1>12, <1>13

LEMMA ReplayInv ==
    ASSUME IInv, NEW o \in MaybeAddress, NEW e \in MaybeProxy, Replay(o, e)
    PROVE  IInv'
<1> USE DEF IInv
<1> DEFINE c == dump[1]
           a == IF o # NoAddress THEN o ELSE c.authority
           r == Reached(e, a)
<1>1. c \in Calls
  BY DEF TypeOK, Replay, NoDump
<1>2. /\ a # NoAddress /\ Answers(a, c.forwarded)
      /\ rpc' = [c EXCEPT !.at = r, !.authority = a, !.tls = c.forwarded,
                          !.forwarded = FALSE]
      /\ sent' = rpc' /\ path' = <<>> /\ outcome' = "travelling" /\ replayed' = TRUE
      /\ UNCHANGED <<destination, httpProxy, dump>>
  BY DEF Replay, config
<1>3. a \in Addresses
  BY <1>1, <1>2 DEF MaybeAddress, Calls
<1>4. a.host \in Proxies \cup Servers
  BY <1>3 DEF Addresses
<1>5. r \in Proxies \cup Servers /\ (r \in Servers => r = a.host)
  BY <1>4, RoutingAssumption DEF Reached, MaybeProxy
<1>6. c.forwarded \in BOOLEAN
  BY <1>1 DEF Calls
<1> HIDE DEF c, a, r
<1>7. /\ rpc' \in Calls /\ rpc'.at = r /\ rpc'.authority = a
      /\ rpc'.tls = c.forwarded /\ rpc'.forwarded = FALSE
  BY <1>1, <1>2, <1>3, <1>5, <1>6 DEF Calls, MaybeAddress
<1>8. TypeOK'
  BY <1>2, <1>7 DEF TypeOK
<1>9. ViaRecordsPath'
  <2>1. PathIds' = <<>>
    BY <1>2 DEF PathIds
  <2>2. rpc'.via \in Seq(ViaPart)
    BY <1>7 DEF Calls
  <2>3. ViaIds(rpc'.via) \in Seq(Ids)
    <3>1. \A k \in 1..Len(rpc'.via) : rpc'.via[k] \in ViaPart
      BY <2>2
    <3>2. Len(rpc'.via) \in Nat
      BY <2>2
    <3> QED BY <3>1, <3>2 DEF ViaPart, ViaIds
  <2> QED BY <1>2, <2>1, <2>3 DEF ViaRecordsPath
<1>10. Fresh'
  <2> SUFFICES ASSUME r \in Servers
               PROVE  a \in Addresses /\ r = a.host /\ WithPort(a, c.forwarded) = a
    BY <1>2, <1>7 DEF Fresh
  <2>1. a.host \notin Proxies
    BY <1>5, RoutingAssumption
  <2>2. a.port # NoPort
    BY <1>2, <2>1 DEF Answers, NoPort, HTTP, HTTPS
  <2> QED BY <2>2, <1>3, <1>5 DEF WithPort
<1>11. FirstHop' /\ OnTheWay' /\ ServedByServer' /\ NoFalseAlarm' /\ SelfLoopIsDetected'
  BY <1>2 DEF FirstHop, OnTheWay, ServedByServer, NoFalseAlarm, SelfLoopIsDetected
<1>12. ExactExplained'
  BY <1>2 DEF ExactExplained, Looped
<1> QED BY <1>8, <1>9, <1>10, <1>11, <1>12

-----------------------------------------------------------------------------
(* The theorems.                                                           *)

\* The inductive invariant: type correctness, the header and the path, the parts
\* that can match, and the address and marker between two proxies. It holds for
\* whatever AddLoopCheck and calculateDestination are given.
THEOREM Inductive == Spec => []IInv
<1>1. IInv /\ [Next]_vars => IInv'
  <2> SUFFICES ASSUME IInv, [Next]_vars PROVE IInv'
    OBVIOUS
  <2>1. ASSUME NEW p \in Proxies, Handle(p) PROVE IInv'
    BY <2>1, EndsInv, ForwardInv DEF Handle
  <2>2. CASE Serve
    BY <2>2, ServeInv
  <2>3. ASSUME NEW o \in MaybeAddress, NEW e \in MaybeProxy, Replay(o, e) PROVE IInv'
    BY <2>3, ReplayInv
  <2>4. CASE UNCHANGED vars
    <3>1. UNCHANGED <<destination, httpProxy, sent, rpc, path, outcome, dump, replayed>>
      BY <2>4 DEF vars, config
    <3>2. TypeOK' /\ FirstHop' /\ ServedByServer' /\ SelfLoopIsDetected'
      BY <3>1 DEF IInv, TypeOK, FirstHop, ServedByServer, SelfLoopIsDetected
    <3>3. ViaRecordsPath'
      BY <3>1 DEF IInv, ViaRecordsPath, PathIds
    <3>4. Fresh'
      BY <3>1 DEF IInv, Fresh
    <3>5. ExactExplained' /\ NoFalseAlarm'
      BY <3>1 DEF IInv, ExactExplained, NoFalseAlarm
    <3>6. OnTheWay'
      BY <3>1 DEF IInv, OnTheWay, Named, Secure
    <3> QED BY <3>2, <3>3, <3>4, <3>5, <3>6 DEF IInv
  <2> QED BY <2>1, <2>2, <2>3, <2>4 DEF Next, Over
<1> QED BY InitInv, <1>1, PTL DEF Spec

\* Every variable keeps its type.
THEOREM TypeCorrect == Spec => []TypeOK
<1>1. IInv => TypeOK
  BY DEF IInv
<1> QED BY Inductive, <1>1, PTL

\* The header that AddLoopCheck keeps rewriting names the whole path.
THEOREM ViaIsComplete == Spec => []ViaRecordsPath
<1>1. IInv => ViaRecordsPath
  BY DEF IInv
<1> QED BY Inductive, <1>1, PTL

\* The loop check rejects only what has passed its id, or claimed to.
THEOREM AlarmsAreTrue == Spec => []NoFalseAlarm
<1>1. IInv => NoFalseAlarm
  BY DEF IInv
<1> QED BY Inductive, <1>1, PTL

\* A first proxy that forwards to itself is stopped.
THEOREM SelfLoopsEnd == Spec => []SelfLoopIsDetected
<1>1. IInv => SelfLoopIsDetected
  BY DEF IInv
<1> QED BY Inductive, <1>1, PTL

\* The loop check rejects nothing else, and not less than that.
THEOREM LoopChecked == Spec => []LoopCheckIsRight
BY AlarmsAreTrue, SelfLoopsEnd, PTL DEF LoopCheckIsRight

\* A served call has reached a server that was named to its path, over the kind of
\* connection it was sent for.
THEOREM ServedAsNamed == Spec => []RightServer
<1>1. IInv => RightServer
  <2> SUFFICES ASSUME IInv, outcome = "served"
               PROVE  \E a \in Addresses :
                         /\ Named(a) /\ rpc.at = a.host
                         /\ rpc.authority = WithPort(a, Secure) /\ rpc.tls = Secure
    BY DEF RightServer
  <2>1. rpc.at \in Servers
    BY DEF IInv, ServedByServer
  <2>2. CASE path # <<>>
    BY <2>1, <2>2 DEF IInv, OnTheWay
  <2>3. CASE path = <<>>
    <3>1. /\ rpc = sent /\ sent.authority \in Addresses /\ rpc.at = sent.authority.host
          /\ WithPort(sent.authority, sent.tls) = sent.authority /\ ~sent.forwarded
      BY <2>1, <2>3 DEF IInv, Fresh
    <3>2. Secure = sent.tls
      BY <3>1 DEF Secure, IInv, TypeOK, Calls
    <3>3. Named(sent.authority)
      BY <2>3 DEF Named
    <3> QED BY <3>1, <3>2, <3>3
  <2> QED BY <2>2, <2>3
<1> QED BY Inductive, <1>1, PTL

=============================================================================

------------------------------ MODULE ReplayProofs ------------------------------
(***************************************************************************)
(* What grpc-fixture answers, for any dump, with any number of clients and *)
(* with a replay among them: the tree that it builds is that of all the    *)
(* beginnings of the recorded calls, and a call goes down it. And what the *)
(* verdicts of the replay are worth.                                       *)
(***************************************************************************)
EXTENDS Replay, SequenceTheorems, WellFoundedInduction, TLAPS

-----------------------------------------------------------------------------
(* The inductive invariant: every node stands for the beginning of a call. *)

Nodes == 1..Len(nodes)
MessageOf == [n \in Nodes |-> [from |-> nodes[n].from, body |-> nodes[n].body]]

\* The first k messages of a recorded call, one message more, and no message.
UpTo(r, k) == [method |-> r.method, messages |-> SubSeq(r.messages, 1, k)]
Further(r, m) == [method |-> r.method, messages |-> Append(r.messages, m)]
Nothing(m) == [method |-> m, messages |-> <<>>]

\* How many messages of a line have been added; what the tree is to be of, and which of it
\* is a call.
Added == [l \in 1..line |-> IF l = line THEN pos ELSE Len(dump[l].messages)]
Known == UNION {{UpTo(dump[l], k) : k \in 0..Added[l]} : l \in 1..line}
Whole == {dump[l] : l \in {n \in 1..line : Added[n] = Len(dump[n].messages)}}

Begun(l) == {UpTo(dump[l], k) : k \in 0..Added[l]}

Roots(place) == \A m \in Methods : root[m] # NoNode => place[root[m]] = Nothing(m)
Links(place) ==
    \A n \in Nodes : \A c \in Range(nodes[n].next) :
       c \in Nodes /\ place[c] = Further(place[n], MessageOf[c]) /\ MessageOf[c] \in Message
Parents(place) ==
    \A n \in Nodes :
       \/ place[n].messages = <<>> /\ n = root[place[n].method]
       \/ \E p \in Nodes : n \in Range(nodes[p].next)
OneEach(place) == \A n, k \in Nodes : place[n] = place[k] => n = k
Exact(place) ==
    /\ \A n \in Nodes : place[n] \in Known
    /\ \A r \in Known : \E n \in Nodes : place[n] = r
\* A node without successors is the end of a call, or the one to which they will be added.
Leaves(place) ==
    \A n \in Nodes : nodes[n].next = <<>> => place[n] \in Whole \/ (n = node /\ ~LineDone)
Cursor(place) ==
    line > 0 => /\ node \in Nodes /\ place[node] = UpTo(Current, pos)
                /\ pos <= Len(Current.messages)

\* Nodes are as old as the lines that brought them, and a node's next ones in their order.
Older(place) ==
    \A a, b \in Nodes : \A l \in 1..line :
       a < b /\ place[b] \in Begun(l) => \E k \in 1..l : place[a] \in Begun(k)
Rising ==
    \A n \in Nodes : \A i, j \in DOMAIN nodes[n].next :
       i < j => nodes[n].next[i] < nodes[n].next[j]

Tree(place) ==
    /\ place \in [Nodes -> Recording]
    /\ Roots(place) /\ Links(place) /\ Parents(place) /\ OneEach(place) /\ Exact(place)
    /\ Leaves(place) /\ Cursor(place) /\ Older(place) /\ Rising

\* Where a call is in the tree is what it has exchanged.
At(c, place) ==
    call[c].pc = "loop" =>
       /\ call[c].at \in Nodes
       /\ place[call[c].at] = [method |-> call[c].wants.method, messages |-> call[c].seen]

\* Nothing is served before all has been loaded.
Serving ==
    /\ phase = "serving" => LineDone /\ line = Len(dump)
    /\ \A c \in Calls : /\ call[c].pc # "idle" => phase = "serving"
                        /\ call[c].pc # "ended" => call[c].status = "none"

OkIsWhole ==
    \A c \in Calls : call[c].status = "ok" =>
       \E r \in Range(dump) : r.method = call[c].wants.method /\ r.messages = call[c].seen

Standing == \E place : Tree(place) /\ \A c \in Calls : At(c, place)

IInv == TypeOK /\ Serving /\ OkIsWhole /\ RefusalIsJust /\ Standing

-----------------------------------------------------------------------------
(* Sequences and recordings.                                               *)

LEMMA AppendEqual ==
    ASSUME NEW S, NEW p \in Seq(S), NEW q \in Seq(S), NEW x \in S, NEW y \in S,
           Append(p, x) = Append(q, y)
    PROVE  p = q /\ x = y
<1>1. PICK a : a = Append(p, x) /\ a = Append(q, y)
  OBVIOUS
<1>2. /\ Len(a) = Len(p) + 1 /\ a[Len(p) + 1] = x /\ \A i \in 1..Len(p) : a[i] = p[i]
      /\ Len(a) = Len(q) + 1 /\ a[Len(q) + 1] = y /\ \A i \in 1..Len(q) : a[i] = q[i]
  BY <1>1, AppendProperties
<1>3. Len(p) \in Nat /\ Len(q) \in Nat
  OBVIOUS
<1>4. Len(p) = Len(q)
  BY <1>2, <1>3
<1>5. \A i \in 1..Len(p) : p[i] = q[i]
  BY <1>2, <1>4
<1>6. p = q
  BY <1>4, <1>5, SeqEqual
<1> QED BY <1>2, <1>4, <1>6

LEMMA UpToNext ==
    ASSUME NEW S, NEW q \in Seq(S), NEW k \in Nat, k < Len(q)
    PROVE  SubSeq(q, 1, k + 1) = Append(SubSeq(q, 1, k), q[k + 1])
<1>1. Len(q) \in Nat /\ \A i \in 1..Len(q) : q[i] \in S
  OBVIOUS
<1>2. PICK a, b, x : a = SubSeq(q, 1, k) /\ b = SubSeq(q, 1, k + 1) /\ x = q[k + 1]
  OBVIOUS
<1>3. x \in S
  BY <1>1, <1>2
<1>4. a \in Seq(S) /\ Len(a) = k /\ \A i \in 1..k : a[i] = q[i]
  BY <1>1, <1>2, SubSeqProperties
<1>5. b \in Seq(S) /\ Len(b) = k + 1 /\ \A i \in 1..(k + 1) : b[i] = q[i]
  BY <1>1, <1>2, SubSeqProperties
<1>6. PICK c : c = Append(a, x)
  OBVIOUS
<1>7. c \in Seq(S) /\ Len(c) = k + 1 /\ c[k + 1] = x /\ \A i \in 1..k : c[i] = a[i]
  BY <1>3, <1>4, <1>6, AppendProperties
<1>8. ASSUME NEW i \in 1..(k + 1) PROVE b[i] = c[i]
  <2>1. i \in 1..k \/ i = k + 1
    OBVIOUS
  <2> QED BY <1>2, <1>4, <1>5, <1>7, <2>1
<1>9. b = c
  BY <1>5, <1>7, <1>8, SeqEqual
<1> QED BY <1>2, <1>6, <1>9

LEMMA Fields ==
    /\ \A r : r \in Recording => /\ r.method \in Methods /\ r.messages \in Seq(Message)
                                 /\ Len(r.messages) \in Nat
                                 /\ r = [method |-> r.method, messages |-> r.messages]
    /\ \A m \in Methods : \A q \in Seq(Message) : [method |-> m, messages |-> q] \in Recording
BY DEF Recording

LEMMA Beginnings ==
    ASSUME NEW r, r \in Recording
    PROVE  /\ UpTo(r, 0) = Nothing(r.method) /\ UpTo(r, Len(r.messages)) = r
           /\ \A k \in 0..Len(r.messages) :
                 UpTo(r, k) \in Recording /\ Len(UpTo(r, k).messages) = k
           /\ \A k \in 0..(Len(r.messages) - 1) :
                 UpTo(r, k + 1) = Further(UpTo(r, k), r.messages[k + 1])
<1>1. PICK q : q = r.messages
  OBVIOUS
<1>2. /\ q \in Seq(Message) /\ Len(q) \in Nat /\ r.method \in Methods
      /\ r = [method |-> r.method, messages |-> q]
  BY <1>1, Fields
<1>3. SubSeq(q, 1, 0) = <<>>
  BY SubSeqEmpty
<1>4. SubSeq(q, 1, Len(q)) = q
  BY <1>2, SubSeqFull
<1>5. ASSUME NEW k \in 0..Len(q)
      PROVE  SubSeq(q, 1, k) \in Seq(Message) /\ Len(SubSeq(q, 1, k)) = k
  <2>1. \A i \in 1..k : q[i] \in Message
    BY <1>2
  <2> QED BY <1>2, <2>1, SubSeqProperties
<1>6. ASSUME NEW k \in 0..(Len(q) - 1)
      PROVE  SubSeq(q, 1, k + 1) = Append(SubSeq(q, 1, k), q[k + 1])
  BY <1>2, UpToNext
<1>7. \A k \in 0..Len(q) : UpTo(r, k) \in Recording /\ Len(UpTo(r, k).messages) = k
  BY <1>1, <1>2, <1>5, Fields DEF UpTo
<1>8. \A k \in 0..(Len(q) - 1) : UpTo(r, k + 1) = Further(UpTo(r, k), r.messages[k + 1])
  BY <1>1, <1>6 DEF UpTo, Further
<1>9. UpTo(r, 0) = Nothing(r.method) /\ UpTo(r, Len(q)) = r
  BY <1>1, <1>2, <1>3, <1>4 DEF UpTo, Nothing
<1> QED BY <1>1, <1>7, <1>8, <1>9

\* A call that has gone further tells from where, and with which message.
LEMMA FurtherEqual ==
    /\ \A r, s \in Recording : \A m, n \in Message :
          Further(r, m) = Further(s, n) => r = s /\ m = n
    /\ \A r \in Recording : \A m \in Message :
          Further(r, m) \in Recording /\ Further(r, m).messages # <<>>
<1>1. ASSUME NEW r \in Recording, NEW m \in Message
      PROVE  Further(r, m) \in Recording /\ Further(r, m).messages # <<>>
  <2>1. Append(r.messages, m) \in Seq(Message) /\ Append(r.messages, m) # <<>>
    BY <1>1, Fields, AppendProperties
  <2> QED BY <1>1, <2>1, Fields DEF Further
<1>2. ASSUME NEW r \in Recording, NEW s \in Recording, NEW m \in Message, NEW n \in Message,
             Further(r, m) = Further(s, n)
      PROVE  r = s /\ m = n
  <2>1. r.method = s.method /\ Append(r.messages, m) = Append(s.messages, n)
    BY <1>2 DEF Further
  <2>2. r.messages \in Seq(Message) /\ s.messages \in Seq(Message)
    BY <1>2, Fields
  <2>3. r.messages = s.messages /\ m = n
    BY <1>2, <2>1, <2>2, AppendEqual
  <2> QED BY <1>2, <2>1, <2>3, Fields
<1> QED BY <1>1, <1>2

-----------------------------------------------------------------------------
(* The beginning.                                                          *)

LEMMA IdleCall == Idle \in CallState
<1>1. Unasked \in Recording
  <2>1. (CHOOSE m \in Methods : TRUE) \in Methods
    BY FixtureAssumption
  <2> QED BY <2>1, Fields, EmptySeq DEF Unasked
<1>2. <<>> \in Seq(Message)
  BY EmptySeq
<1> QED BY <1>1, <1>2 DEF Idle, CallState, NoNode

LEMMA InitInv == Init => IInv
<1> SUFFICES ASSUME Init PROVE IInv
  OBVIOUS
<1>1. /\ dump \in Dumps /\ phase = "loading" /\ line = 0 /\ pos = 0 /\ node = 0 /\ nodes = <<>>
      /\ root = [m \in Methods |-> 0] /\ call = [c \in Calls |-> Idle]
  BY DEF Init, NoNode
<1>2. Len(nodes) = 0 /\ nodes \in Seq(Node) /\ Nodes = {} /\ Len(dump) \in Nat
  BY <1>1, EmptySeq, FixtureAssumption DEF Nodes
<1>3. TypeOK
  BY <1>1, <1>2, IdleCall DEF TypeOK
<1>4. /\ \A c \in Calls : call[c].pc = "idle" /\ call[c].status = "none"
      /\ Serving /\ OkIsWhole /\ RefusalIsJust
  BY <1>1 DEF Idle, Serving, OkIsWhole, RefusalIsJust
<1>5. Standing
  <2>1. PICK place : place = [n \in {} |-> 0]
    OBVIOUS
  <2>2. Tree(place)
    <3>1. Known = {}
      BY <1>1 DEF Known
    <3> QED BY <1>1, <1>2, <2>1, <3>1 DEF Tree, Roots, Links, Parents, OneEach, Exact, Leaves, Cursor, Older, Rising, NoNode
  <2> QED BY <1>4, <2>2 DEF Standing, At
<1> QED BY <1>3, <1>4, <1>5 DEF IInv

-----------------------------------------------------------------------------
(* Loading.                                                                *)

\* What is known of the dump and the cursor.
LEMMA Lines ==
    ASSUME IInv
    PROVE  /\ dump \in Seq(Recording) /\ Len(dump) \in Nat /\ line \in Nat /\ line <= Len(dump)
           /\ \A l \in 1..Len(dump) : dump[l] \in Recording
           /\ pos \in Nat /\ node \in Nat /\ Len(nodes) \in Nat /\ nodes \in Seq(Node)
           /\ \A n \in Nodes : nodes[n] \in Node /\ nodes[n].next \in Seq(Nat)
           /\ root \in [Methods -> 0..Len(nodes)]
<1>1. dump \in Seq(Recording) /\ line \in 0..Len(dump)
  BY FixtureAssumption DEF IInv, TypeOK
<1>2. nodes \in Seq(Node) /\ node \in 0..Len(nodes) /\ pos \in Nat /\ root \in [Methods -> 0..Len(nodes)]
  BY DEF IInv, TypeOK
<1>3. \A l \in 1..Len(dump) : dump[l] \in Recording
  BY <1>1
<1>4. \A n \in Nodes : nodes[n] \in Node /\ nodes[n].next \in Seq(Nat)
  <2>1. \A n \in 1..Len(nodes) : nodes[n] \in Node
    BY <1>2
  <2>2. \A x \in Node : x.next \in Seq(Nat)
    BY DEF Node
  <2> QED BY <2>1, <2>2 DEF Nodes
<1> QED BY <1>1, <1>2, <1>3, <1>4

\* No call has begun, and none begins.
LEMMA LoadStep ==
    ASSUME IInv, phase = "loading", UNCHANGED <<dump, call>>, TypeOK',
           (phase = "serving" => LineDone /\ line = Len(dump))', NEW place, Tree(place)'
    PROVE  IInv'
<1>1. \A c \in Calls : call[c].pc = "idle"
  BY DEF IInv, Serving
<1>2. Serving'
  BY <1>1 DEF IInv, Serving
<1>3. OkIsWhole' /\ RefusalIsJust'
  BY DEF IInv, OkIsWhole, RefusalIsJust, Received, Recorded
<1>4. Standing'
  BY <1>1 DEF Standing, At
<1> QED BY <1>2, <1>3, <1>4 DEF IInv

LEMMA LoadEndsInv == ASSUME IInv, LoadDone \/ LoadFails PROVE IInv'
<1>1. /\ phase = "loading" /\ phase' \in {"serving", "failed"}
      /\ phase' = "serving" => LineDone /\ line = Len(dump)
      /\ UNCHANGED <<dump, line, pos, node, nodes, root, call>>
  BY DEF LoadDone, LoadFails
<1>2. PICK place : Tree(place)
  BY DEF IInv, Standing
<1>3. Tree(place)'
  <2>1. /\ UNCHANGED <<Nodes, MessageOf, Current>> /\ Added' = Added
    BY <1>1 DEF Nodes, MessageOf, Current, Added
  <2>2. UNCHANGED <<Known, Whole, LineDone>>
    BY <1>1, <2>1 DEF Known, Whole, LineDone
  <2>3. (Older(place) /\ Rising)'
    BY <1>1, <1>2, <2>1 DEF Tree, Older, Rising, Begun
  <2> QED BY <1>1, <1>2, <2>1, <2>2, <2>3 DEF Tree, Roots, Links, Parents, OneEach, Exact, Leaves, Cursor
<1>4. TypeOK'
  BY <1>1 DEF IInv, TypeOK
<1>5. (phase = "serving" => LineDone /\ line = Len(dump))'
  BY <1>1 DEF LineDone, Current
<1> QED BY <1>1, <1>3, <1>4, <1>5, LoadStep

LEMMA Earlier ==
    \A n \in Nat : \A l \in 1..n : l # n => l \in 1..(n - 1) /\ \A k \in 1..l : k \in 1..(n - 1)
OBVIOUS

\* A new node is for something that no line before the last has begun with.
LEMMA OlderStep ==
    ASSUME NEW place, Older(place), Exact(place), line \in Nat, dump' = dump, line' \in {line, line + 1},
           \A l \in 1..(line' - 1) : l \in 1..line /\ Added'[l] = Added[l],
           NEW next, Exact(next)', Nodes \subseteq Nodes', \A n \in Nodes : next[n] = place[n],
           \A n \in Nodes' \ Nodes : next[n] \notin Known /\ \A k \in Nodes' : ~(n < k)
    PROVE  Older(next)'
<1> SUFFICES ASSUME NEW a \in Nodes', NEW b \in Nodes', NEW l \in 1..line', a < b, next[b] \in Begun(l)'
             PROVE  \E k \in 1..l : next[a] \in Begun(k)'
  BY DEF Older
<1>1. CASE l = line'
  <2>1. next[a] \in Known'
    BY DEF Exact
  <2>2. PICK k \in 1..line' : next[a] \in {UpTo(dump'[k], i) : i \in 0..Added'[k]}
    BY <2>1 DEF Known
  <2> QED BY <1>1, <2>2 DEF Begun
<1>2. CASE l # line'
  <2>1. l \in 1..(line' - 1) /\ l \in 1..line /\ \A k \in 1..l : k \in 1..(line' - 1) /\ k \in 1..line
    <3>1. line' \in Nat
      OBVIOUS
    <3>2. l \in 1..(line' - 1) /\ \A k \in 1..l : k \in 1..(line' - 1)
      BY <1>2, <3>1, Earlier
    <3> QED BY <3>2
  <2>2. \A k \in 1..l : Begun(k)' = Begun(k)
    BY <2>1 DEF Begun
  <2>3. l \in 1..l /\ next[b] \in Begun(l)
    BY <2>1, <2>2
  <2>4. next[b] \in Known
    BY <2>1, <2>3 DEF Begun, Known
  <2>5. a \in Nodes /\ b \in Nodes
    BY <2>4
  <2>6. \E k \in 1..l : place[a] \in Begun(k)
    BY <2>1, <2>3, <2>5 DEF Older
  <2> QED BY <2>2, <2>5, <2>6
<1> QED BY <1>1, <1>2

\* The next line's first node: what all calls of its method begin with.
LEMMA NextRecordingInv == ASSUME IInv, NextRecording PROVE IInv'
<1> DEFINE new == Len(nodes) + 1
<1>1. /\ phase = "loading" /\ LineDone /\ line < Len(dump) /\ line' = line + 1 /\ pos' = 0
      /\ UNCHANGED <<dump, phase, call>>
  BY DEF NextRecording
<1>2. PICK place : Tree(place)
  BY DEF IInv, Standing
<1>3. PICK r, m : r = dump[line + 1] /\ m = r.method
  OBVIOUS
<1>4. /\ r \in Recording /\ m \in Methods /\ UpTo(r, 0) = Nothing(m) /\ UpTo(r, Len(r.messages)) = r
      /\ Len(r.messages) \in Nat
  <2>1. r \in Recording
    BY <1>1, <1>3, Lines
  <2> QED BY <1>3, <2>1, Fields, Beginnings
<1>5. Current' = r /\ line' \in Nat \ {0} /\ 1..line' = (1..line) \cup {line'} /\ line' \notin 1..line
  BY <1>1, <1>3, Lines DEF Current
<1>6. /\ \A l \in 1..line : Added'[l] = Added[l]
      /\ Added'[line'] = 0 /\ dump'[line'] = r
  <2>1. \A l \in 1..line' : Added'[l] = IF l = line' THEN 0 ELSE Len(dump[l].messages)
    BY <1>1 DEF Added
  <2>2. \A l \in 1..line : Added[l] = Len(dump[l].messages)
    BY <1>1, Lines DEF Added, LineDone, Current
  <2> QED BY <1>1, <1>3, <1>5, <2>1, <2>2
<1>11. Known' = Known \cup {Nothing(m)}
  <2>1. {UpTo(dump'[line'], k) : k \in 0..Added'[line']} = {Nothing(m)}
    BY <1>4, <1>6
  <2>2. \A l \in 1..line : {UpTo(dump'[l], k) : k \in 0..Added'[l]} = {UpTo(dump[l], k) : k \in 0..Added[l]}
    BY <1>1, <1>6
  <2> QED BY <1>5, <2>1, <2>2 DEF Known
<1>12. Whole \subseteq Whole'
  BY <1>1, <1>5, <1>6 DEF Whole
<1>7. ~LineDone' \/ Nothing(m) \in Whole'
  <2> SUFFICES ASSUME LineDone' PROVE Nothing(m) \in Whole'
    OBVIOUS
  <2>1. Len(r.messages) = 0
    BY <1>1, <1>5, Lines DEF LineDone
  <2>2. r = Nothing(m)
    BY <1>4, <2>1
  <2>3. line' \in 1..line'
    BY <1>5
  <2> QED BY <1>6, <2>1, <2>2, <2>3 DEF Whole
<1>8. \A n \in Nodes : nodes[n].next = <<>> => place[n] \in Whole'
  BY <1>1, <1>2, <1>12 DEF Tree, Leaves
<1>13. /\ dump' = dump /\ line' \in {line, line + 1}
       /\ \A l \in 1..(line' - 1) : l \in 1..line /\ Added'[l] = Added[l]
  BY <1>1, <1>5, <1>6, Lines
<1>9. CASE root[m] # NoNode
  <2>1. node' = root[m] /\ UNCHANGED <<nodes, root>>
    BY <1>3, <1>9 DEF NextRecording
  <2>2. node' \in Nodes /\ place[node'] = Nothing(m) /\ Nodes' = Nodes
    BY <1>2, <1>4, <1>9, <2>1, Lines DEF Tree, Roots, Nodes, NoNode
  <2>3. TypeOK'
    BY <1>1, <2>1, <2>2, Lines DEF IInv, TypeOK, Nodes
  <2>4. Exact(place)'
    BY <1>2, <1>11, <2>2 DEF Tree, Exact
  <2>5. Leaves(place)'
    BY <1>8, <2>1, <2>2 DEF Leaves
  <2>6. Cursor(place)'
    BY <1>1, <1>4, <1>5, <2>2 DEF Cursor
  <2>7. Tree(place)'
    <3>1. MessageOf' = MessageOf
      BY <2>1, <2>2 DEF MessageOf
    <3>2. Older(place)'
      BY <1>2, <1>13, <2>2, <2>4, OlderStep, Lines DEF Tree
    <3>3. Rising'
      BY <1>2, <2>1, <2>2 DEF Tree, Rising
    <3> QED BY <1>2, <2>1, <2>2, <2>4, <2>5, <2>6, <3>1, <3>2, <3>3 DEF Tree, Roots, Links, Parents, OneEach
  <2> QED BY <1>1, <2>3, <2>7, LoadStep
<1>10. CASE root[m] = NoNode
  <2>1. nodes' = Append(nodes, RootNode) /\ root' = [root EXCEPT ![m] = new] /\ node' = new
    BY <1>3, <1>10 DEF NextRecording
  <2>2. RootNode \in Node /\ RootNode.next = <<>> /\ Range(<<>>) = {}
    BY EmptySeq DEF RootNode, Node, Range
  <2>3. /\ nodes' \in Seq(Node) /\ Len(nodes') = new /\ nodes'[new] = RootNode
        /\ \A n \in Nodes : nodes'[n] = nodes[n]
    BY <2>1, <2>2, Lines, AppendProperties DEF Nodes
  <2>4. Nodes' = Nodes \cup {new} /\ new \notin Nodes /\ new \in Nat \ {0} /\ 0 \notin Nodes
    BY <2>3, Lines DEF Nodes
  <2>5. PICK next : next = [n \in Nodes' |-> IF n = new THEN Nothing(m) ELSE place[n]]
    OBVIOUS
  <2>6. /\ next \in [Nodes' -> Recording] /\ next[new] = Nothing(m)
        /\ \A n \in Nodes : next[n] = place[n]
    BY <1>2, <1>4, <2>4, <2>5, Beginnings, Fields, EmptySeq DEF Tree, Nothing
  <2>7. root'[m] = new /\ \A k \in Methods : k # m => root'[k] = root[k]
    BY <1>4, <2>1, Lines
  <2>8. TypeOK'
    <3>1. line' \in 0..Len(dump') /\ pos' \in Nat /\ node' \in 0..Len(nodes')
      BY <1>1, <2>1, <2>3, Lines
    <3>2. root' \in [Methods -> 0..Len(nodes')]
      <4>1. 0..Len(nodes) \subseteq 0..new /\ new \in 0..new
        BY Lines
      <4> QED BY <2>1, <2>3, <4>1, Lines
    <3>3. ASSUME NEW n \in 1..Len(nodes'), NEW c \in Range(nodes'[n].next)
          PROVE  c \in (n + 1)..Len(nodes')
      <4>1. n \in 1..Len(nodes) /\ nodes'[n] = nodes[n]
        BY <2>2, <2>3, <2>4 DEF Nodes
      <4>2. c \in (n + 1)..Len(nodes)
        BY <4>1 DEF IInv, TypeOK
      <4> QED BY <2>3, <4>2, Lines
    <3> QED BY <1>1, <2>3, <3>1, <3>2, <3>3 DEF IInv, TypeOK
  <2>9. Roots(next)'
    BY <1>2, <2>4, <2>6, <2>7, Lines DEF Tree, Roots, NoNode, Nodes
  <2>10. Links(next)'
    <3>1. \A n \in Nodes : MessageOf'[n] = MessageOf[n]
      BY <2>3, <2>4 DEF MessageOf
    <3> QED BY <1>2, <2>2, <2>3, <2>4, <2>6, <3>1 DEF Tree, Links
  <2>11. Parents(next)'
    <3>1. next[new].messages = <<>> /\ root'[next[new].method] = new
      BY <2>6, <2>7 DEF Nothing
    <3>2. ASSUME NEW n \in Nodes
          PROVE  \/ next[n].messages = <<>> /\ n = root'[next[n].method]
                 \/ \E p \in Nodes : n \in Range(nodes'[p].next)
      <4>1. place[n].method \in Methods
        BY <1>2, Fields DEF Tree
      <4>2. CASE place[n].messages = <<>> /\ n = root[place[n].method]
        BY <1>10, <2>4, <2>6, <2>7, <4>1, <4>2 DEF NoNode
      <4>3. CASE \E p \in Nodes : n \in Range(nodes[p].next)
        BY <2>3, <4>3
      <4> QED BY <1>2, <4>2, <4>3 DEF Tree, Parents
    <3> QED BY <2>4, <3>1, <3>2 DEF Parents
  <2>17. ASSUME NEW n \in Nodes PROVE place[n] # Nothing(m)
    <3>1. CASE n = root[place[n].method]
      BY <1>10, <2>4, <3>1 DEF Nothing, NoNode
    <3>2. CASE \E p \in Nodes : n \in Range(nodes[p].next)
      <4>1. PICK p \in Nodes : n \in Range(nodes[p].next)
        BY <3>2
      <4>2. place[n] = Further(place[p], MessageOf[n]) /\ MessageOf[n] \in Message
            /\ place[p] \in Recording
        BY <1>2, <4>1 DEF Tree, Links
      <4>3. place[n].messages # <<>>
        BY <4>2, FurtherEqual
      <4> QED BY <4>3 DEF Nothing
    <3> QED BY <1>2, <3>1, <3>2 DEF Tree, Parents
  <2>12. OneEach(next)'
    BY <1>2, <2>4, <2>6, <2>17 DEF Tree, OneEach
  <2>13. Exact(next)'
    BY <1>2, <1>11, <2>4, <2>6 DEF Tree, Exact
  <2>14. Leaves(next)'
    BY <1>7, <1>8, <2>1, <2>3, <2>4, <2>6 DEF Leaves
  <2>15. Cursor(next)'
    BY <1>1, <1>4, <1>5, <2>1, <2>4, <2>6 DEF Cursor
  <2>16. Older(next)'
    <3>1. Nothing(m) \notin Known
      BY <1>2, <2>17 DEF Tree, Exact
    <3>2. \A k \in Nodes' : ~(new < k)
      BY <2>3, Lines DEF Nodes
    <3> QED BY <1>2, <1>13, <2>4, <2>6, <2>13, <3>1, <3>2, OlderStep, Lines DEF Tree
  <2>18. Rising'
    BY <1>2, <2>2, <2>3, <2>4 DEF Tree, Rising
  <2>19. Tree(next)'
    BY <2>6, <2>9, <2>10, <2>11, <2>12, <2>13, <2>14, <2>15, <2>16, <2>18 DEF Tree
  <2> QED BY <1>1, <2>8, <2>19, LoadStep
<1> QED BY <1>9, <1>10

\* The line's next message: a node that is there is found, a new one is the only one for what
\* it stands for.
LEMMA LoadMessageInv == ASSUME IInv, LoadMessage PROVE IInv'
<1> DEFINE new == Len(nodes) + 1
<1>1. /\ phase = "loading" /\ ~LineDone /\ pos' = pos + 1 /\ UNCHANGED <<dump, phase, line, root, call>>
      /\ line > 0 /\ pos # Len(Current.messages)
  BY Lines DEF LoadMessage, LineDone
<1>2. PICK place : Tree(place)
  BY DEF IInv, Standing
<1>3. PICK r, m, here, this : /\ r = Current /\ m = r.messages[pos + 1]
                              /\ here = UpTo(r, pos) /\ this = UpTo(r, pos + 1)
  OBVIOUS
<1>4. r \in Recording /\ r = dump[line] /\ Len(r.messages) \in Nat /\ pos \in 0..(Len(r.messages) - 1)
  <2>1. r \in Recording /\ r = dump[line] /\ Len(r.messages) \in Nat
    BY <1>1, <1>3, Lines, Fields DEF Current
  <2>2. pos <= Len(r.messages) /\ pos \in Nat
    BY <1>1, <1>2, <1>3, Lines DEF Tree, Cursor
  <2> QED BY <1>1, <1>3, <2>1, <2>2
<1>5. /\ m \in Message /\ here \in Recording /\ this \in Recording /\ this = Further(here, m)
      /\ this.messages # <<>> /\ r.messages \in Seq(Message)
  <2>1. r.messages \in Seq(Message)
    BY <1>4, Fields
  <2>2. pos + 1 \in 1..Len(r.messages)
    BY <1>4
  <2>3. m \in Message
    BY <1>3, <2>1, <2>2
  <2>4. here \in Recording /\ this = Further(here, m)
    BY <1>3, <1>4, Beginnings
  <2> QED BY <2>1, <2>3, <2>4, FurtherEqual
<1>6. node \in Nodes /\ place[node] = here /\ Current' = r
  BY <1>1, <1>2, <1>3 DEF Tree, Cursor, Current
<1>7. Known' = Known \cup {this}
  <2>1. 0..(pos + 1) = (0..pos) \cup {pos + 1}
    BY <1>4
  <2>2. line \in 1..line /\ Added[line] = pos /\ Added'[line] = pos + 1
    BY <1>1, Lines DEF Added
  <2>3. \A l \in 1..line : l # line => Added'[l] = Added[l]
    BY <1>1 DEF Added
  <2>4. PICK old, now : /\ old = [l \in 1..line |-> {UpTo(dump[l], k) : k \in 0..Added[l]}]
                        /\ now = [l \in 1..line |-> {UpTo(dump[l], k) : k \in 0..Added'[l]}]
    OBVIOUS
  <2>5. now[line] = old[line] \cup {this}
    BY <1>3, <1>4, <2>1, <2>2, <2>4
  <2>6. \A l \in 1..line : l # line => now[l] = old[l]
    BY <2>3, <2>4
  <2>7. Known = UNION {old[l] : l \in 1..line} /\ Known' = UNION {now[l] : l \in 1..line}
    BY <1>1, <2>4 DEF Known
  <2>8. ASSUME NEW x PROVE x \in Known' <=> x \in Known \/ x = this
    <3>1. x \in Known <=> \E l \in 1..line : x \in old[l]
      BY <2>7
    <3>2. x \in Known' <=> \E l \in 1..line : x \in now[l]
      BY <2>7
    <3> QED BY <2>2, <2>5, <2>6, <3>1, <3>2
  <2> QED BY <2>8
<1>8. Whole \subseteq Whole'
  <2>1. Added[line] = pos /\ Len(dump[line].messages) # pos
    BY <1>1, <1>3, <1>4, Lines DEF Added
  <2>2. \A l \in 1..line : l # line => Added'[l] = Added[l]
    BY <1>1 DEF Added
  <2> QED BY <1>1, <2>1, <2>2 DEF Whole
<1>9. LineDone' => this \in Whole'
  <2> SUFFICES ASSUME LineDone' PROVE this \in Whole'
    OBVIOUS
  <2>1. pos + 1 = Len(r.messages)
    BY <1>1, <1>6 DEF LineDone
  <2>2. this = r
    BY <1>3, <1>4, <2>1, Beginnings
  <2>3. line \in 1..line /\ Added'[line] = pos + 1
    BY <1>1, Lines DEF Added
  <2> QED BY <1>1, <1>4, <2>1, <2>2, <2>3 DEF Whole
<1>10. pos + 1 <= Len(r.messages) /\ pos + 1 \in Nat
  BY <1>4
<1>13. /\ dump' = dump /\ line' \in {line, line + 1} /\ line \in Nat
       /\ \A l \in 1..(line' - 1) : l \in 1..line /\ Added'[l] = Added[l]
  <2>1. \A l \in 1..(line - 1) : l \in 1..line /\ l # line
    BY Lines
  <2>2. \A l \in 1..line : l # line => Added'[l] = Added[l]
    BY <1>1 DEF Added
  <2> QED BY <1>1, <2>1, <2>2, Lines
<1> HIDE DEF new
<1>11. ASSUME NEW i \in Matches(node, m), node' = nodes[node].next[i], UNCHANGED nodes
       PROVE  IInv'
  <2>1. /\ node' \in Range(nodes[node].next)
        /\ nodes[node'].from = m.from /\ nodes[node'].body = m.body
    BY <1>11 DEF Matches, Range
  <2>2. /\ node' \in Nodes /\ place[node'] = Further(here, MessageOf[node'])
    BY <1>2, <1>6, <2>1 DEF Tree, Links
  <2>3. MessageOf[node'] = m
    BY <1>5, <2>1, <2>2 DEF MessageOf, Message
  <2>4. place[node'] = this
    BY <1>5, <2>2, <2>3
  <2>5. Nodes' = Nodes /\ MessageOf' = MessageOf
    BY <1>11 DEF Nodes, MessageOf
  <2>6. nodes[node].next # <<>>
    BY <2>1 DEF Range
  <2>7. Leaves(place)'
    BY <1>2, <1>8, <1>11, <2>5, <2>6 DEF Tree, Leaves
  <2>8. Cursor(place)'
    BY <1>1, <1>3, <1>6, <1>10, <2>2, <2>4, <2>5 DEF Cursor
  <2>9. Exact(place)'
    BY <1>2, <1>7, <2>2, <2>4, <2>5 DEF Tree, Exact
  <2>12. Older(place)' /\ Rising'
    <3>1. Older(place)'
      BY <1>2, <1>13, <2>5, <2>9, OlderStep DEF Tree
    <3>2. Rising'
      BY <1>2, <1>11, <2>5 DEF Tree, Rising
    <3> QED BY <3>1, <3>2
  <2>10. Tree(place)'
    BY <1>1, <1>2, <1>11, <2>5, <2>7, <2>8, <2>9, <2>12 DEF Tree, Roots, Links, Parents, OneEach
  <2>11. TypeOK'
    <3>1. pos' \in Nat /\ node' \in 0..Len(nodes')
      BY <1>1, <1>10, <1>11, <2>2, Lines DEF Nodes
    <3> QED BY <1>1, <1>11, <3>1 DEF IInv, TypeOK
  <2> QED BY <1>1, <2>10, <2>11, LoadStep
<1>12. ASSUME Matches(node, m) = {}, nodes' = AddedNode(m), node' = new
       PROVE  IInv'
  <2>1. PICK leaf, longer : /\ leaf = [from |-> m.from, body |-> m.body, next |-> <<>>]
                            /\ longer = [nodes[node] EXCEPT !.next = Append(@, new)]
    OBVIOUS
  <2>2. /\ new \in Nat \ {0} /\ new = Len(nodes) + 1 /\ nodes \in Seq(Node) /\ node \in 1..Len(nodes)
        /\ nodes[node] \in Node /\ nodes[node].next \in Seq(Nat)
    BY <1>6, Lines DEF Nodes, new
  <2>3. /\ longer \in Node /\ longer.from = nodes[node].from /\ longer.body = nodes[node].body
        /\ longer.next = Append(nodes[node].next, new) /\ longer.next # <<>>
        /\ Range(longer.next) = Range(nodes[node].next) \cup {new}
    <3>1. PICK q, t : q = nodes[node].next /\ t = Append(q, new)
      OBVIOUS
    <3>2. /\ q \in Seq(Nat) /\ t \in Seq(Nat) /\ t # <<>> /\ Len(t) = Len(q) + 1 /\ Len(q) \in Nat
          /\ t[Len(q) + 1] = new /\ \A i \in 1..Len(q) : t[i] = q[i]
      <4>1. q \in Seq(Nat) /\ new \in Nat /\ Len(q) \in Nat
        BY <2>2, <3>1
      <4> HIDE DEF new
      <4> QED BY <3>1, <4>1, AppendProperties
    <3>3. DOMAIN q = 1..Len(q) /\ DOMAIN t = (1..Len(q)) \cup {Len(q) + 1}
      BY <3>2
    <3>4. Range(t) = Range(q) \cup {new}
      BY <3>2, <3>3 DEF Range
    <3> QED BY <2>1, <2>2, <3>1, <3>2, <3>4 DEF Node
  <2>4. leaf \in Node /\ leaf.next = <<>> /\ Range(<<>>) = {}
    BY <1>5, <2>1, EmptySeq DEF Node, Message, Range
  <2>5. /\ nodes' \in Seq(Node) /\ Len(nodes') = new /\ nodes'[new] = leaf /\ nodes'[node] = longer
        /\ \A n \in Nodes : n # node => nodes'[n] = nodes[n]
    <3>1. PICK q : q = [nodes EXCEPT ![node] = longer]
      OBVIOUS
    <3>2. /\ q \in Seq(Node) /\ Len(q) = Len(nodes) /\ q[node] = longer
          /\ \A n \in Nodes : n # node => q[n] = nodes[n]
      BY <2>2, <2>3, <3>1 DEF Nodes
    <3>3. nodes' = Append(q, leaf)
      BY <1>12, <2>1, <2>2, <3>1 DEF AddedNode
    <3>4. \A i \in Nodes : nodes'[i] = q[i]
      BY <2>4, <3>2, <3>3, AppendProperties DEF Nodes
    <3>5. nodes' \in Seq(Node) /\ Len(nodes') = new /\ nodes'[new] = leaf
      <4>1. /\ nodes' \in Seq(Node) /\ Len(nodes') = Len(q) + 1 /\ nodes'[Len(q) + 1] = leaf
        BY <2>4, <3>2, <3>3, AppendProperties
      <4>2. Len(q) + 1 = new
        BY <2>2, <3>2
      <4> QED BY <4>1, <4>2
    <3> QED BY <1>6, <3>2, <3>4, <3>5
  <2>6. Nodes' = Nodes \cup {new} /\ new \notin Nodes
    BY <2>2, <2>5 DEF Nodes
  <2>7. PICK next : next = [n \in Nodes' |-> IF n = new THEN this ELSE place[n]]
    OBVIOUS
  <2>8. /\ next \in [Nodes' -> Recording] /\ next[new] = this
        /\ \A n \in Nodes : next[n] = place[n]
    BY <1>2, <1>5, <2>6, <2>7 DEF Tree
  <2>9. (\A n \in Nodes : MessageOf'[n] = MessageOf[n]) /\ MessageOf'[new] = m
    <3>1. \A n \in Nodes : nodes'[n].from = nodes[n].from /\ nodes'[n].body = nodes[n].body
      BY <2>3, <2>5
    <3>2. [from |-> leaf.from, body |-> leaf.body] = m
      BY <1>5, <2>1 DEF Message
    <3> QED BY <2>5, <2>6, <3>1, <3>2 DEF MessageOf
  <2>10. Roots(next)'
    BY <1>1, <1>2, <2>6, <2>8, Lines DEF Tree, Roots, NoNode, Nodes
  <2>11. \A n \in Nodes : \A c \in Range(nodes'[n].next) :
            c \in Range(nodes[n].next) \/ (n = node /\ c = new)
    <3> SUFFICES ASSUME NEW n \in Nodes, NEW c \in Range(nodes'[n].next), c \notin Range(nodes[n].next)
                 PROVE  n = node /\ c = new
      OBVIOUS
    <3>1. n = node
      BY <2>5
    <3> QED BY <2>3, <2>5, <3>1
  <2>12. Links(next)'
    <3>1. ASSUME NEW n \in Nodes, NEW c \in Range(nodes'[n].next)
          PROVE  c \in Nodes' /\ next[c] = Further(next[n], MessageOf'[c]) /\ MessageOf'[c] \in Message
      <4>1. CASE c \in Range(nodes[n].next)
        BY <1>2, <2>6, <2>8, <2>9, <4>1 DEF Tree, Links
      <4>2. CASE n = node /\ c = new
        BY <1>5, <1>6, <2>6, <2>8, <2>9, <4>2
      <4> QED BY <2>11, <4>1, <4>2
    <3> QED BY <2>4, <2>5, <2>6, <3>1 DEF Links
  <2>13. Parents(next)'
    <3>1. new \in Range(nodes'[node].next)
      BY <2>3, <2>5
    <3>2. ASSUME NEW n \in Nodes
          PROVE  \/ next[n].messages = <<>> /\ n = root'[next[n].method]
                 \/ \E p \in Nodes : n \in Range(nodes'[p].next)
      <4>1. \A p \in Nodes : Range(nodes[p].next) \subseteq Range(nodes'[p].next)
        BY <2>3, <2>5
      <4> QED BY <1>1, <1>2, <2>8, <4>1 DEF Tree, Parents
    <3> QED BY <1>6, <2>6, <3>1, <3>2 DEF Parents
  <2>20. ASSUME NEW n \in Nodes, place[n] = this PROVE FALSE
    <3>1. PICK p \in Nodes : n \in Range(nodes[p].next)
      BY <1>2, <1>5, <2>20 DEF Tree, Parents
    <3>2. /\ place[n] = Further(place[p], MessageOf[n]) /\ MessageOf[n] \in Message
          /\ place[p] \in Recording
      BY <1>2, <3>1 DEF Tree, Links
    <3>3. place[p] = here /\ MessageOf[n] = m
      <4>1. Further(place[p], MessageOf[n]) = Further(here, m)
        BY <1>5, <2>20, <3>2
      <4> QED BY <1>5, <3>2, <4>1, FurtherEqual
    <3>4. p = node
      BY <1>2, <1>6, <3>3 DEF Tree, OneEach
    <3>5. PICK i \in DOMAIN nodes[node].next : n = nodes[node].next[i]
      BY <3>1, <3>4 DEF Range
    <3>6. nodes[n].from = m.from /\ nodes[n].body = m.body
      BY <3>3 DEF MessageOf
    <3>7. i \in Matches(node, m)
      BY <3>5, <3>6 DEF Matches
    <3> QED BY <1>12, <3>7
  <2>14. OneEach(next)'
    BY <1>2, <2>6, <2>8, <2>20 DEF Tree, OneEach
  <2>15. Exact(next)'
    BY <1>2, <1>7, <2>6, <2>8 DEF Tree, Exact
  <2>16. Leaves(next)'
    <3>1. ASSUME NEW n \in Nodes, nodes'[n].next = <<>> PROVE next[n] \in Whole'
      <4>1. n # node /\ nodes[n].next = <<>>
        BY <2>3, <2>5, <3>1
      <4> QED BY <1>2, <1>8, <2>8, <4>1 DEF Tree, Leaves
    <3> QED BY <1>9, <1>12, <2>6, <2>8, <3>1 DEF Leaves
  <2>17. Cursor(next)'
    BY <1>1, <1>3, <1>6, <1>10, <1>12, <2>6, <2>8 DEF Cursor
  <2>21. Older(next)'
    <3>1. this \notin Known
      BY <1>2, <2>20 DEF Tree, Exact
    <3>2. \A k \in Nodes' : ~(new < k)
      BY <2>2, <2>5 DEF Nodes
    <3> QED BY <1>2, <1>13, <2>6, <2>8, <2>15, <3>1, <3>2, OlderStep DEF Tree
  <2>22. Rising'
    <3>1. ASSUME NEW n \in Nodes, n # node, NEW i \in DOMAIN nodes'[n].next, NEW j \in DOMAIN nodes'[n].next, i < j
          PROVE  nodes'[n].next[i] < nodes'[n].next[j]
      BY <1>2, <2>5, <3>1 DEF Tree, Rising
    <3>2. ASSUME NEW i \in DOMAIN longer.next, NEW j \in DOMAIN longer.next, i < j
          PROVE  longer.next[i] < longer.next[j]
      <4>1. PICK q, t : q = nodes[node].next /\ t = longer.next
        OBVIOUS
      <4>2. /\ q \in Seq(Nat) /\ Len(q) \in Nat /\ Len(t) = Len(q) + 1 /\ t[Len(q) + 1] = new
            /\ (\A k \in 1..Len(q) : t[k] = q[k]) /\ t \in Seq(Nat)
        <5>1. q \in Seq(Nat) /\ new \in Nat /\ t = Append(q, new)
          BY <2>2, <2>3, <4>1
        <5> QED BY <5>1, AppendProperties
      <4>3. i \in 1..(Len(q) + 1) /\ j \in 1..(Len(q) + 1) /\ i \in 1..Len(q)
        <5>1. DOMAIN t = 1..(Len(q) + 1)
          BY <4>2
        <5>2. i \in 1..(Len(q) + 1) /\ j \in 1..(Len(q) + 1)
          BY <4>1, <5>1
        <5> QED BY <3>2, <4>2, <5>2
      <4>4. q[i] \in Range(q) /\ DOMAIN q = 1..Len(q)
        BY <4>2, <4>3 DEF Range
      <4>5. q[i] < new
        <5>1. q[i] \in (node + 1)..Len(nodes)
          BY <2>2, <4>1, <4>4 DEF IInv, TypeOK
        <5> QED BY <2>2, <5>1, Lines
      <4>6. CASE j \in 1..Len(q)
        BY <1>2, <1>6, <3>2, <4>1, <4>2, <4>3, <4>4, <4>6 DEF Tree, Rising
      <4>7. CASE j = Len(q) + 1
        BY <4>1, <4>2, <4>3, <4>5, <4>7
      <4> QED BY <4>2, <4>3, <4>6, <4>7
    <3>3. \A i \in DOMAIN leaf.next : FALSE
      BY <2>4 DEF Range
    <3> QED BY <2>5, <2>6, <3>1, <3>2, <3>3 DEF Rising
  <2>18. Tree(next)'
    BY <2>8, <2>10, <2>12, <2>13, <2>14, <2>15, <2>16, <2>17, <2>21, <2>22 DEF Tree
  <2>19. TypeOK'
    <3>1. node' \in 0..Len(nodes') /\ pos' \in Nat
      BY <1>1, <1>10, <1>12, <2>2, <2>5
    <3>2. root' \in [Methods -> 0..Len(nodes')]
      <4>1. 0..Len(nodes) \subseteq 0..new
        BY <2>2, Lines
      <4> QED BY <1>1, <2>5, <4>1, Lines
    <3>3. ASSUME NEW n \in 1..Len(nodes'), NEW c \in Range(nodes'[n].next)
          PROVE  c \in (n + 1)..Len(nodes')
      <4>1. n \in Nodes
        BY <2>4, <2>5, <2>6 DEF Nodes
      <4>2. CASE c \in Range(nodes[n].next)
        <5>1. c \in (n + 1)..Len(nodes) /\ n \in 1..Len(nodes)
          BY <4>1, <4>2 DEF IInv, TypeOK, Nodes
        <5> QED BY <2>2, <2>5, <5>1, Lines
      <4>3. CASE n = node /\ c = new
        BY <2>2, <2>5, <4>3, Lines
      <4> QED BY <2>11, <4>1, <4>2, <4>3
    <3> QED BY <1>1, <2>5, <3>1, <3>2, <3>3 DEF IInv, TypeOK
  <2> QED BY <1>1, <2>18, <2>19, LoadStep
<1> QED BY <1>1, <1>3, <1>11, <1>12 DEF LoadMessage, IsFirst, new

-----------------------------------------------------------------------------
(* Serving.                                                                *)

\* What the invariant says of one call.
Good(c, place) ==
    /\ call[c].pc # "ended" => call[c].status = "none"
    /\ call[c].status = "ok" =>
          \E r \in Range(dump) : r.method = call[c].wants.method /\ r.messages = call[c].seen
    /\ call[c].status = "unavailable" /\ call[c].sent > call[c].received =>
          Append(call[c].seen, Received(c)) \notin Recorded(call[c].wants.method)
    /\ At(c, place)

LEMMA AllGood ==
    ASSUME IInv
    PROVE  \E place : Tree(place) /\ \A c \in Calls : Good(c, place)
<1>1. PICK place : Tree(place) /\ \A c \in Calls : At(c, place)
  BY DEF IInv, Standing
<1>2. \A c \in Calls : Good(c, place)
  BY <1>1 DEF Good, IInv, Serving, OkIsWhole, RefusalIsJust
<1> QED BY <1>1, <1>2

\* Calls leave the tree as it is.
LEMMA SameTree == ASSUME serving, NEW place, Tree(place) PROVE Tree(place)'
<1>1. UNCHANGED <<dump, phase, line, pos, node, nodes, root>>
  BY DEF serving, loading
<1>2. /\ UNCHANGED <<Nodes, MessageOf, Current>> /\ Added' = Added
  BY <1>1 DEF Nodes, MessageOf, Current, Added
<1>3. UNCHANGED <<Known, Whole, LineDone>>
  BY <1>1, <1>2 DEF Known, Whole, LineDone
<1>4. (Older(place) /\ Rising)'
  BY <1>1, <1>2 DEF Tree, Older, Rising, Begun
<1> QED BY <1>1, <1>2, <1>3, <1>4 DEF Tree, Roots, Links, Parents, OneEach, Exact, Leaves, Cursor

LEMMA CallsStep ==
    ASSUME IInv, serving, phase = "serving", call' \in [Calls -> CallState],
           NEW place, Tree(place), \A c \in Calls : Good(c, place)'
    PROVE  IInv'
<1>1. UNCHANGED <<dump, phase, line, pos, node, nodes, root>>
  BY DEF serving, loading
<1>2. TypeOK'
  BY <1>1 DEF IInv, TypeOK
<1>3. Serving'
  BY <1>1 DEF IInv, Serving, Good, LineDone, Current
<1>4. OkIsWhole' /\ RefusalIsJust'
  BY DEF Good, OkIsWhole, RefusalIsJust
<1>5. Standing'
  BY SameTree DEF Standing, Good
<1> QED BY <1>2, <1>3, <1>4, <1>5 DEF IInv

\* One call takes a step.
LEMMA CallStep ==
    ASSUME IInv, serving, phase = "serving", NEW place, Tree(place),
           \A d \in Calls : Good(d, place),
           NEW c \in Calls, NEW new \in CallState, call' = [call EXCEPT ![c] = new],
           Good(c, place)'
    PROVE  IInv'
<1>1. call \in [Calls -> CallState]
  BY DEF IInv, TypeOK
<1>2. call' \in [Calls -> CallState] /\ \A d \in Calls : d # c => call'[d] = call[d]
  BY <1>1
<1>3. UNCHANGED <<dump, nodes>> /\ Nodes' = Nodes
  BY DEF serving, loading, Nodes
<1>4. ASSUME NEW d \in Calls, d # c PROVE Good(d, place)'
  <2>1. call'[d] = call[d] /\ Good(d, place)
    BY <1>2, <1>4
  <2>2. Received(d)' = Received(d) /\ Recorded(call[d].wants.method)' = Recorded(call[d].wants.method)
    BY <1>3, <2>1 DEF Received, Recorded
  <2>3. At(d, place)'
    BY <1>3, <2>1 DEF Good, At
  <2> QED BY <1>3, <2>1, <2>2, <2>3 DEF Good
<1> QED BY <1>2, <1>4, CallsStep

LEMMA Fields2 ==
    \A x : x \in CallState =>
       /\ x.pc \in {"idle", "loop", "ended"} /\ x.wants \in Recording /\ x.sent \in Nat
       /\ x.halfClosed \in BOOLEAN /\ x.cancelled \in BOOLEAN /\ x.received \in Nat /\ x.at \in Nat
       /\ x.seen \in Seq(Message)
       /\ x.status \in {"none", "ok", "unavailable", "unknown", "cancelled"}
BY DEF CallState

\* A call begins where its method's calls begin, or ends at once.
LEMMA StartInv == ASSUME IInv, NEW c \in Calls, NEW r \in Recording, Start(c, r) PROVE IInv'
<1>1. PICK new : new = [Idle EXCEPT !.wants = r, !.at = root[r.method],
                       !.pc = IF root[r.method] = NoNode THEN "ended" ELSE "loop",
                       !.status = IF root[r.method] = NoNode THEN "unavailable" ELSE "none"]
  OBVIOUS
<1>2. phase = "serving" /\ call' = [call EXCEPT ![c] = new] /\ serving
  BY <1>1 DEF Start
<1>3. PICK place : Tree(place) /\ \A d \in Calls : Good(d, place)
  BY AllGood
<1>4. r.method \in Methods /\ root[r.method] \in 0..Len(nodes) /\ root[r.method] \in Nat
  BY Fields, Lines
<1>5. /\ new \in CallState /\ new.wants = r /\ new.at = root[r.method] /\ new.seen = <<>>
      /\ new.sent = 0 /\ new.received = 0
      /\ root[r.method] = NoNode => new.pc = "ended" /\ new.status = "unavailable"
      /\ root[r.method] # NoNode => new.pc = "loop" /\ new.status = "none"
  BY <1>1, <1>4, EmptySeq DEF Idle, CallState
<1>6. call'[c] = new
  BY <1>2 DEF IInv, TypeOK
<1>7. At(c, place)'
  <2> SUFFICES ASSUME root[r.method] # NoNode
               PROVE  /\ root[r.method] \in Nodes'
                      /\ place[root[r.method]] = [method |-> r.method, messages |-> <<>>]
    BY <1>5, <1>6 DEF At
  <2>1. root[r.method] \in Nodes'
    BY <1>2, <1>4, Lines DEF Nodes, serving, loading, NoNode
  <2> QED BY <1>3, <1>4, <2>1 DEF Tree, Roots, Nothing
<1>8. Good(c, place)'
  BY <1>5, <1>6, <1>7 DEF Good
<1> QED BY <1>2, <1>3, <1>5, <1>8, CallStep

\* A step that changes neither where the call is nor what it has exchanged.
LEMMA StayStep ==
    ASSUME IInv, serving, NEW c \in Calls, NEW new \in CallState, call' = [call EXCEPT ![c] = new],
           call[c].pc = "loop", new.pc = "loop", new.status = "none", new.at = call[c].at,
           new.seen = call[c].seen, new.wants = call[c].wants
    PROVE  IInv'
<1>1. PICK place : Tree(place) /\ \A d \in Calls : Good(d, place)
  BY AllGood
<1>2. phase = "serving"
  BY DEF IInv, Serving
<1>3. call'[c] = new /\ Nodes' = Nodes
  BY DEF IInv, TypeOK, serving, loading, Nodes
<1>4. Good(c, place)'
  BY <1>1, <1>3 DEF Good, At
<1> QED BY <1>1, <1>2, <1>4, CallStep

LEMMA ClientSendInv ==
    ASSUME IInv, serving, NEW c \in Calls, call[c].pc = "loop",
           call' = [call EXCEPT ![c].sent = @ + 1]
    PROVE  IInv'
<1>1. call[c] \in CallState /\ call[c].status = "none"
  BY DEF IInv, TypeOK, Serving
<1>2. PICK new : new = [call[c] EXCEPT !.sent = @ + 1]
  OBVIOUS
<1>3. /\ new \in CallState /\ new.pc = "loop" /\ new.status = "none" /\ new.at = call[c].at
      /\ new.seen = call[c].seen /\ new.wants = call[c].wants
  BY <1>1, <1>2 DEF CallState
<1>4. call' = [call EXCEPT ![c] = new]
  BY <1>2
<1> QED BY <1>3, <1>4, StayStep

LEMMA ClientEndsInv == ASSUME IInv, NEW c \in Calls, ClientHalfClose(c) \/ ClientCancel(c) PROVE IInv'
<1>1. call[c] \in CallState /\ call[c].status = "none" /\ call[c].pc = "loop" /\ serving
  BY DEF IInv, TypeOK, Serving, ClientHalfClose, ClientCancel
<1>2. PICK new : /\ \/ new = [call[c] EXCEPT !.halfClosed = TRUE]
                    \/ new = [call[c] EXCEPT !.cancelled = TRUE]
                 /\ call' = [call EXCEPT ![c] = new]
  BY DEF ClientHalfClose, ClientCancel
<1>3. /\ new \in CallState /\ new.pc = "loop" /\ new.status = "none" /\ new.at = call[c].at
      /\ new.seen = call[c].seen /\ new.wants = call[c].wants
  BY <1>1, <1>2 DEF CallState
<1> QED BY <1>1, <1>2, <1>3, StayStep

-----------------------------------------------------------------------------
(* Going down the tree.                                                    *)

\* When all has been loaded, what is known is what has been recorded, and a leaf is a
\* recorded call.
LEMMA AllKnown ==
    ASSUME IInv, phase = "serving"
    PROVE  /\ \A r \in Range(dump) : \A k \in 0..Len(r.messages) : UpTo(r, k) \in Known
           /\ \A x \in Known : x.messages \in Recorded(x.method)
           /\ Whole \subseteq Range(dump) /\ Range(dump) \subseteq Recording /\ LineDone
<1>1. LineDone /\ line = Len(dump)
  BY DEF IInv, Serving
<1>2. \A l \in 1..line : Added[l] = Len(dump[l].messages)
  BY <1>1, Lines DEF Added, LineDone, Current
<1>3. Range(dump) = {dump[l] : l \in 1..line}
  BY <1>1, Lines DEF Range
<1>4. \A r \in Range(dump) : \A k \in 0..Len(r.messages) : UpTo(r, k) \in Known
  BY <1>2, <1>3 DEF Known
<1>5. ASSUME NEW x \in Known PROVE x.messages \in Recorded(x.method)
  <2>1. PICK l \in 1..line : x \in {UpTo(dump[l], k) : k \in 0..Added[l]}
    BY DEF Known
  <2>2. PICK k \in 0..Added[l] : x = UpTo(dump[l], k)
    BY <2>1
  <2>3. x.method = dump[l].method /\ x.messages = SubSeq(dump[l].messages, 1, k)
    BY <2>2 DEF UpTo
  <2>4. x.messages \in Prefixes(dump[l].messages)
    BY <1>2, <2>2, <2>3 DEF Prefixes
  <2> QED BY <1>3, <2>3, <2>4 DEF Recorded
<1>6. Whole \subseteq Range(dump)
  BY <1>3 DEF Whole
<1>7. Range(dump) \subseteq Recording
  BY <1>1, <1>3, Lines
<1> QED BY <1>1, <1>4, <1>5, <1>6, <1>7

\* A call goes on to node n, having received the message or sent it.
LEMMA WalkStep ==
    ASSUME IInv, serving, NEW c \in Calls, call[c].pc = "loop",
           NEW n \in Range(nodes[call[c].at].next), NEW received \in Nat,
           call' = [call EXCEPT ![c] = [Walk(c, n) EXCEPT !.received = received]]
    PROVE  IInv'
<1>1. PICK place : Tree(place) /\ \A d \in Calls : Good(d, place)
  BY AllGood
<1>2. phase = "serving" /\ call[c] \in CallState
  BY DEF IInv, Serving, TypeOK
<1>3. PICK at, seen, wants : at = call[c].at /\ seen = call[c].seen /\ wants = call[c].wants
  OBVIOUS
<1>4. /\ at \in Nodes /\ place[at] = [method |-> wants.method, messages |-> seen]
      /\ seen \in Seq(Message) /\ wants \in Recording
  BY <1>1, <1>2, <1>3, Fields2 DEF Good, At
<1>5. /\ n \in Nodes /\ n \in Nat /\ place[n] = Further(place[at], MessageOf[n]) /\ MessageOf[n] \in Message
      /\ MessageOf[n] = [from |-> nodes[n].from, body |-> nodes[n].body]
  <2>1. n \in Nodes /\ place[n] = Further(place[at], MessageOf[n]) /\ MessageOf[n] \in Message
    BY <1>1, <1>3, <1>4 DEF Tree, Links
  <2> QED BY <2>1 DEF MessageOf, Nodes
<1>6. PICK more : more = Append(seen, MessageOf[n])
  OBVIOUS
<1>7. more \in Seq(Message) /\ place[n] = [method |-> wants.method, messages |-> more]
  BY <1>4, <1>5, <1>6, AppendProperties DEF Further
<1>8. PICK new : new = [Walk(c, n) EXCEPT !.received = received]
  OBVIOUS
<1>9. new = [call[c] EXCEPT !.at = n, !.seen = more, !.received = received,
                 !.pc = IF nodes[n].next = <<>> THEN "ended" ELSE "loop",
                 !.status = IF nodes[n].next = <<>> THEN "ok" ELSE "none"]
  BY <1>2, <1>3, <1>5, <1>6, <1>8 DEF Walk, CallState
<1>10. /\ new \in CallState /\ new.at = n /\ new.seen = more /\ new.wants = wants
       /\ nodes[n].next = <<>> => new.pc = "ended" /\ new.status = "ok"
       /\ nodes[n].next # <<>> => new.pc = "loop" /\ new.status = "none"
  BY <1>2, <1>3, <1>5, <1>7, <1>9 DEF CallState
<1>11. call'[c] = new /\ call' = [call EXCEPT ![c] = new] /\ Nodes' = Nodes /\ dump' = dump
  BY <1>8 DEF IInv, TypeOK, serving, loading, Nodes
<1>12. new.status = "ok" => \E r \in Range(dump) : r.method = wants.method /\ r.messages = more
  <2> SUFFICES ASSUME nodes[n].next = <<>>
               PROVE  \E r \in Range(dump) : r.method = wants.method /\ r.messages = more
    BY <1>10
  <2>1. place[n] \in Range(dump)
    BY <1>1, <1>2, <1>5, AllKnown DEF Tree, Leaves
  <2> QED BY <1>7, <2>1
<1>13. Good(c, place)'
  BY <1>5, <1>7, <1>10, <1>11, <1>12 DEF Good, At
<1> QED BY <1>1, <1>2, <1>10, <1>11, <1>13, CallStep

\* A call ends without having gone on.
LEMMA EndsStep ==
    ASSUME IInv, serving, NEW c \in Calls, call[c].pc = "loop",
           NEW status \in {"unavailable", "unknown", "cancelled"}, Ends(c, status),
           status = "unavailable" =>
              Append(call[c].seen, Received(c)) \notin Recorded(call[c].wants.method)
    PROVE  IInv'
<1>1. PICK place : Tree(place) /\ \A d \in Calls : Good(d, place)
  BY AllGood
<1>2. phase = "serving" /\ call[c] \in CallState
  BY DEF IInv, Serving, TypeOK
<1>3. PICK new : new = [call[c] EXCEPT !.pc = "ended", !.status = status]
  OBVIOUS
<1>4. /\ new \in CallState /\ new.pc = "ended" /\ new.status = status /\ new.wants = call[c].wants
      /\ new.seen = call[c].seen /\ new.received = call[c].received
  BY <1>2, <1>3 DEF CallState
<1>5. call' = [call EXCEPT ![c] = new]
  BY <1>3 DEF Ends
<1>6. call'[c] = new /\ dump' = dump
  BY <1>5 DEF IInv, TypeOK, serving
<1>7. Received(c)' = Received(c) /\ Recorded(call[c].wants.method)' = Recorded(call[c].wants.method)
  BY <1>4, <1>6 DEF Received, Recorded
<1>8. Good(c, place)'
  BY <1>4, <1>6, <1>7 DEF Good, At
<1> QED BY <1>1, <1>2, <1>4, <1>5, <1>8, CallStep

LEMMA WiderSeq == ASSUME NEW S, NEW T, S \subseteq T PROVE Seq(S) \subseteq Seq(T)
<1> SUFFICES ASSUME NEW q \in Seq(S) PROVE q \in Seq(T)
  OBVIOUS
<1>1. q \in [1..Len(q) -> S] /\ Len(q) \in Nat
  OBVIOUS
<1>2. q \in [1..Len(q) -> T]
  BY <1>1
<1> QED BY <1>1, <1>2, SeqDef

\* A message that goes on with a recorded call is among the next ones.
LEMMA FoundIfRecorded ==
    ASSUME IInv, phase = "serving", NEW place, Tree(place), NEW at \in Nodes, NEW x,
           Append(place[at].messages, x) \in Recorded(place[at].method)
    PROVE  Matches(at, x) # {}
<1>1. PICK r \in Range(dump) : /\ r.method = place[at].method
                               /\ Append(place[at].messages, x) \in Prefixes(r.messages)
  BY DEF Recorded
<1>2. PICK k \in 0..Len(r.messages) : Append(place[at].messages, x) = SubSeq(r.messages, 1, k)
  BY <1>1 DEF Prefixes
<1>3. PICK n \in Nodes : place[n] = UpTo(r, k)
  BY AllKnown DEF Tree, Exact
<1>4. place[n].messages = Append(place[at].messages, x) /\ place[n].method = place[at].method
  BY <1>1, <1>2, <1>3 DEF UpTo
<1>5. place[at] \in Recording /\ place[at].messages \in Seq(Message)
  BY Fields DEF Tree
<1>6. PICK S : S = Message \cup {x}
  OBVIOUS
<1>7. x \in S /\ Seq(Message) \subseteq Seq(S) /\ Message \subseteq S
  BY <1>6, WiderSeq
<1>8. place[n].messages # <<>>
  BY <1>4, <1>5, <1>7, AppendProperties
<1>9. PICK p \in Nodes : n \in Range(nodes[p].next)
  BY <1>8 DEF Tree, Parents
<1>10. /\ place[n] = Further(place[p], MessageOf[n]) /\ MessageOf[n] \in Message
       /\ place[p] \in Recording /\ place[p].messages \in Seq(Message)
  BY <1>9, Fields DEF Tree, Links
<1>11. /\ Append(place[at].messages, x) = Append(place[p].messages, MessageOf[n])
       /\ place[p].method = place[at].method
  BY <1>4, <1>10 DEF Further
<1>12. place[at].messages = place[p].messages /\ x = MessageOf[n]
  <2>1. PICK q, t, y : q = place[at].messages /\ t = place[p].messages /\ y = MessageOf[n]
    OBVIOUS
  <2>2. q \in Seq(S) /\ t \in Seq(S) /\ x \in S /\ y \in S /\ Append(q, x) = Append(t, y)
    BY <1>5, <1>7, <1>10, <1>11, <2>1
  <2>3. q = t /\ x = y
    BY <2>2, AppendEqual
  <2> QED BY <2>1, <2>3
<1>13. place[at] = place[p]
  BY <1>5, <1>10, <1>11, <1>12, Fields
<1>14. at = p
  BY <1>13 DEF Tree, OneEach
<1>15. PICK i \in DOMAIN nodes[at].next : n = nodes[at].next[i]
  BY <1>9, <1>14 DEF Range
<1>16. nodes[n].from = x.from /\ nodes[n].body = x.body
  BY <1>12 DEF MessageOf
<1> QED BY <1>15, <1>16 DEF Matches

LEMMA SendMsgInv == ASSUME IInv, NEW c \in Calls, SendMsg(c) PROVE IInv'
<1>1. call[c].pc = "loop" /\ ServerFirst(call[c].at) /\ serving
  BY DEF SendMsg
<1>2. call[c] \in CallState /\ call[c].received \in Nat
  BY Fields2 DEF IInv, TypeOK
<1>3. CASE call' = [call EXCEPT ![c] = Walk(c, nodes[call[c].at].next[1])]
  <2>1. PICK n : n = nodes[call[c].at].next[1]
    OBVIOUS
  <2>2. call[c].at \in Nodes
    BY <1>1 DEF IInv, Standing, At
  <2>3. 1 \in DOMAIN nodes[call[c].at].next
    <3>1. nodes[call[c].at].next \in Seq(Nat) /\ nodes[call[c].at].next # <<>>
      BY <1>1, <2>2, Lines DEF ServerFirst
    <3> QED BY <3>1
  <2>4. n \in Range(nodes[call[c].at].next)
    BY <2>1, <2>3 DEF Range
  <2>5. PICK received \in Nat : received = call[c].received
    BY <1>2
  <2>6. Walk(c, n) = [Walk(c, n) EXCEPT !.received = received]
    BY <1>2, <2>5 DEF Walk, CallState
  <2>7. call' = [call EXCEPT ![c] = [Walk(c, n) EXCEPT !.received = received]]
    BY <1>3, <2>1, <2>6
  <2> QED BY <1>1, <2>4, <2>7, WalkStep
<1>4. CASE Ends(c, "cancelled")
  BY <1>1, <1>4, EndsStep
<1> QED BY <1>3, <1>4 DEF SendMsg

LEMMA RecvMsgInv == ASSUME IInv, NEW c \in Calls, RecvMsg(c) PROVE IInv'
<1>1. call[c].pc = "loop" /\ serving /\ phase = "serving"
  BY DEF RecvMsg, IInv, Serving
<1>2. call[c] \in CallState /\ call[c].received \in Nat
  BY Fields2 DEF IInv, TypeOK
<1>3. ASSUME NEW i \in Matches(call[c].at, Received(c)),
             call' = [call EXCEPT ![c] = [Walk(c, nodes[call[c].at].next[i]) EXCEPT !.received = @ + 1]]
      PROVE  IInv'
  <2>1. PICK n : n = nodes[call[c].at].next[i]
    OBVIOUS
  <2>2. n \in Range(nodes[call[c].at].next)
    BY <2>1 DEF Matches, Range
  <2>3. Walk(c, n).received = call[c].received
    BY <1>2 DEF Walk, CallState
  <2>4. PICK received \in Nat : received = call[c].received + 1
    BY <1>2
  <2>5. call' = [call EXCEPT ![c] = [Walk(c, n) EXCEPT !.received = received]]
    BY <1>3, <2>1, <2>3, <2>4
  <2> QED BY <1>1, <2>2, <2>5, WalkStep
<1>4. ASSUME Matches(call[c].at, Received(c)) = {}, Ends(c, "unavailable")
      PROVE  IInv'
  <2>1. PICK place : Tree(place) /\ At(c, place)
    BY DEF IInv, Standing
  <2>2. /\ call[c].at \in Nodes /\ place[call[c].at].method = call[c].wants.method
        /\ place[call[c].at].messages = call[c].seen
    BY <1>1, <2>1 DEF At
  <2>3. Append(call[c].seen, Received(c)) \notin Recorded(call[c].wants.method)
    BY <1>1, <1>4, <2>1, <2>2, FoundIfRecorded
  <2> QED BY <1>1, <1>4, <2>3, EndsStep
<1> QED BY <1>3, <1>4 DEF RecvMsg

LEMMA RecvEndInv == ASSUME IInv, NEW c \in Calls, RecvEnd(c) PROVE IInv'
BY EndsStep DEF RecvEnd

LEMMA NextInv == IInv /\ [Next]_vars => IInv'
<1> SUFFICES ASSUME IInv, [Next]_vars PROVE IInv'
  OBVIOUS
<1>1. CASE UNCHANGED vars
  <2>1. serving /\ call' = call
    BY <1>1 DEF vars, serving
  <2>2. (TypeOK /\ Serving /\ OkIsWhole /\ RefusalIsJust)'
    BY <2>1 DEF serving, loading, IInv, TypeOK, Serving, LineDone, Current, OkIsWhole, RefusalIsJust,
                Received, Recorded
  <2>3. PICK place : Tree(place) /\ \A c \in Calls : At(c, place)
    BY DEF IInv, Standing
  <2>4. Tree(place)'
    BY <2>1, <2>3, SameTree
  <2>5. \A c \in Calls : At(c, place)'
    BY <2>1, <2>3 DEF At, serving, loading, Nodes
  <2> QED BY <2>2, <2>4, <2>5 DEF IInv, Standing
<1>2. CASE Load \/ LoadFails
  BY <1>2, NextRecordingInv, LoadMessageInv, LoadEndsInv DEF Load
<1>3. ASSUME NEW c \in Users, Client(c) PROVE IInv'
  <2>1. c \in Calls /\ Clients \subseteq Recording /\ Range(dump) \subseteq Recording
    BY FixtureAssumption, Lines DEF Range
  <2>2. ASSUME ClientSend(c) PROVE IInv'
    BY <2>1, <2>2, ClientSendInv DEF ClientSend
  <2> QED BY <1>3, <2>1, <2>2, StartInv, ClientEndsInv DEF Client
<1>4. ASSUME NEW c \in Calls, Intercept(c) PROVE IInv'
  BY <1>4, SendMsgInv, RecvMsgInv, RecvEndInv DEF Intercept
<1> QED BY <1>1, <1>2, <1>3, <1>4 DEF Next, Rest

-----------------------------------------------------------------------------
(* What follows.                                                           *)

\* What a call has exchanged is the beginning of a recorded one, and all of it at the end.
LEMMA Answered == ASSUME IInv PROVE AnsweredAsRecorded
<1>1. PICK place : Tree(place) /\ \A c \in Calls : Good(c, place)
  BY AllGood
<1>2. ASSUME NEW c \in Calls, call[c].pc = "loop"
      PROVE  call[c].seen \in Recorded(call[c].wants.method)
  <2>1. phase = "serving"
    BY <1>2 DEF IInv, Serving
  <2>2. /\ place[call[c].at] = [method |-> call[c].wants.method, messages |-> call[c].seen]
        /\ place[call[c].at] \in Known
    BY <1>1, <1>2 DEF Good, At, Tree, Exact
  <2> QED BY <2>1, <2>2, AllKnown
<1>3. ASSUME NEW r \in Range(dump) PROVE r.messages \in Recorded(r.method)
  <2>1. r \in Recording
    BY Lines DEF Range
  <2>2. UpTo(r, Len(r.messages)) = r /\ Len(r.messages) \in Nat
    BY <2>1, Beginnings, Fields
  <2>3. r.messages = SubSeq(r.messages, 1, Len(r.messages))
    BY <2>2 DEF UpTo
  <2>4. r.messages \in Prefixes(r.messages)
    BY <2>2, <2>3 DEF Prefixes
  <2> QED BY <2>4 DEF Recorded
<1>4. OnlyRecorded
  BY <1>1, <1>2, <1>3 DEF OnlyRecorded, Good
<1> QED BY <1>4 DEF IInv, AnsweredAsRecorded

\* Of any numbers one is the least.
LEMMA Smallest ==
    ASSUME NEW T \in SUBSET Nat, T # {}
    PROVE  \E x \in T : \A y \in T : x <= y
<1> DEFINE R == {p \in Nat \X Nat : p[1] < p[2]}
<1>1. IsWellFoundedOn(R, Nat)
  <2>1. R = OpToRel(<, Nat)
    BY DEF OpToRel
  <2> QED BY <2>1, NatLessThanWellFounded
<1>2. \E x \in T : \A y \in T : ~(<<y, x>> \in R)
  BY <1>1, WFMin
<1>3. \A x, y \in Nat : x < y => <<x, y>> \in R
  OBVIOUS
<1> HIDE DEF R
<1>4. PICK x \in T : \A y \in T : ~(<<y, x>> \in R)
  BY <1>2
<1>5. ASSUME NEW y \in T PROVE x <= y
  <2>1. x \in Nat /\ y \in Nat
    OBVIOUS
  <2>2. ~(y < x)
    BY <1>3, <1>4, <2>1
  <2> QED BY <2>1, <2>2
<1> QED BY <1>5

\* The nodes of a recorded call, one for each of its beginnings, are a way down the tree;
\* every way down the tree with its messages goes through these nodes.
LEMMA OneWay ==
    ASSUME IInv, phase = "serving", NEW r \in Range(dump)
    PROVE  \E ids \in Ways(r.method, r.messages) : Ways(r.method, r.messages) = {ids}
<1>1. PICK place : Tree(place)
  BY DEF IInv, Standing
<1>2. PICK q, m, len : q = r.messages /\ m = r.method /\ len = Len(r.messages)
  OBVIOUS
<1>3. r \in Recording /\ m \in Methods /\ len \in Nat /\ \A i \in 1..len : q[i] \in Message
  <2>1. r \in Recording
    BY Lines DEF Range
  <2> QED BY <1>2, <2>1, Fields
<1>4. PICK step : step = [i \in 1..(len + 1) |-> UpTo(r, i - 1)]
  OBVIOUS
<1>5. /\ step[1] = Nothing(m)
      /\ \A i \in 1..(len + 1) : step[i] \in Recording /\ \E n \in Nodes : place[n] = step[i]
      /\ \A i \in 1..len : i + 1 \in 1..(len + 1) /\ step[i + 1] = Further(step[i], q[i])
  <2>1. ASSUME NEW i \in 1..(len + 1) PROVE step[i] \in Recording /\ step[i] \in Known
    <3>1. PICK k \in 0..len : k = i - 1
      BY <1>3
    <3>2. UpTo(r, k) \in Recording /\ UpTo(r, k) \in Known
      BY <1>2, <1>3, Beginnings, AllKnown
    <3> QED BY <1>4, <3>1, <3>2
  <2>2. step[1] = Nothing(m)
    BY <1>2, <1>3, <1>4, Beginnings
  <2>3. ASSUME NEW i \in 1..len
        PROVE  i + 1 \in 1..(len + 1) /\ step[i + 1] = Further(step[i], q[i])
    <3>1. PICK k \in 0..(len - 1) : k = i - 1
      BY <1>3
    <3>2. UpTo(r, k + 1) = Further(UpTo(r, k), q[k + 1])
      BY <1>2, <1>3, <3>1, Beginnings
    <3> QED BY <1>3, <1>4, <3>1, <3>2
  <2> QED BY <1>1, <2>1, <2>2, <2>3 DEF Tree, Exact
<1>6. PICK ids : ids = [i \in 1..(len + 1) |-> CHOOSE n \in Nodes : place[n] = step[i]]
  OBVIOUS
<1>7. ids \in [1..(len + 1) -> Nodes] /\ \A i \in 1..(len + 1) : place[ids[i]] = step[i]
  BY <1>5, <1>6
<1>8. \A w \in [1..(len + 1) -> Nodes] : Len(w) = len + 1
  BY <1>3
<1>9. ids[1] = root[m] /\ ids[1] # NoNode
  <2>1. PICK n \in Nodes : n = ids[1] /\ place[n] = Nothing(m)
    BY <1>3, <1>5, <1>7
  <2>2. place[n].messages = <<>> /\ place[n].method = m
    BY <2>1 DEF Nothing
  <2>3. ASSUME NEW p \in Nodes, n \in Range(nodes[p].next) PROVE FALSE
    BY <1>1, <2>2, <2>3, FurtherEqual DEF Tree, Links
  <2>4. n = root[m]
    BY <1>1, <2>2, <2>3 DEF Tree, Parents
  <2> QED BY <2>1, <2>4 DEF Nodes, NoNode
<1>10. ASSUME NEW i \in 1..len
       PROVE  ids[i + 1] \in Range(nodes[ids[i]].next) /\ MessageOf[ids[i + 1]] = q[i]
  <2>1. PICK n \in Nodes : n = ids[i + 1] /\ place[n] = Further(step[i], q[i])
    BY <1>5, <1>7
  <2>2. step[i] \in Recording /\ q[i] \in Message
    BY <1>3, <1>5
  <2>3. place[n].messages # <<>>
    BY <2>1, <2>2, FurtherEqual
  <2>4. PICK p \in Nodes : n \in Range(nodes[p].next)
    BY <1>1, <2>3 DEF Tree, Parents
  <2>5. place[n] = Further(place[p], MessageOf[n]) /\ MessageOf[n] \in Message /\ place[p] \in Recording
    BY <1>1, <2>4 DEF Tree, Links
  <2>6. place[p] = step[i] /\ MessageOf[n] = q[i]
    <3>1. Further(place[p], MessageOf[n]) = Further(step[i], q[i])
      BY <2>1, <2>5
    <3> QED BY <2>2, <2>5, <3>1, FurtherEqual
  <2>7. p = ids[i]
    <3>1. ids[i] \in Nodes /\ place[ids[i]] = step[i]
      BY <1>3, <1>7
    <3> QED BY <1>1, <2>6, <3>1 DEF Tree, OneEach
  <2> QED BY <2>1, <2>4, <2>6, <2>7
<1>11. \A w : w \in Ways(m, q) <=>
          /\ w \in [1..(len + 1) -> Nodes] /\ w[1] = root[m] /\ w[1] # NoNode
          /\ \A i \in 1..len : /\ w[i + 1] \in Range(nodes[w[i]].next)
                                /\ nodes[w[i + 1]].from = q[i].from /\ nodes[w[i + 1]].body = q[i].body
  BY <1>2, <1>8 DEF Ways, IsPath, Nodes
<1>12. ids \in Ways(m, q)
  <2>1. ASSUME NEW i \in 1..len
        PROVE  nodes[ids[i + 1]].from = q[i].from /\ nodes[ids[i + 1]].body = q[i].body
    <3>1. PICK n \in Nodes : n = ids[i + 1]
      BY <1>5, <1>7
    <3>2. MessageOf[n] = q[i] /\ MessageOf[n] = [from |-> nodes[n].from, body |-> nodes[n].body]
      BY <1>10, <3>1 DEF MessageOf
    <3>3. q[i].from = nodes[n].from /\ q[i].body = nodes[n].body
      BY <3>2
    <3> QED BY <3>1, <3>3
  <2> QED BY <1>7, <1>9, <1>10, <1>11, <2>1
<1>13. ASSUME NEW w \in Ways(m, q) PROVE w = ids
  <2>1. PICK T : T = {i \in 1..(len + 1) : w[i] # ids[i]}
    OBVIOUS
  <2>2. ASSUME T # {} PROVE FALSE
    <3>1. PICK x \in T : \A y \in T : x <= y
      BY <2>1, <2>2, Smallest
    <3>2. x # 1
      BY <1>9, <1>11, <2>1
    <3>3. PICK i \in 1..len : x = i + 1
      BY <1>3, <2>1, <3>2
    <3>4. i \in 1..(len + 1) /\ i \notin T
      BY <1>3, <3>1, <3>3
    <3>5. w[i] = ids[i] /\ ids[i] \in Nodes /\ place[ids[i]] = step[i]
      BY <1>7, <2>1, <3>4
    <3>6. PICK n : n = w[i + 1] /\ n \in Range(nodes[ids[i]].next) /\ n \in Nodes
      BY <1>5, <1>11, <3>5
    <3>7. place[n] = Further(step[i], MessageOf[n]) /\ MessageOf[n] \in Message
      BY <1>1, <3>5, <3>6 DEF Tree, Links
    <3>8. MessageOf[n] = q[i]
      <4>1. MessageOf[n].from = q[i].from /\ MessageOf[n].body = q[i].body
        BY <1>11, <3>6 DEF MessageOf
      <4>2. q[i] \in Message
        BY <1>3
      <4> QED BY <3>7, <4>1, <4>2 DEF Message
    <3>9. place[n] = place[ids[i + 1]] /\ ids[i + 1] \in Nodes
      BY <1>5, <1>7, <3>7, <3>8
    <3>10. n = ids[i + 1]
      BY <1>1, <3>6, <3>9 DEF Tree, OneEach
    <3> QED BY <2>1, <3>1, <3>3, <3>6, <3>10
  <2>3. w \in [1..(len + 1) -> Nodes]
    BY <1>11
  <2>4. \A i \in 1..(len + 1) : w[i] = ids[i]
    BY <2>1, <2>2
  <2>5. ids \in [1..(len + 1) -> Nodes]
    BY <1>7
  <2>6. PICK D : D = 1..(len + 1)
    OBVIOUS
  <2>7. w \in [D -> Nodes] /\ ids \in [D -> Nodes] /\ \A i \in D : w[i] = ids[i]
    BY <2>3, <2>4, <2>5, <2>6
  <2> QED BY ONLY <2>7
<1> QED BY <1>2, <1>12, <1>13

-----------------------------------------------------------------------------
(* grpc-fixture by itself, with any clients.                               *)

\* The tree is that of what has been loaded, and every call is where its messages say.
THEOREM Inductive == Spec => []IInv
BY InitInv, NextInv, PTL DEF Spec

\* Every variable stays in its type, and the links of the tree lead to later nodes only,
\* so that no walk goes round.
THEOREM TypeCorrect == Spec => []TypeOK
<1>1. IInv => TypeOK
  BY DEF IInv
<1> QED BY <1>1, Inductive, PTL

\* Every call of the dump can be walked in the loaded tree in exactly one way, however the
\* calls share their beginnings (loadFixture).
THEOREM AllIsLoaded == Spec => []AllLoaded
<1>1. IInv => AllLoaded
  BY OneWay DEF AllLoaded
<1> QED BY <1>1, Inductive, PTL

\* intercept answers with nothing but what was recorded, behind the same messages, ends a
\* call well only at the end of a recorded one, and turns a client away only if nothing
\* recorded goes on with its message.
THEOREM FixtureAnswers == Spec => []AnsweredAsRecorded
<1>1. IInv => AnsweredAsRecorded
  BY Answered
<1> QED BY <1>1, Inductive, PTL

-----------------------------------------------------------------------------
(* grpc-fixture with grpc-replay among its clients.                        *)

Replaying ==
    /\ script \in Scripts[dump] /\ replay \in ReplayState
    /\ replay.rpc <= Len(script)
    /\ replay.rpc > 0 => replay.pos <= Len(Job.messages)
    /\ replay.mode = "exchange" => replay.rpc > 0

ReplayInv == IInv /\ Replaying

LEMMA ReplayInitInv == ReplayInit => ReplayInv
<1> SUFFICES ASSUME ReplayInit PROVE ReplayInv
  OBVIOUS
<1>1. IInv /\ dump \in Dumps
  BY InitInv DEF ReplayInit, IInv, TypeOK
<1>2. script \in Seq(Recording) /\ script \in Scripts[dump]
  BY <1>1, ReplayAssumption DEF ReplayInit
<1>3. replay \in ReplayState
  <2>1. <<>> \in Seq({"ok", "mismatch"})
    BY EmptySeq
  <2> QED BY <2>1 DEF ReplayInit, ReplayState
<1>4. replay.rpc = 0 /\ replay.mode = "next"
  BY DEF ReplayInit
<1> QED BY <1>1, <1>2, <1>3, <1>4 DEF ReplayInv, Replaying

\* What is known of the dump that is replayed.
LEMMA Jobs ==
    ASSUME ReplayInv
    PROVE  /\ Len(script) \in Nat /\ \A k \in 1..Len(script) : script[k] \in Recording
           /\ \A k \in 1..Len(script) : Streams[k] \in Calls \ Users /\ Streams[k] \in Calls
           /\ \A k \in 1..Len(script) : Len(script[k].messages) \in Nat
           /\ replay.rpc \in Nat /\ replay.pos \in Nat /\ replay.got \in Nat
           /\ replay.verdicts \in Seq({"ok", "mismatch"})
           /\ replay.mode = "exchange" =>
                 replay.rpc \in 1..Len(script) /\ replay.pos <= Len(Job.messages)
<1>1. script \in Seq(Recording) /\ Len(script) <= Len(Streams) /\ Streams \in Seq(Calls \ Users)
  BY ReplayAssumption DEF ReplayInv, Replaying, IInv, TypeOK
<1>2. Len(script) \in Nat /\ \A k \in 1..Len(script) : script[k] \in Recording
  BY <1>1
<1>3. \A k \in 1..Len(script) : Streams[k] \in Calls \ Users /\ Streams[k] \in Calls
  BY <1>1
<1>4. \A k \in 1..Len(script) : Len(script[k].messages) \in Nat
  BY <1>2, Fields
<1>5. /\ replay.rpc \in Nat /\ replay.pos \in Nat /\ replay.got \in Nat
      /\ replay.verdicts \in Seq({"ok", "mismatch"})
  BY DEF ReplayInv, Replaying, ReplayState
<1>6. replay.mode = "exchange" =>
         replay.rpc \in 1..Len(script) /\ replay.pos <= Len(Job.messages)
  BY <1>2, <1>5 DEF ReplayInv, Replaying
<1> QED BY <1>2, <1>3, <1>4, <1>5, <1>6

\* A step of replay's that only it takes part in.
LEMMA AloneInv ==
    ASSUME ReplayInv, fixtureVars' = fixtureVars, Replaying'
    PROVE  ReplayInv'
<1>1. UNCHANGED vars
  BY DEF fixtureVars
<1>2. IInv'
  BY <1>1, NextInv DEF ReplayInv
<1> QED BY <1>2 DEF ReplayInv

LEMMA OpenInv == ASSUME ReplayInv, Open PROVE ReplayInv'
<1>1. replay.rpc + 1 \in 1..Len(script)
  BY Jobs DEF Open, ReplayInv, Replaying
<1>2. script[replay.rpc + 1] \in Recording /\ Streams[replay.rpc + 1] \in Calls
  BY <1>1, Jobs
<1>3. IInv'
  BY <1>2, StartInv DEF ReplayInv, Open
<1>4. PICK n : n = replay.rpc + 1 /\ replay' = [replay EXCEPT !.mode = "exchange", !.rpc = n, !.pos = 0, !.got = 0]
  BY DEF Open
<1>5. replay \in ReplayState /\ n \in Nat
  BY <1>4, Jobs DEF ReplayInv, Replaying
<1>6. replay' \in ReplayState /\ replay'.rpc = n /\ replay'.pos = 0
  BY <1>4, <1>5 DEF ReplayState
<1>7. UNCHANGED <<script, dump>>
  BY DEF Open, Start, serving
<1>8. Job' = script[n] /\ Len(script[n].messages) \in Nat
  BY <1>1, <1>4, <1>6, <1>7, Jobs DEF Job
<1>9. Replaying'
  BY <1>1, <1>4, <1>5, <1>6, <1>7, <1>8 DEF ReplayInv, Replaying
<1> QED BY <1>3, <1>9 DEF ReplayInv

\* Whatever replay does within an RPC, its counters stay within the dump.
LEMMA WithinInv ==
    ASSUME ReplayInv, UNCHANGED <<script, dump>>, replay' \in ReplayState, replay'.rpc = replay.rpc,
           replay'.mode # "exchange" \/ replay.mode = "exchange",
           replay'.pos = replay.pos \/ (replay'.pos = replay.pos + 1 /\ Exchanging)
    PROVE  Replaying'
<1>1. Job' = Job
  BY DEF Job
<1>2. replay.rpc > 0 => replay'.pos <= Len(Job.messages)
  <2>1. Exchanging => replay.pos + 1 <= Len(Job.messages)
    BY Jobs DEF Exchanging
  <2> QED BY <2>1 DEF ReplayInv, Replaying
<1> QED BY <1>1, <1>2 DEF ReplayInv, Replaying

LEMMA FailsInv == ASSUME ReplayInv, NEW cause \in {"none", "send", "recv", "other"}, Fails(cause),
                         UNCHANGED <<script, dump>> PROVE Replaying'
<1>1. /\ replay' \in ReplayState /\ replay'.rpc = replay.rpc /\ replay'.pos = replay.pos
      /\ replay'.mode # "exchange"
  BY DEF ReplayInv, Replaying, ReplayState, Fails
<1> QED BY <1>1, WithinInv

LEMMA SendInv == ASSUME ReplayInv, Send PROVE ReplayInv'
<1>1. UNCHANGED <<script, dump>> /\ serving /\ Exchanging
  BY DEF Send, serving
<1>2. Replaying'
  <2>1. CASE replay' = [replay EXCEPT !.pos = @ + 1]
    <3>1. /\ replay' \in ReplayState /\ replay'.rpc = replay.rpc /\ replay'.pos = replay.pos + 1
          /\ replay'.mode = replay.mode
      BY <2>1 DEF ReplayInv, Replaying, ReplayState
    <3> QED BY <1>1, <3>1, WithinInv
  <2>2. CASE Fails("send")
    BY <1>1, <2>2, FailsInv
  <2> QED BY <2>1, <2>2 DEF Send
<1>3. IInv'
  <2>1. CASE call[Stream].pc = "loop" /\ call' = [call EXCEPT ![Stream].sent = @ + 1]
    <3>1. Stream \in Calls
      BY <1>1, Jobs DEF Stream, Exchanging
    <3> QED BY <1>1, <2>1, <3>1, ClientSendInv DEF ReplayInv
  <2>2. CASE call' = call
    <3>1. UNCHANGED vars
      BY <1>1, <2>2 DEF serving, vars
    <3> QED BY <3>1, NextInv DEF ReplayInv
  <2> QED BY <2>1, <2>2 DEF Send
<1> QED BY <1>2, <1>3 DEF ReplayInv

LEMMA RecvInv == ASSUME ReplayInv, Recv \/ Verdict \/ EndOfDump \/ GivesUp PROVE ReplayInv'
<1>1. fixtureVars' = fixtureVars /\ UNCHANGED <<script, dump>>
  BY DEF Recv, Verdict, EndOfDump, GivesUp, fixtureVars, vars
<1>2. \A x \in {"ok", "mismatch"} : Append(replay.verdicts, x) \in Seq({"ok", "mismatch"})
  BY Jobs, AppendProperties
<1>3. CASE Exchanging /\ replay' = [replay EXCEPT !.pos = @ + 1, !.got = @ + 1]
  <2>1. PICK p, g : p = replay.pos + 1 /\ g = replay.got + 1 /\ p \in Nat /\ g \in Nat
    <3>1. replay.pos \in Nat /\ replay.got \in Nat
      BY Jobs
    <3> QED BY <3>1
  <2>2. replay' = [replay EXCEPT !.pos = p, !.got = g]
    BY <1>3, <2>1
  <2>3. /\ replay' \in ReplayState /\ replay'.rpc = replay.rpc /\ replay'.pos = p
        /\ replay'.mode = replay.mode
    BY <2>1, <2>2 DEF ReplayInv, Replaying, ReplayState
  <2>4. Replaying'
    BY <1>1, <1>3, <2>1, <2>3, WithinInv DEF Exchanging
  <2> QED BY <1>1, <2>4, AloneInv
<1>4. ASSUME NEW x \in {"ok", "mismatch"},
             replay' = [replay EXCEPT !.mode = "next", !.verdicts = Append(@, x)]
      PROVE  ReplayInv'
  <2>1. PICK said : said = Append(replay.verdicts, x)
    OBVIOUS
  <2>2. /\ replay' \in ReplayState /\ replay'.rpc = replay.rpc /\ replay'.pos = replay.pos
        /\ replay'.mode = "next"
    BY <1>2, <1>4, <2>1 DEF ReplayInv, Replaying, ReplayState
  <2>3. Replaying'
    BY <1>1, <2>2, WithinInv
  <2> QED BY <1>1, <2>3, AloneInv
<1>5. CASE replay' = [replay EXCEPT !.mode = "done"]
  <2>1. /\ replay' \in ReplayState /\ replay'.rpc = replay.rpc /\ replay'.pos = replay.pos
        /\ replay'.mode = "done"
    BY <1>5 DEF ReplayInv, Replaying, ReplayState
  <2>2. Replaying'
    BY <1>1, <2>1, WithinInv
  <2> QED BY <1>1, <2>2, AloneInv
<1>6. ASSUME NEW cause \in {"recv", "other"}, Fails(cause) PROVE ReplayInv'
  <2>1. Replaying'
    BY <1>1, <1>6, FailsInv
  <2> QED BY <1>1, <2>1, AloneInv
<1> QED BY <1>3, <1>4, <1>5, <1>6 DEF Recv, Verdict, EndOfDump, GivesUp

\* The connections close: the calls on them are cancelled, wherever they are.
LEMMA ExitInv == ASSUME ReplayInv, Exit PROVE ReplayInv'
<1>1. /\ serving /\ UNCHANGED <<script, dump>> /\ replay' = [replay EXCEPT !.mode = "exited"]
      /\ call' = [c \in Calls |->
                    [call[c] EXCEPT !.cancelled = @ \/ (c \in Range(Streams) /\ call[c].pc = "loop")]]
  BY DEF Exit, serving
<1>2. Replaying'
  <2>1. /\ replay' \in ReplayState /\ replay'.rpc = replay.rpc /\ replay'.pos = replay.pos
        /\ replay'.mode = "exited"
    BY <1>1 DEF ReplayInv, Replaying, ReplayState
  <2> QED BY <1>1, <2>1, WithinInv
<1>3. ASSUME NEW c \in Calls
      PROVE  /\ call'[c] \in CallState /\ call'[c].pc = call[c].pc /\ call'[c].at = call[c].at
             /\ call'[c].seen = call[c].seen /\ call'[c].wants = call[c].wants
             /\ call'[c].sent = call[c].sent /\ call'[c].received = call[c].received
             /\ call'[c].status = call[c].status
  <2>1. PICK old : old = call[c] /\ old \in CallState
    BY DEF ReplayInv, IInv, TypeOK
  <2>2. PICK b \in BOOLEAN : call'[c] = [old EXCEPT !.cancelled = b]
    <3>1. call'[c] = [old EXCEPT !.cancelled = old.cancelled \/ (c \in Range(Streams) /\ old.pc = "loop")]
      BY <1>1, <2>1
    <3> QED BY <3>1
  <2> QED BY <2>1, <2>2 DEF CallState
<1>4. PICK place : Tree(place) /\ \A c \in Calls : Good(c, place)
  BY AllGood DEF ReplayInv
<1>5. \A c \in Calls : Received(c)' = Received(c)
  BY <1>3 DEF Received
<1>6. UNCHANGED <<Nodes, dump>>
  BY <1>1 DEF serving, loading, Nodes
<1>7. ASSUME NEW c \in Calls PROVE Good(c, place)'
  <2>1. Recorded(call[c].wants.method)' = Recorded(call[c].wants.method)
    BY <1>3, <1>6 DEF Recorded
  <2>2. At(c, place)'
    BY <1>3, <1>4, <1>6 DEF Good, At
  <2> QED BY <1>3, <1>4, <1>5, <1>6, <2>1, <2>2 DEF Good
<1>8. IInv'
  <2>1. call' \in [Calls -> CallState]
    BY <1>1, <1>3
  <2>2. CASE phase = "serving"
    BY <1>1, <1>4, <1>7, <2>1, <2>2, CallsStep DEF ReplayInv
  <2>3. CASE phase # "serving"
    <3>1. \A c \in Calls : call[c].pc = "idle" /\ call[c].status = "none"
      BY <2>3 DEF ReplayInv, IInv, Serving
    <3>2. UNCHANGED <<phase, line, pos, node, nodes, root>>
      BY <1>1 DEF serving, loading
    <3>3. TypeOK' /\ Serving'
      BY <1>3, <1>6, <2>1, <2>3, <3>1, <3>2 DEF ReplayInv, IInv, TypeOK, Serving
    <3>4. OkIsWhole' /\ RefusalIsJust'
      BY <1>3, <3>1 DEF OkIsWhole, RefusalIsJust
    <3>5. Standing'
      BY <1>1, <1>4, <1>7, SameTree DEF Standing, Good
    <3> QED BY <3>3, <3>4, <3>5 DEF IInv
  <2> QED BY <2>2, <2>3
<1> QED BY <1>2, <1>8 DEF ReplayInv

LEMMA ReplayNextInv == ReplayInv /\ [ReplayNext]_allVars => ReplayInv'
<1> SUFFICES ASSUME ReplayInv, [ReplayNext]_allVars PROVE ReplayInv'
  OBVIOUS
<1>1. CASE [Next]_vars /\ UNCHANGED replayVars
  <2>1. IInv' /\ UNCHANGED <<script, replay>>
    BY <1>1, NextInv DEF ReplayInv, replayVars
  <2>2. dump' = dump
    BY <1>1 DEF Next, vars, Load, NextRecording, LoadMessage, LoadDone, LoadFails, Rest, Client,
                Start, ClientSend, ClientHalfClose, ClientCancel, Intercept, SendMsg, RecvMsg,
                RecvEnd, serving
  <2>3. Replaying'
    BY <2>1, <2>2 DEF ReplayInv, Replaying, Job
  <2> QED BY <2>1, <2>3 DEF ReplayInv
<1>2. CASE Run \/ GivesUp
  BY <1>2, OpenInv, SendInv, RecvInv, ExitInv DEF Run
<1> QED BY <1>1, <1>2 DEF ReplayNext, allVars

\* The fixture's invariant holds with replay among its clients, which stays within its dump.
THEOREM ReplayInductive == ReplaySpec => []ReplayInv
BY ReplayInitInv, ReplayNextInv, PTL DEF ReplaySpec

\* Every variable of both stays in its type: replay's counters never leave its dump.
THEOREM ReplayTypeCorrect == ReplaySpec => []ReplayTypeOK
<1>1. ReplayInv => ReplayTypeOK
  BY DEF ReplayInv, IInv, Replaying, ReplayTypeOK
<1> QED BY <1>1, ReplayInductive, PTL

\* The loaded tree has one way for every recorded call, whoever is to walk it.
THEOREM AllIsLoadedForReplay == ReplaySpec => []AllLoaded
<1>1. ReplayInv => AllLoaded
  BY OneWay DEF AllLoaded, ReplayInv
<1> QED BY <1>1, ReplayInductive, PTL

\* A replay that half-closes nothing, reads on only while its dump has a response, and
\* exits in the middle of a call, is answered as recorded too, and so are the clients that
\* call meanwhile.
THEOREM ReplayIsAnswered == ReplaySpec => []AnsweredAsRecorded
<1>1. ReplayInv => AnsweredAsRecorded
  BY Answered DEF ReplayInv
<1> QED BY <1>1, ReplayInductive, PTL

-----------------------------------------------------------------------------
(* The messages of one side.                                               *)

\* A set of numbers with 0 and the successor of each of its elements below n has all up to n.
LEMMA Induct ==
    ASSUME NEW n \in Nat, NEW S, 0 \in S, \A k \in 0..(n - 1) : k \in S => k + 1 \in S
    PROVE  0..n \subseteq S
<1> DEFINE T == (0..n) \ S
<1> SUFFICES ASSUME T # {} PROVE FALSE
  OBVIOUS
<1>1. PICK x \in T : \A y \in T : x <= y
  <2>1. T \in SUBSET Nat
    OBVIOUS
  <2> HIDE DEF T
  <2> QED BY <2>1, Smallest
<1>2. x # 0 /\ x - 1 \in 0..(n - 1) /\ x - 1 \notin T
  BY <1>1
<1> QED BY <1>1, <1>2

\* f has the messages of one side up to each point of the sequence.
Tally(who, ms, f) ==
    f = [k \in 0..Len(ms) |->
           IF k = 0 THEN <<>>
           ELSE IF ms[k].from = who THEN Append(f[k - 1], ms[k]) ELSE f[k - 1]]

LEMMA ByTally ==
    ASSUME NEW who, NEW ms
    PROVE  By(who, ms) = (CHOOSE f : Tally(who, ms, f))[Len(ms)]
BY DEF By, Tally

LEMMA TallyExists ==
    ASSUME NEW who, NEW ms \in Seq(Message)
    PROVE  \E f : Tally(who, ms, f)
<1>1. PICK n : n = Len(ms) /\ n \in Nat
  OBVIOUS
<1> DEFINE Right(f, k) == /\ f[0] = <<>> /\ DOMAIN f = 0..k /\ f = [i \in 0..k |-> f[i]]
                          /\ \A i \in 1..k : f[i] = IF ms[i].from = who THEN Append(f[i - 1], ms[i]) ELSE f[i - 1]
           S == {k \in Nat : \E f : Right(f, k)}
<1>2. 0 \in S
  <2>1. PICK f : f = [i \in 0..0 |-> <<>>]
    OBVIOUS
  <2>2. Right(f, 0)
    BY <2>1
  <2> QED BY <2>2
<1>3. ASSUME NEW k \in 0..(n - 1), k \in S PROVE k + 1 \in S
  <2>1. PICK f : Right(f, k)
    BY <1>3
  <2>2. PICK g : g = [i \in 0..(k + 1) |-> IF i = k + 1 THEN IF ms[k + 1].from = who THEN Append(f[k], ms[k + 1]) ELSE f[k] ELSE f[i]]
    OBVIOUS
  <2>3. \A i \in 0..k : g[i] = f[i]
    BY <2>2, <1>1
  <2>4. Right(g, k + 1)
    <3>1. g[0] = <<>> /\ DOMAIN g = 0..(k + 1) /\ g = [i \in 0..(k + 1) |-> g[i]]
      BY <2>1, <2>2, <2>3, <1>1
    <3>2. ASSUME NEW i \in 1..(k + 1) PROVE g[i] = IF ms[i].from = who THEN Append(g[i - 1], ms[i]) ELSE g[i - 1]
      <4>1. CASE i = k + 1
        BY <2>2, <2>3, <4>1, <1>1
      <4>2. CASE i \in 1..k
        <5>1. g[i] = f[i] /\ g[i - 1] = f[i - 1]
          BY <2>3, <4>2, <1>1
        <5> QED BY <2>1, <4>2, <5>1
      <4> QED BY <4>1, <4>2, <1>1
    <3> QED BY <3>1, <3>2
  <2>5. k + 1 \in Nat
    BY <1>1
  <2> HIDE DEF Right
  <2> QED BY <2>4, <2>5
<1> HIDE DEF Right
<1>4. n \in S
  <2> HIDE DEF S
  <2>1. 0..n \subseteq S
    BY <1>1, <1>2, <1>3, Induct
  <2> QED BY <1>1, <2>1
<1>5. PICK f : Right(f, n)
  BY <1>4
<1>6. Tally(who, ms, f)
  <2> USE DEF Right
  <2>1. \A i \in 0..n : f[i] = IF i = 0 THEN <<>> ELSE IF ms[i].from = who THEN Append(f[i - 1], ms[i]) ELSE f[i - 1]
    BY <1>1, <1>5
  <2>2. f = [i \in 0..n |-> f[i]]
    BY <1>5
  <2> QED BY <1>1, <2>1, <2>2 DEF Tally
<1> QED BY <1>6

\* Two tallies of sequences that begin alike agree there.
LEMMA TalliesAgree ==
    ASSUME NEW who, NEW ms, NEW q, NEW f, NEW g, NEW n \in Nat, Len(ms) \in Nat, Len(q) \in Nat,
           n <= Len(ms), n <= Len(q), \A i \in 1..n : ms[i] = q[i],
           Tally(who, ms, f), Tally(who, q, g)
    PROVE  \A k \in 0..n : f[k] = g[k]
<1> DEFINE S == {k \in 0..n : f[k] = g[k]}
<1>1. 0 \in S
  BY DEF Tally
<1>2. ASSUME NEW k \in 0..(n - 1), k \in S PROVE k + 1 \in S
  <2>1. k + 1 \in 1..n /\ (k + 1) - 1 = k /\ k + 1 # 0 /\ k + 1 \in 0..Len(ms) /\ k + 1 \in 0..Len(q)
    OBVIOUS
  <2>2. PICK j : j = k + 1
    OBVIOUS
  <2>3. f[j] = IF ms[j].from = who THEN Append(f[k], ms[j]) ELSE f[k]
    BY <2>1, <2>2 DEF Tally
  <2>4. g[j] = IF q[j].from = who THEN Append(g[k], q[j]) ELSE g[k]
    BY <2>1, <2>2 DEF Tally
  <2> QED BY <1>2, <2>1, <2>2, <2>3, <2>4
<1> HIDE DEF S
<1>3. 0..n \subseteq S
  BY <1>1, <1>2, Induct
<1> QED BY <1>3 DEF S

\* The messages of one side, message by message.
LEMMA BySteps ==
    ASSUME NEW who
    PROVE  /\ By(who, <<>>) = <<>>
           /\ \A ms \in Seq(Message) : \A x \in Message :
                 By(who, Append(ms, x)) =
                    IF x.from = who THEN Append(By(who, ms), x) ELSE By(who, ms)
<1>1. By(who, <<>>) = <<>>
  <2>1. <<>> \in Seq(Message) /\ Len(<<>>) = 0
    BY EmptySeq
  <2>2. PICK f : f = (CHOOSE h : Tally(who, <<>>, h))
    OBVIOUS
  <2>3. Tally(who, <<>>, f)
    BY <2>1, <2>2, TallyExists
  <2> QED BY <2>1, <2>2, <2>3, ByTally DEF Tally
<1>2. ASSUME NEW ms \in Seq(Message), NEW x \in Message
      PROVE  By(who, Append(ms, x)) = IF x.from = who THEN Append(By(who, ms), x) ELSE By(who, ms)
  <2>1. PICK q, n : q = Append(ms, x) /\ n = Len(ms)
    OBVIOUS
  <2>2. q \in Seq(Message) /\ Len(q) = n + 1 /\ q[n + 1] = x /\ \A i \in 1..n : q[i] = ms[i]
    BY <2>1, AppendProperties
  <2>3. n \in Nat
    BY <2>1
  <2>4. PICK f, g : f = (CHOOSE h : Tally(who, ms, h)) /\ g = (CHOOSE h : Tally(who, q, h))
    OBVIOUS
  <2>5. Tally(who, ms, f)
    BY <2>4, TallyExists
  <2>6. Tally(who, q, g)
    BY <2>2, <2>4, TallyExists
  <2>7. f[n] = g[n]
    <3>1. Len(ms) \in Nat /\ Len(q) \in Nat /\ n <= Len(ms) /\ n <= Len(q)
      BY <2>1, <2>2, <2>3
    <3>2. \A i \in 1..n : ms[i] = q[i]
      BY <2>2
    <3>3. \A k \in 0..n : f[k] = g[k]
      BY <2>3, <2>5, <2>6, <3>1, <3>2, TalliesAgree
    <3> QED BY <2>3, <3>3
  <2>8. g[n + 1] = IF q[n + 1].from = who THEN Append(g[n], q[n + 1]) ELSE g[n]
    <3>1. n + 1 \in 0..(n + 1) /\ (n + 1) - 1 = n /\ n + 1 # 0
      BY <2>3
    <3>2. PICK j : j = n + 1
      OBVIOUS
    <3>3. j \in 0..Len(q) /\ j # 0 /\ j - 1 = n
      BY <2>2, <3>1, <3>2
    <3> QED BY <2>6, <3>2, <3>3 DEF Tally
  <2>9. By(who, ms) = f[n] /\ By(who, q) = g[n + 1]
    BY <2>1, <2>2, <2>4, ByTally
  <2> QED BY <2>1, <2>2, <2>7, <2>8, <2>9
<1> QED BY <1>1, <1>2

\* One sequence begins with the other.
Begins(p, q) == Len(p) <= Len(q) /\ \A i \in 1..Len(p) : p[i] = q[i]

LEMMA ByFacts ==
    ASSUME NEW who, NEW ms \in Seq(Message)
    PROVE  /\ \A k \in 0..Len(ms) :
                 /\ By(who, SubSeq(ms, 1, k)) \in Seq(Message)
                 /\ \A i \in 1..Len(By(who, SubSeq(ms, 1, k))) :
                       By(who, SubSeq(ms, 1, k))[i].from = who
                 /\ Begins(By(who, SubSeq(ms, 1, k)), By(who, ms))
           /\ \A l \in 0..Len(By(who, ms)) : \E k \in 0..Len(ms) :
                 Len(By(who, SubSeq(ms, 1, k))) = l
<1>1. PICK n \in Nat : n = Len(ms)
  OBVIOUS
<1>2. PICK b : b = [k \in 0..n |-> By(who, SubSeq(ms, 1, k))]
  OBVIOUS
<1>3. b[0] = <<>> /\ b[n] = By(who, ms)
  BY <1>1, <1>2, SubSeqEmpty, SubSeqFull, BySteps
<1>4. ASSUME NEW k \in 0..(n - 1)
      PROVE  b[k + 1] = IF ms[k + 1].from = who THEN Append(b[k], ms[k + 1]) ELSE b[k]
  <2>1. SubSeq(ms, 1, k) \in Seq(Message) /\ ms[k + 1] \in Message
    BY <1>1, SubSeqProperties
  <2>2. SubSeq(ms, 1, k + 1) = Append(SubSeq(ms, 1, k), ms[k + 1])
    BY <1>1, UpToNext
  <2>3. k \in 0..n /\ k + 1 \in 0..n
    BY <1>1
  <2>4. PICK q, x : q = SubSeq(ms, 1, k) /\ x = ms[k + 1]
    OBVIOUS
  <2>5. By(who, Append(q, x)) = IF x.from = who THEN Append(By(who, q), x) ELSE By(who, q)
    BY <2>1, <2>4, BySteps
  <2>6. b[k + 1] = By(who, Append(q, x)) /\ b[k] = By(who, q)
    BY <1>2, <2>2, <2>3, <2>4
  <2> QED BY <2>4, <2>5, <2>6
<1>5. \A k \in 0..(n - 1) : k \in 0..n /\ k + 1 \in 0..n /\ ms[k + 1] \in Message
  BY <1>1
\* Each is a list of messages of that side.
<1> DEFINE A == {k \in 0..n : b[k] \in Seq(Message) /\ \A i \in 1..Len(b[k]) : b[k][i].from = who}
<1>6. 0..n \subseteq A
  <2>1. 0 \in A
    <3>1. <<>> \in Seq(Message) /\ Len(<<>>) = 0 /\ 0 \in 0..n
      BY EmptySeq
    <3>2. \A i \in 1..Len(b[0]) : FALSE
      BY <1>3, <3>1
    <3> QED BY <1>3, <3>1, <3>2
  <2>2. ASSUME NEW k \in 0..(n - 1), k \in A PROVE k + 1 \in A
    <3>1. PICK p, q, x : p = b[k] /\ q = b[k + 1] /\ x = ms[k + 1]
      OBVIOUS
    <3>2. p \in Seq(Message) /\ (\A i \in 1..Len(p) : p[i].from = who) /\ x \in Message
      BY <1>5, <2>2, <3>1
    <3>3. q = IF x.from = who THEN Append(p, x) ELSE p
      BY <1>4, <3>1
    <3>4. q \in Seq(Message) /\ \A i \in 1..Len(q) : q[i].from = who
      <4>1. CASE x.from # who
        BY <3>2, <3>3, <4>1
      <4>2. CASE x.from = who
        <5>1. PICK l \in Nat : l = Len(p)
          BY <3>2
        <5>2. /\ q \in Seq(Message) /\ Len(q) = l + 1 /\ q[l + 1] = x
              /\ \A i \in 1..l : q[i] = p[i]
          BY <3>2, <3>3, <4>2, <5>1, AppendProperties
        <5>3. ASSUME NEW i \in 1..(l + 1) PROVE q[i].from = who
          <6>1. i \in 1..l \/ i = l + 1
            OBVIOUS
          <6> QED BY <3>2, <4>2, <5>1, <5>2, <6>1
        <5> QED BY <5>2, <5>3
      <4> QED BY <4>1, <4>2
    <3> QED BY <1>5, <3>1, <3>4
  <2> HIDE DEF A
  <2> QED BY <2>1, <2>2, Induct
\* Each begins with all before it.
<1>7. ASSUME NEW k \in 0..(n - 1)
      PROVE  /\ Len(b[k]) \in Nat /\ Len(b[k + 1]) \in {Len(b[k]), Len(b[k]) + 1}
             /\ \A i \in 1..Len(b[k]) : b[k + 1][i] = b[k][i]
  <2>1. PICK p, q, x : p = b[k] /\ q = b[k + 1] /\ x = ms[k + 1]
    OBVIOUS
  <2>2. p \in Seq(Message) /\ x \in Message
    BY <1>5, <1>6, <2>1
  <2>3. q = IF x.from = who THEN Append(p, x) ELSE p
    BY <1>4, <2>1
  <2>4. Len(p) \in Nat /\ Len(q) \in {Len(p), Len(p) + 1} /\ \A i \in 1..Len(p) : q[i] = p[i]
    BY <2>2, <2>3, AppendProperties
  <2> QED BY <2>1, <2>4
<1> HIDE DEF A
<1>8. PICK len : len = [k \in 0..n |-> Len(b[k])]
  OBVIOUS
<1>9. \A k \in 0..(n - 1) : len[k + 1] \in {len[k], len[k] + 1}
  BY <1>5, <1>7, <1>8
<1>10. \A k \in 0..n : len[k] \in Nat
  BY <1>6, <1>8 DEF A
<1>11. ASSUME NEW j \in 0..n
       PROVE  \A k \in j..n : len[j] <= len[k] /\ \A i \in 1..len[j] : b[k][i] = b[j][i]
  <2> DEFINE S == {k \in 0..n : k >= j => len[j] <= len[k] /\ \A i \in 1..len[j] : b[k][i] = b[j][i]}
  <2>1. 0 \in S
    BY <1>10
  <2>2. ASSUME NEW k \in 0..(n - 1), k \in S PROVE k + 1 \in S
    <3>1. k \in 0..n /\ k + 1 \in 0..n
      BY <1>5
    <3>2. CASE k + 1 <= j
      BY <1>10, <3>1, <3>2
    <3>3. CASE k >= j
      <4>1. len[j] <= len[k] /\ len[k] <= len[k + 1] /\ \A i \in 1..len[j] : b[k][i] = b[j][i]
        <5>1. len[k + 1] \in {len[k], len[k] + 1} /\ len[k] \in Nat
          BY <1>9, <1>10, <3>1
        <5>2. len[j] <= len[k] /\ \A i \in 1..len[j] : b[k][i] = b[j][i]
          BY <2>2, <3>3
        <5> QED BY <5>1, <5>2
      <4>2. \A i \in 1..len[k] : b[k + 1][i] = b[k][i]
        BY <1>7, <1>8, <3>1
      <4>3. \A i \in 1..len[j] : b[k + 1][i] = b[j][i]
        BY <1>10, <3>1, <4>1, <4>2
      <4>4. len[j] <= len[k + 1]
        BY <1>10, <3>1, <4>1
      <4> QED BY <3>1, <4>3, <4>4
    <3> QED BY <3>1, <3>2, <3>3
  <2> HIDE DEF S
  <2>3. 0..n \subseteq S
    BY <2>1, <2>2, Induct
  <2> QED BY <2>3 DEF S
\* They grow by one at a time.
<1> DEFINE T == {k \in 0..n : \A l \in 0..len[k] : \E j \in 0..n : len[j] = l}
<1>12. 0..n \subseteq T
  <2>1. 0 \in T /\ len[0] = 0
    <3>1. len[0] = 0
      BY <1>3, <1>8, EmptySeq
    <3> QED BY <3>1
  <2>2. ASSUME NEW k \in 0..(n - 1), k \in T PROVE k + 1 \in T
    <3>1. k \in 0..n /\ k + 1 \in 0..n /\ len[k] \in Nat
      BY <1>5, <1>10
    <3>2. ASSUME NEW l \in 0..len[k + 1] PROVE \E j \in 0..n : len[j] = l
      <4>1. l \in 0..len[k] \/ l = len[k + 1]
        BY <1>9, <3>1
      <4> QED BY <2>2, <3>1, <4>1
    <3> QED BY <3>1, <3>2
  <2> HIDE DEF T
  <2> QED BY <2>1, <2>2, Induct
<1>13. ASSUME NEW k \in 0..n
       PROVE  /\ By(who, SubSeq(ms, 1, k)) \in Seq(Message)
              /\ \A i \in 1..Len(By(who, SubSeq(ms, 1, k))) :
                    By(who, SubSeq(ms, 1, k))[i].from = who
              /\ Begins(By(who, SubSeq(ms, 1, k)), By(who, ms))
  <2>1. b[k] = By(who, SubSeq(ms, 1, k)) /\ len[k] = Len(b[k]) /\ len[n] = Len(b[n])
    BY <1>2, <1>8
  <2>2. n \in k..n
    OBVIOUS
  <2>3. Begins(b[k], b[n])
    BY <1>11, <2>1, <2>2 DEF Begins
  <2> QED BY <1>3, <1>6, <2>1, <2>3 DEF A
<1>14. ASSUME NEW l \in 0..Len(By(who, ms))
       PROVE  \E k \in 0..n : Len(By(who, SubSeq(ms, 1, k))) = l
  <2>1. l \in 0..len[n] /\ n \in 0..n
    BY <1>3, <1>8
  <2>2. PICK k \in 0..n : len[k] = l
    BY <1>12, <2>1
  <2> QED BY <1>2, <1>8, <2>2
<1> QED BY <1>1, <1>13, <1>14

LEMMA ByAll ==
    ASSUME NEW who, NEW ms \in Seq(Message)
    PROVE  /\ By(who, ms) \in Seq(Message) /\ Len(By(who, ms)) \in Nat
           /\ \A i \in 1..Len(By(who, ms)) : By(who, ms)[i] \in Message /\ By(who, ms)[i].from = who
<1>1. SubSeq(ms, 1, Len(ms)) = ms /\ Len(ms) \in 0..Len(ms)
  BY SubSeqFull
<1>2. PICK q : q = By(who, ms)
  OBVIOUS
<1>3. q \in Seq(Message) /\ \A i \in 1..Len(q) : q[i].from = who
  <2>1. PICK n \in 0..Len(ms) : SubSeq(ms, 1, n) = ms
    BY <1>1
  <2>2. /\ By(who, SubSeq(ms, 1, n)) \in Seq(Message)
        /\ \A i \in 1..Len(By(who, SubSeq(ms, 1, n))) : By(who, SubSeq(ms, 1, n))[i].from = who
    BY ByFacts
  <2> QED BY <1>2, <2>1, <2>2
<1>4. Len(q) \in Nat /\ \A i \in 1..Len(q) : q[i] \in Message
  BY <1>3
<1> QED BY <1>2, <1>3, <1>4

LEMMA BeginsFacts ==
    /\ \A p, q \in Seq(Message) : Begins(p, q) => IsPrefix(p, q)
    /\ \A q \in Seq(Message) : Begins(<<>>, q) /\ Begins(q, q)
    /\ \A p, q, r \in Seq(Message) : Begins(p, q) /\ Begins(q, r) => Begins(p, r)
    /\ \A p, q, r \in Seq(Message) : Begins(p, r) /\ Begins(q, r) /\ Len(p) = Len(q) => p = q
<1>1. ASSUME NEW p \in Seq(Message), NEW q \in Seq(Message), Begins(p, q) PROVE IsPrefix(p, q)
  <2>1. PICK n \in Nat : n = Len(p) /\ n <= Len(q) /\ \A i \in 1..n : p[i] = q[i]
    BY <1>1 DEF Begins
  <2>2. PICK a, b : a = SubSeq(p, 1, n) /\ b = SubSeq(q, 1, n)
    OBVIOUS
  <2>3. \A i \in 1..n : p[i] \in Message /\ q[i] \in Message
    BY <2>1
  <2>4. a \in Seq(Message) /\ Len(a) = n /\ \A i \in 1..n : a[i] = p[i]
    BY <2>1, <2>2, <2>3, SubSeqProperties
  <2>5. b \in Seq(Message) /\ Len(b) = n /\ \A i \in 1..n : b[i] = q[i]
    BY <2>1, <2>2, <2>3, SubSeqProperties
  <2>6. a = b
    BY <2>1, <2>4, <2>5, SeqEqual
  <2> QED BY <2>1, <2>2, <2>6 DEF IsPrefix
<1>2. ASSUME NEW q \in Seq(Message) PROVE Begins(<<>>, q) /\ Begins(q, q)
  <2>1. Len(q) \in Nat /\ Len(<<>>) = 0
    BY EmptySeq
  <2> QED BY <2>1 DEF Begins
<1>3. ASSUME NEW p \in Seq(Message), NEW q \in Seq(Message), NEW r \in Seq(Message),
             Begins(p, q), Begins(q, r)
      PROVE  Begins(p, r)
  <2>1. PICK a, b, c : a = Len(p) /\ b = Len(q) /\ c = Len(r) /\ a \in Nat /\ b \in Nat /\ c \in Nat
    <3>1. Len(p) \in Nat /\ Len(q) \in Nat /\ Len(r) \in Nat
      OBVIOUS
    <3> QED BY ONLY <3>1
  <2>2. a <= b /\ b <= c /\ (\A i \in 1..a : p[i] = q[i]) /\ \A i \in 1..b : q[i] = r[i]
    BY <1>3, <2>1 DEF Begins
  <2>3. a <= c /\ \A i \in 1..a : i \in 1..b
    BY <2>1, <2>2
  <2> QED BY <2>1, <2>2, <2>3 DEF Begins
<1>4. ASSUME NEW p \in Seq(Message), NEW q \in Seq(Message), NEW r \in Seq(Message),
             Begins(p, r), Begins(q, r), Len(p) = Len(q)
      PROVE  p = q
  <2>1. \A i \in 1..Len(p) : p[i] = q[i]
    BY <1>4 DEF Begins
  <2> QED BY <1>4, <2>1, SeqEqual
<1> QED BY <1>1, <1>2, <1>3, <1>4

LEMMA BeginsAppend ==
    ASSUME NEW p \in Seq(Message), NEW q \in Seq(Message), NEW x \in Message
    PROVE  /\ Begins(p, q) => Begins(p, Append(q, x))
           /\ Begins(p, q) /\ Len(p) + 1 <= Len(q) /\ q[Len(p) + 1] = x => Begins(Append(p, x), q)
           /\ Len(Append(p, x)) = Len(p) + 1
<1>1. PICK a, b : a = Len(p) /\ b = Len(q) /\ a \in Nat /\ b \in Nat
  <2>1. Len(p) \in Nat /\ Len(q) \in Nat
    OBVIOUS
  <2> QED BY ONLY <2>1
<1>2. PICK s, t : s = Append(p, x) /\ t = Append(q, x)
  OBVIOUS
<1>3. Len(s) = a + 1 /\ s[a + 1] = x /\ \A i \in 1..a : s[i] = p[i]
  BY <1>1, <1>2, AppendProperties
<1>4. Len(t) = b + 1 /\ \A i \in 1..b : t[i] = q[i]
  BY <1>1, <1>2, AppendProperties
<1>5. ASSUME Begins(p, q) PROVE Begins(p, t)
  <2>1. a <= b /\ \A i \in 1..a : p[i] = q[i]
    BY <1>1, <1>5 DEF Begins
  <2>2. a <= b + 1 /\ \A i \in 1..a : i \in 1..b
    BY <1>1, <2>1
  <2> QED BY <1>1, <1>4, <2>1, <2>2 DEF Begins
<1>6. ASSUME Begins(p, q), a + 1 <= b, q[a + 1] = x PROVE Begins(s, q)
  <2>1. \A i \in 1..a : p[i] = q[i]
    BY <1>1, <1>6 DEF Begins
  <2>2. \A i \in 1..(a + 1) : i \in 1..a \/ i = a + 1
    BY <1>1
  <2>3. \A i \in 1..(a + 1) : s[i] = q[i]
    BY <1>3, <1>6, <2>1, <2>2
  <2> QED BY <1>1, <1>3, <1>6, <2>3 DEF Begins
<1> QED BY <1>1, <1>2, <1>3, <1>5, <1>6

-----------------------------------------------------------------------------
(* What the two sides of a call have of each other.                        *)

\* A call's messages are those of its client that have been received, and answers, as
\* they were recorded, also when it has ended.
HeardOf(x) ==
    /\ x.seen # <<>> => x.seen \in Recorded(x.wants.method)
    /\ Begins(By("client", x.seen), Asks(x.wants)) /\ Len(By("client", x.seen)) = x.received
    /\ x.received <= x.sent /\ x.sent <= Len(Asks(x.wants))
Heard == \A c \in Calls : HeardOf(call[c])

LEMMA HeardCall ==
    ASSUME TypeOK, Heard, UNCHANGED dump, NEW c \in Calls, NEW new,
           call' = [call EXCEPT ![c] = new], HeardOf(new)
    PROVE  Heard'
<1>1. call \in [Calls -> CallState]
  BY DEF TypeOK
<1>2. \A d \in Calls : call'[d] = IF d = c THEN new ELSE call[d]
  BY <1>1
<1>3. \A d \in Calls : HeardOf(call'[d])
  BY <1>2 DEF Heard
<1>4. \A m : Recorded(m)' = Recorded(m)
  BY DEF Recorded
<1> QED BY <1>3, <1>4 DEF Heard, HeardOf

LEMMA AsksFacts ==
    ASSUME NEW r \in Recording
    PROVE  /\ Asks(r) \in Seq(Message) /\ Len(Asks(r)) \in Nat
           /\ \A i \in 1..Len(Asks(r)) : Asks(r)[i] \in Message /\ Asks(r)[i].from = "client"
BY Fields, ByAll DEF Asks

\* A call that has not begun, or has just begun, has heard nothing.
LEMMA HeardFresh ==
    ASSUME NEW x, x.seen = <<>>, x.received = 0, x.sent = 0, x.wants \in Recording
    PROVE  HeardOf(x)
<1>1. By("client", <<>>) = <<>> /\ Len(<<>>) = 0
  BY BySteps, EmptySeq
<1>2. Begins(<<>>, Asks(x.wants)) /\ 0 <= Len(Asks(x.wants))
  BY AsksFacts, BeginsFacts
<1> QED BY <1>1, <1>2 DEF HeardOf

LEMMA HeardInit == Init => Heard
<1> SUFFICES ASSUME Init PROVE Heard
  OBVIOUS
<1>1. IInv
  BY InitInv
<1>2. ASSUME NEW c \in Calls PROVE HeardOf(call[c])
  <2>1. /\ call[c].wants \in Recording /\ call[c].seen = <<>> /\ call[c].sent = 0
        /\ call[c].received = 0
    BY <1>1, Fields2 DEF Init, Idle, IInv, TypeOK
  <2> QED BY <2>1, HeardFresh
<1> QED BY <1>2 DEF Heard

LEMMA HeardStart ==
    ASSUME IInv, Heard, NEW c \in Calls, NEW r \in Recording, Start(c, r) PROVE Heard'
<1>1. PICK at, pc, status :
         /\ at = root[r.method]
         /\ pc = IF root[r.method] = NoNode THEN "ended" ELSE "loop"
         /\ status = IF root[r.method] = NoNode THEN "unavailable" ELSE "none"
  OBVIOUS
<1>2. PICK new : new = [Idle EXCEPT !.wants = r, !.at = at, !.pc = pc, !.status = status]
  OBVIOUS
<1>3. call' = [call EXCEPT ![c] = new] /\ UNCHANGED dump
  BY <1>1, <1>2 DEF Start, serving
<1>4. new.wants = r /\ new.seen = <<>> /\ new.sent = 0 /\ new.received = 0
  BY ONLY <1>2 DEF Idle
<1>5. HeardOf(new)
  BY <1>4, HeardFresh
<1> QED BY <1>3, <1>5, HeardCall DEF IInv

LEMMA HeardSend ==
    ASSUME IInv, Heard, UNCHANGED dump, NEW c \in Calls, call[c].sent < Len(Asks(call[c].wants)),
           call' = [call EXCEPT ![c].sent = @ + 1]
    PROVE  Heard'
<1>1. PICK x : x = call[c] /\ x \in CallState /\ HeardOf(x)
  BY DEF IInv, TypeOK, Heard
<1>2. PICK n \in Nat : n = x.sent + 1
  BY <1>1 DEF CallState
<1>3. PICK new : new = [x EXCEPT !.sent = n]
  OBVIOUS
<1>4. /\ new.sent = n /\ new.seen = x.seen /\ new.wants = x.wants /\ new.received = x.received
  BY <1>1, <1>3 DEF CallState
<1>5. x.received \in Nat /\ x.sent \in Nat /\ Len(Asks(x.wants)) \in Nat /\ x.wants \in Recording
  BY <1>1, AsksFacts DEF CallState
<1>6. HeardOf(new)
  BY <1>1, <1>2, <1>4, <1>5 DEF HeardOf
<1>7. call' = [call EXCEPT ![c] = new]
  BY <1>1, <1>2, <1>3
<1> QED BY <1>6, <1>7, HeardCall DEF IInv

\* Changes to the rest of a call.
LEMMA HeardSame ==
    ASSUME IInv, Heard, UNCHANGED dump, NEW c \in Calls, NEW new, call' = [call EXCEPT ![c] = new],
           new.seen = call[c].seen, new.wants = call[c].wants, new.sent = call[c].sent,
           new.received = call[c].received
    PROVE  Heard'
<1>1. HeardOf(new)
  BY DEF Heard, HeardOf
<1> QED BY <1>1, HeardCall DEF IInv

LEMMA HeardEnds ==
    ASSUME IInv, Heard, UNCHANGED dump, NEW c \in Calls, NEW status, Ends(c, status) PROVE Heard'
<1>1. PICK new : new = [call[c] EXCEPT !.pc = "ended", !.status = status]
  OBVIOUS
<1>2. /\ new.seen = call[c].seen /\ new.wants = call[c].wants /\ new.sent = call[c].sent
      /\ new.received = call[c].received
  BY <1>1 DEF IInv, TypeOK, CallState
<1>3. call' = [call EXCEPT ![c] = new]
  BY <1>1 DEF Ends
<1> QED BY <1>2, <1>3, HeardSame

\* The message of the next node goes on with a recorded call.
LEMMA NextIsRecorded ==
    ASSUME IInv, NEW c \in Calls, call[c].pc = "loop", NEW n \in Range(nodes[call[c].at].next)
    PROVE  /\ n \in Nodes /\ MessageOf[n] \in Message
           /\ MessageOf[n] = [from |-> nodes[n].from, body |-> nodes[n].body]
           /\ Append(call[c].seen, MessageOf[n]) \in Recorded(call[c].wants.method)
<1>1. PICK place : Tree(place) /\ At(c, place)
  BY DEF IInv, Standing
<1>2. PICK at, seen, wants : at = call[c].at /\ seen = call[c].seen /\ wants = call[c].wants
  OBVIOUS
<1>3. at \in Nodes /\ place[at] = [method |-> wants.method, messages |-> seen]
  BY <1>1, <1>2 DEF At
<1>4. n \in Nodes /\ place[n] = Further(place[at], MessageOf[n]) /\ MessageOf[n] \in Message
  BY <1>1, <1>2, <1>3 DEF Tree, Links
<1>5. place[n] \in Known /\ place[n] = [method |-> wants.method, messages |-> Append(seen, MessageOf[n])]
  BY <1>1, <1>3, <1>4 DEF Tree, Exact, Further
<1>6. phase = "serving"
  BY DEF IInv, Serving
<1>7. Append(seen, MessageOf[n]) \in Recorded(wants.method)
  <2>1. PICK x : x = place[n]
    OBVIOUS
  <2>2. x.messages \in Recorded(x.method)
    BY <1>5, <1>6, <2>1, AllKnown
  <2>3. x.method = wants.method /\ x.messages = Append(seen, MessageOf[n])
    BY <1>5, <2>1
  <2> QED BY <2>2, <2>3
<1> QED BY <1>2, <1>4, <1>7 DEF MessageOf

LEMMA HeardWalk ==
    ASSUME IInv, Heard, UNCHANGED dump, NEW c \in Calls, call[c].pc = "loop",
           NEW n \in Range(nodes[call[c].at].next), NEW received \in Nat,
           \/ received = call[c].received /\ nodes[n].from = "server"
           \/ /\ received = call[c].received + 1 /\ call[c].received < call[c].sent
              /\ MessageOf[n] = Received(c),
           call' = [call EXCEPT ![c] = [Walk(c, n) EXCEPT !.received = received]]
    PROVE  Heard'
<1>1. PICK x : x = call[c] /\ x \in CallState /\ HeardOf(x)
  BY DEF IInv, TypeOK, Heard
<1>2. PICK new : new = [Walk(c, n) EXCEPT !.received = received]
  OBVIOUS
<1>3. PICK m, seen : m = MessageOf[n] /\ seen = Append(x.seen, m)
  OBVIOUS
<1>4. m \in Message /\ m = [from |-> nodes[n].from, body |-> nodes[n].body]
      /\ seen \in Recorded(x.wants.method)
  BY <1>1, <1>3, NextIsRecorded
<1>5. new.seen = seen /\ new.wants = x.wants /\ new.sent = x.sent /\ new.received = received
  BY <1>1, <1>2, <1>3, <1>4 DEF Walk, CallState
<1>6. PICK heard, asks : heard = By("client", x.seen) /\ asks = Asks(x.wants)
  OBVIOUS
<1>7. /\ heard \in Seq(Message) /\ asks \in Seq(Message) /\ Begins(heard, asks)
      /\ Len(heard) = x.received
  BY <1>1, <1>6, Fields2, ByAll, AsksFacts DEF HeardOf
<1>8. By("client", seen) = IF m.from = "client" THEN Append(heard, m) ELSE heard
  <2>1. x.seen \in Seq(Message)
    BY <1>1, Fields2
  <2> QED BY <1>3, <1>4, <1>6, <2>1, BySteps
<1>9. x.received \in Nat /\ x.sent \in Nat /\ Len(asks) \in Nat /\ x.received <= x.sent /\ x.sent <= Len(asks)
  BY <1>1, <1>6, Fields2, AsksFacts DEF HeardOf
<1>10. CASE received = x.received /\ nodes[n].from = "server"
  <2>1. m.from # "client"
    BY <1>4, <1>10
  <2> QED BY <1>2, <1>4, <1>5, <1>6, <1>7, <1>8, <1>9, <1>10, <2>1, HeardCall DEF HeardOf, IInv
<1>11. CASE received = x.received + 1 /\ x.received < x.sent /\ m = Received(c)
  <2>1. x.received + 1 \in 1..Len(asks) /\ received <= x.sent
    BY <1>9, <1>11
  <2>2. m = asks[x.received + 1]
    BY <1>1, <1>6, <1>11 DEF Received
  <2>3. m.from = "client"
    BY <1>1, <1>6, <2>1, <2>2, Fields2, AsksFacts
  <2>4. Len(heard) + 1 <= Len(asks) /\ asks[Len(heard) + 1] = m
    BY <1>7, <2>1, <2>2
  <2>5. Begins(Append(heard, m), asks) /\ Len(Append(heard, m)) = received
    BY <1>4, <1>7, <1>11, <2>4, BeginsAppend
  <2>6. Begins(By("client", seen), asks) /\ Len(By("client", seen)) = received
    BY <1>8, <2>3, <2>5
  <2>7. HeardOf(new)
    BY ONLY <1>4, <1>5, <1>6, <1>9, <2>1, <2>6 DEF HeardOf
  <2> QED BY <1>2, <2>7, HeardCall DEF IInv
<1> QED BY <1>1, <1>3, <1>10, <1>11

LEMMA HeardSendMsg == ASSUME IInv, Heard, NEW c \in Calls, SendMsg(c) PROVE Heard'
<1>1. call[c].pc = "loop" /\ ServerFirst(call[c].at) /\ UNCHANGED dump
  BY DEF SendMsg, serving
<1>2. CASE call' = [call EXCEPT ![c] = Walk(c, nodes[call[c].at].next[1])]
  <2>1. PICK n : n = nodes[call[c].at].next[1]
    OBVIOUS
  <2>2. 1 \in DOMAIN nodes[call[c].at].next
    <3>1. call[c].at \in Nodes
      BY <1>1 DEF IInv, Standing, At
    <3>2. nodes[call[c].at].next \in Seq(Nat) /\ nodes[call[c].at].next # <<>>
      BY <1>1, <3>1, Lines DEF ServerFirst
    <3> QED BY <3>2
  <2>3. n \in Range(nodes[call[c].at].next) /\ nodes[n].from = "server"
    BY <1>1, <2>1, <2>2 DEF Range, ServerFirst
  <2>4. PICK received \in Nat : received = call[c].received
    BY Fields2 DEF IInv, TypeOK
  <2>5. Walk(c, n) = [Walk(c, n) EXCEPT !.received = received]
    BY <2>4 DEF Walk, CallState, IInv, TypeOK
  <2>6. call' = [call EXCEPT ![c] = [Walk(c, n) EXCEPT !.received = received]]
    BY <1>2, <2>1, <2>5
  <2> QED BY <1>1, <2>3, <2>4, <2>6, HeardWalk
<1>3. CASE Ends(c, "cancelled")
  BY <1>1, <1>3, HeardEnds
<1> QED BY <1>2, <1>3 DEF SendMsg

LEMMA HeardRecvMsg == ASSUME IInv, Heard, NEW c \in Calls, RecvMsg(c) PROVE Heard'
<1>1. call[c].pc = "loop" /\ UNCHANGED dump /\ call[c].received < call[c].sent
  BY DEF RecvMsg, serving
<1>2. ASSUME NEW i \in Matches(call[c].at, Received(c)),
             call' = [call EXCEPT ![c] = [Walk(c, nodes[call[c].at].next[i]) EXCEPT !.received = @ + 1]]
      PROVE  Heard'
  <2>1. PICK n : n = nodes[call[c].at].next[i]
    OBVIOUS
  <2>2. /\ n \in Range(nodes[call[c].at].next)
        /\ nodes[n].from = Received(c).from /\ nodes[n].body = Received(c).body
    BY <2>1 DEF Matches, Range
  <2>3. Walk(c, n).received = call[c].received /\ call[c].received \in Nat
    BY Fields2 DEF Walk, CallState, IInv, TypeOK
  <2>4. PICK received \in Nat : received = call[c].received + 1
    BY <2>3
  <2>5. call' = [call EXCEPT ![c] = [Walk(c, n) EXCEPT !.received = received]]
    BY <1>2, <2>1, <2>3, <2>4
  <2>6. Received(c) \in Message
    <3>1. call[c] \in CallState /\ HeardOf(call[c])
      BY DEF IInv, TypeOK, Heard
    <3>2. call[c].wants \in Recording /\ call[c].sent \in Nat /\ call[c].received \in Nat
      BY <3>1, Fields2
    <3>3. call[c].received + 1 \in 1..Len(Asks(call[c].wants))
      BY <1>1, <3>1, <3>2, AsksFacts DEF HeardOf
    <3> QED BY <3>2, <3>3, AsksFacts DEF Received
  <2>7. MessageOf[n] = Received(c)
    BY <1>1, <2>2, <2>6, NextIsRecorded DEF Message
  <2> QED BY <1>1, <2>2, <2>4, <2>5, <2>7, HeardWalk
<1>3. CASE Ends(c, "unavailable")
  BY <1>1, <1>3, HeardEnds
<1> QED BY <1>2, <1>3 DEF RecvMsg

LEMMA HeardNext == ASSUME IInv, Heard, [Next]_vars PROVE Heard'
<1>1. CASE UNCHANGED <<dump, call>>
  BY <1>1 DEF Heard, HeardOf, Recorded
<1>2. CASE Load \/ LoadFails
  BY <1>1, <1>2 DEF Load, LoadFails, NextRecording, LoadMessage, LoadDone
<1>3. ASSUME NEW c \in Users, Client(c) PROVE Heard'
  <2>1. c \in Calls /\ Clients \subseteq Recording /\ Range(dump) \subseteq Recording
    BY FixtureAssumption, Lines DEF Range
  <2>2. CASE ClientSend(c)
    BY <2>1, <2>2, HeardSend DEF ClientSend, serving
  <2>3. CASE ClientHalfClose(c) \/ ClientCancel(c)
    <3>1. PICK new : /\ \/ new = [call[c] EXCEPT !.halfClosed = TRUE]
                        \/ new = [call[c] EXCEPT !.cancelled = TRUE]
                     /\ call' = [call EXCEPT ![c] = new] /\ UNCHANGED dump
      BY <2>3 DEF ClientHalfClose, ClientCancel, serving
    <3>2. /\ new.seen = call[c].seen /\ new.wants = call[c].wants /\ new.sent = call[c].sent
          /\ new.received = call[c].received
      BY <2>1, <3>1 DEF IInv, TypeOK, CallState
    <3> QED BY <2>1, <3>1, <3>2, HeardSame
  <2> QED BY <1>3, <2>1, <2>2, <2>3, HeardStart DEF Client
<1>4. ASSUME NEW c \in Calls, Intercept(c) PROVE Heard'
  <2>1. CASE RecvEnd(c)
    BY <2>1, HeardEnds DEF RecvEnd, serving
  <2> QED BY <1>4, <2>1, HeardSendMsg, HeardRecvMsg DEF Intercept
<1> QED BY <1>1, <1>2, <1>3, <1>4 DEF Next, Rest, vars

-----------------------------------------------------------------------------
(* What replay has had from the stream of its RPC.                         *)

Past == SubSeq(Job.messages, 1, replay.pos)
Exchanged ==
    replay.mode = "exchange" =>
       /\ Stream \in Calls \ Users /\ call[Stream].pc # "idle" /\ call[Stream].wants = Job
       /\ call[Stream].sent <= Len(By("client", Past))
       /\ Len(By("server", Past)) = replay.got
       /\ Begins(By("server", Past), Answers(call[Stream].seen))

\* There is a verdict for every RPC that is over, in their order.
Judged ==
    /\ replay.mode \in {"next", "done"} => Len(replay.verdicts) = replay.rpc
    /\ replay.mode = "exchange" => Len(replay.verdicts) + 1 = replay.rpc
    /\ Len(replay.verdicts) <= replay.rpc

\* What OkIsRecorded says of one RPC.
Fine(r) ==
    Answers(r.messages) # <<>> =>
       \E p \in Recorded(r.method) :
          Answers(p) = Answers(r.messages) /\ IsPrefix(Asks([r EXCEPT !.messages = p]), Asks(r))

ReplayedInv == ReplayInv /\ Heard /\ Exchanged /\ Judged /\ OkIsRecorded

\* The next message adds to what its side has said.
LEMMA PastFacts ==
    ASSUME ReplayInv, replay.mode = "exchange"
    PROVE  /\ Job \in Recording /\ Past \in Seq(Message) /\ replay.pos \in Nat
           /\ replay.pos = Len(Job.messages) => Past = Job.messages
           /\ \A who : /\ By(who, Past) \in Seq(Message) /\ Len(By(who, Past)) \in Nat
                       /\ Len(By(who, Past)) <= Len(By(who, Job.messages))
           /\ Exchanging =>
                 /\ Upcoming \in Message /\ replay.pos + 1 <= Len(Job.messages)
                 /\ SubSeq(Job.messages, 1, replay.pos + 1) = Append(Past, Upcoming)
                 /\ \A who : By(who, Append(Past, Upcoming)) =
                                IF Upcoming.from = who THEN Append(By(who, Past), Upcoming)
                                                       ELSE By(who, Past)
<1>1. PICK r, k : r = Job /\ k = replay.pos /\ r \in Recording /\ k \in 0..Len(r.messages)
  BY Jobs DEF Job
<1>2. PICK ms : ms = r.messages /\ ms \in Seq(Message) /\ Len(ms) \in Nat
  BY <1>1, Fields
<1>3. PICK past : past = Past /\ past = SubSeq(ms, 1, k) /\ past \in Seq(Message)
  <2>1. SubSeq(ms, 1, k) \in Seq(Message)
    BY <1>1, <1>2, SubSeqProperties
  <2> QED BY <1>1, <1>2, <2>1 DEF Past
<1>4. k = Len(ms) => past = ms
  BY <1>2, <1>3, SubSeqFull
<1>5. ASSUME NEW who
      PROVE  /\ By(who, past) \in Seq(Message) /\ Len(By(who, past)) \in Nat
             /\ Len(By(who, past)) <= Len(By(who, ms))
  <2>1. By(who, past) \in Seq(Message) /\ Len(By(who, past)) \in Nat
    BY <1>3, ByAll
  <2>2. Begins(By(who, past), By(who, ms))
    BY <1>1, <1>2, <1>3, ByFacts
  <2> QED BY <2>1, <2>2 DEF Begins
<1>6. ASSUME Exchanging
      PROVE  /\ ms[k + 1] \in Message /\ k + 1 <= Len(ms) /\ SubSeq(ms, 1, k + 1) = Append(past, ms[k + 1])
             /\ \A who : By(who, Append(past, ms[k + 1])) =
                            IF ms[k + 1].from = who THEN Append(By(who, past), ms[k + 1])
                                                    ELSE By(who, past)
  <2>1. k + 1 \in 1..Len(ms) /\ k \in 0..(Len(ms) - 1)
    BY <1>1, <1>2, <1>6 DEF Exchanging
  <2>2. ms[k + 1] \in Message
    BY <1>2, <2>1
  <2>3. SubSeq(ms, 1, k + 1) = Append(past, ms[k + 1])
    <3>1. k \in Nat /\ k < Len(ms)
      BY <1>2, <2>1
    <3>2. SubSeq(ms, 1, k + 1) = Append(SubSeq(ms, 1, k), ms[k + 1])
      BY <1>2, <3>1, UpToNext
    <3> QED BY <1>3, <3>2
  <2>4. PICK x : x = ms[k + 1] /\ x \in Message
    BY <2>2
  <2>5. \A who : By(who, Append(past, x)) =
                    IF x.from = who THEN Append(By(who, past), x) ELSE By(who, past)
    BY <1>3, <2>4, BySteps
  <2> QED BY <2>1, <2>2, <2>3, <2>4, <2>5
<1> QED BY <1>1, <1>2, <1>3, <1>4, <1>5, <1>6 DEF Upcoming

LEMMA VerdictFacts ==
    ASSUME ReplayInv
    PROVE  /\ Len(replay.verdicts) \in Nat /\ replay.rpc \in Nat
           /\ \A x \in {"ok", "mismatch"} :
                 /\ Len(Append(replay.verdicts, x)) = Len(replay.verdicts) + 1
                 /\ Append(replay.verdicts, x)[Len(replay.verdicts) + 1] = x
                 /\ \A k \in 1..Len(replay.verdicts) :
                       Append(replay.verdicts, x)[k] = replay.verdicts[k]
<1>1. replay.verdicts \in Seq({"ok", "mismatch"}) /\ replay.rpc \in Nat
  BY Jobs
<1>2. Len(replay.verdicts) \in Nat
  BY <1>1
<1> QED BY <1>1, <1>2, AppendProperties

LEMMA ReplayedInitInv == ReplayInit => ReplayedInv
<1> SUFFICES ASSUME ReplayInit PROVE ReplayedInv
  OBVIOUS
<1>1. replay.mode = "next" /\ replay.rpc = 0 /\ replay.verdicts = <<>> /\ Len(<<>>) = 0 /\ Init
  BY EmptySeq DEF ReplayInit
<1>2. \A k \in 1..Len(replay.verdicts) : FALSE
  BY <1>1
<1> QED BY <1>1, <1>2, ReplayInitInv, HeardInit DEF ReplayedInv, Exchanged, Judged, OkIsRecorded

\* Nothing that is said of the verdicts so far depends on more than the two dumps.
LEMMA OkStays ==
    ASSUME OkIsRecorded, UNCHANGED <<dump, script>>, replay'.verdicts = replay.verdicts
    PROVE  OkIsRecorded'
<1>1. \A m : Recorded(m)' = Recorded(m)
  BY DEF Recorded
<1> QED BY <1>1 DEF OkIsRecorded

\* What a step of the fixture or of another client does to a stream of replay's.
LEMMA Onward ==
    ASSUME IInv, [Next]_vars, NEW t \in Calls \ Users, call[t].pc # "idle"
    PROVE  /\ call'[t].pc # "idle" /\ call'[t].wants = call[t].wants /\ call'[t].sent = call[t].sent
           /\ \/ call'[t].seen = call[t].seen
              \/ \E x \in Message : call'[t].seen = Append(call[t].seen, x)
<1>1. call \in [Calls -> CallState] /\ call[t] \in CallState
  BY DEF IInv, TypeOK
<1>2. CASE call'[t] = call[t]
  BY <1>2
<1>3. CASE UNCHANGED call \/ Load \/ LoadFails \/ Rest
  BY <1>2, <1>3 DEF Load, LoadFails, NextRecording, LoadMessage, LoadDone, Rest, vars
<1>4. ASSUME NEW c \in Users, Client(c) PROVE call'[t] = call[t]
  <2>1. c # t
    OBVIOUS
  <2> QED BY <1>1, <1>4, <2>1 DEF Client, Start, ClientSend, ClientHalfClose, ClientCancel
<1>5. ASSUME NEW c \in Calls, Intercept(c), c # t PROVE call'[t] = call[t]
  BY <1>1, <1>5 DEF Intercept, SendMsg, RecvMsg, RecvEnd, Ends
<1>6. ASSUME NEW status, Ends(t, status)
      PROVE  /\ call'[t].pc # "idle" /\ call'[t].wants = call[t].wants
             /\ call'[t].sent = call[t].sent /\ call'[t].seen = call[t].seen
  BY <1>1, <1>6 DEF Ends, CallState
<1>7. ASSUME NEW n \in Range(nodes[call[t].at].next), call[t].pc = "loop",
             NEW received, call'[t] = [Walk(t, n) EXCEPT !.received = received]
      PROVE  /\ call'[t].pc # "idle" /\ call'[t].wants = call[t].wants
             /\ call'[t].sent = call[t].sent
             /\ \E x \in Message : call'[t].seen = Append(call[t].seen, x)
  <2>1. MessageOf[n] \in Message /\ MessageOf[n] = [from |-> nodes[n].from, body |-> nodes[n].body]
    BY <1>7, NextIsRecorded
  <2>2. PICK old : old = call[t] /\ old \in CallState
    BY <1>1
  <2>3. /\ call'[t].pc \in {"loop", "ended"} /\ call'[t].wants = old.wants /\ call'[t].sent = old.sent
        /\ call'[t].seen = Append(old.seen, MessageOf[n])
    BY <1>7, <2>1, <2>2 DEF Walk, CallState
  <2> QED BY <2>1, <2>2, <2>3
<1>8. CASE SendMsg(t)
  <2>1. CASE call' = [call EXCEPT ![t] = Walk(t, nodes[call[t].at].next[1])]
    <3>1. PICK n : n = nodes[call[t].at].next[1]
      OBVIOUS
    <3>2. 1 \in DOMAIN nodes[call[t].at].next
      <4>1. call[t].at \in Nodes /\ ServerFirst(call[t].at)
        BY <1>8 DEF SendMsg, IInv, Standing, At
      <4>2. nodes[call[t].at].next \in Seq(Nat) /\ nodes[call[t].at].next # <<>>
        BY <4>1, Lines DEF ServerFirst
      <4> QED BY <4>2
    <3>3. n \in Range(nodes[call[t].at].next)
      BY <3>1, <3>2 DEF Range
    <3>4. PICK received : received = call[t].received
      OBVIOUS
    <3>5. Walk(t, n) = [Walk(t, n) EXCEPT !.received = received]
      BY <1>1, <3>4 DEF Walk, CallState
    <3>6. call'[t] = [Walk(t, n) EXCEPT !.received = received]
      BY <1>1, <2>1, <3>1, <3>5
    <3> QED BY <1>7, <1>8, <3>3, <3>6 DEF SendMsg
  <2> QED BY <1>6, <1>8, <2>1 DEF SendMsg
<1>9. CASE RecvMsg(t)
  <2>1. ASSUME NEW i \in Matches(call[t].at, Received(t)),
               call' = [call EXCEPT ![t] = [Walk(t, nodes[call[t].at].next[i]) EXCEPT !.received = @ + 1]]
        PROVE  /\ call'[t].pc # "idle" /\ call'[t].wants = call[t].wants
               /\ call'[t].sent = call[t].sent
               /\ \E x \in Message : call'[t].seen = Append(call[t].seen, x)
    <3>1. PICK n : n = nodes[call[t].at].next[i]
      OBVIOUS
    <3>2. n \in Range(nodes[call[t].at].next)
      BY <3>1 DEF Matches, Range
    <3>3. PICK received : received = Walk(t, n).received + 1
      OBVIOUS
    <3>4. call'[t] = [Walk(t, n) EXCEPT !.received = received]
      BY <1>1, <2>1, <3>1, <3>3
    <3> QED BY <1>7, <1>9, <3>2, <3>4 DEF RecvMsg
  <2> QED BY <1>6, <1>9, <2>1 DEF RecvMsg
<1>10. CASE RecvEnd(t)
  BY <1>6, <1>10 DEF RecvEnd
<1>11. ASSUME NEW c \in Calls, Intercept(c), c = t PROVE SendMsg(t) \/ RecvMsg(t) \/ RecvEnd(t)
  BY <1>11 DEF Intercept
<1> QED BY <1>2, <1>3, <1>4, <1>5, <1>8, <1>9, <1>10, <1>11 DEF Next, vars

\* Whatever happens to a stream while replay does not look, more may have been answered.
LEMMA ExchangedOn ==
    ASSUME ReplayInv, Exchanged, [Next]_vars, UNCHANGED <<dump, replayVars>>
    PROVE  Exchanged'
<1> SUFFICES ASSUME replay.mode = "exchange" PROVE Exchanged'
  BY DEF Exchanged, replayVars
<1>1. PICK t : /\ t = Stream /\ t \in Calls \ Users /\ call[t].pc # "idle" /\ call[t].wants = Job
               /\ call[t].sent <= Len(By("client", Past)) /\ Len(By("server", Past)) = replay.got
               /\ Begins(By("server", Past), By("server", call[t].seen))
  BY DEF Exchanged, Answers
<1>2. UNCHANGED <<replay, Job, Past, Stream>>
  BY DEF replayVars, Job, Past, Stream
<1>3. PICK old : old = call[t] /\ old \in CallState
  BY <1>1 DEF ReplayInv, IInv, TypeOK
<1>4. PICK new : new = call'[t]
  OBVIOUS
<1>5. /\ new.pc # "idle" /\ new.wants = old.wants /\ new.sent = old.sent
      /\ new.seen = old.seen \/ \E x \in Message : new.seen = Append(old.seen, x)
  BY <1>1, <1>3, <1>4, Onward DEF ReplayInv
<1>6. PICK had : had = By("server", Past) /\ had \in Seq(Message) /\ Begins(had, By("server", old.seen))
  BY <1>1, <1>3, PastFacts
<1>7. Begins(had, By("server", new.seen))
  <2>1. CASE new.seen = old.seen
    BY <1>6, <2>1
  <2>2. ASSUME NEW x \in Message, new.seen = Append(old.seen, x)
        PROVE  Begins(had, By("server", new.seen))
    <3>1. PICK said : said = By("server", old.seen) /\ said \in Seq(Message)
      BY <1>3, Fields2, ByAll
    <3>2. By("server", new.seen) = IF x.from = "server" THEN Append(said, x) ELSE said
      <4>1. PICK q : q = old.seen /\ q \in Seq(Message)
        BY <1>3, Fields2
      <4>2. By("server", Append(q, x)) =
               IF x.from = "server" THEN Append(By("server", q), x) ELSE By("server", q)
        BY <2>2, <4>1, BySteps
      <4> QED BY <2>2, <3>1, <4>1, <4>2
    <3> QED BY <1>6, <3>1, <3>2, BeginsAppend
  <2> QED BY <1>5, <2>1, <2>2
<1> QED BY <1>1, <1>2, <1>3, <1>4, <1>5, <1>6, <1>7 DEF Exchanged, Answers

LEMMA FixtureStepInv ==
    ASSUME ReplayedInv, [Next]_vars, UNCHANGED replayVars PROVE ReplayedInv'
<1>1. ReplayInv' /\ UNCHANGED <<script, replay>>
  BY ReplayNextInv DEF ReplayedInv, ReplayNext, allVars, replayVars, vars
<1>2. dump' = dump
  BY DEF Next, vars, Load, NextRecording, LoadMessage, LoadDone, LoadFails, Rest, Client,
         Start, ClientSend, ClientHalfClose, ClientCancel, Intercept, SendMsg, RecvMsg,
         RecvEnd, serving
<1>3. Heard'
  BY HeardNext DEF ReplayedInv, ReplayInv
<1>4. Exchanged'
  BY <1>2, ExchangedOn DEF ReplayedInv
<1>5. Judged' /\ OkIsRecorded'
  BY <1>1, <1>2, OkStays DEF ReplayedInv, Judged
<1> QED BY <1>1, <1>3, <1>4, <1>5 DEF ReplayedInv

\* An RPC begins with a stream on which nothing has been said.
LEMMA OpenReplayed == ASSUME ReplayedInv, Open PROVE ReplayedInv'
<1>1. PICK n : /\ n = replay.rpc + 1
               /\ replay' = [replay EXCEPT !.mode = "exchange", !.rpc = n, !.pos = 0, !.got = 0]
  BY DEF Open
<1>2. n \in 1..Len(script) /\ replay \in ReplayState /\ replay.mode = "next" /\ n \in Nat
  BY <1>1, Jobs DEF Open, ReplayedInv, ReplayInv, Replaying
<1>3. /\ replay'.mode = "exchange" /\ replay'.rpc = n /\ replay'.pos = 0 /\ replay'.got = 0
      /\ replay'.verdicts = replay.verdicts
  BY <1>1, <1>2 DEF ReplayState
<1>4. PICK r, t : r = script[n] /\ t = Streams[n] /\ r \in Recording /\ t \in Calls \ Users /\ Start(t, r)
  BY <1>1, <1>2, Jobs DEF Open, ReplayedInv
<1>5. UNCHANGED <<script, dump>>
  BY DEF Open, Start, serving
<1>6. ReplayInv' /\ Heard'
  BY <1>4, OpenInv, HeardStart DEF ReplayedInv, ReplayInv
<1>7. call'[t].pc # "idle" /\ call'[t].wants = r /\ call'[t].sent = 0 /\ call'[t].seen = <<>>
  <2>1. PICK at, pc, status :
           /\ at = root[r.method] /\ pc \in {"ended", "loop"}
           /\ pc = IF root[r.method] = NoNode THEN "ended" ELSE "loop"
           /\ status = IF root[r.method] = NoNode THEN "unavailable" ELSE "none"
    OBVIOUS
  <2>2. PICK new : new = [Idle EXCEPT !.wants = r, !.at = at, !.pc = pc, !.status = status]
    OBVIOUS
  <2>3. new.pc = pc /\ new.wants = r /\ new.sent = 0 /\ new.seen = <<>>
    BY ONLY <2>2 DEF Idle
  <2>4. call'[t] = new
    <3>1. call' = [call EXCEPT ![t] = new]
      BY <1>4, <2>1, <2>2 DEF Start
    <3> QED BY <1>4, <3>1 DEF ReplayedInv, ReplayInv, IInv, TypeOK
  <2> QED BY <2>1, <2>3, <2>4
<1>8. Job' = r /\ Stream' = t /\ Past' = <<>>
  <2>1. Job' = r /\ Stream' = t
    BY <1>3, <1>4, <1>5 DEF Job, Stream
  <2>2. SubSeq(r.messages, 1, 0) = <<>>
    BY <1>4, Fields, SubSeqEmpty
  <2> QED BY <1>3, <2>1, <2>2 DEF Past
<1>9. Exchanged'
  <2>1. \A who : By(who, <<>>) = <<>> /\ Len(<<>>) = 0 /\ Begins(<<>>, <<>>)
    BY BySteps, BeginsFacts, EmptySeq
  <2> QED BY <1>3, <1>4, <1>7, <1>8, <2>1 DEF Exchanged, Answers
<1>10. Judged'
  <2>1. Len(replay.verdicts) = replay.rpc /\ replay.rpc \in Nat
    BY <1>2, VerdictFacts DEF ReplayedInv, Judged
  <2> QED BY <1>1, <1>3, <2>1 DEF Judged
<1>11. OkIsRecorded'
  BY <1>3, <1>5, OkStays DEF ReplayedInv
<1> QED BY <1>6, <1>9, <1>10, <1>11 DEF ReplayedInv

\* A step on the stream of the RPC that is in hand: it may have sent one message, and
\* replay gone on by one.
LEMMA SendReplayed == ASSUME ReplayedInv, Send PROVE ReplayedInv'
<1>1. /\ UNCHANGED <<script, dump>> /\ serving /\ Exchanging /\ replay.mode = "exchange"
      /\ Upcoming.from = "client"
  BY DEF Send, serving, Exchanging
<1>2. ReplayInv'
  BY SendInv DEF ReplayedInv
<1>3. PICK t : t = Stream /\ t \in Calls \ Users /\ call[t] \in CallState
  BY <1>1 DEF ReplayedInv, Exchanged, ReplayInv, IInv, TypeOK
<1>4. PICK past, asked : past = Past /\ asked = By("client", past)
  OBVIOUS
<1>5. PICK next : next = Append(past, Upcoming)
  OBVIOUS
<1>6. /\ asked \in Seq(Message) /\ Len(asked) \in Nat
      /\ By("client", next) = Append(asked, Upcoming) /\ By("server", next) = By("server", past)
      /\ SubSeq(Job.messages, 1, replay.pos + 1) = next /\ Upcoming \in Message
  BY <1>1, <1>4, <1>5, PastFacts DEF ReplayedInv
<1>7. Len(By("client", next)) = Len(asked) + 1
  BY <1>6, BeginsAppend
<1>8. call[t].sent \in Nat /\ call[t].sent <= Len(asked)
  BY <1>1, <1>3, <1>4, Fields2 DEF ReplayedInv, Exchanged
<1>9. CASE replay' = [replay EXCEPT !.pos = @ + 1]
  <2>1. /\ replay'.pos = replay.pos + 1 /\ replay'.mode = "exchange" /\ replay'.rpc = replay.rpc
        /\ replay'.verdicts = replay.verdicts /\ replay'.got = replay.got
    BY <1>1, <1>9 DEF ReplayedInv, ReplayInv, Replaying, ReplayState
  <2>2. Job' = Job /\ Stream' = Stream /\ Past' = next
    <3>1. Job' = Job /\ Stream' = Stream
      BY <1>1, <2>1 DEF Job, Stream
    <3> QED BY <1>6, <2>1, <3>1 DEF Past
  <2>3. Judged' /\ OkIsRecorded'
    BY <1>1, <2>1, OkStays DEF ReplayedInv, Judged
  <2>4. CASE call[t].pc = "loop" /\ call' = [call EXCEPT ![t].sent = @ + 1]
    <3>1. call'[t].pc = "loop" /\ call'[t].wants = call[t].wants /\ call'[t].seen = call[t].seen
          /\ call'[t].sent = call[t].sent + 1
      BY <1>3, <2>4 DEF ReplayedInv, ReplayInv, IInv, TypeOK, CallState
    <3>2. Exchanged'
      BY <1>1, <1>3, <1>4, <1>6, <1>7, <1>8, <2>1, <2>2, <3>1 DEF ReplayedInv, Exchanged, Answers
    <3>3. Heard'
      <4>1. Len(asked) + 1 <= Len(Asks(call[t].wants))
        <5>1. Len(By("client", next)) <= Len(By("client", Job.messages))
          <6>1. ReplayInv' /\ replay'.mode = "exchange"
            BY <1>2, <2>1
          <6>2. PICK k : /\ k = replay.pos + 1 /\ k \in 0..Len(Job.messages)
                         /\ next = SubSeq(Job.messages, 1, k)
            <7>1. replay.pos \in Nat /\ replay.pos + 1 <= Len(Job.messages)
              BY <1>1, PastFacts DEF ReplayedInv
            <7>2. Len(Job.messages) \in Nat
              BY <1>1, PastFacts, Fields DEF ReplayedInv
            <7>3. replay.pos + 1 \in 0..Len(Job.messages)
              BY ONLY <7>1, <7>2
            <7> QED BY <1>6, <7>3
          <6>3. PICK ms : ms = Job.messages /\ ms \in Seq(Message)
            BY <1>1, PastFacts, Fields DEF ReplayedInv
          <6>4. Begins(By("client", next), By("client", ms))
            BY <6>2, <6>3, ByFacts
          <6> QED BY <6>3, <6>4 DEF Begins
        <5>2. call[t].wants = Job
          BY <1>1, <1>3 DEF ReplayedInv, Exchanged
        <5> QED BY <1>7, <5>1, <5>2 DEF Asks
      <4>2. call[t].sent < Len(Asks(call[t].wants))
        <5>1. Len(Asks(call[t].wants)) \in Nat
          BY <1>3, Fields2, AsksFacts
        <5> QED BY <1>6, <1>8, <4>1, <5>1
      <4> QED BY <1>1, <1>3, <2>4, <4>2, HeardSend DEF ReplayedInv, ReplayInv
    <3> QED BY <1>2, <2>3, <3>2, <3>3 DEF ReplayedInv
  <2>5. CASE call' = call
    <3>1. Exchanged'
      BY <1>1, <1>3, <1>4, <1>6, <1>7, <1>8, <2>1, <2>2, <2>5 DEF ReplayedInv, Exchanged, Answers
    <3>2. Heard'
      <4>1. UNCHANGED vars
        BY <1>1, <2>5 DEF serving, vars
      <4> QED BY <4>1, HeardNext DEF ReplayedInv, ReplayInv
    <3> QED BY <1>2, <2>3, <3>1, <3>2 DEF ReplayedInv
  <2> QED BY <1>3, <2>4, <2>5 DEF Send
<1>10. CASE Fails("send") /\ call' = call
  <2>1. replay'.mode = "error" /\ replay'.rpc = replay.rpc /\ replay'.verdicts = replay.verdicts
    BY <1>10 DEF Fails, ReplayedInv, ReplayInv, Replaying, ReplayState
  <2>2. Judged' /\ OkIsRecorded' /\ Exchanged'
    BY <1>1, <2>1, OkStays DEF ReplayedInv, Judged, Exchanged
  <2>3. Heard'
    <3>1. UNCHANGED vars
      BY <1>1, <1>10 DEF serving, vars
    <3> QED BY <3>1, HeardNext DEF ReplayedInv, ReplayInv
  <2> QED BY <1>2, <2>2, <2>3 DEF ReplayedInv
<1> QED BY <1>9, <1>10 DEF Send

\* Replay by itself: nobody has anything more, or less.
LEMMA HeardAlone ==
    ASSUME ReplayedInv, UNCHANGED fixtureVars
    PROVE  Heard' /\ UNCHANGED <<dump, script, call>>
<1>1. UNCHANGED vars /\ UNCHANGED <<dump, script, call>>
  BY DEF fixtureVars, vars
<1>2. Heard'
  BY <1>1, HeardNext DEF ReplayedInv, ReplayInv
<1> QED BY <1>1, <1>2

LEMMA ReceivedReplayed ==
    ASSUME ReplayedInv, Exchanging, Upcoming.from = "server", UNCHANGED fixtureVars,
           replay.got < Len(Answers(call[Stream].seen)),
           Answers(call[Stream].seen)[replay.got + 1].body = Upcoming.body,
           replay' = [replay EXCEPT !.pos = @ + 1, !.got = @ + 1]
    PROVE  ReplayedInv'
<1>1. Heard' /\ UNCHANGED <<dump, script, call>> /\ replay.mode = "exchange"
  BY HeardAlone DEF Exchanging
<1>2. PICK p, g : p = replay.pos + 1 /\ g = replay.got + 1 /\ p \in Nat /\ g \in Nat
  <2>1. replay.pos \in Nat /\ replay.got \in Nat
    BY Jobs DEF ReplayedInv
  <2> QED BY <2>1
<1>3. /\ replay' \in ReplayState /\ replay'.rpc = replay.rpc /\ replay'.pos = p /\ replay'.got = g
      /\ replay'.mode = "exchange" /\ replay'.verdicts = replay.verdicts
  <2>1. replay' = [replay EXCEPT !.pos = p, !.got = g]
    BY <1>2
  <2> QED BY <1>1, <1>2, <2>1 DEF ReplayedInv, ReplayInv, Replaying, ReplayState
<1>4. ReplayInv'
  <2>1. Replaying'
    BY <1>1, <1>2, <1>3, WithinInv DEF ReplayedInv
  <2> QED BY <2>1, AloneInv DEF ReplayedInv
<1>5. PICK t, x : t = Stream /\ x = Upcoming /\ t \in Calls \ Users /\ call[t] \in CallState /\ x \in Message
  BY <1>1, PastFacts DEF ReplayedInv, Exchanged, ReplayInv, IInv, TypeOK
<1>6. PICK past, next : past = Past /\ next = Append(past, x)
  OBVIOUS
<1>7. PICK had, said : had = By("server", past) /\ said = By("server", call[t].seen)
  OBVIOUS
<1>8. /\ had \in Seq(Message) /\ Len(had) = replay.got /\ Begins(had, said)
      /\ By("server", next) = Append(had, x) /\ By("client", next) = By("client", past)
      /\ SubSeq(Job.messages, 1, p) = next
  BY <1>1, <1>2, <1>5, <1>6, <1>7, PastFacts DEF ReplayedInv, Exchanged, Answers
<1>9. said \in Seq(Message) /\ g <= Len(said) /\ said[g] \in Message /\ said[g].from = "server"
  <2>1. PICK q : q = call[t].seen /\ q \in Seq(Message)
    BY <1>5, Fields2
  <2>2. /\ said \in Seq(Message) /\ Len(said) \in Nat
        /\ \A i \in 1..Len(said) : said[i] \in Message /\ said[i].from = "server"
    BY <1>7, <2>1, ByAll
  <2>3. replay.got \in Nat /\ replay.got < Len(said)
    BY <1>5, <1>7, Jobs DEF Answers, ReplayedInv
  <2>4. g \in 1..Len(said)
    BY <1>2, <2>2, <2>3
  <2> QED BY <2>2, <2>4
<1>10. said[g] = x
  <2>1. said[g].body = x.body /\ x.from = "server"
    BY <1>2, <1>5, <1>7 DEF Answers
  <2>2. PICK y : y = said[g] /\ y \in Message
    BY <1>9
  <2> QED BY <1>5, <1>9, <2>1, <2>2 DEF Message
<1>11. Begins(Append(had, x), said) /\ Len(Append(had, x)) = g
  <2>1. Len(had) + 1 <= Len(said) /\ said[Len(had) + 1] = x
    BY <1>2, <1>8, <1>9, <1>10
  <2> QED BY <1>2, <1>5, <1>8, <1>9, <2>1, BeginsAppend
<1>12. Exchanged'
  <2>1. Job' = Job /\ Stream' = Stream
    BY <1>1, <1>3 DEF Job, Stream
  <2>2. Past' = next
    BY <1>3, <1>8, <2>1 DEF Past
  <2> QED BY <1>1, <1>3, <1>5, <1>6, <1>7, <1>8, <1>11, <2>1, <2>2 DEF ReplayedInv, Exchanged, Answers
<1>13. Judged' /\ OkIsRecorded'
  BY <1>1, <1>3, OkStays DEF ReplayedInv, Judged
<1> QED BY <1>1, <1>4, <1>12, <1>13 DEF ReplayedInv

LEMMA RecordedBeginnings ==
    ASSUME IInv, NEW m, NEW q \in Recorded(m), NEW k \in 0..Len(q)
    PROVE  SubSeq(q, 1, k) \in Recorded(m)
<1>1. PICK r \in Range(dump) : r.method = m /\ q \in Prefixes(r.messages)
  BY DEF Recorded
<1>2. PICK ms : ms = r.messages /\ ms \in Seq(Message) /\ Len(ms) \in Nat
  BY <1>1, Lines, Fields DEF Range
<1>3. PICK j \in 0..Len(ms) : q = SubSeq(ms, 1, j)
  BY <1>1, <1>2 DEF Prefixes
<1>4. Len(q) = j /\ \A i \in 1..j : q[i] = ms[i]
  BY <1>2, <1>3, SubSeqProperties
<1>5. k \in 0..Len(ms) /\ k \in 0..j
  BY <1>2, <1>4
<1>6. SubSeq(q, 1, k) = SubSeq(ms, 1, k)
  <2>1. q \in Seq(Message)
    BY <1>2, <1>3, SubSeqProperties
  <2>2. PICK a, b : a = SubSeq(q, 1, k) /\ b = SubSeq(ms, 1, k)
    OBVIOUS
  <2>3. a \in Seq(Message) /\ Len(a) = k /\ \A i \in 1..k : a[i] = q[i]
    BY <1>4, <1>5, <2>1, <2>2, SubSeqProperties
  <2>4. b \in Seq(Message) /\ Len(b) = k /\ \A i \in 1..k : b[i] = ms[i]
    BY <1>2, <1>5, <2>2, SubSeqProperties
  <2>5. \A i \in 1..k : a[i] = b[i]
    BY <1>4, <1>5, <2>3, <2>4
  <2> QED BY <2>2, <2>3, <2>4, <2>5, SeqEqual
<1>7. SubSeq(q, 1, k) \in Prefixes(r.messages)
  BY <1>2, <1>5, <1>6 DEF Prefixes
<1> QED BY <1>1, <1>7 DEF Recorded

\* What has been received when all of an RPC is through is what a recorded call has
\* answered to no more than its requests.
LEMMA OkNow ==
    ASSUME ReplayedInv, replay.mode = "exchange", replay.pos = Len(Job.messages)
    PROVE  Fine(Job)
<1>1. PICK r, t : /\ r = Job /\ r \in Recording /\ t = Stream /\ t \in Calls /\ call[t].wants = r
                  /\ call[t] \in CallState
  BY PastFacts DEF ReplayedInv, Exchanged, ReplayInv, IInv, TypeOK
<1>2. PICK ms, seen : ms = r.messages /\ seen = call[t].seen /\ ms \in Seq(Message) /\ seen \in Seq(Message)
  BY <1>1, Fields, Fields2
<1>3. PICK got, said : /\ got = By("server", ms) /\ said = By("server", seen)
                       /\ got \in Seq(Message) /\ said \in Seq(Message)
  BY <1>2, ByAll
<1>4. Begins(got, said)
  <2>1. Past = ms
    BY <1>1, <1>2, PastFacts DEF ReplayedInv
  <2> QED BY <1>1, <1>2, <1>3, <2>1 DEF ReplayedInv, Exchanged, Answers
<1> SUFFICES ASSUME got # <<>>
             PROVE  \E p \in Recorded(r.method) :
                       Answers(p) = got /\ IsPrefix(Asks([r EXCEPT !.messages = p]), Asks(r))
  BY <1>1, <1>2, <1>3 DEF Fine, Answers
<1>5. PICK k \in 0..Len(seen) : Len(By("server", SubSeq(seen, 1, k))) = Len(got)
  <2>1. Len(got) \in 0..Len(said)
    BY <1>3, <1>4 DEF Begins
  <2> QED BY <1>2, <1>3, <2>1, ByFacts
<1>6. PICK p : p = SubSeq(seen, 1, k) /\ p \in Seq(Message)
  <2>1. SubSeq(seen, 1, k) \in Seq(Message)
    BY <1>2, <1>5, SubSeqProperties
  <2> QED BY <2>1
<1>7. By("server", p) = got
  <2>1. By("server", p) \in Seq(Message) /\ Begins(By("server", p), said) /\ Len(By("server", p)) = Len(got)
    BY <1>2, <1>3, <1>5, <1>6, ByFacts
  <2> QED BY <1>3, <1>4, <2>1, BeginsFacts
<1>8. HeardOf(call[t])
  BY <1>1 DEF ReplayedInv, Heard
<1>9. IsPrefix(By("client", p), By("client", ms))
  <2>1. PICK a, b, c : a = By("client", p) /\ b = By("client", seen) /\ c = By("client", ms)
    OBVIOUS
  <2>2. a \in Seq(Message) /\ b \in Seq(Message) /\ c \in Seq(Message)
    BY <1>2, <1>6, <2>1, ByAll
  <2>3. Begins(a, b)
    BY <1>2, <1>6, <2>1, ByFacts
  <2>4. Begins(b, c)
    BY <1>1, <1>2, <1>8, <2>1 DEF HeardOf, Asks
  <2> QED BY <2>1, <2>2, <2>3, <2>4, BeginsFacts
<1>10. p \in Recorded(r.method)
  <2>1. seen # <<>>
    <3>1. SUFFICES ASSUME seen = <<>> PROVE FALSE
      OBVIOUS
    <3>2. said = <<>>
      BY <1>3, <3>1, BySteps
    <3>3. Begins(got, <<>>) /\ Begins(<<>>, <<>>) /\ Len(<<>>) = 0 /\ Len(got) \in Nat
      BY <1>3, <1>4, <3>2, EmptySeq, BeginsFacts
    <3>4. Len(got) = 0
      BY <3>3 DEF Begins
    <3> QED BY <1>3, <3>4, EmptySeq
  <2>2. seen \in Recorded(r.method)
    BY <1>1, <1>2, <1>8, <2>1 DEF HeardOf
  <2> QED BY <1>2, <1>5, <1>6, <2>2, RecordedBeginnings DEF ReplayedInv, ReplayInv
<1>11. Asks([r EXCEPT !.messages = p]) = By("client", p) /\ Asks(r) = By("client", ms)
  BY <1>1, <1>2 DEF Asks, Recording
<1> QED BY <1>7, <1>9, <1>10, <1>11 DEF Answers

LEMMA VerdictReplayed ==
    ASSUME ReplayedInv, replay.mode = "exchange", NEW x \in {"ok", "mismatch"}, UNCHANGED fixtureVars,
           x = "ok" => replay.pos = Len(Job.messages),
           replay' = [replay EXCEPT !.mode = "next", !.verdicts = Append(@, x)], ReplayInv'
    PROVE  ReplayedInv'
<1>1. Heard' /\ UNCHANGED <<dump, script, call>>
  BY HeardAlone
<1>2. PICK said, n : said = Append(replay.verdicts, x) /\ n = Len(replay.verdicts)
  OBVIOUS
<1>3. /\ n \in Nat /\ replay.rpc = n + 1 /\ Len(said) = n + 1 /\ said[n + 1] = x
      /\ \A k \in 1..n : said[k] = replay.verdicts[k]
  BY <1>2, VerdictFacts DEF ReplayedInv, Judged
<1>4. replay'.mode = "next" /\ replay'.rpc = replay.rpc /\ replay'.verdicts = said
  BY <1>2 DEF ReplayedInv, ReplayInv, Replaying, ReplayState
<1>5. Exchanged' /\ Judged'
  BY <1>3, <1>4 DEF Exchanged, Judged
<1>6. \A r : Fine(r)' = Fine(r)
  BY <1>1 DEF Fine, Recorded
<1>7. ASSUME NEW k \in 1..(n + 1), said[k] = "ok" PROVE Fine(script[k])
  <2>1. k \in 1..n \/ k = n + 1
    BY <1>3
  <2>2. CASE k \in 1..n
    BY <1>2, <1>3, <1>7, <2>2 DEF ReplayedInv, OkIsRecorded, Fine
  <2>3. CASE k = n + 1
    BY <1>3, <1>7, <2>3, OkNow DEF Job
  <2> QED BY <2>1, <2>2, <2>3
<1>8. OkIsRecorded'
  BY <1>1, <1>3, <1>4, <1>6, <1>7 DEF OkIsRecorded, Fine
<1> QED BY <1>1, <1>5, <1>8 DEF ReplayedInv

LEMMA RecvReplayed == ASSUME ReplayedInv, Recv \/ Verdict PROVE ReplayedInv'
<1>1. UNCHANGED fixtureVars /\ replay.mode = "exchange" /\ ReplayInv'
  BY RecvInv DEF Recv, Verdict, Exchanging, ReplayedInv
<1>2. CASE Verdict
  BY <1>1, <1>2, VerdictReplayed DEF Verdict
<1>3. CASE Fails("recv")
  <2>1. replay'.mode = "error" /\ replay'.rpc = replay.rpc /\ replay'.verdicts = replay.verdicts
    BY <1>3 DEF Fails, ReplayedInv, ReplayInv, Replaying, ReplayState
  <2>2. Heard' /\ UNCHANGED <<dump, script, call>>
    BY <1>1, HeardAlone
  <2> QED BY <1>1, <2>1, <2>2, OkStays DEF ReplayedInv, Exchanged, Judged
<1>4. CASE Recv
  <2>1. CASE replay' = [replay EXCEPT !.mode = "next", !.verdicts = Append(@, "mismatch")]
    BY <1>1, <2>1, VerdictReplayed
  <2>2. CASE /\ replay.got < Len(Answers(call[Stream].seen))
             /\ Answers(call[Stream].seen)[replay.got + 1].body = Upcoming.body
             /\ replay' = [replay EXCEPT !.pos = @ + 1, !.got = @ + 1]
    BY <1>1, <1>4, <2>2, ReceivedReplayed DEF Recv
  <2> QED BY <1>3, <1>4, <2>1, <2>2 DEF Recv
<1> QED BY <1>2, <1>4

LEMMA GivesUpReplayed == ASSUME ReplayedInv, GivesUp \/ EndOfDump PROVE ReplayedInv'
<1>1. ReplayInv' /\ UNCHANGED fixtureVars
  BY RecvInv DEF GivesUp, EndOfDump, ReplayedInv
<1>2. Heard' /\ UNCHANGED <<dump, script, call>>
  BY <1>1, HeardAlone
<1>3. /\ replay'.rpc = replay.rpc /\ replay'.verdicts = replay.verdicts
      /\ replay'.mode = "error" \/ (replay'.mode = "done" /\ replay.mode = "next")
  BY DEF GivesUp, EndOfDump, Fails, ReplayedInv, ReplayInv, Replaying, ReplayState
<1> QED BY <1>1, <1>2, <1>3, OkStays DEF ReplayedInv, Exchanged, Judged

LEMMA ExitReplayed == ASSUME ReplayedInv, Exit PROVE ReplayedInv'
<1>1. ReplayInv' /\ UNCHANGED <<dump, script>>
  BY ExitInv DEF Exit, ReplayedInv
<1>2. /\ replay'.rpc = replay.rpc /\ replay'.verdicts = replay.verdicts /\ replay'.mode = "exited"
  BY DEF Exit, ReplayedInv, ReplayInv, Replaying, ReplayState
<1>3. ASSUME NEW c \in Calls PROVE HeardOf(call'[c])
  <2>1. PICK old : old = call[c] /\ old \in CallState /\ HeardOf(old)
    BY DEF ReplayedInv, ReplayInv, IInv, TypeOK, Heard
  <2>2. PICK b : b = (old.cancelled \/ (c \in Range(Streams) /\ old.pc = "loop"))
    OBVIOUS
  <2>3. call'[c] = [old EXCEPT !.cancelled = b]
    BY <2>1, <2>2 DEF Exit
  <2>4. /\ call'[c].seen = old.seen /\ call'[c].wants = old.wants /\ call'[c].sent = old.sent
        /\ call'[c].received = old.received
    BY <2>1, <2>3 DEF CallState
  <2> QED BY <2>1, <2>4 DEF HeardOf
<1>4. Heard'
  <2>1. \A m : Recorded(m)' = Recorded(m)
    BY <1>1 DEF Recorded
  <2> QED BY <1>3, <2>1 DEF Heard, HeardOf
<1> QED BY <1>1, <1>2, <1>4, OkStays DEF ReplayedInv, Exchanged, Judged

LEMMA ReplayedNextInv == ReplayedInv /\ [ReplayNext]_allVars => ReplayedInv'
<1> SUFFICES ASSUME ReplayedInv, [ReplayNext]_allVars PROVE ReplayedInv'
  OBVIOUS
<1>1. CASE [Next]_vars /\ UNCHANGED replayVars
  BY <1>1, FixtureStepInv
<1>2. CASE Run \/ GivesUp
  BY <1>2, OpenReplayed, SendReplayed, RecvReplayed, GivesUpReplayed, ExitReplayed DEF Run
<1> QED BY <1>1, <1>2 DEF ReplayNext, allVars

\* "OK" is what replay says of an RPC only if the fixture answered it as a recorded call,
\* to requests of the RPC's own: no response is taken for another, none is missing, whatever
\* dump is replayed against whatever the fixture was loaded with.
THEOREM OkMeansRecorded == ReplaySpec => []OkIsRecorded
<1>1. ReplayedInv => OkIsRecorded
  BY DEF ReplayedInv
<1> QED BY <1>1, ReplayedInitInv, ReplayedNextInv, PTL DEF ReplaySpec

-----------------------------------------------------------------------------
(* The tree and the recordings: how a node goes on.                        *)

\* What goes on after a node's messages is what the node's next ones are for, and the
\* lines that brought these are the ones that go on.
LEMMA Branches ==
    ASSUME IInv, phase = "serving", NEW place, Tree(place), NEW at \in Nodes,
           NEW x, x.method = place[at].method, x.seen = place[at].messages
    PROVE  /\ \A l \in Server!Lines(x) :
                 l \in 1..line /\ \E n \in Range(nodes[at].next) :
                                     MessageOf[n] = Server!After(l, x) /\ place[n] \in Begun(l)
           /\ \A n \in Range(nodes[at].next) :
                 /\ n \in Nodes /\ MessageOf[n].from = nodes[n].from
                 /\ \E l \in 1..line : place[n] \in Begun(l)
                 /\ \A l \in 1..line : place[n] \in Begun(l) =>
                       l \in Server!Lines(x) /\ Server!After(l, x) = MessageOf[n]
<1>1. /\ line = Len(dump) /\ line \in Nat
      /\ \A l \in 1..line : dump[l] \in Recording /\ Added[l] = Len(dump[l].messages)
  <2>1. LineDone /\ line = Len(dump)
    BY DEF IInv, Serving
  <2> QED BY <2>1, Lines DEF Added, LineDone, Current
<1>2. PICK here, k : here = place[at] /\ k = Len(here.messages)
  OBVIOUS
<1>3. here \in Recording /\ k \in Nat
  BY <1>2, Fields DEF Tree
<1>4. ASSUME NEW l \in Server!Lines(x)
      PROVE  l \in 1..line /\ \E n \in Range(nodes[at].next) :
                                 MessageOf[n] = Server!After(l, x) /\ place[n] \in Begun(l)
  <2>1. PICK r : r = dump[l] /\ l \in 1..line /\ r \in Recording /\ Added[l] = Len(r.messages)
    BY <1>1 DEF Server!Lines
  <2>2. r.method = here.method /\ k < Len(r.messages) /\ SubSeq(r.messages, 1, k) = here.messages
    BY <1>2, <2>1 DEF Server!Lines
  <2>3. Len(r.messages) \in Nat /\ k \in 0..(Len(r.messages) - 1) /\ k + 1 \in 0..Len(r.messages)
        /\ k + 1 \in 1..Len(r.messages)
    <3>1. PICK n : n = Len(r.messages) /\ n \in Nat
      BY <2>1, Fields
    <3> QED BY <1>3, <2>2, <3>1
  <2>4. UpTo(r, k) = here
    BY <1>3, <2>2, Fields DEF UpTo
  <2>5. PICK m : m = r.messages[k + 1] /\ m \in Message
    BY <2>1, <2>3, Fields
  <2>6. UpTo(r, k + 1) = Further(here, m)
    BY <2>1, <2>3, <2>4, <2>5, Beginnings
  <2>7. UpTo(r, k + 1) \in Begun(l)
    BY <2>1, <2>3 DEF Begun
  <2>8. PICK n \in Nodes : place[n] = Further(here, m)
    <3>1. UpTo(r, k + 1) \in Known
      BY <2>1, <2>7 DEF Begun, Known
    <3> QED BY <2>6, <3>1 DEF Tree, Exact
  <2>9. PICK p \in Nodes : n \in Range(nodes[p].next)
    BY <1>3, <2>5, <2>8, FurtherEqual DEF Tree, Parents
  <2>10. place[n] = Further(place[p], MessageOf[n]) /\ MessageOf[n] \in Message /\ place[p] \in Recording
    BY <2>9 DEF Tree, Links
  <2>11. Further(place[p], MessageOf[n]) = Further(here, m)
    BY <2>8, <2>10
  <2>12. place[p] = here /\ MessageOf[n] = m
    BY <1>3, <2>5, <2>10, <2>11, FurtherEqual
  <2>13. p = at
    BY <1>2, <2>12 DEF Tree, OneEach
  <2>14. m = Server!After(l, x)
    BY <1>2, <2>1, <2>5 DEF Server!After
  <2> QED BY <2>1, <2>6, <2>7, <2>8, <2>9, <2>12, <2>13, <2>14
<1>5. ASSUME NEW n \in Range(nodes[at].next)
      PROVE  /\ n \in Nodes /\ MessageOf[n].from = nodes[n].from
             /\ \E l \in 1..line : place[n] \in Begun(l)
             /\ \A l \in 1..line : place[n] \in Begun(l) =>
                   l \in Server!Lines(x) /\ Server!After(l, x) = MessageOf[n]
  <2>1. /\ n \in Nodes /\ place[n] = Further(here, MessageOf[n]) /\ MessageOf[n] \in Message
        /\ MessageOf[n].from = nodes[n].from /\ place[n] \in Known
    BY <1>2 DEF Tree, Links, Exact, MessageOf
  <2>2. \E l \in 1..line : place[n] \in Begun(l)
    BY <2>1 DEF Known, Begun
  <2>3. ASSUME NEW l \in 1..line, place[n] \in Begun(l)
        PROVE  l \in Server!Lines(x) /\ Server!After(l, x) = MessageOf[n]
    <3>1. PICK r : r = dump[l] /\ r \in Recording /\ Added[l] = Len(r.messages) /\ Len(r.messages) \in Nat
      BY <1>1, Fields
    <3>2. PICK j \in 0..Len(r.messages) : place[n] = UpTo(r, j)
      BY <2>3, <3>1 DEF Begun
    <3>3. PICK m : m = MessageOf[n] /\ m \in Message /\ Further(here, m) = UpTo(r, j)
      BY <2>1, <3>2
    <3>4. j = k + 1
      <4>1. Len(Append(here.messages, m)) = k + 1
        BY <1>2, <1>3, <3>3, Fields, AppendProperties
      <4>2. Append(here.messages, m) = UpTo(r, j).messages
        BY <3>3 DEF Further
      <4>3. Len(UpTo(r, j).messages) = j
        BY <3>1, Beginnings
      <4> QED BY <4>1, <4>2, <4>3
    <3>5. k \in 0..(Len(r.messages) - 1) /\ k \in 0..Len(r.messages) /\ k < Len(r.messages)
          /\ k + 1 \in 1..Len(r.messages)
      <4>1. PICK i : i = Len(r.messages) /\ i \in Nat
        BY <3>1
      <4> QED BY <1>3, <3>2, <3>4, <4>1
    <3>6. UpTo(r, k) \in Recording /\ UpTo(r, j) = Further(UpTo(r, k), r.messages[k + 1])
      BY <3>1, <3>4, <3>5, Beginnings
    <3>7. r.messages[k + 1] \in Message
      BY <3>1, <3>5, Fields
    <3>8. here = UpTo(r, k) /\ m = r.messages[k + 1]
      BY <1>3, <3>3, <3>6, <3>7, FurtherEqual
    <3>9. r.method = here.method /\ SubSeq(r.messages, 1, k) = here.messages
      BY <3>8 DEF UpTo
    <3>10. l \in Server!Lines(x)
      BY <1>1, <1>2, <3>1, <3>5, <3>9 DEF Server!Lines
    <3> QED BY <1>2, <3>1, <3>3, <3>8, <3>10 DEF Server!After
  <2> QED BY <2>1, <2>2, <2>3
<1> QED BY <1>4, <1>5

\* Where nothing goes on there is no next node; it is the server's turn on either side; and
\* the first of the next nodes is what the first of the lines has.
LEMMA Turns ==
    ASSUME IInv, phase = "serving", NEW place, Tree(place), NEW at \in Nodes,
           NEW x, x.method = place[at].method, x.seen = place[at].messages
    PROVE  /\ nodes[at].next = <<>> <=> Server!Lines(x) = {}
           /\ ServerFirst(at) <=> Server!ServersTurn(x)
           /\ nodes[at].next # <<>> =>
                 /\ nodes[at].next[1] \in Range(nodes[at].next)
                 /\ \E l \in Server!Lines(x) :
                       /\ \A k \in Server!Lines(x) : l <= k
                       /\ Server!After(l, x) = MessageOf[nodes[at].next[1]]
<1>1. PICK q : q = nodes[at].next /\ q \in Seq(Nat) /\ Len(q) \in Nat
  <2>1. nodes[at].next \in Seq(Nat)
    BY Lines
  <2> QED BY <2>1
<1>2. DOMAIN q = 1..Len(q) /\ (q = <<>> <=> Range(q) = {}) /\ (q # <<>> => 1 \in DOMAIN q /\ q[1] \in Range(q))
  <2>1. DOMAIN q = 1..Len(q) /\ Range(q) = {q[i] : i \in DOMAIN q}
    BY <1>1 DEF Range
  <2>2. q # <<>> => 1 \in DOMAIN q
    BY <1>1, <2>1
  <2>3. q = <<>> => DOMAIN q = {}
    OBVIOUS
  <2> QED BY <2>1, <2>2, <2>3
<1>3. PICK lines : lines = Server!Lines(x)
  OBVIOUS
<1>4. \A l \in lines : l \in 1..line /\ \E n \in Range(q) : MessageOf[n] = Server!After(l, x) /\ place[n] \in Begun(l)
  BY <1>1, <1>3, Branches
<1>5. \A n \in Range(q) :
         /\ n \in Nodes /\ MessageOf[n].from = nodes[n].from
         /\ \E l \in 1..line : place[n] \in Begun(l)
         /\ \A l \in 1..line : place[n] \in Begun(l) => l \in lines /\ Server!After(l, x) = MessageOf[n]
  BY <1>1, <1>3, Branches
<1>6. q = <<>> <=> lines = {}
  BY <1>2, <1>4, <1>5
<1>7. ServerFirst(at) <=> Server!ServersTurn(x)
  <2>1. ServerFirst(at) <=> q # <<>> /\ \A n \in Range(q) : nodes[n].from = "server"
    BY <1>1 DEF ServerFirst, Range
  <2>2. (\A n \in Range(q) : nodes[n].from = "server") <=> \A l \in lines : Server!After(l, x).from = "server"
    BY <1>4, <1>5
  <2> QED BY <1>3, <1>6, <2>1, <2>2 DEF Server!ServersTurn
<1>8. ASSUME q # <<>>
      PROVE  \E l \in lines : (\A k \in lines : l <= k) /\ Server!After(l, x) = MessageOf[q[1]]
  <2>1. lines \in SUBSET Nat /\ lines # {}
    BY <1>4, <1>6, <1>8, Lines
  <2>2. PICK l \in lines : \A k \in lines : l <= k
    BY <2>1, Smallest
  <2>3. PICK n \in Range(q) : MessageOf[n] = Server!After(l, x) /\ place[n] \in Begun(l)
    BY <1>4
  <2>4. PICK a : a = q[1] /\ a \in Range(q) /\ a \in Nodes
    BY <1>2, <1>5, <1>8
  <2>5. CASE n = a
    BY <2>2, <2>3, <2>4, <2>5
  <2>6. CASE n # a
    <3>1. PICK i \in DOMAIN q : n = q[i]
      BY <2>3 DEF Range
    <3>2. 1 < i /\ 1 \in DOMAIN q
      BY <1>1, <1>2, <1>8, <2>4, <2>6, <3>1
    <3>3. a < n
      BY <1>1, <2>4, <3>1, <3>2 DEF Tree, Rising
    <3>4. l \in 1..line /\ n \in Nodes
      BY <1>4, <1>5
    <3>5. PICK k \in 1..l : place[a] \in Begun(k)
      BY <2>3, <2>4, <3>3, <3>4 DEF Tree, Older
    <3>6. k \in 1..line /\ k <= l
      BY <3>4, <3>5, Lines
    <3>7. k \in lines /\ Server!After(k, x) = MessageOf[a]
      BY <1>5, <2>4, <3>5, <3>6
    <3>8. k = l
      BY <2>1, <2>2, <3>6, <3>7
    <3> QED BY <2>2, <2>4, <3>7, <3>8
  <2> QED BY <2>5, <2>6
<1> QED BY <1>1, <1>2, <1>3, <1>6, <1>7, <1>8

-----------------------------------------------------------------------------
(* The fixture plays its recordings back.                                  *)

\* Only a client of the fixture's own half-closes, and only when it has sent everything.
Closing ==
    \A c \in Calls : call[c].halfClosed => c \in Users /\ call[c].sent = Len(Asks(call[c].wants))

LEMMA ClosingCall ==
    ASSUME TypeOK, Closing, NEW c \in Calls, NEW new, call' = [call EXCEPT ![c] = new],
           new.halfClosed => c \in Users /\ new.sent = Len(Asks(new.wants))
    PROVE  Closing'
<1>1. \A d \in Calls : call'[d] = IF d = c THEN new ELSE call[d]
  BY DEF TypeOK
<1> QED BY <1>1 DEF Closing

\* Nothing but its client's sending and half-closing bears on it.
LEMMA ClosingSame ==
    ASSUME IInv, Closing, NEW c \in Calls, NEW new, call' = [call EXCEPT ![c] = new],
           new.halfClosed = call[c].halfClosed, new.wants = call[c].wants, new.sent = call[c].sent
    PROVE  Closing'
<1>1. new.halfClosed => c \in Users /\ new.sent = Len(Asks(new.wants))
  BY DEF Closing
<1> QED BY <1>1, ClosingCall DEF IInv

LEMMA ClosingStart == ASSUME IInv, Closing, NEW c \in Calls, NEW r, Start(c, r) PROVE Closing'
<1>1. PICK at, pc, status :
         /\ at = root[r.method]
         /\ pc = IF root[r.method] = NoNode THEN "ended" ELSE "loop"
         /\ status = IF root[r.method] = NoNode THEN "unavailable" ELSE "none"
  OBVIOUS
<1>2. PICK new : new = [Idle EXCEPT !.wants = r, !.at = at, !.pc = pc, !.status = status]
  OBVIOUS
<1>3. call' = [call EXCEPT ![c] = new]
  BY <1>1, <1>2 DEF Start
<1>4. ~new.halfClosed
  BY ONLY <1>2 DEF Idle
<1> QED BY <1>3, <1>4, ClosingCall DEF IInv

LEMMA ClosingSend ==
    ASSUME IInv, Closing, NEW c \in Calls, call' = [call EXCEPT ![c].sent = @ + 1],
           call[c].halfClosed => call[c].sent # Len(Asks(call[c].wants))
    PROVE  Closing'
<1>1. PICK new : new = [call[c] EXCEPT !.sent = @ + 1]
  OBVIOUS
<1>2. new.halfClosed = call[c].halfClosed
  BY <1>1 DEF IInv, TypeOK, CallState
<1>3. call' = [call EXCEPT ![c] = new]
  BY <1>1
<1>4. ~new.halfClosed
  BY <1>2 DEF Closing
<1> QED BY <1>3, <1>4, ClosingCall DEF IInv

LEMMA ClosingIntercept == ASSUME IInv, Closing, NEW c \in Calls, Intercept(c) PROVE Closing'
<1>1. call[c] \in CallState
  BY DEF IInv, TypeOK
<1>2. ASSUME NEW status, Ends(c, status) PROVE Closing'
  <2>1. PICK new : new = [call[c] EXCEPT !.pc = "ended", !.status = status]
    OBVIOUS
  <2>2. new.halfClosed = call[c].halfClosed /\ new.wants = call[c].wants /\ new.sent = call[c].sent
    BY <1>1, <2>1 DEF CallState
  <2>3. call' = [call EXCEPT ![c] = new]
    BY <1>2, <2>1 DEF Ends
  <2> QED BY <2>2, <2>3, ClosingSame
<1>3. ASSUME NEW n PROVE /\ Walk(c, n).halfClosed = call[c].halfClosed /\ Walk(c, n).wants = call[c].wants
                         /\ Walk(c, n).sent = call[c].sent
                         /\ \A k : [Walk(c, n) EXCEPT !.received = k].halfClosed = call[c].halfClosed
                         /\ \A k : [Walk(c, n) EXCEPT !.received = k].wants = call[c].wants
                         /\ \A k : [Walk(c, n) EXCEPT !.received = k].sent = call[c].sent
  BY <1>1 DEF Walk, CallState
<1>4. CASE SendMsg(c)
  <2>1. CASE call' = [call EXCEPT ![c] = Walk(c, nodes[call[c].at].next[1])]
    <3>1. PICK new, n : new = Walk(c, n) /\ call' = [call EXCEPT ![c] = new]
      BY <2>1
    <3> QED BY <1>3, <3>1, ClosingSame
  <2> QED BY <1>2, <1>4, <2>1 DEF SendMsg
<1>5. CASE RecvMsg(c)
  <2>1. ASSUME NEW i \in Matches(call[c].at, Received(c)),
               call' = [call EXCEPT ![c] = [Walk(c, nodes[call[c].at].next[i]) EXCEPT !.received = @ + 1]]
        PROVE  Closing'
    <3>1. PICK n : n = nodes[call[c].at].next[i]
      OBVIOUS
    <3>2. PICK k : k = Walk(c, n).received + 1
      OBVIOUS
    <3>3. PICK new : new = [Walk(c, n) EXCEPT !.received = k]
      OBVIOUS
    <3>4. call' = [call EXCEPT ![c] = new]
      BY <2>1, <3>1, <3>2, <3>3
    <3>5. new.halfClosed = call[c].halfClosed /\ new.wants = call[c].wants /\ new.sent = call[c].sent
      BY <1>3, <3>3
    <3> QED BY <3>4, <3>5, ClosingSame
  <2> QED BY <1>2, <1>5, <2>1 DEF RecvMsg
<1>6. CASE RecvEnd(c)
  BY <1>2, <1>6 DEF RecvEnd
<1> QED BY <1>4, <1>5, <1>6 DEF Intercept

LEMMA ClosingNext == ASSUME IInv, Heard, Closing, [Next]_vars PROVE Closing'
<1>1. CASE UNCHANGED call
  BY <1>1 DEF Closing
<1>2. CASE Load \/ LoadFails
  BY <1>1, <1>2 DEF Load, LoadFails, NextRecording, LoadMessage, LoadDone
<1>3. ASSUME NEW c \in Users, Client(c) PROVE Closing'
  <2>1. c \in Calls /\ call[c] \in CallState
    BY FixtureAssumption DEF IInv, TypeOK
  <2>2. CASE ClientSend(c)
    <3>1. call[c].sent \in Nat /\ Len(Asks(call[c].wants)) \in Nat /\ call[c].sent < Len(Asks(call[c].wants))
      BY <2>1, <2>2, Fields2, AsksFacts DEF ClientSend
    <3>2. call[c].sent # Len(Asks(call[c].wants))
      BY <3>1
    <3> QED BY <2>1, <2>2, <3>2, ClosingSend DEF ClientSend
  <2>3. CASE ClientHalfClose(c)
    <3>1. PICK new : new = [call[c] EXCEPT !.halfClosed = TRUE] /\ call' = [call EXCEPT ![c] = new]
      BY <2>3 DEF ClientHalfClose
    <3>2. new.sent = call[c].sent /\ new.wants = call[c].wants
      BY <2>1, <3>1 DEF CallState
    <3> QED BY <2>1, <2>3, <3>1, <3>2, ClosingCall DEF ClientHalfClose, IInv
  <2>4. CASE ClientCancel(c)
    <3>1. PICK new : new = [call[c] EXCEPT !.cancelled = TRUE] /\ call' = [call EXCEPT ![c] = new]
      BY <2>4 DEF ClientCancel
    <3>2. new.sent = call[c].sent /\ new.wants = call[c].wants /\ new.halfClosed = call[c].halfClosed
      BY <2>1, <3>1 DEF CallState
    <3> QED BY <2>1, <3>1, <3>2, ClosingSame
  <2> QED BY <1>3, <2>1, <2>2, <2>3, <2>4, ClosingStart DEF Client
<1>4. ASSUME NEW c \in Calls, Intercept(c) PROVE Closing'
  BY <1>4, ClosingIntercept
<1> QED BY <1>1, <1>2, <1>3, <1>4 DEF Next, Rest, vars

LEMMA OneExchange ==
    ASSUME TypeOK, UNCHANGED dump, NEW c \in Calls, NEW new, call' = [call EXCEPT ![c] = new]
    PROVE  Server!Becomes(c, Exchange(c)')
<1>1. \A d \in Calls : call'[d] = IF d = c THEN new ELSE call[d]
  BY DEF TypeOK
<1>2. \A d \in Calls : d # c => Exchange(d)' = Exchange(d)
  BY <1>1 DEF Exchange
<1> QED BY <1>2 DEF Server!Becomes

LEMMA ExchangeFacts ==
    ASSUME NEW c
    PROVE  /\ Exchange(c).method = call[c].wants.method /\ Exchange(c).asks = Asks(call[c].wants)
           /\ Exchange(c).seen = call[c].seen /\ Exchange(c).taken = call[c].received
           /\ call[c].pc = "idle" => Exchange(c).status = "none"
           /\ call[c].pc = "loop" => Exchange(c).status = "open"
           /\ call[c].pc = "ended" => Exchange(c).status = call[c].status
           /\ \A t : [Exchange(c) EXCEPT !.taken = t] =
                        [method |-> call[c].wants.method, asks |-> Asks(call[c].wants),
                         seen |-> call[c].seen, taken |-> t, status |-> Exchange(c).status]
           /\ \A t : [Exchange(c) EXCEPT !.status = t] =
                        [method |-> call[c].wants.method, asks |-> Asks(call[c].wants),
                         seen |-> call[c].seen, taken |-> call[c].received, status |-> t]
BY DEF Exchange

\* There is a root for the methods of which a call has been recorded.
LEMMA HasRoot ==
    ASSUME IInv, phase = "serving", NEW m \in Methods
    PROVE  root[m] # NoNode <=> \E l \in 1..Len(dump) : dump[l].method = m
<1>1. PICK place : Tree(place)
  BY DEF IInv, Standing
<1>2. line = Len(dump) /\ root[m] \in 0..Len(nodes)
  BY Lines DEF IInv, Serving
<1>3. ASSUME root[m] # NoNode PROVE \E l \in 1..Len(dump) : dump[l].method = m
  <2>1. PICK n \in Nodes : n = root[m]
    BY <1>2, <1>3, Lines DEF Nodes, NoNode
  <2>2. place[n] = Nothing(m) /\ place[n] \in Known
    BY <1>1, <1>3, <2>1 DEF Tree, Roots, Exact
  <2>3. PICK l \in 1..line : place[n] \in {UpTo(dump[l], k) : k \in 0..Added[l]}
    BY <2>2 DEF Known
  <2>4. place[n].method = dump[l].method
    BY <2>3 DEF UpTo
  <2> QED BY <1>2, <2>2, <2>4 DEF Nothing
<1>4. ASSUME NEW l \in 1..Len(dump), dump[l].method = m PROVE root[m] # NoNode
  <2>1. dump[l] \in Range(dump) /\ dump[l] \in Recording /\ Len(dump[l].messages) \in Nat
    BY Lines, Fields DEF Range
  <2>2. UpTo(dump[l], 0) \in Known /\ UpTo(dump[l], 0) = Nothing(m)
    BY <1>4, <2>1, AllKnown, Beginnings
  <2>3. PICK n \in Nodes : place[n] = Nothing(m)
    BY <1>1, <2>2 DEF Tree, Exact
  <2>4. place[n].messages = <<>> /\ place[n].method = m
    BY <2>3 DEF Nothing
  <2>5. ASSUME NEW p \in Nodes, n \in Range(nodes[p].next) PROVE FALSE
    BY <1>1, <2>4, <2>5, FurtherEqual DEF Tree, Links
  <2>6. n = root[m]
    BY <1>1, <2>4, <2>5 DEF Tree, Parents
  <2> QED BY <2>6 DEF Nodes, NoNode
<1> QED BY <1>3, <1>4

LEMMA StartPlays ==
    ASSUME IInv, NEW c \in Calls, NEW r \in Recording, r \in Questions, Start(c, r)
    PROVE  Server!Begin(c)
<1>1. PICK at, pc, status :
         /\ at = root[r.method]
         /\ pc = IF root[r.method] = NoNode THEN "ended" ELSE "loop"
         /\ status = IF root[r.method] = NoNode THEN "unavailable" ELSE "none"
  OBVIOUS
<1>2. PICK new : new = [Idle EXCEPT !.wants = r, !.at = at, !.pc = pc, !.status = status]
  OBVIOUS
<1>3. call' = [call EXCEPT ![c] = new] /\ UNCHANGED dump /\ phase = "serving" /\ call[c].pc = "idle"
  BY <1>1, <1>2 DEF Start, serving
<1>4. new.wants = r /\ new.seen = <<>> /\ new.received = 0 /\ new.pc = pc /\ new.status = status
  BY ONLY <1>2 DEF Idle
<1>5. call'[c] = new
  BY <1>3 DEF IInv, TypeOK
<1>6. PICK begun : begun = IF \E l \in 1..Len(dump) : dump[l].method = r.method THEN "open" ELSE "unavailable"
  OBVIOUS
<1>7. Exchange(c)' = [method |-> r.method, asks |-> Asks(r), seen |-> <<>>, taken |-> 0, status |-> begun]
  <2>1. begun = IF root[r.method] = NoNode THEN "unavailable" ELSE "open"
    BY <1>3, <1>6, Fields, HasRoot
  <2> QED BY <1>1, <1>4, <1>5, <2>1 DEF Exchange
<1>8. PICK q : q = [method |-> r.method, asks |-> Asks(r)]
  OBVIOUS
<1>9. /\ q \in {[method |-> x.method, asks |-> Asks(x)] : x \in Questions}
      /\ q.method = r.method /\ q.asks = Asks(r)
  BY <1>8
<1>10. Server!Becomes(c, [method |-> q.method, asks |-> q.asks, seen |-> <<>>, taken |-> 0, status |-> begun])
  BY <1>3, <1>7, <1>9, OneExchange DEF IInv
<1>11. Exchange(c).status = "none"
  BY <1>3, ExchangeFacts
<1> QED BY <1>6, <1>9, <1>10, <1>11 DEF Server!Begin

\* A call that goes on to a next node has exchanged its message, and is over at a leaf.
LEMMA WalkPlays ==
    ASSUME IInv, UNCHANGED dump, NEW c \in Calls, call[c].pc = "loop",
           NEW n \in Range(nodes[call[c].at].next), NEW received \in Nat,
           call' = [call EXCEPT ![c] = [Walk(c, n) EXCEPT !.received = received]]
    PROVE  Server!Becomes(c, Server!With([Exchange(c) EXCEPT !.taken = received], MessageOf[n]))
<1>1. PICK place : Tree(place) /\ At(c, place)
  BY DEF IInv, Standing
<1>2. phase = "serving" /\ call[c] \in CallState
  BY DEF IInv, Serving, TypeOK
<1>3. PICK old, m, seen : old = call[c] /\ m = MessageOf[n] /\ seen = Append(old.seen, m)
  OBVIOUS
<1>4. /\ old.at \in Nodes /\ place[old.at] = [method |-> old.wants.method, messages |-> old.seen]
      /\ n \in Nodes /\ place[n] = Further(place[old.at], m)
      /\ m = [from |-> nodes[n].from, body |-> nodes[n].body]
  <2>1. old.at \in Nodes /\ place[old.at] = [method |-> old.wants.method, messages |-> old.seen]
    BY <1>1, <1>3 DEF At
  <2> QED BY <1>1, <1>3, <2>1 DEF Tree, Links, MessageOf
<1>5. PICK new : new = [Walk(c, n) EXCEPT !.received = received]
  OBVIOUS
<1>6. /\ new.seen = seen /\ new.wants = old.wants /\ new.received = received
      /\ nodes[n].next = <<>> => new.pc = "ended" /\ new.status = "ok"
      /\ nodes[n].next # <<>> => new.pc = "loop" /\ new.status = "none"
  BY <1>2, <1>3, <1>4, <1>5 DEF Walk, CallState
<1>7. call'[c] = new /\ call' = [call EXCEPT ![c] = new]
  BY <1>5 DEF IInv, TypeOK
<1>8. PICK y : y = [method |-> old.wants.method, asks |-> Asks(old.wants), seen |-> seen, taken |-> received,
                    status |-> "open"]
  OBVIOUS
<1>9. nodes[n].next = <<>> <=> Server!Lines(y) = {}
  <2>1. PICK here : here = place[old.at]
    OBVIOUS
  <2>2. here.method = old.wants.method /\ here.messages = old.seen
    BY <1>4, <2>1
  <2>3. place[n] = [method |-> old.wants.method, messages |-> seen]
    BY <1>3, <1>4, <2>1, <2>2 DEF Further
  <2>4. y.method = place[n].method /\ y.seen = place[n].messages
    BY <1>8, <2>3
  <2> QED BY <1>1, <1>2, <1>4, <2>4, Turns
<1>10. PICK status : status = IF Server!Lines(y) = {} THEN "ok" ELSE "open"
  OBVIOUS
<1>11. Exchange(c)' = [y EXCEPT !.status = status]
  <2>1. Exchange(c)' = [method |-> old.wants.method, asks |-> Asks(old.wants), seen |-> seen,
                        taken |-> received, status |-> status]
    BY <1>6, <1>7, <1>9, <1>10 DEF Exchange
  <2> QED BY <1>8, <2>1
<1>12. Server!With([Exchange(c) EXCEPT !.taken = received], m) = [y EXCEPT !.status = status]
  <2>1. PICK x : x = [Exchange(c) EXCEPT !.taken = received]
    OBVIOUS
  <2>2. x = [method |-> old.wants.method, asks |-> Asks(old.wants), seen |-> old.seen,
             taken |-> received, status |-> "open"]
    BY <1>3, <2>1, ExchangeFacts
  <2>3. x.seen = old.seen
    BY <2>2
  <2>4. [x EXCEPT !.seen = Append(@, m)] = [x EXCEPT !.seen = seen]
    BY <1>3, <2>3
  <2>5. [x EXCEPT !.seen = Append(@, m)] = y
    BY <1>8, <2>2, <2>4
  <2>6. Server!With(x, m) = [y EXCEPT !.status = IF Server!Lines(y) = {} THEN "ok" ELSE "open"]
    BY <2>5 DEF Server!With
  <2>7. Server!With(x, m) = [y EXCEPT !.status = status]
    BY <1>10, <2>6
  <2> QED BY <2>1, <2>7
<1>13. Exchange(c)' = Server!With([Exchange(c) EXCEPT !.taken = received], MessageOf[n])
  BY <1>3, <1>11, <1>12
<1>14. Server!Becomes(c, Exchange(c)')
  BY <1>7, OneExchange DEF IInv
<1> QED BY <1>13, <1>14 DEF Server!Becomes

LEMMA EndsPlays ==
    ASSUME IInv, UNCHANGED dump, NEW c \in Calls, NEW status, Ends(c, status)
    PROVE  Server!Becomes(c, [Exchange(c) EXCEPT !.status = status])
<1>1. PICK old, new : old = call[c] /\ new = [old EXCEPT !.pc = "ended", !.status = status]
  OBVIOUS
<1>2. /\ new.wants = old.wants /\ new.seen = old.seen /\ new.received = old.received
      /\ new.pc = "ended" /\ new.status = status
  BY <1>1 DEF IInv, TypeOK, CallState
<1>3. call' = [call EXCEPT ![c] = new]
  BY <1>1 DEF Ends
<1>4. call'[c] = new
  BY <1>3 DEF IInv, TypeOK
<1>5. Exchange(c)' = [method |-> old.wants.method, asks |-> Asks(old.wants), seen |-> old.seen,
                      taken |-> old.received, status |-> status]
  BY <1>2, <1>4 DEF Exchange
<1>6. Exchange(c)' = [Exchange(c) EXCEPT !.status = status]
  BY <1>1, <1>5, ExchangeFacts
<1> QED BY <1>3, <1>6, OneExchange DEF IInv

\* Where a call is in the tree says whose turn it is.
LEMMA CallTurns ==
    ASSUME IInv, NEW c \in Calls, call[c].pc = "loop"
    PROVE  /\ ServerFirst(call[c].at) <=> Server!ServersTurn(Exchange(c))
           /\ nodes[call[c].at].next # <<>> =>
                 /\ nodes[call[c].at].next[1] \in Range(nodes[call[c].at].next)
                 /\ \E l \in Server!Lines(Exchange(c)) :
                       /\ \A k \in Server!Lines(Exchange(c)) : l <= k
                       /\ Server!After(l, Exchange(c)) = MessageOf[nodes[call[c].at].next[1]]
           /\ \A l \in Server!Lines(Exchange(c)) : \E n \in Range(nodes[call[c].at].next) :
                 MessageOf[n] = Server!After(l, Exchange(c))
           /\ \A n \in Range(nodes[call[c].at].next) : \E l \in Server!Lines(Exchange(c)) :
                 Server!After(l, Exchange(c)) = MessageOf[n]
<1>1. PICK place : Tree(place) /\ At(c, place)
  BY DEF IInv, Standing
<1>2. PICK x, at : x = Exchange(c) /\ at = call[c].at
  OBVIOUS
<1>3. /\ phase = "serving" /\ at \in Nodes
      /\ x.method = place[at].method /\ x.seen = place[at].messages
  <2>1. phase = "serving" /\ at \in Nodes
        /\ place[at] = [method |-> call[c].wants.method, messages |-> call[c].seen]
    BY <1>1, <1>2 DEF IInv, Serving, At
  <2> QED BY <1>2, <2>1, ExchangeFacts
<1>4. /\ ServerFirst(at) <=> Server!ServersTurn(x)
      /\ nodes[at].next # <<>> =>
            /\ nodes[at].next[1] \in Range(nodes[at].next)
            /\ \E l \in Server!Lines(x) :
                  /\ \A k \in Server!Lines(x) : l <= k
                  /\ Server!After(l, x) = MessageOf[nodes[at].next[1]]
  BY <1>1, <1>3, Turns
<1>5. /\ \A l \in Server!Lines(x) : \E n \in Range(nodes[at].next) : MessageOf[n] = Server!After(l, x)
      /\ \A n \in Range(nodes[at].next) : \E l \in Server!Lines(x) : Server!After(l, x) = MessageOf[n]
  BY <1>1, <1>3, Branches
<1> QED BY <1>2, <1>4, <1>5

LEMMA SendMsgPlays == ASSUME IInv, NEW c \in Calls, SendMsg(c) PROVE Server!Speak(c) \/ Server!GoesAway(c)
<1>1. call[c].pc = "loop" /\ ServerFirst(call[c].at) /\ UNCHANGED dump /\ Exchange(c).status = "open"
  BY ExchangeFacts DEF SendMsg, serving
<1>2. CASE call' = [call EXCEPT ![c] = Walk(c, nodes[call[c].at].next[1])]
  <2>1. PICK n : n = nodes[call[c].at].next[1]
    OBVIOUS
  <2>2. nodes[call[c].at].next # <<>> /\ n \in Range(nodes[call[c].at].next)
    BY <1>1, <2>1, CallTurns DEF ServerFirst
  <2>3. PICK received \in Nat : received = call[c].received
    BY Fields2 DEF IInv, TypeOK
  <2>4. Walk(c, n) = [Walk(c, n) EXCEPT !.received = received]
    BY <2>3 DEF Walk, CallState, IInv, TypeOK
  <2>5. call' = [call EXCEPT ![c] = [Walk(c, n) EXCEPT !.received = received]]
    BY <1>2, <2>1, <2>4
  <2>6. Server!Becomes(c, Server!With([Exchange(c) EXCEPT !.taken = received], MessageOf[n]))
    BY <1>1, <2>2, <2>5, WalkPlays
  <2>7. [Exchange(c) EXCEPT !.taken = received] = Exchange(c)
    BY <2>3 DEF Exchange
  <2>8. PICK l \in Server!Lines(Exchange(c)) :
           /\ \A k \in Server!Lines(Exchange(c)) : l <= k
           /\ Server!After(l, Exchange(c)) = MessageOf[n]
    BY <1>1, <2>1, <2>2, CallTurns
  <2>9. Server!ServersTurn(Exchange(c))
    BY <1>1, CallTurns
  <2>10. Server!Becomes(c, Server!With(Exchange(c), Server!After(l, Exchange(c))))
    BY <2>6, <2>7, <2>8
  <2> QED BY <1>1, <2>8, <2>9, <2>10 DEF Server!Speak
<1>3. CASE Ends(c, "cancelled")
  BY <1>1, <1>3, EndsPlays DEF Server!GoesAway
<1> QED BY <1>2, <1>3 DEF SendMsg

LEMMA RecvMsgPlays == ASSUME IInv, Heard, NEW c \in Calls, RecvMsg(c) PROVE Server!Listen(c)
<1>1. /\ call[c].pc = "loop" /\ ~ServerFirst(call[c].at) /\ UNCHANGED dump
      /\ call[c].received < call[c].sent
  BY DEF RecvMsg, serving
<1>2. PICK x, m, t : x = Exchange(c) /\ m = Received(c) /\ t = call[c].received
  OBVIOUS
<1>3. /\ x.status = "open" /\ x.taken = t /\ x.asks = Asks(call[c].wants) /\ ~Server!ServersTurn(x)
  BY <1>1, <1>2, ExchangeFacts, CallTurns
<1>4. t \in Nat /\ t < Len(x.asks) /\ m = x.asks[t + 1] /\ m \in Message
  <2>1. call[c] \in CallState /\ HeardOf(call[c])
    BY DEF IInv, TypeOK, Heard
  <2>2. /\ t \in Nat /\ call[c].sent \in Nat /\ Len(Asks(call[c].wants)) \in Nat /\ t < call[c].sent
        /\ call[c].sent <= Len(Asks(call[c].wants)) /\ call[c].wants \in Recording
    BY <1>1, <1>2, <2>1, Fields2, AsksFacts DEF HeardOf
  <2>3. t + 1 \in 1..Len(Asks(call[c].wants)) /\ t < Len(Asks(call[c].wants))
    BY <2>2
  <2> QED BY <1>2, <1>3, <2>2, <2>3, AsksFacts DEF Received
<1>5. ASSUME NEW n \in Range(nodes[call[c].at].next)
      PROVE  MessageOf[n] \in Message /\ MessageOf[n] = [from |-> nodes[n].from, body |-> nodes[n].body]
  BY <1>1, NextIsRecorded
<1>6. ASSUME NEW i \in Matches(call[c].at, m),
             call' = [call EXCEPT ![c] = [Walk(c, nodes[call[c].at].next[i]) EXCEPT !.received = @ + 1]]
      PROVE  Server!Listen(c)
  <2>1. PICK n : n = nodes[call[c].at].next[i]
    OBVIOUS
  <2>2. /\ n \in Range(nodes[call[c].at].next)
        /\ nodes[n].from = m.from /\ nodes[n].body = m.body
    BY <2>1 DEF Matches, Range
  <2>3. MessageOf[n] = m
    BY <1>4, <1>5, <2>2 DEF Message
  <2>4. Walk(c, n).received = t
    BY <1>2 DEF Walk, CallState, IInv, TypeOK
  <2>5. PICK received \in Nat : received = t + 1
    BY <1>4
  <2>6. call' = [call EXCEPT ![c] = [Walk(c, n) EXCEPT !.received = received]]
    BY <1>6, <2>1, <2>4, <2>5
  <2>7. Server!Becomes(c, Server!With([x EXCEPT !.taken = received], m))
    BY <1>1, <1>2, <2>2, <2>3, <2>6, WalkPlays
  <2>8. [x EXCEPT !.taken = received] = [x EXCEPT !.taken = @ + 1]
    BY <1>3, <2>5
  <2>9. \E l \in Server!Lines(x) : Server!After(l, x) = m
    BY <1>1, <1>2, <2>2, <2>3, CallTurns
  <2>10. Server!Becomes(c, Server!With([x EXCEPT !.taken = @ + 1], m))
    BY <2>7, <2>8
  <2> QED BY <1>2, <1>3, <1>4, <2>9, <2>10 DEF Server!Listen
<1>7. ASSUME Matches(call[c].at, m) = {}, Ends(c, "unavailable") PROVE Server!Listen(c)
  <2>1. ASSUME NEW l \in Server!Lines(x), Server!After(l, x) = m PROVE FALSE
    <3>1. PICK n \in Range(nodes[call[c].at].next) : MessageOf[n] = m
      BY <1>1, <1>2, <2>1, CallTurns
    <3>2. MessageOf[n] = [from |-> nodes[n].from, body |-> nodes[n].body]
      BY <1>5
    <3>3. nodes[n].from = m.from /\ nodes[n].body = m.body
      BY <3>1, <3>2
    <3>4. PICK i \in DOMAIN nodes[call[c].at].next : n = nodes[call[c].at].next[i]
      BY DEF Range
    <3> QED BY <1>7, <3>3, <3>4 DEF Matches
  <2>2. Server!Becomes(c, [x EXCEPT !.status = "unavailable"])
    BY <1>1, <1>2, <1>7, EndsPlays
  <2> QED BY <1>2, <1>3, <1>4, <2>1, <2>2 DEF Server!Listen
<1> QED BY <1>2, <1>6, <1>7 DEF RecvMsg

LEMMA RecvEndPlays == ASSUME IInv, Heard, Closing, NEW c \in Calls, RecvEnd(c) PROVE Server!GoesAway(c)
<1>1. call[c].pc = "loop" /\ ~ServerFirst(call[c].at) /\ UNCHANGED dump
  BY DEF RecvEnd, serving
<1>2. /\ Exchange(c).status = "open" /\ ~Server!ServersTurn(Exchange(c))
      /\ Exchange(c).taken = call[c].received /\ Exchange(c).asks = Asks(call[c].wants)
  BY <1>1, ExchangeFacts, CallTurns
<1>3. CASE call[c].halfClosed /\ call[c].received = call[c].sent /\ Ends(c, "unknown")
  <2>1. call[c].received = Len(Asks(call[c].wants))
    BY <1>3 DEF Closing
  <2> QED BY <1>1, <1>2, <1>3, <2>1, EndsPlays DEF Server!GoesAway
<1>4. CASE Ends(c, "cancelled")
  BY <1>1, <1>2, <1>4, EndsPlays DEF Server!GoesAway
<1> QED BY <1>3, <1>4 DEF RecvEnd

\* What a client does by itself, and what replay does, is not seen.
LEMMA Unseen ==
    ASSUME UNCHANGED dump,
           \A c \in Calls : /\ call'[c].pc = call[c].pc /\ call'[c].wants = call[c].wants
                            /\ call'[c].seen = call[c].seen /\ call'[c].received = call[c].received
                            /\ call'[c].status = call[c].status
    PROVE  UNCHANGED Server!vars
<1>1. \A c \in Calls : Exchange(c)' = Exchange(c)
  BY DEF Exchange
<1> QED BY <1>1 DEF Server!vars

LEMMA UnseenCall ==
    ASSUME IInv, UNCHANGED dump, NEW c \in Calls, NEW new, call' = [call EXCEPT ![c] = new],
           new.pc = call[c].pc, new.wants = call[c].wants, new.seen = call[c].seen,
           new.received = call[c].received, new.status = call[c].status
    PROVE  UNCHANGED Server!vars
<1>1. \A d \in Calls : call'[d] = IF d = c THEN new ELSE call[d]
  BY DEF IInv, TypeOK
<1> QED BY <1>1, Unseen

LEMMA SendPlays ==
    ASSUME IInv, UNCHANGED dump, NEW c \in Calls, call' = [call EXCEPT ![c].sent = @ + 1]
    PROVE  UNCHANGED Server!vars
<1>1. PICK new : new = [call[c] EXCEPT !.sent = @ + 1]
  OBVIOUS
<1>2. call' = [call EXCEPT ![c] = new]
  BY <1>1
<1>3. /\ new.pc = call[c].pc /\ new.wants = call[c].wants /\ new.seen = call[c].seen
      /\ new.received = call[c].received /\ new.status = call[c].status
  BY <1>1 DEF IInv, TypeOK, CallState
<1> QED BY <1>2, <1>3, UnseenCall

LEMMA NextPlays ==
    ASSUME IInv, Heard, Closing, [Next]_vars
    PROVE  [Server!Next]_(Server!vars)
<1>1. CASE UNCHANGED <<dump, call>>
  BY <1>1, Unseen
<1>2. CASE Load \/ LoadFails
  BY <1>1, <1>2 DEF Load, LoadFails, NextRecording, LoadMessage, LoadDone
<1>3. ASSUME NEW c \in Users, Client(c) PROVE [Server!Next]_(Server!vars)
  <2>1. c \in Calls /\ call[c] \in CallState
    BY FixtureAssumption DEF IInv, TypeOK
  <2>2. ASSUME NEW r \in Clients \cup Range(dump), Start(c, r) PROVE [Server!Next]_(Server!vars)
    <3>1. dump \in Dumps /\ dump \in Seq(Recording)
      BY FixtureAssumption DEF IInv, TypeOK
    <3>2. Range(dump) \subseteq Recording
      BY <3>1 DEF Range
    <3>3. r \in Recording
      BY <2>2, <3>2, FixtureAssumption
    <3>4. r \in Questions
      BY <2>2, <3>1 DEF Questions
    <3> QED BY <2>1, <2>2, <3>3, <3>4, StartPlays DEF Server!Next
  <2>3. CASE ClientSend(c)
    BY <2>1, <2>3, SendPlays DEF ClientSend, serving
  <2>4. CASE ClientHalfClose(c) \/ ClientCancel(c)
    <3>1. PICK new : /\ \/ new = [call[c] EXCEPT !.halfClosed = TRUE]
                        \/ new = [call[c] EXCEPT !.cancelled = TRUE]
                     /\ call' = [call EXCEPT ![c] = new] /\ UNCHANGED dump
      BY <2>4 DEF ClientHalfClose, ClientCancel, serving
    <3>2. /\ new.pc = call[c].pc /\ new.wants = call[c].wants /\ new.seen = call[c].seen
          /\ new.received = call[c].received /\ new.status = call[c].status
      BY <2>1, <3>1 DEF CallState
    <3> QED BY <2>1, <3>1, <3>2, UnseenCall
  <2> QED BY <1>3, <2>2, <2>3, <2>4 DEF Client
<1>4. ASSUME NEW c \in Calls, Intercept(c) PROVE [Server!Next]_(Server!vars)
  BY <1>4, SendMsgPlays, RecvMsgPlays, RecvEndPlays DEF Intercept, Server!Next
<1> QED BY <1>1, <1>2, <1>3, <1>4 DEF Next, Rest, vars

LEMMA ClosingInit == Init => Closing
BY DEF Init, Closing, Idle

LEMMA InitPlays == Init => Server!Init
<1> SUFFICES ASSUME Init PROVE Server!Init
  OBVIOUS
<1>1. dump \in Dumps /\ \A c \in Calls : call[c].pc = "idle"
  BY DEF Init, Idle
<1>2. \A c \in Calls : Exchange(c).status = "none"
  BY <1>1, ExchangeFacts
<1> QED BY <1>1, <1>2 DEF Server!Init

\* However the dump's lines share their beginnings, and whoever calls, the trees answer like
\* a look through all the lines at every step: a call goes on like the first line that has
\* come where it is, is over where none goes on, and is refused what none has.
THEOREM TreesPlayBack == Spec => PlaysBack
<1>1. Init => IInv /\ Heard /\ Closing
  BY InitInv, HeardInit, ClosingInit
<1>2. IInv /\ Heard /\ Closing /\ [Next]_vars => (IInv /\ Heard /\ Closing)'
  BY NextInv, HeardNext, ClosingNext
<1>3. IInv /\ Heard /\ Closing /\ [Next]_vars => [Server!Next]_(Server!vars)
  BY NextPlays
<1> QED BY <1>1, <1>2, <1>3, InitPlays, PTL DEF Spec, PlaysBack, Server!Spec

LEMMA ReplayPlays ==
    ASSUME ReplayedInv, Closing, [ReplayNext]_allVars
    PROVE  Closing' /\ [Server!Next]_(Server!vars)
<1>1. CASE [Next]_vars
  BY <1>1, NextPlays, ClosingNext DEF ReplayedInv, ReplayInv
<1>2. CASE Open
  <2>1. replay.rpc + 1 \in 1..Len(script)
    BY <1>2, Jobs DEF Open, ReplayedInv, ReplayInv, Replaying
  <2>2. PICK r, t : /\ r = script[replay.rpc + 1] /\ t = Streams[replay.rpc + 1] /\ r \in Recording
                    /\ t \in Calls /\ Start(t, r)
    BY <1>2, <2>1, Jobs DEF Open, ReplayedInv
  <2>3. r \in Questions
    <3>1. r \in Range(script) /\ script \in Scripts[dump] /\ dump \in Dumps
      <4>1. script \in Scripts[dump] /\ dump \in Dumps
        BY DEF ReplayedInv, ReplayInv, Replaying, IInv, TypeOK
      <4>2. script \in Seq(Recording)
        BY <4>1, ReplayAssumption
      <4>3. DOMAIN script = 1..Len(script)
        BY <4>2
      <4>4. r \in Range(script)
        BY <2>1, <2>2, <4>3 DEF Range
      <4> QED BY <4>1, <4>4
    <3>2. script \in Dumps \cup UNION {Scripts[d] : d \in Dumps}
      BY <3>1
    <3> QED BY <3>1, <3>2 DEF Questions
  <2> QED BY <2>2, <2>3, StartPlays, ClosingStart DEF Server!Next, ReplayedInv, ReplayInv
<1>3. CASE Send
  <2>1. Stream \in Calls \ Users /\ UNCHANGED dump
    BY <1>3 DEF Send, Exchanging, ReplayedInv, Exchanged
  <2>2. CASE call' = [call EXCEPT ![Stream].sent = @ + 1]
    <3>1. ~call[Stream].halfClosed
      BY <2>1 DEF Closing
    <3> QED BY <2>1, <2>2, <3>1, SendPlays, ClosingSend DEF ReplayedInv, ReplayInv
  <2>3. CASE call' = call
    BY <2>1, <2>3, Unseen DEF Closing
  <2> QED BY <1>3, <2>2, <2>3 DEF Send
<1>4. CASE Recv \/ Verdict \/ EndOfDump \/ GivesUp
  <2>1. UNCHANGED <<dump, call>>
    BY <1>4 DEF Recv, Verdict, EndOfDump, GivesUp, fixtureVars, vars
  <2> QED BY <2>1, Unseen DEF Closing
<1>5. CASE Exit
  <2>1. ASSUME NEW c \in Calls
        PROVE  /\ call'[c].pc = call[c].pc /\ call'[c].wants = call[c].wants
               /\ call'[c].seen = call[c].seen /\ call'[c].received = call[c].received
               /\ call'[c].status = call[c].status /\ call'[c].sent = call[c].sent
               /\ call'[c].halfClosed = call[c].halfClosed
    <3>1. PICK old : old = call[c] /\ old \in CallState
      BY DEF ReplayedInv, ReplayInv, IInv, TypeOK
    <3>2. PICK b : b = (old.cancelled \/ (c \in Range(Streams) /\ old.pc = "loop"))
      OBVIOUS
    <3>3. call'[c] = [old EXCEPT !.cancelled = b]
      BY <1>5, <3>1, <3>2 DEF Exit
    <3> QED BY <3>1, <3>3 DEF CallState
  <2>2. UNCHANGED dump
    BY <1>5 DEF Exit
  <2> QED BY <2>1, <2>2, Unseen DEF Closing
<1> QED BY <1>1, <1>2, <1>3, <1>4, <1>5 DEF ReplayNext, allVars, Run

\* The same with a replay among the clients, which half-closes nothing and leaves calls as
\* they are.
THEOREM ReplayIsPlayedBack == ReplaySpec => PlaysBack
<1>1. ReplayInit => ReplayedInv /\ Closing /\ Server!Init
  BY ReplayedInitInv, ClosingInit, InitPlays DEF ReplayInit
<1>2. ReplayedInv /\ Closing /\ [ReplayNext]_allVars => (ReplayedInv /\ Closing)' /\ [Server!Next]_(Server!vars)
  BY ReplayedNextInv, ReplayPlays
<1> QED BY <1>1, <1>2, PTL DEF ReplaySpec, PlaysBack, Server!Spec

-----------------------------------------------------------------------------
(* A recording without rivals.                                             *)

\* A message of one side is the next one of that side's.
LEMMA ByNext ==
    ASSUME NEW ms \in Seq(Message), NEW k \in Nat, k < Len(ms), NEW who, ms[k + 1].from = who
    PROVE  /\ Len(By(who, SubSeq(ms, 1, k))) < Len(By(who, ms))
           /\ By(who, ms)[Len(By(who, SubSeq(ms, 1, k))) + 1] = ms[k + 1]
<1>1. PICK x, p, q : x = ms[k + 1] /\ p = SubSeq(ms, 1, k) /\ q = SubSeq(ms, 1, k + 1)
  OBVIOUS
<1>2. q = Append(p, x)
  BY <1>1, UpToNext
<1>3. Len(ms) \in Nat /\ k \in 0..Len(ms) /\ k + 1 \in 1..Len(ms) /\ k + 1 \in 0..Len(ms)
  OBVIOUS
<1>4. p \in Seq(Message) /\ x \in Message
  <2>1. x \in Message
    BY <1>1, <1>3
  <2>2. \A i \in 1..k : ms[i] \in Message
    BY <1>3
  <2> QED BY <1>1, <1>3, <2>1, <2>2, SubSeqProperties
<1>5. PICK a, b, c : a = By(who, p) /\ b = By(who, q) /\ c = By(who, ms)
  OBVIOUS
<1>6. b = Append(a, x)
  <2>1. By(who, Append(p, x)) = IF x.from = who THEN Append(By(who, p), x) ELSE By(who, p)
    BY <1>4, BySteps
  <2>2. x.from = who
    BY <1>1
  <2> QED BY <1>2, <1>5, <2>1, <2>2
<1>7. a \in Seq(Message) /\ Len(a) \in Nat /\ c \in Seq(Message) /\ Len(c) \in Nat
  BY <1>4, <1>5, ByAll
<1>8. Begins(b, c)
  <2>1. PICK i \in 0..Len(ms) : i = k + 1
    BY <1>3
  <2>2. Begins(By(who, SubSeq(ms, 1, i)), By(who, ms))
    BY ByFacts
  <2> QED BY <1>1, <1>5, <2>1, <2>2
<1>9. PICK n \in Nat : n = Len(a)
  BY <1>7
<1>10. Len(b) = n + 1 /\ b[n + 1] = x
  BY <1>4, <1>6, <1>7, <1>9, AppendProperties
<1>11. n + 1 <= Len(c) /\ n + 1 \in 1..(n + 1)
  BY <1>8, <1>9, <1>10 DEF Begins
<1>12. c[n + 1] = x
  BY <1>8, <1>10, <1>11 DEF Begins
<1>13. n < Len(c)
  BY <1>7, <1>11
<1> QED BY <1>1, <1>5, <1>9, <1>12, <1>13

LEMMA BeginsSub ==
    ASSUME NEW p \in Seq(Message), NEW q \in Seq(Message)
    PROVE  Begins(p, q) <=> Len(p) <= Len(q) /\ SubSeq(q, 1, Len(p)) = p
<1>1. SubSeq(p, 1, Len(p)) = p
  BY SubSeqFull
<1>2. Begins(p, q) => Len(p) <= Len(q) /\ SubSeq(q, 1, Len(p)) = p
  BY <1>1, BeginsFacts DEF IsPrefix
<1>3. ASSUME Len(p) <= Len(q), SubSeq(q, 1, Len(p)) = p PROVE Begins(p, q)
  <2>1. PICK n \in Nat : n = Len(p) /\ n <= Len(q)
    <3>1. Len(p) \in Nat
      OBVIOUS
    <3> QED BY ONLY <1>3, <3>1
  <2>2. \A i \in 1..n : q[i] \in Message
    BY <2>1
  <2>3. \A i \in 1..n : SubSeq(q, 1, n)[i] = q[i]
    BY <2>1, <2>2, SubSeqProperties
  <2> QED BY <1>3, <2>1, <2>3 DEF Begins
<1> QED BY <1>2, <1>3

\* Where a call has come with the messages of a recording that has no rivals, there is
\* that recording's next message; it is the only one when it is the server's; and at
\* its end there is none.
LEMMA RightLine ==
    ASSUME dump \in Seq(Recording), NEW r \in Range(dump), Unrivalled(r),
           NEW x, x.method = r.method, x.seen \in Seq(Message), Begins(x.seen, r.messages)
    PROVE  /\ Len(x.seen) < Len(r.messages) =>
                 /\ \E l \in Server!Lines(x) : Server!After(l, x) = r.messages[Len(x.seen) + 1]
                 /\ r.messages[Len(x.seen) + 1].from = "server" =>
                       \A l \in Server!Lines(x) : Server!After(l, x) = r.messages[Len(x.seen) + 1]
           /\ Len(x.seen) = Len(r.messages) => Server!Lines(x) = {}
<1>1. PICK q, seen : q = r.messages /\ seen = x.seen
  OBVIOUS
<1>2. /\ DOMAIN dump = 1..Len(dump) /\ Len(dump) \in Nat /\ \A l \in 1..Len(dump) : dump[l] \in Recording
      /\ r \in Recording
  BY DEF Range
<1>3. /\ seen \in Seq(Message) /\ q \in Seq(Message) /\ Begins(seen, q)
  BY <1>1, <1>2, Fields
<1>4. PICK n \in Nat : n = Len(seen)
  BY <1>3
<1>5. SubSeq(q, 1, n) = seen /\ Len(q) \in Nat
  BY <1>3, <1>4, BeginsSub
<1>6. ASSUME NEW l \in Server!Lines(x)
      PROVE  /\ l \in 1..Len(dump) /\ dump[l].method = r.method /\ dump[l].messages \in Seq(Message)
             /\ n < Len(dump[l].messages) /\ SubSeq(dump[l].messages, 1, n) = seen
             /\ Server!After(l, x) = dump[l].messages[n + 1]
  BY <1>1, <1>2, <1>4, Fields DEF Server!Lines, Server!After
<1>7. ASSUME n < Len(q) PROVE \E l \in Server!Lines(x) : Server!After(l, x) = q[n + 1]
  <2>1. PICK l \in 1..Len(dump) : dump[l] = r
    BY <1>2 DEF Range
  <2> QED BY <1>1, <1>4, <1>5, <1>7, <2>1 DEF Server!Lines, Server!After
<1>8. ASSUME n < Len(q), q[n + 1].from = "server", NEW l \in Server!Lines(x)
      PROVE  Server!After(l, x) = q[n + 1]
  <2>1. PICK s : s = dump[l].messages
    OBVIOUS
  <2>2. /\ s \in Seq(Message) /\ n < Len(s) /\ SubSeq(s, 1, n) = seen /\ Server!After(l, x) = s[n + 1]
    BY <1>6, <1>8, <2>1
  <2>3. PICK k \in Nat : k = n + 1
    OBVIOUS
  <2>4. k \in 1..Len(q) /\ k - 1 = n /\ k \in 0..Len(s) /\ k \in 1..k
    BY <1>5, <1>8, <2>2, <2>3
  <2>5. PICK p : p = SubSeq(s, 1, k)
    OBVIOUS
  <2>6. \A i \in 1..k : s[i] \in Message
    BY <2>2, <2>4
  <2>7. p \in Seq(Message) /\ Len(p) = k /\ \A i \in 1..k : p[i] = s[i]
    BY <2>4, <2>5, <2>6, SubSeqProperties
  <2>8. p \in Recorded(r.method)
    <3>1. p \in Prefixes(s)
      BY <2>4, <2>5 DEF Prefixes
    <3>2. dump[l] \in {d \in Range(dump) : d.method = r.method}
      BY <1>2, <1>6, <1>8 DEF Range
    <3> QED BY <2>1, <3>1, <3>2 DEF Recorded
  <2>9. SubSeq(p, 1, k - 1) = SubSeq(q, 1, k - 1)
    <3>1. PICK t : t = SubSeq(p, 1, n)
      OBVIOUS
    <3>2. \A i \in 1..n : p[i] \in Message /\ i \in 1..k
      BY <2>3, <2>7
    <3>3. t \in Seq(Message) /\ Len(t) = n /\ \A i \in 1..n : t[i] = p[i]
      BY <3>1, <3>2, SubSeqProperties
    <3>4. \A i \in 1..n : seen[i] = s[i]
      <4>1. \A i \in 1..n : s[i] \in Message
        BY <2>6, <3>2
      <4>2. \A i \in 1..n : SubSeq(s, 1, n)[i] = s[i]
        BY <4>1, SubSeqProperties
      <4> QED BY <2>2, <4>2
    <3>5. \A i \in 1..n : t[i] = seen[i]
      BY <2>7, <3>2, <3>3, <3>4
    <3>6. t = seen
      BY <1>3, <1>4, <3>3, <3>5, SeqEqual
    <3> QED BY <1>5, <2>4, <3>1, <3>6
  <2>10. p[k] = q[k]
    BY <1>1, <1>8, <2>3, <2>4, <2>7, <2>8, <2>9 DEF Unrivalled
  <2> QED BY <2>2, <2>3, <2>4, <2>7, <2>10
<1>9. ASSUME n = Len(q), NEW l \in Server!Lines(x) PROVE FALSE
  <2>1. PICK s : s = dump[l].messages
    OBVIOUS
  <2>2. /\ s \in Seq(Message) /\ n < Len(s) /\ SubSeq(s, 1, n) = seen
    BY <1>6, <1>9, <2>1
  <2>3. s \in Recorded(r.method)
    <3>1. s \in Prefixes(s)
      BY <2>2, SubSeqFull DEF Prefixes
    <3>2. dump[l] \in {d \in Range(dump) : d.method = r.method}
      BY <1>2, <1>6, <1>9 DEF Range
    <3> QED BY <2>1, <3>1, <3>2 DEF Recorded
  <2>4. q = seen
    BY <1>3, <1>5, <1>9, SubSeqFull
  <2>5. IsPrefix(q, s)
    <3>1. Begins(seen, s)
      <4>1. Len(s) \in Nat /\ Len(seen) <= Len(s) /\ SubSeq(s, 1, Len(seen)) = seen
        BY <1>4, <2>2
      <4> QED BY <1>3, <2>2, <4>1, BeginsSub
    <3> QED BY <1>3, <2>2, <2>4, <3>1, BeginsFacts
  <2>6. s = q
    BY <1>1, <2>3, <2>5 DEF Unrivalled
  <2> QED BY <1>9, <2>2, <2>6
<1> QED BY <1>1, <1>4, <1>7, <1>8, <1>9

\* A call that is over has a status, "cancelled" only if it has been; and from its
\* beginning to its end it wants one thing.
Told ==
    \A c \in Calls : /\ call[c].pc = "ended" => call[c].status # "none"
                     /\ call[c].status = "cancelled" => call[c].cancelled
Steady == \A c \in Calls : call[c].pc # "idle" => call'[c].wants = call[c].wants

LEMMA ToldCall ==
    ASSUME TypeOK, Told, NEW c \in Calls, NEW new, call' = [call EXCEPT ![c] = new],
           new.pc = "ended" => new.status # "none", new.status = "cancelled" => new.cancelled,
           call[c].pc # "idle" => new.wants = call[c].wants
    PROVE  Told' /\ Steady
<1>1. \A d \in Calls : call'[d] = IF d = c THEN new ELSE call[d]
  BY DEF TypeOK
<1> QED BY <1>1 DEF Told, Steady

LEMMA ToldSame ==
    ASSUME TypeOK, Told, NEW c \in Calls, NEW new, call' = [call EXCEPT ![c] = new],
           new.pc = call[c].pc, new.status = call[c].status, new.wants = call[c].wants,
           call[c].cancelled => new.cancelled
    PROVE  Told' /\ Steady
<1>1. /\ new.pc = "ended" => new.status # "none"
      /\ new.status = "cancelled" => new.cancelled
  BY DEF Told
<1> QED BY <1>1, ToldCall

LEMMA ToldStart ==
    ASSUME TypeOK, Told, NEW c \in Calls, NEW r, Start(c, r) PROVE Told' /\ Steady
<1>1. PICK at, pc, status :
         /\ at = root[r.method]
         /\ pc = IF root[r.method] = NoNode THEN "ended" ELSE "loop"
         /\ status = IF root[r.method] = NoNode THEN "unavailable" ELSE "none"
  OBVIOUS
<1>2. PICK new : new = [Idle EXCEPT !.wants = r, !.at = at, !.pc = pc, !.status = status]
  OBVIOUS
<1>3. call' = [call EXCEPT ![c] = new] /\ call[c].pc = "idle"
  BY <1>1, <1>2 DEF Start
<1>4. new.pc = pc /\ new.status = status
  BY ONLY <1>2 DEF Idle
<1>5. (new.pc = "ended" => new.status # "none") /\ new.status # "cancelled"
  BY <1>1, <1>4
<1> QED BY <1>3, <1>5, ToldCall

LEMMA ToldSend ==
    ASSUME TypeOK, Told, NEW c \in Calls, call' = [call EXCEPT ![c].sent = @ + 1]
    PROVE  Told' /\ Steady
<1>1. PICK new : new = [call[c] EXCEPT !.sent = @ + 1]
  OBVIOUS
<1>2. call' = [call EXCEPT ![c] = new]
  BY <1>1
<1>3. /\ new.pc = call[c].pc /\ new.status = call[c].status /\ new.wants = call[c].wants
      /\ new.cancelled = call[c].cancelled
  BY <1>1 DEF TypeOK, CallState
<1> QED BY <1>2, <1>3, ToldSame

LEMMA ToldIntercept == ASSUME TypeOK, Told, NEW c \in Calls, Intercept(c) PROVE Told' /\ Steady
<1>1. call[c] \in CallState
  BY DEF TypeOK
<1>2. ASSUME NEW status, Ends(c, status), status # "none", status = "cancelled" => call[c].cancelled
      PROVE  Told' /\ Steady
  <2>1. PICK new : new = [call[c] EXCEPT !.pc = "ended", !.status = status]
    OBVIOUS
  <2>2. new.status = status /\ new.wants = call[c].wants /\ new.cancelled = call[c].cancelled
    BY <1>1, <2>1 DEF CallState
  <2>3. call' = [call EXCEPT ![c] = new]
    BY <1>2, <2>1 DEF Ends
  <2> QED BY <1>2, <2>2, <2>3, ToldCall
<1>3. ASSUME NEW n
      PROVE  /\ Walk(c, n).wants = call[c].wants /\ Walk(c, n).status \in {"ok", "none"}
             /\ Walk(c, n).pc = "ended" => Walk(c, n).status = "ok"
             /\ \A k : [Walk(c, n) EXCEPT !.received = k].wants = call[c].wants
             /\ \A k : [Walk(c, n) EXCEPT !.received = k].status = Walk(c, n).status
             /\ \A k : [Walk(c, n) EXCEPT !.received = k].pc = Walk(c, n).pc
  BY <1>1 DEF Walk, CallState
<1>4. CASE SendMsg(c)
  <2>1. CASE call' = [call EXCEPT ![c] = Walk(c, nodes[call[c].at].next[1])]
    <3>1. PICK new, n : new = Walk(c, n) /\ call' = [call EXCEPT ![c] = new]
      BY <2>1
    <3>2. new.wants = call[c].wants /\ new.status # "cancelled" /\ (new.pc = "ended" => new.status # "none")
      BY <1>3, <3>1
    <3> QED BY <3>1, <3>2, ToldCall
  <2> QED BY <1>2, <1>4, <2>1 DEF SendMsg
<1>5. CASE RecvMsg(c)
  <2>1. ASSUME NEW i \in Matches(call[c].at, Received(c)),
               call' = [call EXCEPT ![c] = [Walk(c, nodes[call[c].at].next[i]) EXCEPT !.received = @ + 1]]
        PROVE  Told' /\ Steady
    <3>1. PICK n : n = nodes[call[c].at].next[i]
      OBVIOUS
    <3>2. PICK k : k = Walk(c, n).received + 1
      OBVIOUS
    <3>3. PICK new : new = [Walk(c, n) EXCEPT !.received = k]
      OBVIOUS
    <3>4. call' = [call EXCEPT ![c] = new]
      BY <2>1, <3>1, <3>2, <3>3
    <3>5. new.wants = call[c].wants /\ new.status # "cancelled" /\ (new.pc = "ended" => new.status # "none")
      BY <1>3, <3>3
    <3> QED BY <3>4, <3>5, ToldCall
  <2> QED BY <1>2, <1>5, <2>1 DEF RecvMsg
<1>6. CASE RecvEnd(c)
  BY <1>2, <1>6 DEF RecvEnd
<1> QED BY <1>4, <1>5, <1>6 DEF Intercept

LEMMA ToldNext == ASSUME TypeOK, Told, [Next]_vars PROVE Told' /\ Steady
<1>1. CASE UNCHANGED call
  BY <1>1 DEF Told, Steady
<1>2. CASE Load \/ LoadFails
  BY <1>1, <1>2 DEF Load, LoadFails, NextRecording, LoadMessage, LoadDone
<1>3. ASSUME NEW c \in Users, Client(c) PROVE Told' /\ Steady
  <2>1. c \in Calls /\ call[c] \in CallState
    BY FixtureAssumption DEF TypeOK
  <2>2. CASE ClientSend(c)
    BY <2>1, <2>2, ToldSend DEF ClientSend
  <2>3. CASE ClientHalfClose(c) \/ ClientCancel(c)
    <3>1. PICK new : /\ \/ new = [call[c] EXCEPT !.halfClosed = TRUE]
                        \/ new = [call[c] EXCEPT !.cancelled = TRUE]
                     /\ call' = [call EXCEPT ![c] = new]
      BY <2>3 DEF ClientHalfClose, ClientCancel
    <3>2. /\ new.pc = call[c].pc /\ new.status = call[c].status /\ new.wants = call[c].wants
          /\ call[c].cancelled => new.cancelled
      BY <2>1, <3>1 DEF CallState
    <3> QED BY <2>1, <3>1, <3>2, ToldSame
  <2> QED BY <1>3, <2>1, <2>2, <2>3, ToldStart DEF Client
<1>4. ASSUME NEW c \in Calls, Intercept(c) PROVE Told' /\ Steady
  BY <1>4, ToldIntercept
<1> QED BY <1>1, <1>2, <1>3, <1>4 DEF Next, Rest, vars

LEMMA ToldReplay == ASSUME ReplayedInv, Told, [ReplayNext]_allVars PROVE Told' /\ Steady
<1>1. TypeOK /\ (call' = call => Told' /\ Steady)
  BY DEF ReplayedInv, ReplayInv, IInv, Told, Steady
<1>2. CASE [Next]_vars
  BY <1>1, <1>2, ToldNext
<1>3. CASE Open
  <2>1. replay.rpc + 1 \in 1..Len(script)
    BY <1>3, Jobs DEF Open, ReplayedInv, ReplayInv, Replaying
  <2>2. PICK r, t : t \in Calls /\ Start(t, r)
    BY <1>3, <2>1, Jobs DEF Open, ReplayedInv
  <2> QED BY <1>1, <2>2, ToldStart
<1>4. CASE Send
  <2>1. Stream \in Calls
    BY <1>4 DEF Send, Exchanging, ReplayedInv, Exchanged
  <2>2. CASE call' = [call EXCEPT ![Stream].sent = @ + 1]
    BY <1>1, <2>1, <2>2, ToldSend
  <2> QED BY <1>1, <1>4, <2>2 DEF Send
<1>5. CASE Recv \/ Verdict \/ EndOfDump \/ GivesUp
  BY <1>1, <1>5 DEF Recv, Verdict, EndOfDump, GivesUp, fixtureVars, vars
<1>6. CASE Exit
  <2>1. ASSUME NEW c \in Calls
        PROVE  /\ call'[c].pc = call[c].pc /\ call'[c].wants = call[c].wants
               /\ call'[c].status = call[c].status
               /\ call[c].cancelled => call'[c].cancelled
    <3>1. PICK old : old = call[c] /\ old \in CallState
      BY <1>1 DEF TypeOK
    <3>2. PICK b : b = (old.cancelled \/ (c \in Range(Streams) /\ old.pc = "loop"))
      OBVIOUS
    <3>3. call'[c] = [old EXCEPT !.cancelled = b]
      BY <1>6, <3>1, <3>2 DEF Exit
    <3> QED BY <3>1, <3>2, <3>3 DEF CallState
  <2> QED BY <2>1 DEF Told, Steady
<1> QED BY <1>1, <1>2, <1>3, <1>4, <1>5, <1>6 DEF ReplayNext, Run, allVars

\* An exchange x that repeats the messages of r, and is not over before it has them all.
Right(x, r) ==
    /\ Begins(x.seen, r.messages)
    /\ r.messages # <<>> =>
          /\ x.status = "open" => Len(x.seen) < Len(r.messages)
          /\ x.status \in {"open", "cancelled"} \/ (x.status = "ok" /\ x.seen = r.messages)

LEMMA RightWith ==
    ASSUME dump \in Seq(Recording), NEW r \in Range(dump), Unrivalled(r),
           NEW seen \in Seq(Message), Begins(seen, r.messages), Len(seen) < Len(r.messages),
           NEW y, NEW z, z.method = r.method, z.seen = y.seen,
           y.seen = Append(seen, r.messages[Len(seen) + 1]),
           y.status = IF Server!Lines(z) = {} THEN "ok" ELSE "open"
    PROVE  Right(y, r)
<1>1. PICK q : q = r.messages /\ q \in Seq(Message) /\ Len(q) \in Nat
  <2>1. r \in Recording
    BY DEF Range
  <2> QED BY <2>1, Fields
<1>2. PICK n \in Nat : n = Len(seen)
  OBVIOUS
<1>3. PICK m : m = q[n + 1] /\ m \in Message
  <2>1. n + 1 \in 1..Len(q)
    BY <1>1, <1>2
  <2> QED BY <1>1, <2>1
<1>4. PICK more : more = Append(seen, m)
  OBVIOUS
<1>5. more \in Seq(Message) /\ Len(more) = n + 1
  BY <1>2, <1>3, <1>4, AppendProperties
<1>6. y.seen = more /\ z.seen = more
  BY <1>1, <1>2, <1>3, <1>4
<1>7. Begins(more, q)
  <2>1. Begins(seen, q) /\ n + 1 <= Len(q) /\ q[n + 1] = m
    BY <1>1, <1>2, <1>3
  <2> QED BY <1>1, <1>2, <1>3, <1>4, <2>1, BeginsAppend
<1>8. CASE n + 1 = Len(q)
  <2>1. Len(z.seen) = Len(r.messages) /\ Begins(z.seen, r.messages)
    BY <1>1, <1>5, <1>6, <1>7, <1>8
  <2>2. Server!Lines(z) = {}
    BY <1>5, <1>6, <2>1, RightLine
  <2>3. more = q
    BY <1>1, <1>5, <1>7, <1>8, BeginsFacts
  <2> QED BY <1>1, <1>6, <1>7, <2>2, <2>3 DEF Right
<1>9. CASE n + 1 # Len(q)
  <2>1. n + 1 < Len(q)
    BY <1>1, <1>2, <1>9
  <2>2. Len(z.seen) < Len(r.messages) /\ Begins(z.seen, r.messages)
    BY <1>1, <1>5, <1>6, <1>7, <2>1
  <2>3. Server!Lines(z) # {}
    BY <1>5, <1>6, <2>2, RightLine
  <2> QED BY <1>1, <1>5, <1>6, <1>7, <2>1, <2>3 DEF Right
<1> QED BY <1>8, <1>9

LEMMA WithIs ==
    ASSUME NEW x, NEW m,
           x = [method |-> x.method, asks |-> x.asks, seen |-> x.seen, taken |-> x.taken, status |-> x.status]
    PROVE  \E z : /\ z.method = x.method /\ z.seen = Append(x.seen, m)
                  /\ Server!With(x, m).seen = Append(x.seen, m)
                  /\ Server!With(x, m).status = IF Server!Lines(z) = {} THEN "ok" ELSE "open"
<1>1. PICK more : more = Append(x.seen, m)
  OBVIOUS
<1>2. PICK z : z = [method |-> x.method, asks |-> x.asks, seen |-> more, taken |-> x.taken, status |-> x.status]
  OBVIOUS
<1>3. [x EXCEPT !.seen = Append(@, m)] = z
  <2>1. [x EXCEPT !.seen = Append(@, m)] = [x EXCEPT !.seen = more]
    BY <1>1
  <2> QED BY <1>2, <2>1
<1>4. Server!With(x, m) = [z EXCEPT !.status = IF Server!Lines(z) = {} THEN "ok" ELSE "open"]
  BY <1>3 DEF Server!With
<1>5. PICK s : s = IF Server!Lines(z) = {} THEN "ok" ELSE "open"
  OBVIOUS
<1>6. Server!With(x, m).seen = more /\ Server!With(x, m).status = s
  <2>1. PICK y : y = Server!With(x, m)
    OBVIOUS
  <2>2. y = [z EXCEPT !.status = s]
    BY <1>4, <1>5, <2>1
  <2>3. y.seen = more /\ y.status = s
    BY <1>2, <2>2
  <2> QED BY <2>1, <2>3
<1>7. z.method = x.method /\ z.seen = more
  BY <1>2
<1> QED BY <1>1, <1>5, <1>6, <1>7

\* Where such an exchange is open, the turn is that of its next message's sender.
LEMMA RightTurn ==
    ASSUME dump \in Seq(Recording), NEW r \in Range(dump), Unrivalled(r),
           NEW x, x.method = r.method, x.seen \in Seq(Message), x.status = "open", Right(x, r)
    PROVE  /\ r.messages = <<>> => Server!Lines(x) = {}
           /\ r.messages # <<>> =>
                 /\ Begins(x.seen, r.messages) /\ Len(x.seen) < Len(r.messages)
                 /\ r.messages[Len(x.seen) + 1] \in Message
                 /\ Server!ServersTurn(x) <=> r.messages[Len(x.seen) + 1].from = "server"
<1>1. r.messages \in Seq(Message) /\ Begins(x.seen, r.messages)
  <2>1. r \in Recording
    BY DEF Range
  <2> QED BY <2>1, Fields DEF Right
<1>2. PICK n \in Nat : n = Len(x.seen)
  OBVIOUS
<1>3. ASSUME r.messages = <<>> PROVE Server!Lines(x) = {}
  <2>1. Len(r.messages) = 0
    BY <1>3
  <2>2. n <= 0
    BY <1>1, <1>2, <2>1 DEF Begins
  <2>3. Len(x.seen) = Len(r.messages)
    BY <1>2, <2>1, <2>2
  <2> QED BY <1>1, <2>3, RightLine
<1>4. ASSUME r.messages # <<>>
      PROVE  /\ Len(x.seen) < Len(r.messages) /\ r.messages[Len(x.seen) + 1] \in Message
             /\ Server!ServersTurn(x) <=> r.messages[Len(x.seen) + 1].from = "server"
  <2>1. n < Len(r.messages)
    BY <1>2, <1>4 DEF Right
  <2>2. PICK y : y = r.messages[n + 1]
    OBVIOUS
  <2>3. y \in Message
    <3>1. n + 1 \in 1..Len(r.messages)
      BY <1>1, <2>1
    <3> QED BY <1>1, <2>2, <3>1
  <2>4. /\ \E l \in Server!Lines(x) : Server!After(l, x) = y
        /\ y.from = "server" => \A l \in Server!Lines(x) : Server!After(l, x) = y
    BY <1>1, <1>2, <2>1, <2>2, RightLine
  <2>5. Server!ServersTurn(x) <=> y.from = "server"
    BY <2>4 DEF Server!ServersTurn
  <2> QED BY <1>2, <2>1, <2>2, <2>3, <2>5
<1> QED BY <1>1, <1>3, <1>4

\* One step of such an exchange.
LEMMA RightStep ==
    ASSUME dump \in Seq(Recording), NEW r \in Range(dump), Unrivalled(r),
           NEW x, x.seen \in Seq(Message), x.taken \in Nat, Right(x, r), x.taken = Len(By("client", x.seen)),
           x = [method |-> r.method, asks |-> Asks(r), seen |-> x.seen, taken |-> x.taken, status |-> "open"],
           NEW y,
           \/ Server!ServersTurn(x) /\ \E l \in Server!Lines(x) : y = Server!With(x, Server!After(l, x))
           \/ /\ ~Server!ServersTurn(x) /\ x.taken < Len(Asks(r))
              /\ \/ /\ \E l \in Server!Lines(x) : Server!After(l, x) = Asks(r)[x.taken + 1]
                    /\ y = Server!With([x EXCEPT !.taken = x.taken + 1], Asks(r)[x.taken + 1])
                 \/ /\ \A l \in Server!Lines(x) : Server!After(l, x) # Asks(r)[x.taken + 1]
                    /\ y = [x EXCEPT !.status = "unavailable"]
           \/ y = [x EXCEPT !.status = "cancelled"]
           \/ ~Server!ServersTurn(x) /\ x.taken = Len(Asks(r)) /\ y = [x EXCEPT !.status = "unknown"]
    PROVE  Right(y, r)
<1>1. PICK q : q = r.messages /\ q \in Seq(Message) /\ Len(q) \in Nat
  <2>1. r \in Recording
    BY DEF Range
  <2> QED BY <2>1, Fields
<1>2. PICK seen, taken :
         /\ x.method = r.method /\ x.seen = seen /\ x.status = "open" /\ x.taken = taken
         /\ seen \in Seq(Message) /\ taken \in Nat /\ taken = Len(By("client", seen))
         /\ x = [method |-> r.method, asks |-> Asks(r), seen |-> seen, taken |-> taken, status |-> "open"]
         /\ x = [method |-> x.method, asks |-> x.asks, seen |-> x.seen, taken |-> x.taken, status |-> x.status]
  OBVIOUS
<1>3. Begins(seen, q)
  BY <1>1, <1>2 DEF Right
<1>4. \A s : [x EXCEPT !.status = s].seen = seen /\ [x EXCEPT !.status = s].status = s
  BY <1>2
<1>5. CASE q = <<>>
  <2>1. Server!Lines(x) = {}
    BY <1>1, <1>2, <1>5, RightTurn
  <2>2. y.seen = seen
    BY <1>4, <2>1
  <2> QED BY <1>1, <1>2, <1>3, <1>5, <2>2 DEF Right
<1>6. CASE q # <<>>
  <2>1. PICK n \in Nat : n = Len(seen)
    BY <1>2
  <2>2. PICK m : m = q[n + 1]
    OBVIOUS
  <2>3. n < Len(q) /\ m \in Message /\ (Server!ServersTurn(x) <=> m.from = "server")
    BY <1>1, <1>2, <1>6, <2>1, <2>2, RightTurn
  <2>4. /\ \E l \in Server!Lines(x) : Server!After(l, x) = m
        /\ m.from = "server" => \A l \in Server!Lines(x) : Server!After(l, x) = m
    BY <1>1, <1>2, <1>3, <2>1, <2>2, <2>3, RightLine
  <2>5. m.from = "client" => taken < Len(Asks(r)) /\ Asks(r)[taken + 1] = m
    <3> SUFFICES ASSUME m.from = "client" PROVE taken < Len(Asks(r)) /\ Asks(r)[taken + 1] = m
      OBVIOUS
    <3>1. SubSeq(q, 1, n) = seen
      BY <1>1, <1>2, <1>3, <2>1, BeginsSub
    <3>2. /\ Len(By("client", SubSeq(q, 1, n))) < Len(By("client", q))
          /\ By("client", q)[Len(By("client", SubSeq(q, 1, n))) + 1] = m
      BY <1>1, <2>2, <2>3, ByNext
    <3> QED BY <1>1, <1>2, <3>1, <3>2 DEF Asks
  <2>6. m.from \in {"server", "client"}
    BY <2>3 DEF Message, Origin
  <2>7. ASSUME y.seen = Append(seen, m), NEW z, z.method = r.method, z.seen = Append(seen, m),
               y.status = IF Server!Lines(z) = {} THEN "ok" ELSE "open"
        PROVE  Right(y, r)
    BY <1>1, <1>2, <1>3, <2>1, <2>2, <2>3, <2>7, RightWith
  <2>8. CASE Server!ServersTurn(x) /\ \E l \in Server!Lines(x) : y = Server!With(x, Server!After(l, x))
    <3>1. y = Server!With(x, m)
      BY <2>3, <2>4, <2>8
    <3>2. PICK z : /\ z.method = x.method /\ z.seen = Append(x.seen, m)
                   /\ Server!With(x, m).seen = Append(x.seen, m)
                   /\ Server!With(x, m).status = IF Server!Lines(z) = {} THEN "ok" ELSE "open"
      BY <1>2, WithIs
    <3> QED BY <1>2, <2>7, <3>1, <3>2
  <2>9. CASE /\ ~Server!ServersTurn(x)
             /\ y = Server!With([x EXCEPT !.taken = taken + 1], Asks(r)[taken + 1])
    <3>1. PICK w, t : w = [x EXCEPT !.taken = t] /\ t = taken + 1
      OBVIOUS
    <3>2. w = [method |-> r.method, asks |-> Asks(r), seen |-> seen, taken |-> t, status |-> "open"]
      <4>1. x = [method |-> r.method, asks |-> Asks(r), seen |-> seen, taken |-> taken, status |-> "open"]
        BY <1>2
      <4> QED BY ONLY <3>1, <4>1
    <3>3. y = Server!With(w, m)
      BY <2>3, <2>5, <2>6, <2>9, <3>1
    <3>4. w = [method |-> w.method, asks |-> w.asks, seen |-> w.seen, taken |-> w.taken, status |-> w.status]
      BY <3>2
    <3>5. w.method = r.method /\ w.seen = seen
      BY <3>2
    <3>6. PICK z : /\ z.method = w.method /\ z.seen = Append(w.seen, m)
                   /\ Server!With(w, m).seen = Append(w.seen, m)
                   /\ Server!With(w, m).status = IF Server!Lines(z) = {} THEN "ok" ELSE "open"
      BY <3>4, WithIs
    <3> QED BY <2>7, <3>3, <3>5, <3>6
  <2>10. CASE /\ ~Server!ServersTurn(x)
              /\ \A l \in Server!Lines(x) : Server!After(l, x) # Asks(r)[taken + 1]
    BY <1>2, <2>3, <2>4, <2>5, <2>6, <2>10
  <2>11. CASE y = [x EXCEPT !.status = "cancelled"]
    <3>1. y.seen = seen /\ y.status = "cancelled"
      BY <1>2, <1>4, <2>11
    <3> QED BY <1>1, <1>2, <1>3, <3>1 DEF Right
  <2>12. CASE ~Server!ServersTurn(x) /\ taken = Len(Asks(r))
    BY <2>3, <2>5, <2>6, <2>12
  <2> QED BY <1>2, <2>8, <2>9, <2>10, <2>11, <2>12
<1> QED BY <1>5, <1>6

Faithful ==
    \A c \in Calls :
       call[c].pc # "idle" /\ call[c].wants \in Range(dump) /\ Unrivalled(call[c].wants) =>
          Right(Exchange(c), call[c].wants)

LEMMA BecomesOne ==
    ASSUME NEW c \in Calls, NEW y, Server!Becomes(c, y)
    PROVE  /\ Exchange(c)' = y /\ UNCHANGED dump
           /\ \A d \in Calls : d # c => Exchange(d)' = Exchange(d)
<1>1. [d \in Calls |-> Exchange(d)]' = [[d \in Calls |-> Exchange(d)] EXCEPT ![c] = y] /\ UNCHANGED dump
  BY DEF Server!Becomes
<1>2. \A d \in Calls : Exchange(d)' = IF d = c THEN y ELSE Exchange(d)
  BY <1>1
<1> QED BY <1>1, <1>2

LEMMA FaithfulNext ==
    ASSUME IInv, Heard, Told, Faithful, [Server!Next]_(Server!vars), Steady, IInv', Told'
    PROVE  Faithful'
<1>1. dump' = dump /\ dump \in Seq(Recording)
  BY Lines DEF Server!Next, Server!Begin, Server!Speak, Server!Listen, Server!GoesAway, Server!Becomes, Server!vars
<1>2. \A r : Unrivalled(r)' <=> Unrivalled(r)
  BY <1>1 DEF Unrivalled, Recorded
<1> SUFFICES ASSUME NEW c \in Calls, call'[c].pc # "idle", call'[c].wants \in Range(dump),
                    Unrivalled(call'[c].wants)
             PROVE  Right(Exchange(c)', call'[c].wants)
  BY <1>1, <1>2 DEF Faithful, Right
<1>3. PICK r : r = call'[c].wants /\ r \in Range(dump) /\ Unrivalled(r)
  OBVIOUS
<1>4. Exchange(c)'.status # "none" /\ Exchange(c)'.method = r.method
  BY <1>3 DEF Exchange, Told, IInv, TypeOK, CallState
<1>5. call[c].pc = "idle" => Exchange(c).status = "none"
  BY ExchangeFacts
<1>6. call[c].pc # "idle" => call[c].wants = r /\ Right(Exchange(c), r)
  BY <1>3 DEF Steady, Faithful
<1>7. CASE Exchange(c)' = Exchange(c)
  BY <1>3, <1>4, <1>5, <1>6, <1>7
<1>8. CASE Server!Begin(c)
  <2>1. PICK q, s :
           /\ s = IF \E l \in 1..Len(dump) : dump[l].method = q.method THEN "open" ELSE "unavailable"
           /\ Server!Becomes(c, [method |-> q.method, asks |-> q.asks, seen |-> <<>>, taken |-> 0, status |-> s])
    BY <1>8 DEF Server!Begin
  <2>2. PICK x : x = [method |-> q.method, asks |-> q.asks, seen |-> <<>>, taken |-> 0, status |-> s]
    OBVIOUS
  <2>3. Exchange(c)' = x
    BY <2>1, <2>2, BecomesOne
  <2>4. x.method = r.method /\ x.method = q.method /\ x.seen = <<>> /\ x.status = s
    BY <1>4, <2>2, <2>3
  <2>5. s = "open"
    <3>1. PICK l \in 1..Len(dump) : dump[l] = r
      BY <1>1, <1>3 DEF Range
    <3> QED BY <2>1, <2>4, <3>1
  <2>6. r.messages \in Seq(Message)
    BY <1>1, <1>3, Fields DEF Range
  <2>7. r.messages # <<>> => Len(<<>>) < Len(r.messages)
    BY <2>6
  <2> QED BY <1>3, <2>3, <2>4, <2>5, <2>6, <2>7, BeginsFacts DEF Right
<1>9. ASSUME Server!Speak(c) \/ Server!Listen(c) \/ Server!GoesAway(c)
      PROVE  Right(Exchange(c)', r)
  <2>1. PICK x, y : /\ x = Exchange(c) /\ y = Exchange(c)' /\ x.status = "open"
    BY <1>9 DEF Server!Speak, Server!Listen, Server!GoesAway
  <2>2. call[c].pc # "idle" /\ call[c] \in CallState /\ HeardOf(call[c])
    BY <1>5, <2>1 DEF IInv, TypeOK, Heard
  <2>3. PICK seen, taken : seen = call[c].seen /\ taken = call[c].received
    OBVIOUS
  <2>4. /\ seen \in Seq(Message) /\ taken \in Nat /\ taken = Len(By("client", seen))
    BY <2>2, <2>3, Fields2 DEF HeardOf
  <2>5. x = [method |-> r.method, asks |-> Asks(r), seen |-> seen, taken |-> taken, status |-> "open"]
    BY <1>6, <2>1, <2>2, <2>3 DEF Exchange
  <2>6. Right(x, r)
    BY <1>6, <2>1, <2>2
  <2>7. /\ x.taken = taken /\ x.seen = seen /\ x.asks = Asks(r)
        /\ [x EXCEPT !.taken = @ + 1] = [x EXCEPT !.taken = x.taken + 1]
        /\ x = [method |-> r.method, asks |-> Asks(r), seen |-> x.seen, taken |-> x.taken, status |-> "open"]
        /\ x.seen \in Seq(Message) /\ x.taken \in Nat /\ x.taken = Len(By("client", x.seen))
    BY <2>4, <2>5
  <2>8. CASE Server!Speak(c)
    <3>1. Server!ServersTurn(x) /\ \E l \in Server!Lines(x) : Server!Becomes(c, Server!With(x, Server!After(l, x)))
      BY <2>1, <2>8 DEF Server!Speak
    <3>2. \E l \in Server!Lines(x) : y = Server!With(x, Server!After(l, x))
      BY <2>1, <3>1, BecomesOne
    <3>3. Right(y, r)
      BY <1>1, <1>3, <2>6, <2>7, <3>1, <3>2, RightStep
    <3> QED BY <2>1, <3>3
  <2>9. CASE Server!Listen(c)
    <3>1. /\ ~Server!ServersTurn(x) /\ x.taken < Len(Asks(r))
          /\ \/ /\ \E l \in Server!Lines(x) : Server!After(l, x) = Asks(r)[x.taken + 1]
                /\ Server!Becomes(c, Server!With([x EXCEPT !.taken = x.taken + 1], Asks(r)[x.taken + 1]))
             \/ /\ \A l \in Server!Lines(x) : Server!After(l, x) # Asks(r)[x.taken + 1]
                /\ Server!Becomes(c, [x EXCEPT !.status = "unavailable"])
      BY <2>1, <2>7, <2>9 DEF Server!Listen
    <3>2. \/ /\ \E l \in Server!Lines(x) : Server!After(l, x) = Asks(r)[x.taken + 1]
             /\ y = Server!With([x EXCEPT !.taken = x.taken + 1], Asks(r)[x.taken + 1])
          \/ /\ \A l \in Server!Lines(x) : Server!After(l, x) # Asks(r)[x.taken + 1]
             /\ y = [x EXCEPT !.status = "unavailable"]
      BY <2>1, <3>1, BecomesOne
    <3>3. Right(y, r)
      BY <1>1, <1>3, <2>6, <2>7, <3>1, <3>2, RightStep
    <3> QED BY <2>1, <3>3
  <2>10. CASE Server!GoesAway(c)
    <3>1. \/ Server!Becomes(c, [x EXCEPT !.status = "cancelled"])
          \/ /\ ~Server!ServersTurn(x) /\ x.taken = Len(Asks(r))
             /\ Server!Becomes(c, [x EXCEPT !.status = "unknown"])
      BY <2>1, <2>7, <2>10 DEF Server!GoesAway
    <3>2. \/ y = [x EXCEPT !.status = "cancelled"]
          \/ ~Server!ServersTurn(x) /\ x.taken = Len(Asks(r)) /\ y = [x EXCEPT !.status = "unknown"]
      BY <2>1, <3>1, BecomesOne
    <3>3. Right(y, r)
      BY <1>1, <1>3, <2>6, <2>7, <3>2, RightStep
    <3> QED BY <2>1, <3>3
  <2> QED BY <1>9, <2>8, <2>9, <2>10
<1>10. CASE UNCHANGED Server!vars
  <2>1. [d \in Calls |-> Exchange(d)]' = [d \in Calls |-> Exchange(d)]
    BY <1>10 DEF Server!vars
  <2>2. Exchange(c)' = Exchange(c)
    BY <2>1
  <2> QED BY <1>7, <2>2
<1>11. ASSUME NEW d \in Calls, d # c,
              Server!Begin(d) \/ Server!Speak(d) \/ Server!Listen(d) \/ Server!GoesAway(d)
       PROVE  Exchange(c)' = Exchange(c)
  <2>1. \E y : Server!Becomes(d, y)
    BY <1>11 DEF Server!Begin, Server!Speak, Server!Listen, Server!GoesAway
  <2> QED BY <1>11, <2>1, BecomesOne
<1> QED BY <1>3, <1>7, <1>8, <1>9, <1>10, <1>11 DEF Server!Next

LEMMA Rightly == ASSUME IInv, Told, Faithful PROVE UnrivalledIsRight
<1> SUFFICES ASSUME NEW c \in Calls, call[c].pc # "idle", call[c].wants \in Range(dump), Unrivalled(call[c].wants)
             PROVE  /\ IsPrefix(call[c].seen, call[c].wants.messages)
                    /\ call[c].pc = "ended" /\ call[c].wants.messages # <<>> => Replayed(c)
  BY DEF UnrivalledIsRight
<1>1. PICK x, r : x = Exchange(c) /\ r = call[c].wants /\ Right(x, r)
  BY DEF Faithful
<1>2. /\ call[c] \in CallState /\ r.messages \in Seq(Message) /\ call[c].seen \in Seq(Message)
      /\ x.seen = call[c].seen /\ (call[c].pc = "ended" => x.status = call[c].status)
  BY <1>1, Fields, Fields2, ExchangeFacts DEF IInv, TypeOK
<1>3. IsPrefix(call[c].seen, r.messages)
  BY <1>1, <1>2, BeginsFacts DEF Right
<1>4. call[c].pc = "ended" /\ r.messages # <<>> => Replayed(c)
  BY <1>1, <1>2, Fields2 DEF Right, Replayed, Told
<1> QED BY <1>1, <1>3, <1>4

LEMMA FaithfulInit == Init => Told /\ Faithful
BY DEF Init, Idle, Told, Faithful

\* The client of a call that was recorded, and that nothing in the dump competes with, gets
\* the messages it is waiting for, and no other end than theirs, unless it cancels: however
\* much of the call others share, whatever they do, and however early it sends or half-closes.
THEOREM UnrivalledAreRight == Spec => []UnrivalledIsRight
<1> DEFINE Inv == IInv /\ Heard /\ Closing /\ Told /\ Faithful
<1>1. Init => Inv
  BY InitInv, HeardInit, ClosingInit, FaithfulInit
<1>2. Inv /\ [Next]_vars => Inv'
  <2> SUFFICES ASSUME Inv, [Next]_vars PROVE Inv'
    OBVIOUS
  <2>1. (IInv /\ Heard /\ Closing)' /\ Told' /\ Steady
    BY NextInv, HeardNext, ClosingNext, ToldNext DEF IInv
  <2>2. [Server!Next]_(Server!vars)
    BY NextPlays
  <2> QED BY <2>1, <2>2, FaithfulNext
<1>3. Inv => UnrivalledIsRight
  BY Rightly
<1> QED BY <1>1, <1>2, <1>3, PTL DEF Spec

-----------------------------------------------------------------------------
(* A dump that is replayed against itself.                                 *)

\* Nobody cancels replay's calls before it exits.
Quiet == replay.mode # "exited" => \A c \in Calls \ Users : ~call[c].cancelled

\* What SelfReplayIsOk says, whether or not the dump has been loaded.
Rivalless == script = dump /\ \A r \in Range(dump) : Unrivalled(r)
Straight == Rivalless => Range(replay.verdicts) \subseteq {"ok"} /\ replay.cause \in {"none", "other"}

\* The fixture does not cancel, and other clients only their own calls.
LEMMA Uncancelled ==
    ASSUME TypeOK, [Next]_vars, NEW t \in Calls \ Users PROVE call'[t].cancelled = call[t].cancelled
<1>1. call \in [Calls -> CallState] /\ call[t] \in CallState
  BY DEF TypeOK
<1>2. CASE UNCHANGED call \/ Load \/ LoadFails \/ Rest
  BY <1>2 DEF Load, LoadFails, NextRecording, LoadMessage, LoadDone, Rest, vars
<1>3. ASSUME NEW c \in Users, Client(c) PROVE call'[t] = call[t]
  <2>1. c # t
    OBVIOUS
  <2> QED BY <1>1, <1>3, <2>1 DEF Client, Start, ClientSend, ClientHalfClose, ClientCancel
<1>4. ASSUME NEW c \in Calls, Intercept(c), c # t PROVE call'[t] = call[t]
  BY <1>1, <1>4 DEF Intercept, SendMsg, RecvMsg, RecvEnd, Ends
<1>5. ASSUME NEW status, Ends(t, status) PROVE call'[t].cancelled = call[t].cancelled
  BY <1>1, <1>5 DEF Ends, CallState
<1>6. ASSUME NEW n
      PROVE  /\ Walk(t, n).cancelled = call[t].cancelled
             /\ \A k : [Walk(t, n) EXCEPT !.received = k].cancelled = call[t].cancelled
  BY <1>1 DEF Walk, CallState
<1>7. CASE SendMsg(t)
  <2>1. CASE call' = [call EXCEPT ![t] = Walk(t, nodes[call[t].at].next[1])]
    <3>1. PICK n : n = nodes[call[t].at].next[1]
      OBVIOUS
    <3>2. call'[t] = Walk(t, n)
      BY <1>1, <2>1, <3>1
    <3> QED BY <1>6, <3>2
  <2> QED BY <1>5, <1>7, <2>1 DEF SendMsg
<1>8. CASE RecvMsg(t)
  <2>1. ASSUME NEW i \in Matches(call[t].at, Received(t)),
               call' = [call EXCEPT ![t] = [Walk(t, nodes[call[t].at].next[i]) EXCEPT !.received = @ + 1]]
        PROVE  call'[t].cancelled = call[t].cancelled
    <3>1. PICK n, k : n = nodes[call[t].at].next[i] /\ k = Walk(t, n).received + 1
      OBVIOUS
    <3>2. call'[t] = [Walk(t, n) EXCEPT !.received = k]
      BY <1>1, <2>1, <3>1
    <3> QED BY <1>6, <3>2
  <2> QED BY <1>5, <1>8, <2>1 DEF RecvMsg
<1>9. CASE RecvEnd(t)
  BY <1>5, <1>9 DEF RecvEnd
<1>10. ASSUME NEW c \in Calls, Intercept(c), c = t PROVE SendMsg(t) \/ RecvMsg(t) \/ RecvEnd(t)
  BY <1>10 DEF Intercept
<1> QED BY <1>2, <1>3, <1>4, <1>7, <1>8, <1>9, <1>10 DEF Next, vars

LEMMA QuietNext == ASSUME ReplayedInv, Quiet, [ReplayNext]_allVars PROVE Quiet'
<1>1. call \in [Calls -> CallState] /\ replay \in ReplayState
  BY DEF ReplayedInv, ReplayInv, Replaying, IInv, TypeOK
<1>2. CASE call' = call /\ (replay.mode # "exited" \/ replay' = replay)
  BY <1>2 DEF Quiet
<1>3. CASE [Next]_vars /\ replay' = replay
  <2>1. \A t \in Calls \ Users : call'[t].cancelled = call[t].cancelled
    BY <1>3, Uncancelled DEF ReplayedInv, ReplayInv, IInv
  <2> QED BY <1>3, <2>1 DEF Quiet
<1>4. CASE Open
  <2>1. replay.mode = "next" /\ replay.rpc + 1 \in 1..Len(script)
    BY <1>4, Jobs DEF Open, ReplayedInv, ReplayInv, Replaying
  <2>2. PICK r, t : t \in Calls /\ Start(t, r)
    BY <1>4, <2>1, Jobs DEF Open, ReplayedInv
  <2>3. PICK at, pc, status :
           /\ at = root[r.method]
           /\ pc = IF root[r.method] = NoNode THEN "ended" ELSE "loop"
           /\ status = IF root[r.method] = NoNode THEN "unavailable" ELSE "none"
    OBVIOUS
  <2>4. PICK new : new = [Idle EXCEPT !.wants = r, !.at = at, !.pc = pc, !.status = status]
    OBVIOUS
  <2>5. ~new.cancelled
    BY ONLY <2>4 DEF Idle
  <2>6. call' = [call EXCEPT ![t] = new]
    BY <2>2, <2>3, <2>4 DEF Start
  <2>7. \A d \in Calls : call'[d] = IF d = t THEN new ELSE call[d]
    BY <1>1, <2>6
  <2> QED BY <2>1, <2>5, <2>7 DEF Quiet
<1>5. CASE Send
  <2>1. replay.mode = "exchange" /\ Stream \in Calls
    BY <1>5 DEF Send, Exchanging, ReplayedInv, Exchanged
  <2>2. CASE call' = [call EXCEPT ![Stream].sent = @ + 1]
    <3>1. \A d \in Calls : call'[d].cancelled = call[d].cancelled
      BY <1>1, <2>1, <2>2 DEF CallState
    <3> QED BY <2>1, <3>1 DEF Quiet
  <2> QED BY <1>2, <1>5, <2>1, <2>2 DEF Send
<1>6. CASE Recv \/ Verdict \/ EndOfDump \/ GivesUp
  <2>1. call' = call /\ replay.mode # "exited"
    BY <1>6 DEF Recv, Verdict, EndOfDump, GivesUp, Exchanging, fixtureVars, vars
  <2> QED BY <1>2, <2>1
<1>7. CASE Exit
  <2>1. replay'.mode = "exited"
    BY <1>1, <1>7 DEF Exit, ReplayState
  <2> QED BY <2>1 DEF Quiet
<1> QED BY <1>2, <1>3, <1>4, <1>5, <1>6, <1>7 DEF ReplayNext, Run, allVars, vars, replayVars

\* What a stream has of the RPC in hand of such a replay.
LEMMA OnStream ==
    ASSUME ReplayedInv, Told, Faithful, Quiet, Rivalless, Exchanging, NEW x, x = call[Stream]
    PROVE  /\ x \in CallState /\ HeardOf(x) /\ x.wants = Job /\ Begins(x.seen, Job.messages)
           /\ x.pc = "ended" => x.seen = Job.messages
<1>1. /\ replay.mode = "exchange" /\ Stream \in Calls \ Users /\ x.pc # "idle" /\ x.wants = Job
      /\ x \in CallState /\ HeardOf(x) /\ ~x.cancelled
  BY DEF Exchanging, ReplayedInv, Exchanged, ReplayInv, IInv, TypeOK, Heard, Quiet
<1>2. Job \in Range(dump) /\ Job \in Recording /\ Unrivalled(Job)
  <2>1. replay.rpc \in 1..Len(script) /\ script = dump
    BY <1>1, Jobs DEF ReplayedInv, Rivalless
  <2>2. DOMAIN dump = 1..Len(dump)
    BY Lines DEF ReplayedInv, ReplayInv
  <2> QED BY <1>1, <2>1, <2>2, PastFacts DEF Job, Range, Rivalless, ReplayedInv
<1>3. PICK y : /\ y = Exchange(Stream) /\ Right(y, Job) /\ y.seen = x.seen
               /\ x.pc = "loop" => y.status = "open"
               /\ x.pc = "ended" => y.status = x.status
  BY <1>1, <1>2, ExchangeFacts DEF Faithful
<1>4. Job.messages # <<>>
  <2>1. Len(Job.messages) \in Nat /\ replay.pos \in Nat /\ replay.pos < Len(Job.messages)
    BY <1>1, <1>2, Jobs, Fields DEF Exchanging, ReplayedInv
  <2> QED BY <2>1
<1>5. x.pc = "ended" => x.status \notin {"open", "cancelled"}
  BY <1>1, Fields2 DEF Told
<1> QED BY <1>1, <1>3, <1>4, <1>5 DEF Right

\* Its next message is the next one that the sender of it has in all.
LEMMA UpcomingNext ==
    ASSUME ReplayedInv, Exchanging, NEW who, Upcoming.from = who
    PROVE  /\ Len(By(who, Past)) < Len(By(who, Job.messages))
           /\ By(who, Job.messages)[Len(By(who, Past)) + 1] = Upcoming
<1>1. PICK ms, k : ms = Job.messages /\ k = replay.pos /\ ms \in Seq(Message) /\ k \in Nat /\ k < Len(ms)
  BY PastFacts, Fields DEF Exchanging, ReplayedInv
<1>2. Past = SubSeq(ms, 1, k) /\ Upcoming = ms[k + 1]
  BY <1>1 DEF Past, Upcoming
<1>3. ms[k + 1].from = who
  BY <1>2
<1>4. /\ Len(By(who, SubSeq(ms, 1, k))) < Len(By(who, ms))
      /\ By(who, ms)[Len(By(who, SubSeq(ms, 1, k))) + 1] = ms[k + 1]
  BY <1>1, <1>3, ByNext
<1> QED BY <1>1, <1>2, <1>4

\* So it neither finds its call over before it has sent or received all, nor an answer
\* that differs.
LEMMA NothingAmiss ==
    ASSUME ReplayedInv, Told, Faithful, Quiet, Rivalless, Exchanging
    PROVE  /\ call[Stream].pc = "ended" => Upcoming.from # "client"
           /\ Upcoming.from = "server" =>
                 /\ replay.got < Len(Answers(call[Stream].seen)) =>
                       Answers(call[Stream].seen)[replay.got + 1] = Upcoming
                 /\ replay.got = Len(Answers(call[Stream].seen)) => call[Stream].pc # "ended"
<1>1. PICK x, ms : /\ x = call[Stream] /\ ms = Job.messages /\ x \in CallState /\ HeardOf(x)
                   /\ x.wants = Job /\ Begins(x.seen, ms) /\ (x.pc = "ended" => x.seen = ms)
  BY OnStream
<1>2. ms \in Seq(Message) /\ Len(ms) \in Nat /\ x.seen \in Seq(Message) /\ x.received \in Nat /\ x.sent \in Nat
  BY <1>1, PastFacts, Fields, Fields2 DEF Exchanging, ReplayedInv
<1>3. ASSUME x.pc = "ended", Upcoming.from = "client" PROVE FALSE
  <2>1. Len(By("client", ms)) = x.received /\ x.received <= x.sent
    BY <1>1, <1>3 DEF HeardOf
  <2>2. x.sent <= Len(By("client", Past)) /\ Len(By("client", Past)) \in Nat
    BY <1>1, PastFacts DEF Exchanging, ReplayedInv, Exchanged
  <2>3. Len(By("client", Past)) < Len(By("client", ms))
    BY <1>1, <1>3, UpcomingNext
  <2> QED BY <1>2, <2>1, <2>2, <2>3
<1>4. PICK said, all : said = By("server", x.seen) /\ all = By("server", ms)
  OBVIOUS
<1>5. Answers(call[Stream].seen) = said
  BY <1>1, <1>4 DEF Answers
<1>6. replay.got = Len(By("server", Past)) /\ replay.got \in Nat
  BY Jobs DEF Exchanging, ReplayedInv, Exchanged
<1>7. ASSUME Upcoming.from = "server" PROVE replay.got < Len(all) /\ all[replay.got + 1] = Upcoming
  BY <1>1, <1>4, <1>6, <1>7, UpcomingNext
<1>8. ASSUME Upcoming.from = "server", replay.got < Len(said) PROVE said[replay.got + 1] = Upcoming
  <2>1. PICK n \in 0..Len(ms) : n = Len(x.seen) /\ SubSeq(ms, 1, n) = x.seen
    <3>1. Len(x.seen) \in Nat
      BY <1>2
    <3> QED BY <1>1, <1>2, <3>1, BeginsSub
  <2>2. Begins(said, all)
    <3>1. Begins(By("server", SubSeq(ms, 1, n)), By("server", ms))
      BY <1>2, ByFacts
    <3> QED BY <1>4, <2>1, <3>1
  <2>3. said \in Seq(Message) /\ Len(said) \in Nat
    BY <1>2, <1>4, ByAll
  <2>4. replay.got + 1 \in 1..Len(said)
    BY <1>6, <1>8, <2>3
  <2> QED BY <1>7, <1>8, <2>2, <2>4 DEF Begins
<1>9. ASSUME Upcoming.from = "server", replay.got = Len(said), x.pc = "ended" PROVE FALSE
  <2>1. said = all
    BY <1>1, <1>4, <1>9
  <2> QED BY <1>6, <1>7, <1>9, <2>1
<1> QED BY <1>1, <1>3, <1>5, <1>8, <1>9

LEMMA StraightNext ==
    ASSUME ReplayedInv, Told, Faithful, Quiet, Straight, [ReplayNext]_allVars PROVE Straight'
<1>1. UNCHANGED <<dump, script>>
  <2>1. CASE [Next]_vars /\ UNCHANGED replayVars
    BY <2>1 DEF Next, vars, Load, NextRecording, LoadMessage, LoadDone, LoadFails, Rest, Client,
                Start, ClientSend, ClientHalfClose, ClientCancel, Intercept, SendMsg, RecvMsg,
                RecvEnd, serving, replayVars
  <2>2. CASE Run \/ GivesUp
    BY <2>2 DEF Run, GivesUp, Open, Start, serving, Send, Recv, Verdict, EndOfDump, Exit, fixtureVars, vars
  <2> QED BY <2>1, <2>2 DEF ReplayNext, allVars
<1>2. Rivalless' <=> Rivalless
  BY <1>1 DEF Rivalless, Unrivalled, Recorded
<1> SUFFICES ASSUME Rivalless, Range(replay.verdicts) \subseteq {"ok"}, replay.cause \in {"none", "other"}
             PROVE  Range(replay'.verdicts) \subseteq {"ok"} /\ replay'.cause \in {"none", "other"}
  BY <1>2 DEF Straight
<1>3. replay \in ReplayState
  BY DEF ReplayedInv, ReplayInv, Replaying
<1>4. CASE replay'.verdicts = replay.verdicts /\ replay'.cause \in {replay.cause, "other"}
  BY <1>4
<1>5. CASE replay' = [replay EXCEPT !.mode = "next", !.verdicts = Append(@, "ok")]
  <2>1. PICK said : said = Append(replay.verdicts, "ok")
    OBVIOUS
  <2>2. replay'.verdicts = said /\ replay'.cause = replay.cause
    BY <1>3, <1>5, <2>1 DEF ReplayState
  <2>3. PICK v : v = replay.verdicts /\ v \in Seq({"ok", "mismatch"}) /\ Len(v) \in Nat
    BY VerdictFacts, Jobs DEF ReplayedInv
  <2>4. DOMAIN said = 1..(Len(v) + 1) /\ said[Len(v) + 1] = "ok" /\ \A k \in 1..Len(v) : said[k] = v[k]
    <3>1. said \in Seq({"ok", "mismatch"})
      BY <2>1, <2>3, AppendProperties
    <3> QED BY <2>1, <2>3, <3>1, AppendProperties
  <2>5. \A k \in 1..Len(v) : v[k] = "ok"
    <3>1. DOMAIN v = 1..Len(v)
      BY <2>3
    <3>2. \A k \in DOMAIN v : v[k] \in Range(v)
      BY DEF Range
    <3> QED BY <2>3, <3>1, <3>2
  <2>6. \A k \in 1..(Len(v) + 1) : k \in 1..Len(v) \/ k = Len(v) + 1
    BY <2>3
  <2>7. \A k \in DOMAIN said : said[k] = "ok"
    BY <2>4, <2>5, <2>6
  <2> QED BY <2>2, <2>7 DEF Range
<1>6. CASE UNCHANGED replayVars
  BY <1>4, <1>6 DEF replayVars
<1>7. CASE Open \/ EndOfDump \/ Exit \/ GivesUp
  <2>1. replay'.verdicts = replay.verdicts /\ replay'.cause \in {replay.cause, "other"}
    BY <1>3, <1>7 DEF Open, EndOfDump, Exit, GivesUp, Fails, ReplayState
  <2> QED BY <1>4, <2>1
<1>8. CASE Send
  <2>1. call[Stream].pc # "ended"
    BY <1>8, NothingAmiss DEF Send
  <2>2. replay' = [replay EXCEPT !.pos = @ + 1]
    BY <1>8, <2>1 DEF Send
  <2> QED BY <1>3, <1>4, <2>2 DEF ReplayState
<1>9. CASE Recv
  <2>1. Exchanging /\ Upcoming.from = "server"
    BY <1>9 DEF Recv
  <2>2. replay' = [replay EXCEPT !.pos = @ + 1, !.got = @ + 1]
    BY <1>9, <2>1, NothingAmiss DEF Recv
  <2> QED BY <1>3, <1>4, <2>2 DEF ReplayState
<1>10. CASE Verdict
  BY <1>5, <1>10 DEF Verdict
<1> QED BY <1>6, <1>7, <1>8, <1>9, <1>10 DEF ReplayNext, Run, allVars

LEMMA StraightInit == ReplayInit => Quiet /\ Straight
<1> SUFFICES ASSUME ReplayInit PROVE Quiet /\ Straight
  OBVIOUS
<1>1. \A c \in Calls : ~call[c].cancelled
  BY DEF ReplayInit, Init, Idle
<1>2. replay.verdicts = <<>> /\ replay.cause = "none"
  BY DEF ReplayInit
<1>3. Range(<<>>) = {}
  BY DEF Range
<1> QED BY <1>1, <1>2, <1>3 DEF Quiet, Straight

\* All of it holds together.
StraightInv == ReplayedInv /\ Closing /\ Told /\ Faithful /\ Quiet /\ Straight

LEMMA StraightInvInit == ReplayInit => StraightInv
BY ReplayedInitInv, ClosingInit, FaithfulInit, StraightInit DEF ReplayInit, StraightInv

LEMMA StraightInvNext == StraightInv /\ [ReplayNext]_allVars => StraightInv'
<1> SUFFICES ASSUME StraightInv, [ReplayNext]_allVars PROVE StraightInv'
  OBVIOUS
<1>1. ReplayedInv /\ Closing /\ Told /\ Faithful /\ Quiet /\ Straight
  BY DEF StraightInv
<1>2. ReplayedInv' /\ Closing' /\ Told' /\ Steady /\ [Server!Next]_(Server!vars)
  BY <1>1, ReplayedNextInv, ReplayPlays, ToldReplay
<1>3. Faithful'
  BY <1>1, <1>2, FaithfulNext DEF ReplayedInv, ReplayInv
<1>4. Quiet' /\ Straight'
  BY <1>1, QuietNext, StraightNext
<1> QED BY <1>2, <1>3, <1>4 DEF StraightInv

\* The same holds while a replay is among the clients: its calls end like those of others,
\* though it half-closes none.
THEOREM UnrivalledForReplay == ReplaySpec => []UnrivalledIsRight
<1>1. StraightInv => UnrivalledIsRight
  BY Rightly DEF StraightInv, ReplayedInv, ReplayInv
<1> QED BY <1>1, StraightInvInit, StraightInvNext, PTL DEF ReplaySpec

\* A dump of recordings without rivals, of any length and however they share their beginnings,
\* is replayed against itself without a difference or an error of the fixture's making.
THEOREM SelfReplayIsAlwaysOk == ReplaySpec => []SelfReplayIsOk
<1>1. StraightInv => SelfReplayIsOk
  BY DEF StraightInv, SelfReplayIsOk, SelfReplayed, Straight, Rivalless
<1> QED BY <1>1, StraightInvInit, StraightInvNext, PTL DEF ReplaySpec

=============================================================================

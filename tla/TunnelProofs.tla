------------------------------ MODULE TunnelProofs ------------------------------
(***************************************************************************)
(* Tunnel implements Pipe, for streams, peeks, buffers and windows of any  *)
(* size, if the client's first segment is as long as the first peek.       *)
(***************************************************************************)
EXTENDS Tunnel, SequenceTheorems, TLAPS

-----------------------------------------------------------------------------
(* Control: who may be where.                                              *)

IdleCopier == [pc |-> "read", buf |-> <<>>, last |-> FALSE]

\* What the peekers still hold of a side's stream.
Held(s) == IF s = "client" THEN peeked ELSE <<>>

\* The goroutine that copies from s. It has stopped reading at the end of the stream, or
\* because nobody takes what it writes; only then does it close the other side.
Copying(s) ==
    /\ stage # "open" => copier[s] = IdleCopier
    /\ Pc(s) = "write" <=> copier[s].buf # <<>>
    /\ copier[s].last => wire[s] = <<>> /\ end[s] # "open" /\ Held(s) = <<>>
    /\ Pc(s) \notin {"read", "write"} => copier[s].last \/ end[Other(s)] = "gone"
    /\ fin[Other(s)] => stage = "failed" \/ Pc(s) \in {"closeRead", "done"}
    /\ Pc(s) = "wait" => mode = "proxied" /\ s = "dest"
    /\ mode = "whole" => Pc(s) # "closeRead"

\* Who has counted the WaitGroup down.
Counts(s) ==
    IF \/ mode = "whole" /\ Pc(s) = "done"
       \/ mode = "proxied" /\ s = "client" /\ Pc(s) = "done"
       \/ mode = "proxied" /\ s = "dest" /\ Pc(s) \in {"wait", "closeRead", "done"}
    THEN 1 ELSE 0
Counting == wg = 2 - Counts("client") - Counts("dest")

\* Nothing passes before the tunnel is open.
Before ==
    /\ stage # "open" =>
          /\ \A s \in Sides : out[s] = <<>> /\ got[s] = <<>>
          /\ end["dest"] = "open" /\ sent["dest"] = 0 /\ wire["dest"] = <<>>
    /\ stage \in {"peek", "dial"} => \A s \in Sides : ~fin[s] /\ ~sawEnd[s]

\* A second peek wants no less than the first has got.
Peeking ==
    stage = "peek" =>
       \/ peeks = PeekSizes /\ peeked = <<>>
       \/ /\ Len(PeekSizes) = 2 /\ peeks = <<PeekSizes[2]>>
          /\ Len(peeked) = PeekSizes[1]

IInv == TypeOK /\ Counting /\ Before /\ Peeking /\ \A s \in Sides : Copying(s)

-----------------------------------------------------------------------------
(* Data: what is where.                                                    *)

\* The bytes behind the i-th, up to the j-th.
Stretch(q, i, j) ==
    /\ i \in Nat /\ j \in Nat /\ q \in Seq(Nat)
    /\ i + Len(q) = j
    /\ \A n \in 1..Len(q) : q[n] = i + n

\* A stream of m bytes in its five places: received, on the way to the other side, read,
\* peeked at, on the wire.
Chain(g, o, b, h, w, m) ==
    \E i, j, k, l \in Nat :
       /\ Stretch(g, 0, i) /\ Stretch(o, i, j) /\ Stretch(b, j, k)
       /\ Stretch(h, k, l) /\ Stretch(w, l, m)

\* All that a side has sent is in one of them, in order, unless the side has gone and its
\* last bytes are lost.
InOrder(s) ==
    \E m \in 0..sent[s] :
       /\ Chain(got[Other(s)], out[Other(s)], copier[s].buf, Held(s), wire[s], m)
       /\ end[s] # "gone" => m = sent[s]

\* The first peek has failed or was answered in full, and the second is bound to fail.
Hopeless ==
    /\ stage = "peek" /\ Len(PeekSizes) = 2 /\ Len(peeks) = 1
    /\ wire["client"] = <<>> /\ end["client"] # "open"

\* Until the first peek the wire has all of the first segment or nothing.
FirstSegment ==
    stage = "peek" /\ peeks = PeekSizes =>
       wire["client"] = <<>> \/ Len(wire["client"]) >= First

\* The other side may still get what s has sent.
Intact(s) == stage # "failed" /\ end[Other(s)] # "gone" /\ ~(s = "client" /\ Hopeless)

\* Nothing comes behind the end.
Seen == \A s \in Sides : sawEnd[s] => fin[s] /\ out[s] = <<>>

StreamInv == FirstSegment /\ Seen /\ \A s \in Sides : Intact(s) => InOrder(s)

\* The peeks of the code: 3 bytes, and 8 for the second. A first segment that is shorter
\* than the first peek is filled up with zeros.
PeeksFit ==
    /\ First >= PeekSizes[1]
    /\ Len(PeekSizes) = 2 => PeekSizes[1] < PeekSizes[2]
-----------------------------------------------------------------------------
(* Queues.                                                                 *)

LEMMA TakeDrop ==
    ASSUME NEW q \in Seq(Nat), NEW n \in Nat
    PROVE  /\ Take(q, n) \in Seq(Nat) /\ Drop(q, n) \in Seq(Nat)
           /\ Len(Take(q, n)) = IF n < Len(q) THEN n ELSE Len(q)
           /\ Len(Take(q, n)) + Len(Drop(q, n)) = Len(q)
           /\ \A i \in 1..Len(Take(q, n)) : Take(q, n)[i] = q[i]
           /\ \A i \in 1..Len(Drop(q, n)) : Drop(q, n)[i] = q[Len(Take(q, n)) + i]
<1>0. Len(q) \in Nat /\ \A i \in 1..Len(q) : q[i] \in Nat
  OBVIOUS
<1>1. CASE n < Len(q)
  <2>1. Take(q, n) = SubSeq(q, 1, n) /\ Drop(q, n) = SubSeq(q, n + 1, Len(q))
    BY <1>1 DEF Take, Drop
  <2>2. /\ Take(q, n) \in Seq(Nat) /\ Len(Take(q, n)) = n
        /\ \A i \in 1..n : Take(q, n)[i] = q[i]
    BY <1>0, <1>1, <2>1, SubSeqProperties
  <2>3. Drop(q, n) \in Seq(Nat) /\ Len(Drop(q, n)) = Len(q) - n
    BY <1>0, <1>1, <2>1, SubSeqProperties
  <2>4. ASSUME NEW i \in 1..(Len(q) - n) PROVE Drop(q, n)[i] = q[n + i]
    BY <1>0, <1>1, <2>1, SubSeqProperties
  <2>5. \A i \in 1..Len(Drop(q, n)) : Drop(q, n)[i] = q[Len(Take(q, n)) + i]
    BY <2>2, <2>3, <2>4
  <2> QED BY <1>0, <1>1, <2>2, <2>3, <2>5
<1>2. CASE ~(n < Len(q))
  <2>1. Take(q, n) = q /\ Drop(q, n) = <<>>
    BY <1>2 DEF Take, Drop
  <2> QED BY <1>0, <1>2, <2>1
<1> QED BY <1>1, <1>2

LEMMA EmptyLen == \A q \in Seq(Nat) : Len(q) \in Nat /\ (q = <<>> <=> Len(q) = 0)
BY EmptySeq

LEMMA Shift ==
    /\ \A i, j, l, n \in Int : i + l = j => j + (n - l) = i + n
    /\ \A i, j, k, l, n, m \in Int : i + l = j /\ j + n = k /\ m = l + n => i + m = k
    /\ \A i, k, l, n, m \in Int : i + m = k /\ l + n = m => (i + l) + n = k
    /\ \A i, l, n \in Int : i + (l + n) = (i + l) + n
OBVIOUS

LEMMA StretchEmpty == \A i \in Nat : Stretch(<<>>, i, i)
BY EmptyLen DEF Stretch

LEMMA StretchConcat ==
    ASSUME NEW p, NEW q, NEW i, NEW j, NEW k, Stretch(p, i, j), Stretch(q, j, k)
    PROVE  Stretch(p \o q, i, k)
<1>1. p \in Seq(Nat) /\ q \in Seq(Nat)
  BY DEF Stretch
<1>2. /\ i \in Nat /\ j \in Nat /\ k \in Nat /\ i + Len(p) = j /\ j + Len(q) = k
      /\ Len(p) \in Nat /\ Len(q) \in Nat
  BY EmptyLen DEF Stretch
<1>3. p \o q \in Seq(Nat) /\ Len(p \o q) = Len(p) + Len(q)
  BY <1>1, ConcatProperties
<1>4. ASSUME NEW n \in 1..Len(p \o q) PROVE (p \o q)[n] = i + n
  <2>1. CASE n <= Len(p)
    BY <1>1, <1>2, <1>3, <2>1 DEF Stretch
  <2>2. CASE n > Len(p)
    <3>1. n - Len(p) \in 1..Len(q) /\ (p \o q)[n] = q[n - Len(p)]
      BY <1>1, <1>2, <1>3, <2>2
    <3>2. q[n - Len(p)] = j + (n - Len(p))
      BY <3>1 DEF Stretch
    <3>3. n \in Int
      OBVIOUS
    <3>4. j + (n - Len(p)) = i + n
      BY <1>2, <3>3, Shift
    <3> QED BY <3>1, <3>2, <3>4
  <2> QED BY <1>2, <1>3, <2>1, <2>2
<1>5. i + Len(p \o q) = k
  BY <1>2, <1>3, Shift
<1> QED BY <1>2, <1>3, <1>4, <1>5 DEF Stretch

LEMMA StretchSplit ==
    ASSUME NEW q, NEW i, NEW k, NEW n \in Nat, Stretch(q, i, k)
    PROVE  \E j \in Nat : Stretch(Take(q, n), i, j) /\ Stretch(Drop(q, n), j, k)
<1>1. i \in Nat /\ k \in Nat /\ Len(q) \in Nat /\ i + Len(q) = k
  BY EmptyLen DEF Stretch
<1>2. PICK t, d : t = Take(q, n) /\ d = Drop(q, n)
  OBVIOUS
<1>3. t \in Seq(Nat) /\ d \in Seq(Nat)
  BY <1>2, TakeDrop DEF Stretch
<1>4. Len(t) \in Nat /\ Len(d) \in Nat
  BY <1>3, EmptyLen
<1>5. Len(t) + Len(d) = Len(q)
  BY <1>2, TakeDrop DEF Stretch
<1>6. /\ \A r \in 1..Len(t) : t[r] = q[r]
      /\ \A r \in 1..Len(d) : d[r] = q[Len(t) + r]
  BY <1>2, TakeDrop DEF Stretch
<1>7. i + Len(t) \in Nat /\ (i + Len(t)) + Len(d) = k
  BY <1>1, <1>4, <1>5, Shift
<1>8. Stretch(t, i, i + Len(t))
  <2>1. 1..Len(t) \subseteq 1..Len(q)
    BY <1>1, <1>4, <1>5
  <2> QED BY <1>1, <1>3, <1>6, <1>7, <2>1 DEF Stretch
<1>9. Stretch(d, i + Len(t), k)
  <2>1. ASSUME NEW r \in 1..Len(d) PROVE d[r] = (i + Len(t)) + r
    <3>1. r \in Int /\ Len(t) + r \in 1..Len(q)
      BY <1>1, <1>4, <1>5
    <3>2. d[r] = q[Len(t) + r]
      BY <1>6
    <3>3. q[Len(t) + r] = i + (Len(t) + r)
      BY <3>1 DEF Stretch
    <3>4. i + (Len(t) + r) = (i + Len(t)) + r
      BY <1>1, <1>4, <3>1, Shift
    <3> QED BY <3>2, <3>3, <3>4
  <2> QED BY <1>1, <1>3, <1>7, <2>1 DEF Stretch
<1> QED BY <1>2, <1>7, <1>8, <1>9

-----------------------------------------------------------------------------
(* What the steps do to a stream.                                          *)

LEMMA ChainReceive ==
    ASSUME NEW g, NEW o, NEW b, NEW h, NEW w, NEW m, Chain(g, o, b, h, w, m)
    PROVE  Chain(g \o o, <<>>, b, h, w, m)
<1>1. PICK i, j, k, l \in Nat :
         /\ Stretch(g, 0, i) /\ Stretch(o, i, j) /\ Stretch(b, j, k)
         /\ Stretch(h, k, l) /\ Stretch(w, l, m)
  BY DEF Chain
<1> QED BY <1>1, StretchConcat, StretchEmpty DEF Chain

LEMMA ChainWrite ==
    ASSUME NEW g, NEW o, NEW b, NEW h, NEW w, NEW m, NEW n \in Nat, Chain(g, o, b, h, w, m)
    PROVE  Chain(g, o \o Take(b, n), Drop(b, n), h, w, m)
<1>1. PICK i, j, k, l \in Nat :
         /\ Stretch(g, 0, i) /\ Stretch(o, i, j) /\ Stretch(b, j, k)
         /\ Stretch(h, k, l) /\ Stretch(w, l, m)
  BY DEF Chain
<1>2. PICK r \in Nat : Stretch(Take(b, n), j, r) /\ Stretch(Drop(b, n), r, k)
  BY <1>1, StretchSplit
<1>3. Stretch(o \o Take(b, n), i, r)
  BY <1>1, <1>2, StretchConcat
<1> QED BY <1>1, <1>2, <1>3 DEF Chain

\* An empty place takes no room.
LEMMA ChainEmpty ==
    ASSUME NEW g, NEW o, NEW h, NEW w, NEW m, Chain(g, o, <<>>, h, w, m)
    PROVE  \E i, k, l \in Nat : /\ Stretch(g, 0, i) /\ Stretch(o, i, k)
                                /\ Stretch(h, k, l) /\ Stretch(w, l, m)
<1>1. \A j, k \in Nat : Stretch(<<>>, j, k) => j = k
  BY EmptyLen DEF Stretch
<1> QED BY <1>1 DEF Chain

\* The copier reads all that is held, and more from the wire.
LEMMA ChainRead ==
    ASSUME NEW g, NEW o, NEW h, NEW w, NEW m, NEW n \in Nat, Chain(g, o, <<>>, h, w, m)
    PROVE  Chain(g, o, h \o Take(w, n), <<>>, Drop(w, n), m)
<1>1. PICK i, k, l \in Nat : /\ Stretch(g, 0, i) /\ Stretch(o, i, k)
                             /\ Stretch(h, k, l) /\ Stretch(w, l, m)
  BY ChainEmpty
<1>2. PICK r \in Nat : Stretch(Take(w, n), l, r) /\ Stretch(Drop(w, n), r, m)
  BY <1>1, StretchSplit
<1>3. Stretch(h \o Take(w, n), k, r) /\ Stretch(<<>>, r, r)
  BY <1>1, <1>2, StretchConcat, StretchEmpty
<1> QED BY <1>1, <1>2, <1>3 DEF Chain

\* It reads a part of what is held.
LEMMA ChainReadPart ==
    ASSUME NEW g, NEW o, NEW h, NEW w, NEW m, NEW n \in Nat, Chain(g, o, <<>>, h, w, m)
    PROVE  Chain(g, o, Take(h, n), Drop(h, n), w, m)
<1>1. PICK i, k, l \in Nat : /\ Stretch(g, 0, i) /\ Stretch(o, i, k)
                             /\ Stretch(h, k, l) /\ Stretch(w, l, m)
  BY ChainEmpty
<1>2. PICK r \in Nat : Stretch(Take(h, n), k, r) /\ Stretch(Drop(h, n), r, l)
  BY <1>1, StretchSplit
<1> QED BY <1>1, <1>2 DEF Chain

\* The peeker takes more from the wire.
LEMMA ChainPeek ==
    ASSUME NEW g, NEW o, NEW h, NEW w, NEW m, NEW n \in Nat, Chain(g, o, <<>>, h, w, m)
    PROVE  Chain(g, o, <<>>, h \o Take(w, n), Drop(w, n), m)
<1>1. PICK i, k, l \in Nat : /\ Stretch(g, 0, i) /\ Stretch(o, i, k)
                             /\ Stretch(h, k, l) /\ Stretch(w, l, m)
  BY ChainEmpty
<1>2. PICK r \in Nat : Stretch(Take(w, n), l, r) /\ Stretch(Drop(w, n), r, m)
  BY <1>1, StretchSplit
<1>3. Stretch(h \o Take(w, n), k, r) /\ Stretch(<<>>, k, k)
  BY <1>1, <1>2, StretchConcat, StretchEmpty
<1> QED BY <1>1, <1>2, <1>3 DEF Chain

\* A side sends more.
LEMMA ChainSend ==
    ASSUME NEW g, NEW o, NEW b, NEW h, NEW w, NEW m, NEW more, NEW n,
           Stretch(more, m, n), Chain(g, o, b, h, w, m)
    PROVE  Chain(g, o, b, h, w \o more, n)
BY StretchConcat DEF Chain

\* The wire is lost.
LEMMA ChainLose ==
    ASSUME NEW g, NEW o, NEW b, NEW h, NEW w, NEW m \in Nat, Chain(g, o, b, h, w, m)
    PROVE  \E n \in 0..m : Chain(g, o, b, h, <<>>, n)
<1>1. PICK i, j, k, l \in Nat :
         /\ Stretch(g, 0, i) /\ Stretch(o, i, j) /\ Stretch(b, j, k)
         /\ Stretch(h, k, l) /\ Stretch(w, l, m)
  BY DEF Chain
<1>2. l \in 0..m
  BY <1>1, EmptyLen DEF Stretch
<1>3. Stretch(<<>>, l, l)
  BY <1>1, StretchEmpty
<1> QED BY <1>1, <1>2, <1>3 DEF Chain

\* What has been received, when nothing is anywhere else.
LEMMA ChainGot ==
    ASSUME NEW g, NEW o, NEW b, NEW h, NEW w, NEW m, Chain(g, o, b, h, w, m)
    PROVE  /\ Stretch(g, 0, Len(g)) /\ Len(g) \in 0..m
           /\ Stretch(g \o o, 0, Len(g) + Len(o)) /\ Len(g) + Len(o) \in 0..m
           /\ o = <<>> /\ b = <<>> /\ h = <<>> /\ w = <<>> => Len(g) = m
<1>1. PICK i, j, k, l \in Nat :
         /\ Stretch(g, 0, i) /\ Stretch(o, i, j) /\ Stretch(b, j, k)
         /\ Stretch(h, k, l) /\ Stretch(w, l, m)
  BY DEF Chain
<1>2. /\ i = Len(g) /\ i + Len(o) = j /\ j + Len(b) = k /\ k + Len(h) = l /\ l + Len(w) = m
      /\ Len(g) \in Nat /\ Len(o) \in Nat /\ Len(b) \in Nat /\ Len(h) \in Nat /\ Len(w) \in Nat
      /\ m \in Nat
  BY <1>1, EmptyLen DEF Stretch
<1>3. Stretch(g \o o, 0, j)
  BY <1>1, StretchConcat
<1>4. Len(<<>>) = 0
  BY EmptyLen
<1> QED BY <1>1, <1>2, <1>3, <1>4
LEMMA StretchNew ==
    ASSUME NEW i \in Nat, NEW k \in Nat, NEW q, q = [n \in 1..k |-> i + n]
    PROVE  Stretch(q, i, i + k) /\ q \in Seq(Nat) /\ Len(q) = k
<1>1. q \in [1..k -> Nat]
  OBVIOUS
<1>2. q \in Seq(Nat) /\ Len(q) = k
  BY <1>1, SeqDef
<1> QED BY <1>2 DEF Stretch

-----------------------------------------------------------------------------
(* The inductive invariant of the control.                                 *)

LEMMA SidesOther ==
    /\ Sides = {"client", "dest"} /\ Other("client") = "dest" /\ Other("dest") = "client"
    /\ \A s \in Sides : Other(s) \in Sides /\ Other(Other(s)) = s /\ Other(s) # s
BY DEF Sides, Other

LEMMA InitInv == Init => IInv
<1> SUFFICES ASSUME Init PROVE IInv
  OBVIOUS
<1>1. \A s \in Sides : /\ copier[s] = IdleCopier /\ out[s] = <<>> /\ got[s] = <<>> /\ wire[s] = <<>>
                       /\ end[s] = "open" /\ sent[s] = 0 /\ ~fin[s] /\ ~sawEnd[s]
  BY DEF Init, IdleCopier
<1>2. IdleCopier \in Copier /\ <<>> \in Seq(Nat) /\ Len(<<>>) = 0
  BY EmptySeq DEF IdleCopier, Copier
<1>3. TypeOK
  <2>1. peeks \in Seq(Nat \ {0}) /\ peeked \in Seq(Nat) /\ Window \in Nat
    BY TunnelAssumption DEF Init
  <2>2. copier \in [Sides -> Copier]
    BY <1>2 DEF Init, IdleCopier
  <2>3. /\ wire \in [Sides -> Seq(Nat)] /\ out \in [Sides -> Seq(Nat)] /\ got \in [Sides -> Seq(Nat)]
        /\ \A s \in Sides : Len(out[s]) <= Window
    BY <1>1, <1>2, <2>1 DEF Init
  <2> QED BY <2>1, <2>2, <2>3 DEF Init, TypeOK
<1>4. Counting
  BY <1>1 DEF Init, Counting, Counts, Pc, IdleCopier, Sides
<1>5. Before
  BY <1>1 DEF Before, Init, Sides
<1>6. Peeking
  BY DEF Init, Peeking
<1>7. \A s \in Sides : Copying(s)
  BY <1>1, SidesOther DEF Init, Copying, IdleCopier, Pc, Held
<1> QED BY <1>3, <1>4, <1>5, <1>6, <1>7 DEF IInv

\* The ends change neither the proxy nor, once it has ended, what is on the wire.
LEMMA EndpointInv ==
    ASSUME IInv, NEW s \in Sides, UNCHANGED proxy,
           sent' \in [Sides -> Nat], end' \in [Sides -> {"open", "fin", "gone"}],
           wire' \in [Sides -> Seq(Nat)], out' \in [Sides -> Seq(Nat)],
           got' \in [Sides -> Seq(Nat)], sawEnd' \in [Sides -> BOOLEAN],
           \A t \in Sides : Len(out'[t]) <= Window,
           Before',
           \A t \in Sides : /\ end[t] # "open" /\ wire[t] = <<>> => end'[t] # "open" /\ wire'[t] = <<>>
                            /\ end[t] = "gone" => end'[t] = "gone"
    PROVE  IInv'
<1>1. TypeOK'
  BY DEF IInv, TypeOK, proxy
<1>2. Counting' /\ Peeking'
  BY DEF IInv, proxy, Counting, Counts, Pc, Peeking
<1>3. ASSUME NEW t \in Sides PROVE Copying(t)'
  BY SidesOther DEF IInv, proxy, Copying, Pc, Held
<1> QED BY <1>1, <1>2, <1>3 DEF IInv

LEMMA SendInv == ASSUME IInv, NEW s \in Sides, Send(s) PROVE IInv'
<1> DEFINE more == [i \in 1..Segment(s) |-> sent[s] + i]
<1>1. Segment(s) \in Nat /\ sent[s] \in Nat
  BY TunnelAssumption DEF Segment, IInv, TypeOK
<1>2. more \in Seq(Nat)
  BY <1>1, StretchNew
<1> HIDE DEF more
<1>3. /\ wire' = [wire EXCEPT ![s] = @ \o more] /\ sent' = [sent EXCEPT ![s] = @ + Segment(s)]
      /\ UNCHANGED <<proxy, end, got, sawEnd, out>> /\ end[s] = "open" /\ (s = "dest" => stage = "open")
  BY DEF Send, more
<1>4. wire[s] \o more \in Seq(Nat)
  BY <1>2 DEF IInv, TypeOK
<1>5. wire' \in [Sides -> Seq(Nat)] /\ sent' \in [Sides -> Nat]
  BY <1>1, <1>3, <1>4 DEF IInv, TypeOK
<1>6. Before'
  BY <1>3, <1>5, SidesOther DEF IInv, Before, TypeOK, proxy
<1>7. \A t \in Sides : end[t] # "open" => wire'[t] = wire[t]
  BY <1>3 DEF IInv, TypeOK
<1> QED BY <1>3, <1>5, <1>6, <1>7, EndpointInv DEF IInv, TypeOK

LEMMA EndInv == ASSUME IInv, NEW s \in Sides, End(s) PROVE IInv'
<1>1. /\ end' = [end EXCEPT ![s] = "fin"] /\ UNCHANGED <<proxy, sent, got, sawEnd, wire, out>>
      /\ end[s] = "open" /\ (s = "dest" => stage = "open")
  BY DEF End
<1>2. end' \in [Sides -> {"open", "fin", "gone"}]
  BY <1>1 DEF IInv, TypeOK
<1>3. Before'
  BY <1>1, SidesOther DEF IInv, Before, TypeOK, proxy
<1> QED BY <1>1, <1>2, <1>3, EndpointInv DEF IInv, TypeOK

LEMMA LeaveInv == ASSUME IInv, NEW s \in Sides, Leave(s) PROVE IInv'
<1>1. /\ end' = [end EXCEPT ![s] = "gone"] /\ UNCHANGED <<proxy, sent, got, sawEnd>>
      /\ wire' \in {wire, [wire EXCEPT ![s] = <<>>]} /\ out' = [out EXCEPT ![s] = <<>>]
      /\ (s = "dest" => stage = "open")
  BY DEF Leave
<1>2. <<>> \in Seq(Nat) /\ Len(<<>>) = 0 /\ 0 <= Window
  BY EmptySeq, TunnelAssumption
<1>3. /\ end' \in [Sides -> {"open", "fin", "gone"}] /\ wire' \in [Sides -> Seq(Nat)]
      /\ out' \in [Sides -> Seq(Nat)] /\ \A t \in Sides : Len(out'[t]) <= Window
      /\ \A t \in Sides : wire'[t] \in {wire[t], <<>>} /\ out'[t] \in {out[t], <<>>}
  BY <1>1, <1>2 DEF IInv, TypeOK
<1>4. Before'
  BY <1>1, <1>3, SidesOther DEF IInv, Before, TypeOK, proxy
<1> QED BY <1>1, <1>3, <1>4, EndpointInv DEF IInv, TypeOK

LEMMA ReceiveInv == ASSUME IInv, NEW s \in Sides, Receive(s) PROVE IInv'
<1>1. /\ got' = [got EXCEPT ![s] = @ \o out[s]] /\ out' = [out EXCEPT ![s] = <<>>]
      /\ UNCHANGED <<proxy, sent, end, sawEnd, wire>> /\ out[s] # <<>>
  BY DEF Receive
<1>2. <<>> \in Seq(Nat) /\ Len(<<>>) = 0 /\ 0 <= Window
  BY EmptySeq, TunnelAssumption
<1>3. got[s] \o out[s] \in Seq(Nat)
  BY DEF IInv, TypeOK
<1>4. /\ got' \in [Sides -> Seq(Nat)] /\ out' \in [Sides -> Seq(Nat)]
      /\ \A t \in Sides : Len(out'[t]) <= Window
  BY <1>1, <1>2, <1>3 DEF IInv, TypeOK
<1>5. stage = "open"
  BY <1>1 DEF IInv, Before
<1>6. Before'
  BY <1>1, <1>5 DEF Before, proxy
<1> QED BY <1>1, <1>4, <1>6, EndpointInv DEF IInv, TypeOK

LEMMA SeeEndInv == ASSUME IInv, NEW s \in Sides, SeeEnd(s) PROVE IInv'
<1>1. /\ sawEnd' = [sawEnd EXCEPT ![s] = TRUE] /\ fin[s]
      /\ UNCHANGED <<proxy, sent, end, got, wire, out>>
  BY DEF SeeEnd
<1>2. sawEnd' \in [Sides -> BOOLEAN]
  BY <1>1 DEF IInv, TypeOK
<1>3. Before'
  BY <1>1 DEF IInv, Before, proxy
<1> QED BY <1>1, <1>2, <1>3, EndpointInv DEF IInv, TypeOK

-----------------------------------------------------------------------------
(* The steps of the proxy.                                                 *)

\* The sizes of the peek that is next and of what it finds.
LEMMA PeekSize ==
    ASSUME IInv, stage = "peek"
    PROVE  /\ Want \in Nat \ {0} /\ Len(peeked) \in Nat /\ Want - Len(peeked) \in Nat
           /\ Ahead \in Seq(Nat) /\ Len(Ahead) \in Nat /\ Len(Ahead) <= Want
           /\ \/ peeks = PeekSizes /\ peeked = <<>> /\ Want = PeekSizes[1] /\ Len(PeekSizes) \in {1, 2}
              \/ /\ Len(PeekSizes) = 2 /\ peeks = <<PeekSizes[2]>> /\ Want = PeekSizes[2]
                 /\ Len(peeked) = PeekSizes[1]
<1>1. /\ Len(PeekSizes) \in {1, 2} /\ PeekSizes[1] \in Nat \ {0}
      /\ Len(PeekSizes) = 2 => PeekSizes[2] \in Nat \ {0} /\ PeekSizes[1] <= PeekSizes[2]
  BY TunnelAssumption DEF Last
<1>2. PeekSizes \in Seq(Nat \ {0})
  BY TunnelAssumption
<1>3. \/ peeks = PeekSizes /\ peeked = <<>>
      \/ Len(PeekSizes) = 2 /\ peeks = <<PeekSizes[2]>> /\ Len(peeked) = PeekSizes[1]
  BY DEF IInv, Peeking
<1>4. \/ peeks = PeekSizes /\ peeked = <<>> /\ Want = PeekSizes[1]
      \/ /\ Len(PeekSizes) = 2 /\ peeks = <<PeekSizes[2]>> /\ Want = PeekSizes[2]
         /\ Len(peeked) = PeekSizes[1]
  BY <1>1, <1>2, <1>3 DEF Want
<1>5. /\ peeked \in Seq(Nat) /\ wire["client"] \in Seq(Nat)
      /\ Len(peeked) \in Nat /\ Len(wire["client"]) \in Nat /\ (peeked = <<>> => Len(peeked) = 0)
  BY EmptyLen, SidesOther DEF IInv, TypeOK
<1>6. Want \in Nat \ {0} /\ Want - Len(peeked) \in Nat
  BY <1>1, <1>4, <1>5
<1>7. PICK t : t = Take(wire["client"], Want - Len(peeked))
  OBVIOUS
<1>8. t \in Seq(Nat) /\ Len(t) \in Nat /\ Len(t) <= Want - Len(peeked)
  BY <1>5, <1>6, <1>7, TakeDrop
<1>9. Ahead \in Seq(Nat) /\ Len(Ahead) = Len(peeked) + Len(t)
  BY <1>5, <1>7, <1>8, ConcatProperties DEF Ahead
<1> QED BY <1>1, <1>4, <1>5, <1>6, <1>8, <1>9

\* A peek disturbs neither the goroutines, which have not started, nor what has ended.
LEMMA PeekStep ==
    ASSUME IInv, PeekReads, peeked' \in Seq(Nat), peeks' \in Seq(Nat \ {0}),
           stage' \in {"peek", "dial", "failed"}, Peeking'
    PROVE  IInv'
<1>1. /\ stage = "peek" /\ UNCHANGED <<mode, bufSize, sent, end, got, sawEnd, copier, out, fin, wg>>
      /\ wire' = [wire EXCEPT !["client"] = Drop(@, Want - Len(peeked))]
  BY DEF PeekReads, sides
<1>2. wire' \in [Sides -> Seq(Nat)] /\ wire'["dest"] = wire["dest"]
  BY <1>1, PeekSize, TakeDrop, SidesOther DEF IInv, TypeOK
<1>3. TypeOK'
  BY <1>1, <1>2 DEF IInv, TypeOK
<1>4. Counting'
  BY <1>1 DEF IInv, Counting, Counts, Pc
<1>5. Before'
  BY <1>1, <1>2, SidesOther DEF IInv, Before
<1>6. ASSUME NEW s \in Sides PROVE Copying(s)'
  <2>1. copier[s] = IdleCopier /\ ~fin[Other(s)]
    BY <1>1, SidesOther DEF IInv, Copying, Before
  <2> QED BY <1>1, <2>1 DEF Copying, IdleCopier, Pc
<1> QED BY <1>3, <1>4, <1>5, <1>6 DEF IInv

LEMMA TailOfPeeks ==
    ASSUME NEW S, NEW q \in Seq(S)
    PROVE  /\ Len(q) = 1 => Tail(q) = <<>> /\ Tail(q) \in Seq(S)
           /\ Len(q) = 2 => Tail(q) = <<q[2]>> /\ Tail(q) \in Seq(S)
<1>1. CASE Len(q) = 1
  <2>1. q # <<>>
    BY <1>1, EmptySeq
  <2>2. Tail(q) \in Seq(S) /\ Len(Tail(q)) = 0
    BY <1>1, <2>1, HeadTailProperties
  <2>3. Tail(q) = <<>>
    BY <2>2, EmptySeq
  <2> QED BY <1>1, <2>2, <2>3
<1>2. CASE Len(q) = 2
  <2>1. q # <<>>
    BY <1>2, EmptySeq
  <2>2. PICK t : t = Tail(q)
    OBVIOUS
  <2>3. t \in Seq(S) /\ Len(t) = Len(q) - 1 /\ \A i \in 1..Len(t) : t[i] = q[i + 1]
    BY <2>1, <2>2, HeadTailProperties
  <2>4. Len(t) = 1
    BY <1>2, <2>3
  <2>5. t[1] = q[1 + 1]
    BY <2>3, <2>4
  <2>6. t = <<t[1]>>
    BY <2>3, <2>4
  <2> QED BY <1>2, <2>2, <2>3, <2>5, <2>6
<1> QED BY <1>1, <1>2

LEMMA PeekMatchInv == ASSUME IInv, PeekMatch PROVE IInv'
<1>1. /\ PeekReads /\ stage = "peek" /\ Len(Ahead) = Want /\ peeked' = Ahead /\ peeks' = Tail(peeks)
      /\ stage' = IF Len(peeks) = 1 THEN "dial" ELSE "peek"
  BY DEF PeekMatch, PeekReads
<1>2. peeks' \in Seq(Nat \ {0}) /\ Peeking'
  <2>1. CASE Len(peeks) = 1
    BY <1>1, <2>1, TailOfPeeks DEF IInv, TypeOK, Peeking
  <2>2. CASE Len(peeks) # 1
    <3>1. /\ peeks = PeekSizes /\ Len(PeekSizes) = 2 /\ PeekSizes \in Seq(Nat \ {0})
          /\ Len(peeked') = PeekSizes[1]
      BY <1>1, <2>2, PeekSize, TunnelAssumption
    <3>2. Tail(PeekSizes) = <<PeekSizes[2]>> /\ Tail(PeekSizes) \in Seq(Nat \ {0})
      BY <3>1, TailOfPeeks
    <3> QED BY <1>1, <3>1, <3>2 DEF Peeking
  <2> QED BY <2>1, <2>2
<1> QED BY <1>1, <1>2, PeekSize, PeekStep

LEMMA PeekShortInv == ASSUME IInv, PeekShort PROVE IInv'
<1>1. /\ PeekReads /\ stage = "peek" /\ Len(Ahead) < Want /\ Len(peeks) = 2 /\ peeks' = Tail(peeks)
      /\ stage' = stage /\ peeked' = Ahead \o [i \in 1..(Want - Len(Ahead)) |-> Zero]
  BY DEF PeekShort, PeekReads
<1>2. PICK z : z = [i \in 1..(Want - Len(Ahead)) |-> Zero]
  OBVIOUS
<1>3. Want - Len(Ahead) \in Nat
  BY <1>1, PeekSize
<1>4. z \in Seq(Nat) /\ Len(z) = Want - Len(Ahead)
  BY <1>2, <1>3 DEF Zero
<1>5. peeked' \in Seq(Nat) /\ Len(peeked') = Len(Ahead) + Len(z)
  BY <1>1, <1>2, <1>4, PeekSize, ConcatProperties
<1>6. Len(peeked') = Want
  BY <1>1, <1>4, <1>5, PeekSize
<1>7. peeks = PeekSizes /\ Len(PeekSizes) = 2 /\ PeekSizes \in Seq(Nat \ {0}) /\ Want = PeekSizes[1]
  <2>1. Len(<<PeekSizes[2]>>) = 1
    OBVIOUS
  <2>2. peeks # <<PeekSizes[2]>>
    BY <1>1, <2>1
  <2> QED BY <1>1, <2>2, PeekSize, TunnelAssumption
<1>8. Tail(PeekSizes) = <<PeekSizes[2]>> /\ Tail(PeekSizes) \in Seq(Nat \ {0})
  BY <1>7, TailOfPeeks
<1> QED BY <1>1, <1>5, <1>6, <1>7, <1>8, PeekStep DEF Peeking

LEMMA PeekFailsInv == ASSUME IInv, PeekFails PROVE IInv'
<1>1. PeekReads /\ stage' = "failed" /\ UNCHANGED <<peeked, peeks>>
  BY DEF PeekFails
<1> QED BY <1>1, PeekStep DEF IInv, TypeOK, Peeking

LEMMA DialInv == ASSUME IInv, Dial PROVE IInv'
<1>1. /\ stage = "dial" /\ stage' \in {"open", "failed"} /\ (stage' = "open" => fin' = fin)
      /\ UNCHANGED <<mode, bufSize, peeks, peeked, sent, end, got, sawEnd, wire, copier, out, wg>>
      /\ fin' \in {fin, [fin EXCEPT !["client"] = TRUE]}
  BY DEF Dial, sides
<1>2. TypeOK'
  BY <1>1 DEF IInv, TypeOK
<1>3. Counting' /\ Before' /\ Peeking'
  BY <1>1 DEF IInv, Counting, Counts, Pc, Before, Peeking
<1>4. ASSUME NEW s \in Sides PROVE Copying(s)'
  <2>1. copier[s] = IdleCopier /\ ~fin[Other(s)]
    BY <1>1, SidesOther DEF IInv, Copying, Before
  <2> QED BY <1>1, <2>1 DEF Copying, IdleCopier, Pc
<1> QED BY <1>2, <1>3, <1>4 DEF IInv

\* A step of the goroutine that copies from s leaves it with c.
LEMMA CopyStep ==
    ASSUME IInv, stage = "open", NEW s \in Sides, NEW c \in Copier,
           copier' = [copier EXCEPT ![s] = c],
           UNCHANGED <<mode, bufSize, stage, peeks, sides>>,
           peeked' \in Seq(Nat), wire' \in [Sides -> Seq(Nat)], out' \in [Sides -> Seq(Nat)],
           \A t \in Sides : Len(out'[t]) <= Window,
           fin' \in [Sides -> BOOLEAN], wg' \in 0..2, Counting',
           wire'[Other(s)] = wire[Other(s)], fin'[s] = fin[s], s = "dest" => peeked' = peeked,
           c.pc = "write" <=> c.buf # <<>>,
           c.last => wire'[s] = <<>> /\ end[s] # "open" /\ Held(s)' = <<>>,
           c.pc \notin {"read", "write"} => c.last \/ end[Other(s)] = "gone",
           fin'[Other(s)] => c.pc \in {"closeRead", "done"},
           c.pc = "wait" => mode = "proxied" /\ s = "dest",
           mode = "whole" => c.pc # "closeRead"
    PROVE  IInv'
<1>1. TypeOK'
  BY DEF IInv, TypeOK, sides
<1>2. Before' /\ Peeking'
  BY DEF IInv, Before, Peeking
<1>3. copier'[s] = c /\ \A t \in Sides : t # s => copier'[t] = copier[t]
  BY DEF IInv, TypeOK
<1>4. ASSUME NEW t \in Sides PROVE Copying(t)'
  <2>1. CASE t = s
    BY <1>3, <2>1 DEF Copying, Pc, sides
  <2>2. CASE t # s
    <3>1. t = Other(s) /\ Other(t) = s
      BY <2>2, SidesOther
    <3>2. Held(t)' = Held(t)
      BY <2>2, SidesOther DEF Held
    <3>3. Copying(t)
      BY DEF IInv
    <3>4. copier'[t] = copier[t] /\ wire'[t] = wire[t] /\ UNCHANGED <<stage, end, mode>>
      BY <1>3, <2>2, <3>1 DEF sides
    <3>5. fin'[Other(t)] = fin[Other(t)]
      BY <3>1
    <3> QED BY ONLY <3>2, <3>3, <3>4, <3>5 DEF Copying, Pc, IdleCopier
  <2> QED BY <2>1, <2>2
<1> QED BY <1>1, <1>2, <1>4 DEF IInv

\* Only the last steps count.
LEMMA CountingKept ==
    ASSUME IInv, NEW s \in Sides, NEW c \in Copier, copier' = [copier EXCEPT ![s] = c],
           UNCHANGED <<mode, wg>>, Pc(s) \in {"read", "write", "closeWrite"},
           c.pc \in {"read", "write", "closeWrite"}
    PROVE  Counting' /\ wg' \in 0..2
<1>1. copier'[s] = c /\ \A t \in Sides : t # s => copier'[t] = copier[t]
  BY DEF IInv, TypeOK
<1>2. \A t \in Sides : Counts(t)' = Counts(t)
  BY <1>1 DEF Counts, Pc
<1> QED BY <1>2, SidesOther DEF IInv, Counting, TypeOK

LEMMA CopyReadInv == ASSUME IInv, NEW s \in Sides, CopyRead(s) PROVE IInv'
<1>1. /\ stage = "open" /\ Pc(s) = "read"
      /\ UNCHANGED <<mode, bufSize, stage, peeks, sides, out, fin, wg>>
  BY DEF CopyRead
<1>2. wire[s] \in Seq(Nat) /\ peeked \in Seq(Nat) /\ Len(peeked) \in Nat /\ bufSize \in Nat \ {0}
  BY TunnelAssumption, EmptyLen DEF IInv, TypeOK
<1>3. ASSUME NEW bytes \in Seq(Nat), NEW last \in BOOLEAN, HasRead(s, bytes, last),
             wire' \in [Sides -> Seq(Nat)], peeked' \in Seq(Nat),
             wire'[Other(s)] = wire[Other(s)], s = "dest" => peeked' = peeked,
             last => wire'[s] = <<>> /\ end[s] # "open" /\ Held(s)' = <<>>,
             bytes = <<>> => last
      PROVE  IInv'
  <2>1. PICK c : c = [pc |-> IF bytes = <<>> THEN "closeWrite" ELSE "write",
                      buf |-> bytes, last |-> last]
    OBVIOUS
  <2>2. /\ c \in Copier /\ c.pc \in {"closeWrite", "write"} /\ c.last = last /\ c.buf = bytes
        /\ c.pc = "write" <=> bytes # <<>>
    BY <2>1 DEF Copier
  <2>3. copier' = [copier EXCEPT ![s] = c]
    BY <1>3, <2>1 DEF HasRead
  <2>4. Counting' /\ wg' \in 0..2
    BY <1>1, <2>2, <2>3, CountingKept
  <2>5. ~fin[Other(s)]
    BY <1>1 DEF IInv, Copying
  <2> QED BY <1>1, <1>3, <2>2, <2>3, <2>4, <2>5, CopyStep DEF IInv, TypeOK
<1>4. CASE ReadPeeked(s)
  <2>1. /\ s = "client" /\ peeked # <<>> /\ Len(peeked) <= bufSize
        /\ HasRead(s, peeked \o Take(wire[s], bufSize - Len(peeked)),
                   AtEnd(s) /\ Len(peeked) < bufSize)
        /\ wire' = [wire EXCEPT ![s] = Drop(@, bufSize - Len(peeked))]
        /\ peeked' = <<>>
    BY <1>4 DEF ReadPeeked
  <2>2. PICK t, d : t = Take(wire[s], bufSize - Len(peeked)) /\ d = Drop(wire[s], bufSize - Len(peeked))
    OBVIOUS
  <2>3. t \in Seq(Nat) /\ d \in Seq(Nat) /\ (wire[s] = <<>> => d = <<>>)
    <3>1. bufSize - Len(peeked) \in Nat
      BY <1>2, <2>1
    <3>2. t \in Seq(Nat) /\ d \in Seq(Nat)
      BY <1>2, <2>2, <3>1, TakeDrop
    <3>3. \A n \in Nat : Drop(<<>>, n) = <<>>
      BY EmptyLen DEF Drop
    <3> QED BY <2>2, <3>1, <3>2, <3>3
  <2>4. peeked \o t \in Seq(Nat) /\ peeked \o t # <<>>
    <3>1. peeked \o t \in Seq(Nat) /\ Len(peeked \o t) = Len(peeked) + Len(t)
      BY <1>2, <2>3, ConcatProperties
    <3>2. Len(t) \in Nat /\ Len(peeked) > 0
      BY <1>2, <2>1, <2>3, EmptyLen
    <3> QED BY <3>1, <3>2, EmptyLen
  <2>5. wire' = [wire EXCEPT ![s] = d] /\ wire' \in [Sides -> Seq(Nat)]
    BY <2>1, <2>2, <2>3 DEF IInv, TypeOK
  <2>6. wire'[s] = d /\ wire'[Other(s)] = wire[Other(s)]
    BY <2>5, SidesOther DEF IInv, TypeOK
  <2>7. Held(s)' = <<>> /\ peeked' \in Seq(Nat)
    BY <2>1, EmptySeq DEF Held
  <2>8. AtEnd(s) => wire[s] = <<>> /\ end[s] # "open"
    BY DEF AtEnd
  <2> QED BY <1>3, <2>1, <2>2, <2>3, <2>4, <2>5, <2>6, <2>7, <2>8
<1>5. CASE ReadPartOfPeeked(s)
  <2>1. /\ s = "client" /\ Len(peeked) > bufSize /\ HasRead(s, Take(peeked, bufSize), FALSE)
        /\ peeked' = Drop(peeked, bufSize) /\ wire' = wire
    BY <1>5 DEF ReadPartOfPeeked
  <2>2. Take(peeked, bufSize) \in Seq(Nat) /\ Drop(peeked, bufSize) \in Seq(Nat)
        /\ Len(Take(peeked, bufSize)) = bufSize
    BY <1>2, <2>1, TakeDrop
  <2>3. Take(peeked, bufSize) # <<>>
    BY <1>2, <2>2, EmptyLen
  <2> QED BY <1>3, <2>1, <2>2, <2>3, SidesOther DEF IInv, TypeOK
<1>6. CASE ReadConn(s)
  <2>1. /\ s = "client" => peeked = <<>>
        /\ Readable(s) /\ HasRead(s, Take(wire[s], bufSize), AtEnd(s))
        /\ wire' = [wire EXCEPT ![s] = Drop(@, bufSize)] /\ peeked' = peeked
    BY <1>6 DEF ReadConn
  <2>2. PICK t, d : t = Take(wire[s], bufSize) /\ d = Drop(wire[s], bufSize)
    OBVIOUS
  <2>3. t \in Seq(Nat) /\ d \in Seq(Nat) /\ (wire[s] = <<>> => d = <<>>)
    <3>1. PICK q : q = wire[s] /\ q \in Seq(Nat)
      BY <1>2
    <3>2. t \in Seq(Nat) /\ d \in Seq(Nat)
      BY <1>2, <2>2, <3>1, TakeDrop
    <3>3. ~(bufSize < 0)
      BY <1>2
    <3>4. q = <<>> => d = <<>>
      BY <2>2, <3>1, <3>3, EmptySeq DEF Drop
    <3> QED BY <3>1, <3>2, <3>4
  <2>4. t = <<>> => wire[s] = <<>>
    <3>1. Len(t) = IF bufSize < Len(wire[s]) THEN bufSize ELSE Len(wire[s])
      BY <1>2, <2>2, TakeDrop
    <3>2. Len(wire[s]) \in Nat
      BY <1>2, EmptyLen
    <3> QED BY <1>2, <2>3, <3>1, <3>2, EmptyLen
  <2>5. wire' = [wire EXCEPT ![s] = d] /\ wire' \in [Sides -> Seq(Nat)]
    BY <2>1, <2>2, <2>3 DEF IInv, TypeOK
  <2>6. wire'[s] = d /\ wire'[Other(s)] = wire[Other(s)]
    BY <2>5, SidesOther DEF IInv, TypeOK
  <2>7. Held(s)' = <<>>
    BY <2>1 DEF Held
  <2>8. AtEnd(s) \in BOOLEAN /\ (AtEnd(s) <=> wire[s] = <<>> /\ end[s] # "open")
    BY DEF AtEnd
  <2>9. t = <<>> => AtEnd(s)
    BY <2>1, <2>4, <2>8 DEF Readable
  <2> QED BY <1>2, <1>3, <2>1, <2>2, <2>3, <2>5, <2>6, <2>7, <2>8, <2>9
<1> QED BY <1>4, <1>5, <1>6 DEF CopyRead

LEMMA CopyWriteInv == ASSUME IInv, NEW s \in Sides, CopyWrite(s) PROVE IInv'
<1> DEFINE o == Other(s)
           room == Window - Len(out[o])
           rest == Drop(copier[s].buf, room)
           next == IF rest # <<>> THEN "write" ELSE IF copier[s].last THEN "closeWrite" ELSE "read"
<1>1. /\ Pc(s) = "write" /\ end[o] # "gone" /\ room > 0
      /\ out' = [out EXCEPT ![o] = @ \o Take(copier[s].buf, room)]
      /\ copier' = [copier EXCEPT ![s].buf = rest, ![s].pc = next]
      /\ UNCHANGED <<mode, bufSize, stage, peeks, peeked, sides, wire, fin, wg>>
  BY DEF CopyWrite
<1>2. /\ o \in Sides /\ s \in Sides /\ out[o] \in Seq(Nat) /\ Len(out[o]) \in Nat
      /\ copier[s] \in Copier /\ copier[s].buf \in Seq(Nat) /\ copier[s].last \in BOOLEAN
      /\ Window \in Nat /\ room \in Nat
  <2>1. o \in Sides
    BY SidesOther
  <2>2. out[o] \in Seq(Nat) /\ copier[s] \in Copier
    BY <2>1 DEF IInv, TypeOK
  <2>3. Len(out[o]) \in Nat /\ Window \in Nat
    BY <2>2, EmptyLen, TunnelAssumption
  <2>4. room \in Nat
    BY <1>1, <2>3
  <2> QED BY <2>1, <2>2, <2>3, <2>4 DEF Copier
<1>3. PICK t : t = Take(copier[s].buf, room)
  OBVIOUS
<1>4. t \in Seq(Nat) /\ Len(t) \in Nat /\ Len(t) <= room /\ rest \in Seq(Nat)
  <2>1. t \in Seq(Nat) /\ rest \in Seq(Nat)
    BY <1>2, <1>3, TakeDrop
  <2>2. Len(t) = IF room < Len(copier[s].buf) THEN room ELSE Len(copier[s].buf)
    BY <1>2, <1>3, TakeDrop
  <2>3. Len(t) \in Nat /\ Len(copier[s].buf) \in Nat
    BY <1>2, <2>1, EmptyLen
  <2>4. \A b, r \in Int : (IF r < b THEN r ELSE b) <= r
    OBVIOUS
  <2>5. Len(t) <= room
    <3> HIDE DEF room
    <3> QED BY <1>2, <2>2, <2>3, <2>4
  <2> QED BY <2>1, <2>3, <2>5
<1>5. out[o] \o t \in Seq(Nat) /\ Len(out[o] \o t) = Len(out[o]) + Len(t)
  BY <1>2, <1>4, ConcatProperties
<1>6. Len(out[o] \o t) <= Window
  BY <1>2, <1>4, <1>5
<1>7. out' = [out EXCEPT ![o] = out[o] \o t]
  BY <1>1, <1>3
<1>8. out' \in [Sides -> Seq(Nat)] /\ \A u \in Sides : Len(out'[u]) <= Window
  BY <1>2, <1>5, <1>6, <1>7 DEF IInv, TypeOK
<1> HIDE DEF room, rest
<1>9. PICK c : c = [copier[s] EXCEPT !.buf = rest, !.pc = next]
  OBVIOUS
<1>10. /\ c \in Copier /\ c.pc \in {"read", "write", "closeWrite"} /\ c.last = copier[s].last
       /\ c.buf = rest /\ (c.pc = "write" <=> rest # <<>>) /\ (c.pc = "closeWrite" => c.last)
  BY <1>2, <1>4, <1>9 DEF Copier
<1>11. copier' = [copier EXCEPT ![s] = c]
  BY <1>1, <1>9
<1>12. Counting' /\ wg' \in 0..2
  BY <1>1, <1>10, <1>11, CountingKept
<1>13. stage = "open" /\ ~fin[Other(s)]
  BY <1>1 DEF IInv, Copying, IdleCopier, Pc
<1>14. copier[s].last => wire'[s] = <<>> /\ end[s] # "open" /\ Held(s)' = <<>>
  BY <1>1 DEF IInv, Copying, Held
<1>15. /\ peeked' \in Seq(Nat) /\ wire' \in [Sides -> Seq(Nat)] /\ fin' \in [Sides -> BOOLEAN]
       /\ UNCHANGED <<mode, bufSize, stage, peeks, sides, peeked, wire, fin>>
  BY <1>1 DEF IInv, TypeOK
<1>16. /\ c.pc = "write" <=> c.buf # <<>>
       /\ c.last => wire'[s] = <<>> /\ end[s] # "open" /\ Held(s)' = <<>>
       /\ c.pc \notin {"read", "write"} => c.last
       /\ ~fin'[Other(s)] /\ c.pc # "wait" /\ c.pc # "closeRead"
  BY <1>10, <1>13, <1>14, <1>15
<1> QED BY <1>8, <1>10, <1>11, <1>12, <1>13, <1>15, <1>16, CopyStep

LEMMA CopyWriteFailsInv == ASSUME IInv, NEW s \in Sides, CopyWriteFails(s) PROVE IInv'
<1>1. PICK next \in {"closeWrite"} \cup (IF copier[s].last THEN {} ELSE {"read"}) :
         copier' = [copier EXCEPT ![s].buf = <<>>, ![s].pc = next]
  BY DEF CopyWriteFails
<1>2. /\ Pc(s) = "write" /\ end[Other(s)] = "gone"
      /\ UNCHANGED <<mode, bufSize, stage, peeks, peeked, sides, wire, out, fin, wg>>
  BY DEF CopyWriteFails
<1>3. copier[s] \in Copier /\ <<>> \in Seq(Nat) /\ next \in {"closeWrite", "read"}
  BY <1>1, EmptySeq DEF IInv, TypeOK
<1>4. PICK c : c = [copier[s] EXCEPT !.buf = <<>>, !.pc = next]
  OBVIOUS
<1>5. c \in Copier /\ c.pc = next /\ c.buf = <<>> /\ c.last = copier[s].last
  BY <1>3, <1>4 DEF Copier
<1>6. copier' = [copier EXCEPT ![s] = c]
  BY <1>1, <1>4
<1>7. Counting' /\ wg' \in 0..2
  BY <1>2, <1>3, <1>5, <1>6, CountingKept
<1>8. stage = "open" /\ ~fin[Other(s)]
  BY <1>2 DEF IInv, Copying, IdleCopier, Pc
<1>9. copier[s].last => wire'[s] = <<>> /\ end[s] # "open" /\ Held(s)' = <<>>
  BY <1>2 DEF IInv, Copying, Held
<1> QED BY <1>2, <1>3, <1>5, <1>6, <1>7, <1>8, <1>9, CopyStep DEF IInv, TypeOK

\* The goroutine has stopped reading and goes to pc.
LEMMA CloseStep ==
    ASSUME IInv, NEW s \in Sides, NEW pc \in {"wait", "closeRead", "done"}, Goes(s, pc), closing,
           Pc(s) \in {"closeWrite", "wait", "closeRead"},
           fin' \in [Sides -> BOOLEAN], fin'[s] = fin[s],
           fin'[Other(s)] => pc \in {"closeRead", "done"},
           wg' = 2 - Counts("client")' - Counts("dest")',
           pc = "wait" => mode = "proxied" /\ s = "dest",
           mode = "whole" => pc # "closeRead"
    PROVE  IInv'
<1>1. copier[s] \in Copier
  BY DEF IInv, TypeOK
<1>2. PICK c : c = [copier[s] EXCEPT !.pc = pc]
  OBVIOUS
<1>3. c \in Copier /\ c.pc = pc /\ c.buf = copier[s].buf /\ c.last = copier[s].last
  BY <1>1, <1>2 DEF Copier
<1>4. copier' = [copier EXCEPT ![s] = c]
  BY <1>2 DEF Goes
<1>5. wg' \in 0..2 /\ Counting'
  BY DEF Counts, Counting
<1>6. /\ stage = "open" /\ copier[s].buf = <<>> /\ (copier[s].last \/ end[Other(s)] = "gone")
      /\ copier[s].last => wire[s] = <<>> /\ end[s] # "open" /\ Held(s) = <<>>
  BY DEF IInv, Copying, IdleCopier, Pc
<1>7. UNCHANGED <<mode, bufSize, stage, peeks, peeked, sides, wire, out>> /\ Held(s)' = Held(s)
  BY DEF closing, Held
<1> QED BY <1>3, <1>4, <1>5, <1>6, <1>7, CopyStep DEF IInv, TypeOK

LEMMA CloseInv == ASSUME IInv, NEW s \in Sides, Close(s) PROVE IInv'
<1>0. closing /\ UNCHANGED mode /\ Other(s) \in Sides /\ Other(s) # s
  BY SidesOther DEF Close, CopyCloseWrite, CopyCountWrite, CopyWait, CopyCloseRead, CopyDone, closing
<1>1. /\ fin \in [Sides -> BOOLEAN] /\ copier \in [Sides -> Copier] /\ wg \in 0..2
      /\ wg = 2 - Counts("client") - Counts("dest") /\ mode \in Mode
  BY TunnelAssumption DEF IInv, TypeOK, Counting
<1>open. stage = "open"
  BY DEF IInv, Copying, IdleCopier, Pc, Close, CopyCloseWrite, CopyCountWrite, CopyWait, CopyCloseRead,
         CopyDone
<1>2. ASSUME NEW pc, Goes(s, pc)
      PROVE  Pc(s)' = pc /\ \A t \in Sides : t # s => Pc(t)' = Pc(t)
  BY <1>1, <1>2 DEF Goes, Pc, Copier
<1>3. CASE CopyCloseWrite(s)
  <2>1. /\ Pc(s) = "closeWrite" /\ mode # "whole" /\ ~Counted(Other(s)) /\ Goes(s, "closeRead")
        /\ fin' = [fin EXCEPT ![Other(s)] = TRUE] /\ wg' = wg
    BY <1>3 DEF CopyCloseWrite
  <2>2. ~(mode = "proxied" /\ s = "dest")
    BY <2>1, SidesOther DEF Counted
  <2>3. Counts("client")' = Counts("client") /\ Counts("dest")' = Counts("dest")
    BY <1>0, <1>2, <2>1, <2>2, SidesOther DEF Counts
  <2> QED BY <1>0, <1>1, <2>1, <2>3, CloseStep
<1>4. CASE CopyCountWrite(s)
  <2>1. Pc(s) = "closeWrite" /\ Counted(Other(s)) /\ Goes(s, "wait") /\ wg' = wg - 1 /\ fin' = fin
    BY <1>4 DEF CopyCountWrite
  <2>2. mode = "proxied" /\ s = "dest"
    BY <2>1, SidesOther DEF Counted
  <2>3. /\ Counts("client")' = Counts("client") /\ Counts("dest")' = 1 /\ Counts("dest") = 0
        /\ Counts("client") \in {0, 1}
    BY <1>0, <1>2, <2>1, <2>2, SidesOther DEF Counts
  <2>4. ~fin[Other(s)]
    BY <1>open, <2>1 DEF IInv, Copying
  <2>5. wg' = 2 - Counts("client")' - Counts("dest")'
    BY <1>1, <2>1, <2>3
  <2> QED BY <1>0, <1>1, <2>1, <2>2, <2>4, <2>5, CloseStep
<1>5. CASE CopyWait(s)
  <2>1. Pc(s) = "wait" /\ Goes(s, "closeRead") /\ wg' = wg /\ fin' = [fin EXCEPT ![Other(s)] = TRUE]
    BY <1>5 DEF CopyWait
  <2>2. mode = "proxied" /\ s = "dest"
    BY <2>1 DEF IInv, Copying
  <2>3. Counts("client")' = Counts("client") /\ Counts("dest")' = Counts("dest")
    BY <1>0, <1>2, <2>1, <2>2, SidesOther DEF Counts
  <2> QED BY <1>0, <1>1, <2>1, <2>2, <2>3, CloseStep
<1>6. CASE CopyCloseRead(s)
  <2>1. /\ Pc(s) = "closeRead" /\ Goes(s, "done") /\ fin' = fin
        /\ wg' = IF Counted(s) THEN wg - 1 ELSE wg
    BY <1>6 DEF CopyCloseRead
  <2>2. mode # "whole"
    BY <2>1 DEF IInv, Copying
  <2>3. CASE s = "client"
    <3>1. /\ Counts("dest")' = Counts("dest") /\ Counts("client") = 0
          /\ Counts("client")' = IF mode = "proxied" THEN 1 ELSE 0
      BY <1>0, <1>2, <2>1, <2>2, <2>3, SidesOther DEF Counts
    <3>2. wg' = IF mode = "proxied" THEN wg - 1 ELSE wg
      BY <2>1, <2>3 DEF Counted
    <3>3. wg' = 2 - Counts("client")' - Counts("dest")'
      BY <1>1, <3>1, <3>2 DEF Counts
    <3> QED BY <1>0, <1>1, <2>1, <3>3, CloseStep
  <2>4. CASE s = "dest"
    <3>1. Counts("client")' = Counts("client") /\ Counts("dest")' = Counts("dest")
      BY <1>0, <1>2, <2>1, <2>2, <2>4, SidesOther DEF Counts
    <3>2. wg' = wg
      BY <2>1, <2>4 DEF Counted
    <3> QED BY <1>0, <1>1, <2>1, <3>1, <3>2, CloseStep
  <2> QED BY <2>3, <2>4, SidesOther
<1>7. CASE CopyDone(s)
  <2>1. Pc(s) = "closeWrite" /\ mode = "whole" /\ Goes(s, "done") /\ fin' = fin /\ wg' = wg - 1
    BY <1>7 DEF CopyDone
  <2>2. /\ Counts(s) = 0 /\ Counts(s)' = 1 /\ Counts(Other(s))' = Counts(Other(s))
        /\ Counts(Other(s)) \in {0, 1}
    BY <1>0, <1>2, <2>1, SidesOther DEF Counts
  <2>3. wg' = 2 - Counts("client")' - Counts("dest")'
    BY <1>1, <2>1, <2>2, SidesOther
  <2> QED BY <1>0, <1>1, <2>1, <2>3, CloseStep
<1> QED BY <1>3, <1>4, <1>5, <1>6, <1>7 DEF Close

\* Both goroutines are done when a connection is closed as a whole.
LEMMA CloseBothDone == ASSUME IInv, CloseBoth PROVE \A s \in Sides : Pc(s) = "done"
BY SidesOther DEF CloseBoth, IInv, Counting, Counts

LEMMA CloseBothInv == ASSUME IInv, CloseBoth PROVE IInv'
<1>1. fin' = [s \in Sides |-> TRUE] /\ UNCHANGED <<copier, wg>> /\ closing
  BY DEF CloseBoth
<1>2. UNCHANGED <<mode, bufSize, stage, peeks, peeked, sides, wire, out>>
  BY <1>1 DEF closing
<1>3. stage = "open"
  BY CloseBothDone, SidesOther DEF IInv, Copying, IdleCopier, Pc
<1>4. TypeOK'
  BY <1>1, <1>2 DEF IInv, TypeOK, sides
<1>5. Counting' /\ Before' /\ Peeking'
  BY <1>1, <1>2, <1>3 DEF IInv, Counting, Counts, Pc, Before, Peeking
<1>6. ASSUME NEW s \in Sides PROVE Copying(s)'
  BY <1>1, <1>2, <1>3, CloseBothDone, SidesOther DEF IInv, Copying, Pc, Held, sides
<1> QED BY <1>4, <1>5, <1>6 DEF IInv

LEMMA NextInv == IInv /\ [Next]_vars => IInv'
<1> SUFFICES ASSUME IInv, [Next]_vars PROVE IInv'
  OBVIOUS
<1>1. CASE UNCHANGED vars
  BY <1>1 DEF vars, sides, IInv, TypeOK, Counting, Counts, Before, Peeking, Copying, Pc, Held
<1>2. CASE Next
  <2>1. CASE Peek
    BY <2>1, PeekMatchInv, PeekShortInv, PeekFailsInv DEF Peek
  <2>2. ASSUME NEW s \in Sides, Endpoint(s) PROVE IInv'
    BY <2>2, SendInv, EndInv, LeaveInv, ReceiveInv, SeeEndInv DEF Endpoint
  <2>3. ASSUME NEW s \in Sides, Copy(s) PROVE IInv'
    BY <2>3, CopyReadInv, CopyWriteInv, CopyWriteFailsInv, CloseInv DEF Copy
  <2> QED BY <1>1, <1>2, <2>1, <2>2, <2>3, DialInv, CloseBothInv DEF Next, Rest
<1> QED BY <1>1, <1>2

\* The goroutines and the WaitGroups of a tunnel: who has counted, who has stopped reading
\* and why, and whom an end may already have been announced to.
THEOREM Inductive == Spec => []IInv
<1> QED BY InitInv, NextInv, PTL DEF Spec

\* The window is not exceeded, and no WaitGroup's counter is taken below 0, which would
\* be a panic (forward_connection.go:49, peeker.go:75).
THEOREM TypeCorrect == Spec => []TypeOK
<1>1. IInv => TypeOK
  BY DEF IInv
<1> QED BY <1>1, Inductive, PTL

-----------------------------------------------------------------------------
(* The inductive invariant of the data.                                    *)

LEMMA InitStream == Init => StreamInv
<1> SUFFICES ASSUME Init PROVE StreamInv
  OBVIOUS
<1>1. ASSUME NEW s \in Sides PROVE InOrder(s)
  <2>1. /\ sent[s] = 0 /\ got[Other(s)] = <<>> /\ out[Other(s)] = <<>> /\ copier[s].buf = <<>>
        /\ Held(s) = <<>> /\ wire[s] = <<>>
    BY SidesOther DEF Init, Held
  <2>2. Chain(<<>>, <<>>, <<>>, <<>>, <<>>, 0)
    BY StretchEmpty DEF Chain
  <2> QED BY <2>1, <2>2 DEF InOrder
<1> QED BY <1>1, SidesOther DEF Init, StreamInv, FirstSegment, Seen

\* A stream that no step touches.
LEMMA Kept ==
    ASSUME NEW s \in Sides, InOrder(s),
           UNCHANGED <<got[Other(s)], out[Other(s)], copier[s].buf, Held(s), wire[s], sent[s], end[s]>>
    PROVE  InOrder(s)'
BY DEF InOrder

LEMMA SendStream ==
    ASSUME IInv, StreamInv, NEW s \in Sides, Send(s)
    PROVE  StreamInv'
<1>1. PICK more : more = [i \in 1..Segment(s) |-> sent[s] + i]
  OBVIOUS
<1>2. /\ wire' = [wire EXCEPT ![s] = @ \o more] /\ sent' = [sent EXCEPT ![s] = @ + Segment(s)]
      /\ UNCHANGED <<proxy, end, got, sawEnd, out>> /\ end[s] = "open" /\ (s = "dest" => stage = "open")
  BY <1>1 DEF Send
<1>3. /\ wire'[s] = wire[s] \o more /\ sent'[s] = sent[s] + Segment(s)
      /\ \A t \in Sides : t # s => wire'[t] = wire[t] /\ sent'[t] = sent[t]
  BY <1>2 DEF IInv, TypeOK
<1>4. sent[s] \in Nat /\ Segment(s) \in Nat \ {0} /\ First \in Nat
  BY TunnelAssumption DEF IInv, TypeOK, Segment
<1>5. Stretch(more, sent[s], sent[s] + Segment(s)) /\ more \in Seq(Nat) /\ Len(more) = Segment(s)
  BY <1>1, <1>4, StretchNew
<1>6. ~Hopeless
  BY <1>2, SidesOther DEF Hopeless
<1>7. ASSUME NEW t \in Sides, Intact(t)' PROVE InOrder(t)'
  <2>1. InOrder(t)
    BY <1>2, <1>6, <1>7 DEF Intact, proxy, StreamInv
  <2>2. CASE t = s
    <3>1. Chain(got[Other(s)], out[Other(s)], copier[s].buf, Held(s), wire[s], sent[s])
      BY <1>2, <2>1, <2>2 DEF InOrder
    <3>2. Chain(got[Other(s)], out[Other(s)], copier[s].buf, Held(s), wire[s] \o more,
                sent[s] + Segment(s))
      BY <1>5, <3>1, ChainSend
    <3>3. sent'[s] \in 0..sent'[s]
      BY <1>3, <1>4
    <3> QED BY <1>2, <1>3, <2>2, <3>2, <3>3 DEF InOrder, proxy, Held
  <2>3. CASE t # s
    BY <1>2, <1>3, <2>1, <2>3, Kept DEF proxy, Held
  <2> QED BY <2>2, <2>3
<1>8. FirstSegment'
  <2> SUFFICES ASSUME stage = "peek", peeks = PeekSizes PROVE wire'["client"] = <<>> \/ Len(wire'["client"]) >= First
    BY <1>2 DEF FirstSegment, proxy
  <2>1. s = "client"
    BY <1>2, SidesOther
  <2>2. wire[s] \in Seq(Nat) /\ Len(wire[s]) \in Nat /\ (wire[s] = <<>> <=> Len(wire[s]) = 0)
    BY EmptyLen DEF IInv, TypeOK
  <2>3. Len(wire'[s]) = Len(wire[s]) + Segment(s)
    <3>1. Len(wire[s] \o more) = Len(wire[s]) + Len(more)
      BY <1>5, <2>2, ConcatProperties
    <3> QED BY <1>3, <1>5, <3>1
  <2>4. CASE wire[s] = <<>>
    <3>1. /\ end[Other(s)] = "open" /\ got[Other(s)] = <<>> /\ out[Other(s)] = <<>>
          /\ copier[s].buf = <<>>
      BY <2>1, SidesOther DEF IInv, Before, Copying, IdleCopier
    <3>2. Held(s) = <<>>
      BY <2>1, PeekSize DEF Held, IInv, Peeking
    <3>3. InOrder(s)
      BY <1>6, <3>1 DEF StreamInv, Intact
    <3>4. Chain(<<>>, <<>>, <<>>, <<>>, <<>>, sent[s])
      BY <1>2, <2>4, <3>1, <3>2, <3>3 DEF InOrder
    <3>5. sent[s] = 0
      BY <3>4, ChainGot, EmptyLen
    <3> QED BY <1>4, <2>1, <2>2, <2>3, <2>4, <3>5 DEF Segment
  <2>5. CASE wire[s] # <<>>
    <3>1. Len(wire[s]) >= First
      BY <2>1, <2>5 DEF StreamInv, FirstSegment
    <3> QED BY <1>4, <2>1, <2>2, <2>3, <3>1
  <2> QED BY <2>4, <2>5
<1>9. Seen'
  BY <1>2 DEF StreamInv, Seen, proxy
<1> QED BY <1>7, <1>8, <1>9 DEF StreamInv

LEMMA EndStream ==
    ASSUME IInv, StreamInv, NEW s \in Sides, End(s)
    PROVE  StreamInv'
<1>1. /\ end' = [end EXCEPT ![s] = "fin"] /\ UNCHANGED <<proxy, sent, got, sawEnd, wire, out>>
      /\ end[s] = "open"
  BY DEF End
<1>2. \A t \in Sides : end'[t] = end[t] \/ (end[t] = "open" /\ end'[t] = "fin")
  <2>1. end \in [Sides -> {"open", "fin", "gone"}]
    BY DEF IInv, TypeOK
  <2>2. end'[s] = "fin" /\ \A t \in Sides : t # s => end'[t] = end[t]
    BY <1>1, <2>1
  <2> QED BY <1>1, <2>2
<1>3. ASSUME NEW t \in Sides, Intact(t)' PROVE InOrder(t)'
  <2>1. InOrder(t)
    BY <1>1, <1>2, <1>3, SidesOther DEF StreamInv, Intact, Hopeless, proxy
  <2> QED BY <1>1, <1>2, <2>1 DEF InOrder, proxy, Held
<1>4. FirstSegment' /\ Seen'
  BY <1>1 DEF StreamInv, FirstSegment, Seen, proxy
<1> QED BY <1>3, <1>4 DEF StreamInv

LEMMA LeaveStream ==
    ASSUME IInv, StreamInv, NEW s \in Sides, Leave(s)
    PROVE  StreamInv'
<1>1. /\ end' = [end EXCEPT ![s] = "gone"] /\ UNCHANGED <<proxy, sent, got, sawEnd>>
      /\ wire' \in {wire, [wire EXCEPT ![s] = <<>>]} /\ out' = [out EXCEPT ![s] = <<>>]
  BY DEF Leave
<1>2. /\ end'[s] = "gone" /\ wire'[s] \in {wire[s], <<>>} /\ out'[s] = <<>>
      /\ \A t \in Sides : t # s => end'[t] = end[t] /\ wire'[t] = wire[t] /\ out'[t] = out[t]
  BY <1>1 DEF IInv, TypeOK
<1>3. ASSUME NEW t \in Sides, Intact(t)' PROVE InOrder(t)'
  <2>1. t = s
    BY <1>2, <1>3, SidesOther DEF Intact
  <2>2. InOrder(s)
    BY <1>1, <1>2, <1>3, <2>1, SidesOther DEF StreamInv, Intact, Hopeless, proxy
  <2>3. PICK m \in 0..sent[s] :
           Chain(got[Other(s)], out[Other(s)], copier[s].buf, Held(s), wire[s], m)
    BY <2>2 DEF InOrder
  <2>4. m \in Nat /\ sent[s] \in Nat
    BY DEF IInv, TypeOK
  <2>5. PICK n \in 0..m :
           Chain(got[Other(s)], out[Other(s)], copier[s].buf, Held(s), <<>>, n)
    BY <2>3, <2>4, ChainLose
  <2>6. n \in 0..sent[s]
    BY <2>4
  <2>7. out'[Other(s)] = out[Other(s)] /\ Held(s)' = Held(s) /\ copier'[s] = copier[s]
    BY <1>1, <1>2, SidesOther DEF proxy, Held
  <2> QED BY <1>1, <1>2, <2>1, <2>3, <2>5, <2>6, <2>7 DEF InOrder
<1>4. FirstSegment'
  BY <1>1, <1>2, SidesOther DEF StreamInv, FirstSegment, proxy
<1>5. Seen'
  BY <1>1, <1>2 DEF StreamInv, Seen, proxy
<1> QED BY <1>3, <1>4, <1>5 DEF StreamInv

LEMMA ReceiveStream ==
    ASSUME IInv, StreamInv, NEW s \in Sides, Receive(s)
    PROVE  StreamInv'
<1>1. /\ got' = [got EXCEPT ![s] = @ \o out[s]] /\ out' = [out EXCEPT ![s] = <<>>]
      /\ UNCHANGED <<proxy, sent, end, sawEnd, wire>>
  BY DEF Receive
<1>2. /\ got'[s] = got[s] \o out[s] /\ out'[s] = <<>>
      /\ \A t \in Sides : t # s => got'[t] = got[t] /\ out'[t] = out[t]
  BY <1>1 DEF IInv, TypeOK
<1>3. ASSUME NEW t \in Sides, Intact(t)' PROVE InOrder(t)'
  <2>1. InOrder(t)
    BY <1>1, <1>3 DEF StreamInv, Intact, Hopeless, proxy
  <2>2. CASE Other(t) = s
    <3>1. PICK m \in 0..sent[t] :
             /\ Chain(got[s], out[s], copier[t].buf, Held(t), wire[t], m)
             /\ end[t] # "gone" => m = sent[t]
      BY <2>1, <2>2 DEF InOrder
    <3>2. Chain(got[s] \o out[s], <<>>, copier[t].buf, Held(t), wire[t], m)
      BY <3>1, ChainReceive
    <3> QED BY <1>1, <1>2, <2>2, <3>1, <3>2 DEF InOrder, proxy, Held
  <2>3. CASE Other(t) # s
    BY <1>1, <1>2, <2>1, <2>3, Kept, SidesOther DEF proxy, Held
  <2> QED BY <2>2, <2>3
<1>4. FirstSegment' /\ Seen'
  BY <1>1, <1>2 DEF StreamInv, FirstSegment, Seen, proxy
<1> QED BY <1>3, <1>4 DEF StreamInv

LEMMA SeeEndStream ==
    ASSUME IInv, StreamInv, NEW s \in Sides, SeeEnd(s)
    PROVE  StreamInv'
<1>1. /\ sawEnd' = [sawEnd EXCEPT ![s] = TRUE] /\ fin[s] /\ out[s] = <<>>
      /\ UNCHANGED <<proxy, sent, end, got, wire, out>>
  BY DEF SeeEnd
<1>2. Seen'
  BY <1>1 DEF StreamInv, Seen, proxy, IInv, TypeOK
<1>3. ASSUME NEW t \in Sides, Intact(t)' PROVE InOrder(t)'
  <2>1. InOrder(t)
    BY <1>1, <1>3 DEF StreamInv, Intact, Hopeless, proxy
  <2> QED BY <1>1, <2>1, Kept DEF proxy, Held
<1>4. FirstSegment'
  BY <1>1 DEF StreamInv, FirstSegment, proxy
<1> QED BY <1>2, <1>3, <1>4 DEF StreamInv

-----------------------------------------------------------------------------
(* What the proxy does to the streams.                                     *)

\* Before the tunnel is open nothing has been written, and the destination has sent nothing.
LEMMA NotOpen ==
    ASSUME IInv, stage # "open"
    PROVE  /\ copier["client"].buf = <<>> /\ end["dest"] = "open"
           /\ \A s \in Sides : ~(stage \in {"peek", "dial"} /\ sawEnd[s])
BY SidesOther DEF IInv, Before, Copying, IdleCopier

LEMMA PeekMatchStream ==
    ASSUME PeeksFit, IInv, StreamInv, PeekMatch
    PROVE  StreamInv'
<1>1. /\ stage = "peek" /\ peeked' = Ahead /\ peeks' = Tail(peeks) /\ Len(Ahead) = Want
      /\ stage' = (IF Len(peeks) = 1 THEN "dial" ELSE "peek")
      /\ wire' = [wire EXCEPT !["client"] = Drop(@, Want - Len(peeked))]
      /\ UNCHANGED <<mode, bufSize, sides, copier, out, fin, wg>>
  BY DEF PeekMatch, PeekReads
<1>2. /\ wire'["client"] = Drop(wire["client"], Want - Len(peeked)) /\ wire'["dest"] = wire["dest"]
  BY <1>1, SidesOther DEF IInv, TypeOK
<1>3. ~Hopeless
  <2> SUFFICES ASSUME Hopeless PROVE FALSE
    OBVIOUS
  <2>1. Take(<<>>, Want - Len(peeked)) = <<>>
    BY <1>1, PeekSize, EmptyLen DEF Take
  <2>2. peeked \in Seq(Nat)
    BY DEF IInv, TypeOK
  <2>3. Ahead = peeked
    BY <2>1, <2>2 DEF Ahead, Hopeless
  <2>4. Len(peeked) = PeekSizes[1] /\ Want = PeekSizes[2]
    <3>1. Len(peeks) = 1 /\ Len(PeekSizes) = 2
      BY DEF Hopeless
    <3>2. peeks # PeekSizes
      BY <3>1
    <3> QED BY <1>1, <3>2, PeekSize
  <2> QED BY <1>1, <2>3, <2>4, TunnelAssumption DEF PeeksFit, Hopeless
<1>4. InOrder("client")'
  <2>1. PICK m \in 0..sent["client"] :
           /\ Chain(got["dest"], out["dest"], <<>>, peeked, wire["client"], m)
           /\ end["client"] # "gone" => m = sent["client"]
    BY <1>1, <1>3, NotOpen, SidesOther DEF StreamInv, Intact, InOrder, Held
  <2>2. Chain(got["dest"], out["dest"], <<>>, Ahead, wire'["client"], m)
    BY <1>1, <1>2, <2>1, PeekSize, ChainPeek DEF Ahead
  <2> QED BY <1>1, <2>1, <2>2, NotOpen, SidesOther DEF InOrder, Held, sides
<1>5. Intact("dest")' => InOrder("dest")'
  <2>1. Intact("dest")' => InOrder("dest")
    BY <1>1, SidesOther DEF StreamInv, Intact, sides
  <2> QED BY <1>1, <1>2, <2>1, Kept, SidesOther DEF sides, Held
<1>6. ~(stage' = "peek" /\ peeks' = PeekSizes)
  <2> SUFFICES ASSUME Len(peeks) # 1 PROVE peeks' # PeekSizes
    BY <1>1
  <2>1. PeekSizes \in Seq(Nat \ {0}) /\ peeks = PeekSizes /\ Len(PeekSizes) = 2
    BY <1>1, PeekSize, TunnelAssumption
  <2>2. Tail(PeekSizes) = <<PeekSizes[2]>> /\ Len(<<PeekSizes[2]>>) = 1
    BY <2>1, TailOfPeeks
  <2> QED BY <1>1, <2>1, <2>2
<1>7. FirstSegment' /\ Seen'
  BY <1>1, <1>6 DEF StreamInv, FirstSegment, Seen, sides
<1> QED BY <1>4, <1>5, <1>7, SidesOther DEF StreamInv

LEMMA PeekShortStream ==
    ASSUME PeeksFit, IInv, StreamInv, PeekShort
    PROVE  StreamInv'
<1>1. /\ stage = "peek" /\ Len(Ahead) < Want /\ Len(peeks) = 2 /\ peeks' = Tail(peeks)
      /\ Len(peeked) < Want => Readable("client")
      /\ wire' = [wire EXCEPT !["client"] = Drop(@, Want - Len(peeked))]
      /\ UNCHANGED <<mode, bufSize, sides, stage, copier, out, fin, wg>>
  BY DEF PeekShort, PeekReads
<1>2. /\ wire'["client"] = Drop(wire["client"], Want - Len(peeked)) /\ wire'["dest"] = wire["dest"]
      /\ wire["client"] \in Seq(Nat) /\ Len(wire["client"]) \in Nat
  BY <1>1, EmptyLen, SidesOther DEF IInv, TypeOK
<1>3. /\ peeks = PeekSizes /\ peeked = <<>> /\ Want = PeekSizes[1] /\ Len(PeekSizes) = 2
      /\ Want \in Nat \ {0}
  <2>1. Len(<<PeekSizes[2]>>) = 1
    OBVIOUS
  <2>2. peeks # <<PeekSizes[2]>>
    BY <1>1, <2>1
  <2> QED BY <1>1, <2>2, PeekSize
<1>4. Len(peeked) = 0 /\ Want - Len(peeked) = Want
  BY <1>3, EmptyLen
<1>5. wire["client"] = <<>>
  <2> SUFFICES ASSUME wire["client"] # <<>> PROVE FALSE
    OBVIOUS
  <2>1. Len(wire["client"]) >= Want
    BY <1>1, <1>2, <1>3, TunnelAssumption DEF StreamInv, FirstSegment, PeeksFit
  <2>2. PICK t : t = Take(wire["client"], Want)
    OBVIOUS
  <2>3. t \in Seq(Nat) /\ Len(t) = IF Want < Len(wire["client"]) THEN Want ELSE Len(wire["client"])
    BY <1>2, <1>3, <2>2, TakeDrop
  <2>4. Len(t) = Want
    BY <1>2, <1>3, <2>1, <2>3
  <2>5. Ahead = t
    BY <1>3, <1>4, <2>2, <2>3 DEF Ahead
  <2> QED BY <1>1, <1>3, <2>4, <2>5
<1>6. end["client"] # "open"
  BY <1>1, <1>3, <1>4, <1>5 DEF Readable
<1>7. wire'["client"] = <<>>
  BY <1>2, <1>3, <1>4, <1>5, EmptyLen DEF Drop
<1>8. peeks' = <<PeekSizes[2]>> /\ Len(peeks') = 1 /\ peeks' # PeekSizes
  <2>1. PeekSizes \in Seq(Nat \ {0})
    BY TunnelAssumption
  <2>2. peeks' = <<PeekSizes[2]>>
    BY <1>1, <1>3, <2>1, TailOfPeeks
  <2>3. Len(<<PeekSizes[2]>>) = 1
    OBVIOUS
  <2> QED BY <1>3, <2>2, <2>3
<1>9. Hopeless'
  BY <1>1, <1>3, <1>6, <1>7, <1>8 DEF Hopeless, sides
<1>10. Intact("dest")' => InOrder("dest")'
  <2>1. Intact("dest")' => InOrder("dest")
    BY <1>1, SidesOther DEF StreamInv, Intact, sides
  <2> QED BY <1>1, <1>2, <2>1, Kept, SidesOther DEF sides, Held
<1>11. FirstSegment' /\ Seen'
  BY <1>1, <1>8 DEF StreamInv, FirstSegment, Seen, sides
<1> QED BY <1>9, <1>10, <1>11, SidesOther DEF StreamInv, Intact

LEMMA PeekFailsStream == ASSUME StreamInv, PeekFails PROVE StreamInv'
BY DEF PeekFails, PeekReads, StreamInv, FirstSegment, Seen, Intact, sides

LEMMA DialStream == ASSUME IInv, StreamInv, Dial PROVE StreamInv'
<1>1. /\ stage = "dial" /\ stage' \in {"open", "failed"}
      /\ UNCHANGED <<mode, bufSize, peeks, peeked, sent, end, got, sawEnd, wire, copier, out, wg>>
  BY DEF Dial, sides
<1>2. ASSUME NEW t \in Sides, Intact(t)' PROVE InOrder(t)'
  <2>1. InOrder(t)
    BY <1>1, <1>2 DEF StreamInv, Intact, Hopeless
  <2> QED BY <1>1, <2>1, Kept DEF Held
<1>3. Seen'
  BY <1>1, NotOpen DEF Seen
<1> QED BY <1>1, <1>2, <1>3 DEF StreamInv, FirstSegment

\* Once the tunnel is open a step may touch the stream from one side only.
LEMMA OpenStream ==
    ASSUME StreamInv, stage = "open", NEW s \in Sides, UNCHANGED <<stage, sides>>,
           \A t \in Sides : t # s => /\ wire'[t] = wire[t] /\ Held(t)' = Held(t)
                                     /\ copier'[t].buf = copier[t].buf /\ out'[Other(t)] = out[Other(t)],
           InOrder(s) /\ Intact(s) => InOrder(s)',
           \A t \in Sides : sawEnd[t] => fin'[t] /\ out'[t] = <<>>
    PROVE  StreamInv'
<1>1. ASSUME NEW t \in Sides, Intact(t)' PROVE InOrder(t)'
  <2>1. InOrder(t) /\ Intact(t)
    BY <1>1 DEF StreamInv, Intact, Hopeless, sides
  <2> QED BY <2>1, Kept DEF sides
<1>2. FirstSegment' /\ Seen'
  BY DEF FirstSegment, Seen, sides
<1> QED BY <1>1, <1>2 DEF StreamInv

LEMMA CopyReadStream == ASSUME IInv, StreamInv, NEW s \in Sides, CopyRead(s) PROVE StreamInv'
<1>1. /\ stage = "open" /\ Pc(s) = "read" /\ copier[s].buf = <<>>
      /\ UNCHANGED <<mode, bufSize, stage, peeks, sides, out, fin, wg>>
  BY DEF CopyRead, IInv, Copying
<1>2. /\ wire[s] \in Seq(Nat) /\ peeked \in Seq(Nat) /\ Len(peeked) \in Nat /\ bufSize \in Nat \ {0}
      /\ copier \in [Sides -> Copier] /\ wire \in [Sides -> Seq(Nat)]
  BY TunnelAssumption, EmptyLen DEF IInv, TypeOK
<1>3. ASSUME NEW bytes, NEW last, HasRead(s, bytes, last),
             \A t \in Sides : t # s => wire'[t] = wire[t] /\ Held(t)' = Held(t),
             \A m : Chain(got[Other(s)], out[Other(s)], <<>>, Held(s), wire[s], m)
                       => Chain(got[Other(s)], out[Other(s)], bytes, Held(s)', wire'[s], m)
      PROVE  StreamInv'
  <2>1. copier'[s].buf = bytes /\ \A t \in Sides : t # s => copier'[t] = copier[t]
    BY <1>2, <1>3 DEF HasRead
  <2>2. InOrder(s) => InOrder(s)'
    BY <1>1, <1>3, <2>1 DEF InOrder, sides
  <2>3. \A t \in Sides : sawEnd[t] => fin'[t] /\ out'[t] = <<>>
    BY <1>1 DEF StreamInv, Seen
  <2> QED BY <1>1, <1>3, <2>1, <2>2, <2>3, OpenStream
<1>4. CASE ReadPeeked(s)
  <2>1. /\ s = "client" /\ Len(peeked) <= bufSize /\ peeked' = <<>>
        /\ HasRead(s, peeked \o Take(wire[s], bufSize - Len(peeked)),
                   AtEnd(s) /\ Len(peeked) < bufSize)
        /\ wire' = [wire EXCEPT ![s] = Drop(@, bufSize - Len(peeked))]
    BY <1>4 DEF ReadPeeked
  <2>2. bufSize - Len(peeked) \in Nat
    BY <1>2, <2>1
  <2>3. /\ wire'[s] = Drop(wire[s], bufSize - Len(peeked)) /\ Held(s) = peeked /\ Held(s)' = <<>>
        /\ \A t \in Sides : t # s => wire'[t] = wire[t] /\ Held(t)' = Held(t)
    BY <1>2, <2>1 DEF Held
  <2> QED BY <1>3, <2>1, <2>2, <2>3, ChainRead
<1>5. CASE ReadPartOfPeeked(s)
  <2>1. /\ s = "client" /\ HasRead(s, Take(peeked, bufSize), FALSE)
        /\ peeked' = Drop(peeked, bufSize) /\ wire' = wire
    BY <1>5 DEF ReadPartOfPeeked
  <2>2. /\ Held(s) = peeked /\ Held(s)' = Drop(peeked, bufSize)
        /\ \A t \in Sides : t # s => wire'[t] = wire[t] /\ Held(t)' = Held(t)
    BY <2>1 DEF Held
  <2>3. PICK t, d : t = Take(peeked, bufSize) /\ d = Drop(peeked, bufSize)
    OBVIOUS
  <2>4. ASSUME NEW m, Chain(got[Other(s)], out[Other(s)], <<>>, Held(s), wire[s], m)
        PROVE  Chain(got[Other(s)], out[Other(s)], t, Held(s)', wire'[s], m)
    <3>1. bufSize \in Nat
      BY <1>2
    <3>2. Chain(got[Other(s)], out[Other(s)], Take(peeked, bufSize), Drop(peeked, bufSize), wire[s], m)
      BY <2>2, <2>4, <3>1, ChainReadPart
    <3> QED BY <2>1, <2>2, <2>3, <3>2
  <2>5. HasRead(s, t, FALSE) /\ \A u \in Sides : u # s => wire'[u] = wire[u] /\ Held(u)' = Held(u)
    BY <2>1, <2>2, <2>3
  <2> QED BY <1>3, <2>4, <2>5
<1>6. CASE ReadConn(s)
  <2>1. /\ s = "client" => peeked = <<>>
        /\ HasRead(s, Take(wire[s], bufSize), AtEnd(s))
        /\ wire' = [wire EXCEPT ![s] = Drop(@, bufSize)] /\ peeked' = peeked
    BY <1>6 DEF ReadConn
  <2>2. /\ wire'[s] = Drop(wire[s], bufSize) /\ Held(s) = <<>> /\ Held(s)' = <<>>
        /\ \A t \in Sides : t # s => wire'[t] = wire[t] /\ Held(t)' = Held(t)
    BY <1>2, <2>1 DEF Held
  <2>3. <<>> \o Take(wire[s], bufSize) = Take(wire[s], bufSize)
    BY <1>2, TakeDrop
  <2>4. ASSUME NEW m, Chain(got[Other(s)], out[Other(s)], <<>>, <<>>, wire[s], m)
        PROVE  Chain(got[Other(s)], out[Other(s)], Take(wire[s], bufSize), <<>>, wire'[s], m)
    <3>1. Chain(got[Other(s)], out[Other(s)], <<>> \o Take(wire[s], bufSize), <<>>,
                Drop(wire[s], bufSize), m)
      BY <1>2, <2>4, ChainRead
    <3> QED BY <2>2, <2>3, <3>1
  <2> QED BY <1>3, <2>1, <2>2, <2>4
<1> QED BY <1>4, <1>5, <1>6 DEF CopyRead

LEMMA CopyWriteStream == ASSUME IInv, StreamInv, NEW s \in Sides, CopyWrite(s) PROVE StreamInv'
<1>1. PICK room : room = Window - Len(out[Other(s)])
  OBVIOUS
<1>2. PICK rest, next : rest = Drop(copier[s].buf, room)
         /\ out' = [out EXCEPT ![Other(s)] = @ \o Take(copier[s].buf, room)]
         /\ copier' = [copier EXCEPT ![s].buf = rest, ![s].pc = next]
  BY <1>1 DEF CopyWrite
<1>3. /\ Pc(s) = "write" /\ room > 0
      /\ UNCHANGED <<mode, bufSize, stage, peeks, peeked, sides, wire, fin, wg>>
  BY <1>1 DEF CopyWrite
<1>4. room \in Nat
  <2>1. Window \in Nat /\ Len(out[Other(s)]) \in Nat
    BY EmptyLen, TunnelAssumption, SidesOther DEF IInv, TypeOK
  <2> QED BY <1>1, <1>3, <2>1
<1>5. stage = "open" /\ ~fin[Other(s)]
  BY <1>3 DEF IInv, Copying, IdleCopier, Pc
<1>6. /\ out'[Other(s)] = out[Other(s)] \o Take(copier[s].buf, room)
      /\ copier'[s].buf = Drop(copier[s].buf, room)
      /\ \A t \in Sides : t # s => /\ copier'[t] = copier[t] /\ out'[Other(t)] = out[Other(t)]
      /\ out'[s] = out[s]
  <2>1. /\ copier \in [Sides -> Copier] /\ out \in [Sides -> Seq(Nat)]
        /\ copier[s] \in Copier /\ Other(s) \in Sides
    BY SidesOther DEF IInv, TypeOK
  <2>2. copier'[s].buf = rest /\ \A t \in Sides : t # s => copier'[t] = copier[t]
    BY <1>2, <2>1 DEF Copier
  <2>3. /\ out'[Other(s)] = out[Other(s)] \o Take(copier[s].buf, room)
        /\ \A t \in Sides : t # Other(s) => out'[t] = out[t]
    BY <1>2, <2>1
  <2> QED BY <1>2, <2>2, <2>3, SidesOther
<1>7. InOrder(s) => InOrder(s)'
  BY <1>3, <1>4, <1>6, ChainWrite DEF InOrder, sides, Held
<1>8. \A t \in Sides : sawEnd[t] => fin'[t] /\ out'[t] = <<>>
  BY <1>3, <1>5, <1>6, SidesOther DEF StreamInv, Seen
<1> QED BY <1>3, <1>5, <1>6, <1>7, <1>8, OpenStream DEF Held

LEMMA CopyWriteFailsStream ==
    ASSUME IInv, StreamInv, NEW s \in Sides, CopyWriteFails(s)
    PROVE  StreamInv'
<1>1. PICK next : copier' = [copier EXCEPT ![s].buf = <<>>, ![s].pc = next]
  BY DEF CopyWriteFails
<1>2. /\ Pc(s) = "write" /\ end[Other(s)] = "gone"
      /\ UNCHANGED <<mode, bufSize, stage, peeks, peeked, sides, wire, out, fin, wg>>
  BY DEF CopyWriteFails
<1>3. stage = "open" /\ ~Intact(s)
  BY <1>2 DEF IInv, Copying, IdleCopier, Pc, Intact
<1>4. \A t \in Sides : t # s => copier'[t] = copier[t]
  BY <1>1 DEF IInv, TypeOK
<1>5. \A t \in Sides : sawEnd[t] => fin'[t] /\ out'[t] = <<>>
  BY <1>2 DEF StreamInv, Seen
<1> QED BY <1>2, <1>3, <1>4, <1>5, OpenStream DEF Held

LEMMA CloseStream ==
    ASSUME IInv, StreamInv, stage = "open", closing,
           \A t \in Sides : copier'[t].buf = copier[t].buf /\ (fin[t] => fin'[t])
    PROVE  StreamInv'
<1>1. UNCHANGED <<mode, bufSize, stage, peeks, peeked, sides, wire, out>>
  BY DEF closing
<1>2. InOrder("client") => InOrder("client")'
  BY <1>1, Kept, SidesOther DEF Held, sides
<1>3. \A t \in Sides : sawEnd[t] => fin'[t] /\ out'[t] = <<>>
  BY <1>1 DEF StreamInv, Seen
<1> QED BY <1>1, <1>2, <1>3, OpenStream, SidesOther DEF Held

LEMMA NextStream == PeeksFit /\ IInv /\ StreamInv /\ [Next]_vars => StreamInv'
<1> SUFFICES ASSUME PeeksFit, IInv, StreamInv, [Next]_vars PROVE StreamInv'
  OBVIOUS
<1>1. CASE UNCHANGED vars
  <2>1. ASSUME NEW t \in Sides, Intact(t)' PROVE InOrder(t)'
    <3>1. InOrder(t)
      BY <1>1, <2>1 DEF StreamInv, Intact, Hopeless, vars, sides
    <3> QED BY <1>1, <3>1, Kept DEF vars, sides, Held
  <2>2. FirstSegment' /\ Seen'
    BY <1>1 DEF StreamInv, FirstSegment, Seen, vars, sides
  <2> QED BY <2>1, <2>2 DEF StreamInv
<1>2. CASE Peek
  BY <1>2, PeekMatchStream, PeekShortStream, PeekFailsStream DEF Peek
<1>3. ASSUME NEW s \in Sides, Endpoint(s) PROVE StreamInv'
  BY <1>3, SendStream, EndStream, LeaveStream, ReceiveStream, SeeEndStream DEF Endpoint
<1>4. ASSUME NEW s \in Sides, Close(s) PROVE StreamInv'
  <2>1. stage = "open" /\ closing
    BY <1>4 DEF IInv, Copying, IdleCopier, Pc, Close, CopyCloseWrite, CopyCountWrite, CopyWait,
                CopyCloseRead, CopyDone
  <2>2. \A t \in Sides : copier'[t].buf = copier[t].buf
    <3>1. PICK pc : Goes(s, pc)
      BY <1>4 DEF Close, CopyCloseWrite, CopyCountWrite, CopyWait, CopyCloseRead, CopyDone
    <3>2. copier \in [Sides -> Copier]
      BY DEF IInv, TypeOK
    <3> QED BY <3>1, <3>2 DEF Goes, Copier
  <2>3. \A t \in Sides : fin[t] => fin'[t]
    BY <1>4 DEF IInv, TypeOK, Close, CopyCloseWrite, CopyCountWrite, CopyWait, CopyCloseRead, CopyDone
  <2> QED BY <2>1, <2>2, <2>3, CloseStream
<1>5. ASSUME NEW s \in Sides, Copy(s) PROVE StreamInv'
  BY <1>4, <1>5, CopyReadStream, CopyWriteStream, CopyWriteFailsStream DEF Copy
<1>6. CASE CloseBoth
  <2>1. closing /\ copier' = copier /\ \A t \in Sides : fin'[t]
    BY <1>6 DEF CloseBoth
  <2>2. stage = "open"
    BY <1>6, CloseBothDone, SidesOther DEF IInv, Copying, IdleCopier, Pc
  <2> QED BY <2>1, <2>2, CloseStream
<1> QED BY <1>1, <1>2, <1>3, <1>5, <1>6, DialStream DEF Next, Rest

\* What either side has sent is, byte for byte and in order, in what the other has received
\* or on the way to it; in the peekers, what their next read gives out first.
THEOREM NothingLost ==
    ASSUME PeeksFit
    PROVE  Spec => []StreamInv
<1> QED BY InitStream, NextStream, Inductive, PTL DEF Spec

-----------------------------------------------------------------------------
(* Tunnel implements Pipe.                                                 *)

LEMMA SameOther == \A s \in Sides : Transparent!Other(s) = Other(s)
<1> TAKE s \in Sides
<1>1. \E o \in Sides : o # s
  BY SidesOther
<1>2. Transparent!Other(s) \in Sides /\ Transparent!Other(s) # s
  BY <1>1 DEF Transparent!Other
<1> QED BY <1>2, SidesOther

\* A stream from its beginning is the Pipe's.
LEMMA StreamIs ==
    ASSUME NEW q, NEW n, Stretch(q, 0, n)
    PROVE  q = Transparent!Stream(n)
<1>1. q \in Seq(Nat) /\ n \in Nat /\ Len(q) = n /\ \A i \in 1..n : q[i] = i
  <2>1. /\ n \in Nat /\ q \in Seq(Nat) /\ 0 + Len(q) = n
        /\ \A i \in 1..Len(q) : q[i] = 0 + i
    BY DEF Stretch
  <2>2. Len(q) = n
    BY <2>1, EmptyLen
  <2> QED BY <2>1, <2>2
<1>2. PICK t : t = Transparent!Stream(n)
  OBVIOUS
<1>3. t = [i \in 1..n |-> i]
  BY <1>2 DEF Transparent!Stream
<1>4. t \in Seq(Nat) /\ Len(t) = n /\ \A i \in 1..n : t[i] = i
  BY <1>1, <1>3
<1>5. q = t
  BY <1>1, <1>4, SeqEqual
<1> QED BY <1>2, <1>5

\* What a side has received, and what it has when it takes all that is under way.
LEMMA Received ==
    ASSUME StreamInv, NEW s \in Sides, Intact(Other(s)), sent[Other(s)] \in Nat
    PROVE  /\ got[s] \o out[s] = Transparent!Stream(Len(got[s]) + Len(out[s]))
           /\ got[s] = Transparent!Stream(Len(got[s]))
           /\ Len(got[s]) \in Nat /\ Len(got[s]) + Len(out[s]) \in 0..sent[Other(s)]
           /\ end[Other(s)] # "gone" /\ out[s] = <<>> /\ copier[Other(s)].buf = <<>>
              /\ Held(Other(s)) = <<>> /\ wire[Other(s)] = <<>> => Len(got[s]) = sent[Other(s)]
<1>1. PICK m \in 0..sent[Other(s)] :
         /\ Chain(got[s], out[s], copier[Other(s)].buf, Held(Other(s)), wire[Other(s)], m)
         /\ end[Other(s)] # "gone" => m = sent[Other(s)]
  BY SidesOther DEF StreamInv, InOrder
<1>2. /\ Stretch(got[s], 0, Len(got[s])) /\ Len(got[s]) \in 0..m
      /\ Stretch(got[s] \o out[s], 0, Len(got[s]) + Len(out[s]))
      /\ Len(got[s]) + Len(out[s]) \in 0..m
      /\ out[s] = <<>> /\ copier[Other(s)].buf = <<>> /\ Held(Other(s)) = <<>>
         /\ wire[Other(s)] = <<>> => Len(got[s]) = m
  <2>1. PICK g, o, b, h, w : /\ g = got[s] /\ o = out[s] /\ b = copier[Other(s)].buf
                             /\ h = Held(Other(s)) /\ w = wire[Other(s)]
    OBVIOUS
  <2>2. Chain(g, o, b, h, w, m)
    BY <1>1, <2>1
  <2> QED BY <2>1, <2>2, ChainGot
<1>3. Len(got[s]) \in Nat /\ Len(got[s]) + Len(out[s]) \in 0..sent[Other(s)]
  <2>1. PICK n, a, b : n = sent[Other(s)] /\ a = Len(got[s]) /\ b = Len(got[s]) + Len(out[s])
    OBVIOUS
  <2>2. n \in Nat /\ m \in 0..n /\ a \in 0..m /\ b \in 0..m
    BY <1>2, <2>1
  <2>3. a \in Nat /\ b \in 0..n
    BY <2>2
  <2> QED BY <2>1, <2>3
<1> QED BY <1>1, <1>2, <1>3, StreamIs

LEMMA ReceiveRefines ==
    ASSUME IInv, StreamInv, NEW s \in Sides, Receive(s)
    PROVE  Transparent!Receive(s)
<1>1. /\ end[s] # "gone" /\ out[s] # <<>> /\ got' = [got EXCEPT ![s] = @ \o out[s]]
      /\ UNCHANGED <<sent, end, sawEnd, stage>>
  BY DEF Receive, proxy
<1>2. stage = "open" /\ ~sawEnd[s]
  BY <1>1 DEF IInv, Before, StreamInv, Seen
<1>3. Intact(Other(s)) /\ sent[Other(s)] \in Nat /\ Other(s) \in Sides
  BY <1>1, <1>2, SidesOther DEF Intact, Hopeless, IInv, TypeOK
<1>4. Len(out[s]) \in Nat /\ Len(out[s]) # 0
  BY <1>1, EmptyLen DEF IInv, TypeOK
<1>5. PICK n : n = Len(got[s]) + Len(out[s])
  OBVIOUS
<1>6. got[s] \o out[s] = Transparent!Stream(n) /\ n \in 0..sent[Other(s)] /\ Len(got[s]) \in Nat
  BY <1>3, <1>5, Received
<1>7. n \in (Len(got[s]) + 1)..sent[Transparent!Other(s)]
  <2>1. Transparent!Other(s) = Other(s)
    BY SameOther
  <2>2. \A a, b, c \in Nat : b # 0 /\ a + b \in 0..c => a + b \in (a + 1)..c
    OBVIOUS
  <2> QED BY <1>3, <1>4, <1>5, <1>6, <2>1, <2>2
<1>8. got' = [got EXCEPT ![s] = Transparent!Stream(n)]
  BY <1>1, <1>6
<1> QED BY <1>1, <1>2, <1>7, <1>8 DEF Transparent!Receive

LEMMA SeeEndRefines ==
    ASSUME IInv, StreamInv, NEW s \in Sides, SeeEnd(s)
    PROVE  Transparent!SeeEnd(s)
<1>1. /\ end[s] # "gone" /\ out[s] = <<>> /\ fin[s] /\ ~sawEnd[s]
      /\ sawEnd' = [sawEnd EXCEPT ![s] = TRUE] /\ UNCHANGED <<sent, end, got, stage>>
  BY DEF SeeEnd, proxy
<1>2. \/ stage = "failed" \/ end[Other(s)] = "gone"
      \/ end[Other(s)] = "fin" /\ got[s] = Transparent!Stream(sent[Other(s)])
  <2> SUFFICES ASSUME stage # "failed", end[Other(s)] # "gone"
               PROVE  end[Other(s)] = "fin" /\ got[s] = Transparent!Stream(sent[Other(s)])
    OBVIOUS
  <2>1. Pc(Other(s)) \in {"closeRead", "done"} /\ copier[Other(s)].last
    BY <1>1, SidesOther DEF IInv, Copying
  <2>2. /\ wire[Other(s)] = <<>> /\ end[Other(s)] # "open" /\ Held(Other(s)) = <<>>
        /\ copier[Other(s)].buf = <<>>
    BY <2>1, SidesOther DEF IInv, Copying
  <2>3. stage # "peek"
    BY <1>1 DEF IInv, Before
  <2>4. Intact(Other(s)) /\ sent[Other(s)] \in Nat /\ end[Other(s)] \in {"open", "fin", "gone"}
    BY <1>1, <2>3, SidesOther DEF Intact, Hopeless, IInv, TypeOK
  <2>5. Len(got[s]) = sent[Other(s)] /\ got[s] = Transparent!Stream(Len(got[s]))
    BY <1>1, <2>2, <2>4, Received
  <2> QED BY <2>2, <2>4, <2>5
<1> QED BY <1>1, <1>2, SameOther DEF Transparent!SeeEnd

LEMMA EndpointRefines ==
    ASSUME IInv, StreamInv, NEW s \in Sides, Endpoint(s)
    PROVE  Transparent!Send(s) \/ Transparent!End(s) \/ Transparent!Receive(s) \/ Transparent!SeeEnd(s)
<1>1. CASE Send(s)
  <2>1. /\ end[s] = "open" /\ sent' = [sent EXCEPT ![s] = @ + Segment(s)]
        /\ UNCHANGED <<got, end, sawEnd, stage>>
    BY <1>1 DEF Send, proxy
  <2>2. sent \in [Sides -> Nat] /\ sent[s] \in Nat /\ Segment(s) \in Nat \ {0}
    BY TunnelAssumption DEF IInv, TypeOK, Segment
  <2>3. sent'[s] = sent[s] + Segment(s)
    BY <2>1, <2>2
  <2>4. sent'[s] \in Nat /\ sent'[s] > sent[s] /\ sent' = [sent EXCEPT ![s] = sent'[s]]
    BY <2>1, <2>2, <2>3
  <2> QED BY <2>1, <2>4 DEF Transparent!Send
<1>2. CASE End(s) \/ Leave(s)
  BY <1>2 DEF End, Leave, proxy, Transparent!End
<1> QED BY <1>1, <1>2, ReceiveRefines, SeeEndRefines DEF Endpoint

LEMMA ProxyRefines ==
    ASSUME IInv, Peek \/ Dial
    PROVE  Transparent!Refuse \/ UNCHANGED Transparent!pipe
<1>1. /\ UNCHANGED <<sent, got, end, sawEnd>> /\ stage \in {"peek", "dial"}
      /\ (stage' = "failed") \in BOOLEAN
  BY DEF Peek, PeekMatch, PeekShort, PeekFails, PeekReads, Dial, sides
<1>2. \A s \in Sides : got[s] = <<>> /\ ~sawEnd[s]
  BY <1>1 DEF IInv, Before
<1>3. CASE stage' = "failed"
  BY <1>1, <1>2, <1>3 DEF Transparent!Refuse
<1>4. CASE stage' # "failed"
  BY <1>1, <1>4 DEF Transparent!pipe
<1> QED BY <1>3, <1>4

LEMMA StepRefines ==
    IInv /\ StreamInv /\ [Next]_vars => [Transparent!Next]_(Transparent!pipe)
<1> SUFFICES ASSUME IInv, StreamInv, [Next]_vars
             PROVE  Transparent!Next \/ UNCHANGED Transparent!pipe
  OBVIOUS
<1>1. CASE UNCHANGED vars
  BY <1>1 DEF vars, sides, Transparent!pipe
<1>2. CASE Peek \/ Dial
  BY <1>2, ProxyRefines DEF Transparent!Next
<1>3. CASE CloseBoth
  BY <1>3 DEF CloseBoth, closing, sides, Transparent!pipe
<1>4. ASSUME NEW s \in Sides, Endpoint(s) PROVE Transparent!Next
  BY <1>4, EndpointRefines DEF Transparent!Next
<1>5. ASSUME NEW s \in Sides, Copy(s) PROVE UNCHANGED Transparent!pipe
  BY <1>5 DEF Copy, CopyRead, CopyWrite, CopyWriteFails, Close, CopyCloseWrite, CopyCountWrite, CopyWait,
              CopyCloseRead, CopyDone, closing, sides, Transparent!pipe
<1> QED BY <1>1, <1>2, <1>3, <1>4, <1>5 DEF Next, Rest

\* Each end receives what the other has sent, in order and nothing else, and the end of it
\* when it has it all, or when the other end is gone: whatever is peeked at, however the bytes
\* are cut up by buffers, windows and segments, and whoever goes when.
THEOREM TunnelIsTransparent ==
    ASSUME PeeksFit
    PROVE  Spec => IsTransparent
<1>1. Init => Transparent!Init
  BY DEF Init, Transparent!Init
<1> QED BY <1>1, StepRefines, Inductive, NothingLost, PTL DEF Spec, IsTransparent, Transparent!Spec

-----------------------------------------------------------------------------
(* Only a first segment that is shorter than the first peek is filled up.  *)

\* The destination gets something new only while it may still get all that was sent.
LEMMA GotIntact ==
    ASSUME IInv, Receive("dest")
    PROVE  Intact("client")'
<1>1. end["dest"] # "gone" /\ out["dest"] # <<>> /\ UNCHANGED <<stage, end>>
  BY DEF Receive, proxy
<1>2. stage = "open"
  BY <1>1 DEF IInv, Before, Sides
<1> QED BY <1>1, <1>2 DEF Intact, Hopeless, Other

LEMMA NextOnly ==
    ASSUME IInv, StreamInv', OnlyItsBytes, [Next]_vars
    PROVE  OnlyItsBytes'
<1>1. CASE Receive("dest")
  <2>1. Intact("client")'
    BY <1>1, GotIntact
  <2>2. PICK i \in Nat : Stretch(got'["dest"], 0, i)
    BY <2>1 DEF StreamInv, InOrder, Chain, Other, Sides
  <2>3. PICK q : q = got'["dest"]
    OBVIOUS
  <2>4. \A n \in 1..Len(q) : q[n] = n
    BY <2>2, <2>3 DEF Stretch
  <2> QED BY <2>3, <2>4 DEF OnlyItsBytes
<1>2. CASE got'["dest"] = got["dest"]
  BY <1>2 DEF OnlyItsBytes
<1>3. Receive("dest") \/ got'["dest"] = got["dest"]
  <2>1. CASE UNCHANGED vars
    BY <2>1 DEF vars, sides
  <2>2. CASE Peek \/ Dial \/ CloseBoth
    BY <2>2 DEF Peek, PeekMatch, PeekShort, PeekFails, PeekReads, Dial, CloseBoth, closing, sides
  <2>3. ASSUME NEW s \in Sides, Endpoint(s) PROVE Receive("dest") \/ got'["dest"] = got["dest"]
    <3>1. CASE Receive(s)
      <4>1. got' = [got EXCEPT ![s] = @ \o out[s]] /\ s \in {"client", "dest"}
        BY <2>3, <3>1 DEF Receive, Sides
      <4>2. s = "client" => got'["dest"] = got["dest"]
        BY <4>1
      <4> QED BY <3>1, <4>1, <4>2
    <3>2. CASE Send(s) \/ End(s) \/ Leave(s) \/ SeeEnd(s)
      BY <3>2 DEF Send, End, Leave, SeeEnd
    <3> QED BY <2>3, <3>1, <3>2 DEF Endpoint
  <2>4. ASSUME NEW s \in Sides, Copy(s) PROVE got' = got
    BY <2>4 DEF Copy, CopyRead, CopyWrite, CopyWriteFails, Close, CopyCloseWrite, CopyCountWrite, CopyWait,
                CopyCloseRead, CopyDone, closing, sides
  <2> QED BY <2>1, <2>2, <2>3, <2>4 DEF Next, Rest
<1> QED BY <1>1, <1>2, <1>3

\* What the changelog says holds for every client whose first segment is as long as the first
\* peek, whether it takes two peeks or one: what arrives at the destination is what was sent,
\* byte for byte.
THEOREM OnlyWhatWasSent ==
    ASSUME PeeksFit
    PROVE  Spec => []OnlyItsBytes
<1>1. Init => OnlyItsBytes
  BY EmptySeq DEF Init, OnlyItsBytes, Sides
<1> QED BY <1>1, NextOnly, Inductive, NothingLost, PTL DEF Spec
=============================================================================

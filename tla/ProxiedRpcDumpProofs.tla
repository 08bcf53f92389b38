------------------------- MODULE ProxiedRpcDumpProofs -------------------------
(***************************************************************************)
(* Proofs that the dump of a call is causally ordered and complete. The    *)
(* inductive invariant follows a message from the recorder to the wire: a  *)
(* message that has left the proxy was recorded, at a time when everything *)
(* its sender had received before it was recorded too.                     *)
(***************************************************************************)
EXTENDS ProxiedRpcProofs

\* What a message says of itself: its sender, its rank and its causal past.
Stamps ==
    /\ \A k \in 1..Len(clientSent) :
          /\ clientSent[k].from = "client" /\ clientSent[k].n = k
          /\ clientSent[k].seen <= Len(clientGot)
    /\ \A k \in 1..Len(serverSent) :
          /\ serverSent[k].from = "server" /\ serverSent[k].n = k
          /\ serverSent[k].seen <= Len(serverGot)

\* How far the recorder is ahead: one message while a forwarder holds a
\* recorded one.
RequestsOut == Len(serverGot) + Len(reqOut)
ResponsesOut == Len(clientGot) + Len(respOut)

Recorded ==
    /\ Holds(dss.events, "client", RequestsOut)
    /\ s2c.pc = "send" => Holds(dss.events, "client", RequestsOut + 1)
    /\ Holds(dss.events, "server", ResponsesOut)
    /\ c2s.pc = "send" => Holds(dss.events, "server", ResponsesOut + 1)

RecordIsCausal == Causal(dss.events)

\* The headers are recorded before the first response leaves c2s.
Headers ==
    /\ ~c2s.first => dss.headers = serverHeaders /\ serverSent # <<>>
    /\ c2s.pc \in {"record", "send"} \/ ResponsesOut > 0 => ~c2s.first

\* Once the handler has returned, no request goes out unless the client
\* cancelled, and no response unless it did or its status is out; the trailers of
\* a call the server ended are recorded.
Quiet ==
    /\ c2s.err \notin {NoErr, "Canceled", "Unknown"} => upstream # "active"
    /\ handler.pc \in {"returned", "finished"} =>
          /\ clientStatus = "Canceled" \/ upstream # "active" \/ s2c.pc = "exited"
          /\ \/ clientStatus = "Canceled" \/ ssStatus # NoStatus
             \/ c2s.pc \in {"idle", "exited"}
    /\ handler.pc \in {"returned", "finished"} /\ handler.err \in AppStatuses =>
          dss.trailers

OneDump ==
    /\ handler.pc # "finished" => output = <<>>
    /\ handler.pc = "finished" => Len(output) = 1 /\ output[1].status = handler.err

\* Of a client that has not cancelled, the dump has the responses on the wire too.
DumpCoversWire ==
    clientStatus # "Canceled" =>
       \A d \in 1..Len(output) : Holds(output[d].messages, "server", ResponsesOut)

DumpInv ==
    /\ IInv
    /\ Stamps /\ Recorded /\ RecordIsCausal /\ Headers /\ Quiet /\ OneDump
    /\ DumpCausal /\ DumpCoversWire /\ DumpCoversClient /\ DumpCoversServer
    /\ DumpComplete

-----------------------------------------------------------------------------
(* Facts about Holds and Causal.                                           *)

LEMMA HoldsLess ==
  ASSUME NEW E \in Seq(Message), NEW o, NEW k \in Nat, NEW j \in Nat, j <= k,
         Holds(E, o, k)
  PROVE  Holds(E, o, j)
  BY DEF Holds

LEMMA HoldsAppend ==
  ASSUME NEW E \in Seq(Message), NEW o, NEW k \in Nat, NEW m \in Message,
         Holds(E, o, k)
  PROVE  Holds(Append(E, m), o, k)
<1> SUFFICES ASSUME NEW n \in 1..k
             PROVE  \E q \in 1..Len(Append(E, m)) :
                       Append(E, m)[q].from = o /\ Append(E, m)[q].n = n
  BY DEF Holds
<1>1. PICK q \in 1..Len(E) : E[q].from = o /\ E[q].n = n
  BY DEF Holds
<1>2. q \in 1..Len(Append(E, m)) /\ Append(E, m)[q] = E[q]
  BY AppendProperties
<1> QED
  BY <1>1, <1>2

LEMMA HoldsNext ==
  ASSUME NEW E \in Seq(Message), NEW o, NEW k \in Nat, NEW m \in Message,
         Holds(E, o, k), m.from = o, m.n = k + 1
  PROVE  Holds(Append(E, m), o, k + 1)
<1> SUFFICES ASSUME NEW n \in 1..(k + 1)
             PROVE  \E q \in 1..Len(Append(E, m)) :
                       Append(E, m)[q].from = o /\ Append(E, m)[q].n = n
  BY DEF Holds
<1>1. CASE n \in 1..k
  BY <1>1, HoldsAppend DEF Holds
<1>2. CASE n = k + 1
  <2>1. Len(E) + 1 \in 1..Len(Append(E, m)) /\ Append(E, m)[Len(E) + 1] = m
    BY AppendProperties
  <2> QED
    BY <1>2, <2>1
<1> QED
  BY <1>1, <1>2

\* A message may be recorded once its causal past is.
LEMMA CausalAppend ==
  ASSUME NEW E \in Seq(Message), NEW m \in Message, NEW o, NEW k \in Nat,
         Causal(E), Holds(E, o, k), o # m.from, m.seen <= k
  PROVE  Causal(Append(E, m))
<1> SUFFICES ASSUME NEW p \in 1..Len(Append(E, m)),
                    NEW n \in 1..Append(E, m)[p].seen
             PROVE  \E q \in 1..(p - 1) :
                       /\ Append(E, m)[q].from # Append(E, m)[p].from
                       /\ Append(E, m)[q].n = n
  BY DEF Causal
<1>1. /\ Len(Append(E, m)) = Len(E) + 1
      /\ \A q \in 1..Len(E) : Append(E, m)[q] = E[q]
      /\ Append(E, m)[Len(E) + 1] = m
  BY AppendProperties
<1>2. CASE p \in 1..Len(E)
  <2>1. PICK q \in 1..(p - 1) : E[q].from # E[p].from /\ E[q].n = n
    BY <1>1, <1>2 DEF Causal
  <2>2. q \in 1..Len(E)
    BY <1>2
  <2> QED
    BY <1>1, <1>2, <2>1, <2>2
<1>3. CASE p = Len(E) + 1
  <2>1. n \in 1..k
    BY <1>1, <1>3 DEF Message
  <2>2. PICK q \in 1..Len(E) : E[q].from = o /\ E[q].n = n
    BY <2>1 DEF Holds
  <2> QED
    BY <1>1, <1>3, <2>2
<1> QED
  BY <1>1, <1>2, <1>3

-----------------------------------------------------------------------------
(* Stamps.                                                                 *)

LEMMA StampsStep ==
  ASSUME TypeOK, Stamps, [Next]_vars
  PROVE  Stamps'
<1> USE DEF Stamps
<1>1. /\ clientSent \in Seq(Message) /\ clientGot \in Seq(Message)
      /\ serverSent \in Seq(Message) /\ serverGot \in Seq(Message)
      /\ reqOut \in Seq(Message) /\ respOut \in Seq(Message)
  BY DEF TypeOK, ClientTypeOK, ServerTypeOK, WireTypeOK
<1>2. ASSUME NEW sz \in RequestSizes, ClientSend(sz) PROVE Stamps'
  <2> DEFINE m == Request(clientSent, clientGot, sz)
  <2>1. /\ m \in Message /\ m.from = "client" /\ m.n = Len(clientSent) + 1
        /\ m.seen = Len(clientGot)
    BY <1>1, RequestType DEF Request
  <2>2. clientSent' = Append(clientSent, m)
        /\ UNCHANGED <<clientGot, serverGot, serverSent>>
    BY <1>2 DEF ClientSend, serverVars
  <2> HIDE DEF m
  <2>3. ASSUME NEW k \in 1..Len(clientSent')
        PROVE  /\ clientSent'[k].from = "client" /\ clientSent'[k].n = k
               /\ clientSent'[k].seen <= Len(clientGot)
    <3>1. CASE k \in 1..Len(clientSent)
      BY <1>1, <2>1, <2>2, <3>1
    <3>2. CASE k = Len(clientSent) + 1
      BY <1>1, <2>1, <2>2, <3>2
    <3> QED
      BY <1>1, <2>1, <2>2, <3>1, <3>2
  <2> QED
    BY <2>2, <2>3
<1>3. ASSUME NEW sz \in ResponseSizes, ServerSend(sz) PROVE Stamps'
  <2> DEFINE m == Response(serverSent, serverGot, sz)
  <2>1. /\ m \in Message /\ m.from = "server" /\ m.n = Len(serverSent) + 1
        /\ m.seen = Len(serverGot)
    BY <1>1, ResponseType DEF Response
  <2>2. serverSent' = Append(serverSent, m)
        /\ UNCHANGED <<clientGot, serverGot, clientSent>>
    BY <1>3 DEF ServerSend, clientVars
  <2> HIDE DEF m
  <2>3. ASSUME NEW k \in 1..Len(serverSent')
        PROVE  /\ serverSent'[k].from = "server" /\ serverSent'[k].n = k
               /\ serverSent'[k].seen <= Len(serverGot)
    <3>1. CASE k \in 1..Len(serverSent)
      BY <1>1, <2>1, <2>2, <3>1
    <3>2. CASE k = Len(serverSent) + 1
      BY <1>1, <2>1, <2>2, <3>2
    <3> QED
      BY <1>1, <2>1, <2>2, <3>1, <3>2
  <2> QED
    BY <2>2, <2>3
<1>4. ASSUME clientSent' = clientSent, serverSent' = serverSent,
             Len(clientGot) <= Len(clientGot'), Len(serverGot) <= Len(serverGot'),
             Len(clientGot') \in Nat, Len(serverGot') \in Nat
      PROVE  Stamps'
  <2>1. \A k \in 1..Len(clientSent) : clientSent[k].seen \in Nat
    <3>1. \A k \in 1..Len(clientSent) : clientSent[k] \in Message
      BY <1>1
    <3> QED
      BY <3>1 DEF Message
  <2>2. \A k \in 1..Len(serverSent) : serverSent[k].seen \in Nat
    <3>1. \A k \in 1..Len(serverSent) : serverSent[k] \in Message
      BY <1>1
    <3> QED
      BY <3>1 DEF Message
  <2>3. Len(clientGot) \in Nat /\ Len(serverGot) \in Nat
    BY <1>1
  <2> QED
    BY <1>4, <2>1, <2>2, <2>3
<1>5. CASE ClientRecv
  <2>1. Head(respOut) \in Message /\ clientGot' = Append(clientGot, Head(respOut))
        /\ UNCHANGED <<clientSent, serverGot, serverSent>>
    BY <1>1, <1>5, HeadFacts DEF ClientRecv, serverVars
  <2> QED
    BY <1>1, <1>4, <2>1
<1>6. CASE ServerRecv
  <2>1. Head(reqOut) \in Message /\ serverGot' = Append(serverGot, Head(reqOut))
        /\ UNCHANGED <<clientSent, clientGot, serverSent>>
    BY <1>1, <1>6, HeadFacts DEF ServerRecv, clientVars
  <2> QED
    BY <1>1, <1>4, <2>1
<1>7. CASE UNCHANGED <<clientSent, clientGot, serverSent, serverGot>>
  BY <1>1, <1>4, <1>7
<1>8. CASE ClientCloseSend \/ ClientCancel \/ ClientFinish
  BY <1>7, <1>8 DEF ClientCloseSend, ClientCancel, ClientFinish, serverVars
<1>9. CASE ServerRecvEOF \/ ServerSetHeader \/ ServerFinish \/ ServerReset
  BY <1>7, <1>9 DEF ServerRecvEOF, ServerSetHeader, ServerFinish, ServerReset,
     clientVars
<1>10. CASE Upstream \/ WriteStatus \/ Handler \/ S2C \/ C2S \/ UNCHANGED vars
  BY <1>7, <1>10, UpstreamFrame, WriteFrame, HandlerFrame, S2CFrame, C2SFrame
  DEF clientVars, serverVars, vars
<1> QED
  BY <1>2, <1>3, <1>5, <1>6, <1>8, <1>9, <1>10, NextCases DEF Client, Server

-----------------------------------------------------------------------------
(* The recorder.                                                           *)

\* The message in the hands of a forwarder is the next one its wire needs.
LEMMA RequestInHand ==
  ASSUME TypeOK, RequestFifo, Stamps, s2c.f # <<>>
  PROVE  /\ Head(s2c.f) \in Message
         /\ Head(s2c.f).from = "client" /\ Head(s2c.f).n = RequestsOut + 1
         /\ Head(s2c.f).seen <= Len(clientGot)
<1> DEFINE a == serverGot \o reqOut
           f == s2c.f
<1>1. /\ serverGot \in Seq(Message) /\ reqOut \in Seq(Message)
      /\ f \in Seq(Message) /\ reqIn \in Seq(Message) /\ f # <<>>
  BY DEF TypeOK, ServerTypeOK, WireTypeOK, S2CTypeOK
<1>2. a \in Seq(Message) /\ Len(a) = RequestsOut
  BY <1>1, ConcatProperties DEF RequestsOut
<1>3. clientSent = (a \o f) \o reqIn
  BY DEF RequestFifo
<1> HIDE DEF a, f
<1>4. Len(a) < Len(clientSent) /\ clientSent[Len(a) + 1] = Head(f)
  BY <1>1, <1>2, <1>3, NextReceived
<1>5. Len(a) \in Nat /\ Len(clientSent) \in Nat
  BY <1>2 DEF TypeOK, ClientTypeOK
<1>6. Len(a) + 1 \in 1..Len(clientSent)
  BY <1>4, <1>5
<1>7. Head(f) \in Message
  BY <1>1, HeadFacts
<1> QED
  BY <1>2, <1>4, <1>6, <1>7 DEF Stamps, f

LEMMA ResponseInHand ==
  ASSUME TypeOK, ResponseFifo, Stamps, c2s.f # <<>>
  PROVE  /\ Head(c2s.f) \in Message
         /\ Head(c2s.f).from = "server" /\ Head(c2s.f).n = ResponsesOut + 1
         /\ Head(c2s.f).seen <= Len(serverGot)
<1> DEFINE a == clientGot \o respOut
           f == c2s.f
<1>1. /\ clientGot \in Seq(Message) /\ respOut \in Seq(Message)
      /\ f \in Seq(Message) /\ respIn \in Seq(Message) /\ f # <<>>
  BY DEF TypeOK, ClientTypeOK, WireTypeOK, C2STypeOK
<1>2. a \in Seq(Message) /\ Len(a) = ResponsesOut
  BY <1>1, ConcatProperties DEF ResponsesOut
<1>3. serverSent = (a \o f) \o respIn
  BY DEF ResponseFifo
<1> HIDE DEF a, f
<1>4. Len(a) < Len(serverSent) /\ serverSent[Len(a) + 1] = Head(f)
  BY <1>1, <1>2, <1>3, NextReceived
<1>5. Len(a) \in Nat /\ Len(serverSent) \in Nat
  BY <1>2 DEF TypeOK, ServerTypeOK
<1>6. Len(a) + 1 \in 1..Len(serverSent)
  BY <1>4, <1>5
<1>7. Head(f) \in Message
  BY <1>1, HeadFacts
<1> QED
  BY <1>2, <1>4, <1>6, <1>7 DEF Stamps, f

LEMMA Counts ==
  ASSUME TypeOK
  PROVE  /\ RequestsOut \in Nat /\ ResponsesOut \in Nat
         /\ Len(serverGot) \in Nat /\ Len(serverGot) <= RequestsOut
         /\ Len(clientGot) \in Nat /\ Len(clientGot) <= ResponsesOut
         /\ dss.events \in Seq(Message)
  BY DEF TypeOK, ClientTypeOK, ServerTypeOK, WireTypeOK, DumpTypeOK, RequestsOut,
         ResponsesOut

LEMMA RecordedStep ==
  ASSUME TypeOK, RequestFifo, ResponseFifo, Stamps, Recorded, [Next]_vars
  PROVE  Recorded'
<1> DEFINE E == dss.events
<1>1. /\ RequestsOut \in Nat /\ ResponsesOut \in Nat /\ E \in Seq(Message)
      /\ s2c.f \in Seq(Message) /\ c2s.f \in Seq(Message)
  BY Counts DEF TypeOK, S2CTypeOK, C2STypeOK
<1>2. CASE S2CRecord
  <2> DEFINE m == Head(s2c.f)
  <2>1. m \in Message /\ m.from = "client" /\ m.n = RequestsOut + 1
    BY <1>2, RequestInHand DEF S2CRecord, TypeOK, S2CTypeOK
  <2>2. /\ dss'.events = Append(E, m) /\ s2c'.pc = "send"
        /\ RequestsOut' = RequestsOut /\ ResponsesOut' = ResponsesOut
        /\ c2s' = c2s
    BY <1>2 DEF S2CRecord, Record, s2cOnly, s2cFrame, TypeOK, S2CTypeOK,
       DumpTypeOK, clientVars, serverVars, RequestsOut, ResponsesOut
  <2>3. Holds(Append(E, m), "client", RequestsOut + 1)
    BY <1>1, <2>1, HoldsNext DEF Recorded
  <2>4. Holds(Append(E, m), "client", RequestsOut)
    BY <1>1, <2>1, HoldsAppend DEF Recorded
  <2>5. Holds(Append(E, m), "server", ResponsesOut)
    BY <1>1, <2>1, HoldsAppend DEF Recorded
  <2>6. c2s.pc = "send" => Holds(Append(E, m), "server", ResponsesOut + 1)
    BY <1>1, <2>1, HoldsAppend DEF Recorded
  <2> QED
    BY <2>2, <2>3, <2>4, <2>5, <2>6 DEF Recorded
<1>3. CASE C2SRecord
  <2> DEFINE m == Head(c2s.f)
  <2>1. m \in Message /\ m.from = "server" /\ m.n = ResponsesOut + 1
    BY <1>3, ResponseInHand DEF C2SRecord, TypeOK, C2STypeOK
  <2>2. /\ dss'.events = Append(E, m) /\ c2s'.pc = "send"
        /\ RequestsOut' = RequestsOut /\ ResponsesOut' = ResponsesOut
        /\ s2c' = s2c
    BY <1>3 DEF C2SRecord, Record, c2sOnly, TypeOK, C2STypeOK, DumpTypeOK,
       clientVars, serverVars, RequestsOut, ResponsesOut
  <2>3. Holds(Append(E, m), "server", ResponsesOut + 1)
    BY <1>1, <2>1, HoldsNext DEF Recorded
  <2>4. Holds(Append(E, m), "server", ResponsesOut)
    BY <1>1, <2>1, HoldsAppend DEF Recorded
  <2>5. Holds(Append(E, m), "client", RequestsOut)
    BY <1>1, <2>1, HoldsAppend DEF Recorded
  <2>6. s2c.pc = "send" => Holds(Append(E, m), "client", RequestsOut + 1)
    BY <1>1, <2>1, HoldsAppend DEF Recorded
  <2> QED
    BY <2>2, <2>3, <2>4, <2>5, <2>6 DEF Recorded
<1>4. CASE S2CSend
  <2>1. /\ s2c.pc = "send" /\ s2c'.pc = "recv" /\ RequestsOut' = RequestsOut + 1
        /\ UNCHANGED <<c2s, dss, ResponsesOut>>
    <3>1. Head(s2c.f) \in Message /\ reqOut \in Seq(Message)
      BY <1>4, Singleton DEF S2CSend, TypeOK, S2CTypeOK, WireTypeOK
    <3> QED
      BY <1>4, <3>1 DEF S2CSend, s2cOnly, s2cFrame, TypeOK, S2CTypeOK,
         ServerTypeOK, clientVars, serverVars, RequestsOut, ResponsesOut
  <2> QED
    BY <2>1 DEF Recorded
<1>5. CASE C2SSend
  <2>1. /\ c2s.pc = "send" /\ c2s'.pc = "recv" /\ ResponsesOut' = ResponsesOut + 1
        /\ UNCHANGED <<s2c, dss, RequestsOut>>
    <3>1. Head(c2s.f) \in Message /\ respOut \in Seq(Message)
      BY <1>5, Singleton DEF C2SSend, TypeOK, C2STypeOK, WireTypeOK
    <3> QED
      BY <1>5, <3>1 DEF C2SSend, c2sOnly, TypeOK, C2STypeOK, ClientTypeOK,
         clientVars, serverVars, RequestsOut, ResponsesOut
  <2> QED
    BY <2>1 DEF Recorded
<1>6. ASSUME RequestsOut' = RequestsOut, ResponsesOut' = ResponsesOut,
             dss'.events = E, s2c'.pc = "send" => s2c.pc = "send",
             c2s'.pc = "send" => c2s.pc = "send"
      PROVE  Recorded'
  BY <1>6 DEF Recorded
<1>7. CASE ServerRecv
  <2>1. RequestsOut' = RequestsOut
    <3>1. serverGot \in Seq(Message) /\ reqOut \in Seq(Message) /\ reqOut # <<>>
      BY <1>7 DEF ServerRecv, TypeOK, ServerTypeOK, WireTypeOK
    <3>2. /\ Len(Append(serverGot, Head(reqOut))) = Len(serverGot) + 1
          /\ Len(Tail(reqOut)) = Len(reqOut) - 1
          /\ Len(serverGot) \in Nat /\ Len(reqOut) \in Nat
      BY <3>1
    <3> QED
      BY <1>7, <3>2 DEF ServerRecv, RequestsOut
  <2> QED
    BY <1>6, <1>7, <2>1 DEF ServerRecv, clientVars, ResponsesOut
<1>8. CASE ClientRecv
  <2>1. ResponsesOut' = ResponsesOut
    <3>1. clientGot \in Seq(Message) /\ respOut \in Seq(Message) /\ respOut # <<>>
      BY <1>8 DEF ClientRecv, TypeOK, ClientTypeOK, WireTypeOK
    <3>2. /\ Len(Append(clientGot, Head(respOut))) = Len(clientGot) + 1
          /\ Len(Tail(respOut)) = Len(respOut) - 1
          /\ Len(clientGot) \in Nat /\ Len(respOut) \in Nat
      BY <3>1
    <3> QED
      BY <1>8, <3>2 DEF ClientRecv, ResponsesOut
  <2> QED
    BY <1>6, <1>8, <2>1 DEF ClientRecv, serverVars, RequestsOut
<1> USE DEF RequestsOut, ResponsesOut
<1>9. CASE \/ ClientCloseSend \/ ClientCancel \/ ClientFinish
           \/ \E sz \in RequestSizes : ClientSend(sz)
  BY <1>6, <1>9 DEF ClientCloseSend, ClientCancel, ClientFinish, ClientSend,
     serverVars, wires
<1>10. CASE \/ ServerRecvEOF \/ ServerSetHeader \/ ServerFinish \/ ServerReset
            \/ \E sz \in ResponseSizes : ServerSend(sz)
  BY <1>6, <1>10 DEF ServerRecvEOF, ServerSetHeader, ServerFinish, ServerReset,
     ServerSend, clientVars, wires
<1>11. CASE Upstream \/ WriteStatus \/ UNCHANGED vars
  BY <1>6, <1>11, UpstreamFrame, WriteFrame DEF clientVars, serverVars, wires,
     vars
<1>12. CASE OpenUpstream \/ SetupRejected \/ SetupCancelled \/ Dump
  BY <1>6, <1>12, HandlerFrame DEF Handler, OpenUpstream, SetupRejected,
     SetupCancelled, Dump, clientVars, wires, TypeOK, S2CTypeOK, C2STypeOK
<1>13. CASE SelectS2CEof \/ SelectS2CErr \/ SelectC2S
  BY <1>6, <1>13, HandlerFrame DEF Handler, SelectS2CEof, SelectS2CErr,
     SelectC2S, clientVars, wires, TypeOK, S2CTypeOK, C2STypeOK, DumpTypeOK
<1>14. CASE S2CRecv \/ S2CRecvEOF \/ S2CRecvErr \/ S2CSendErr
  BY <1>6, <1>14 DEF S2CRecv, S2CRecvEOF, S2CRecvErr, S2CSendErr, S2CExit,
     s2cOnly, s2cFrame, clientVars, serverVars, TypeOK, S2CTypeOK
<1>15. CASE C2SRecv \/ C2SRecvEnd \/ C2SRecvErr \/ C2SHeader \/ C2SSendErr
  BY <1>6, <1>15 DEF C2SRecv, C2SRecvEnd, C2SRecvErr, C2SHeader, C2SSendErr,
     C2SExit, c2sOnly, clientVars, serverVars, TypeOK, C2STypeOK, DumpTypeOK
<1> QED
  BY <1>2, <1>3, <1>4, <1>5, <1>7, <1>8, <1>9, <1>10, <1>11, <1>12, <1>13,
     <1>14, <1>15, NextCases DEF Client, Server, Handler, S2C, C2S

LEMMA EventsStep ==
  ASSUME TypeOK, [Next]_vars
  PROVE  S2CRecord \/ C2SRecord \/ dss'.events = dss.events
<1> USE DEF TypeOK, DumpTypeOK
<1>1. CASE S2C
  BY <1>1 DEF S2C, S2CRecv, S2CRecvEOF, S2CRecvErr, S2CSend, S2CSendErr
<1>2. CASE C2S
  BY <1>2 DEF C2S, C2SRecv, C2SRecvEnd, C2SRecvErr, C2SHeader, C2SSend, C2SSendErr
<1>3. CASE Handler
  BY <1>3 DEF Handler, OpenUpstream, SetupRejected, SetupCancelled, SelectS2CEof,
     SelectS2CErr, SelectC2S, Dump
<1> QED
  BY <1>1, <1>2, <1>3, NextCases, ClientFrame, ServerFrame, UpstreamFrame,
     WriteFrame DEF vars

LEMMA RecordIsCausalStep ==
  ASSUME TypeOK, RequestFifo, ResponseFifo, Stamps, Recorded, RecordIsCausal,
         [Next]_vars
  PROVE  RecordIsCausal'
<1> USE DEF RecordIsCausal
<1>1. CASE S2CRecord
  <2> DEFINE m == Head(s2c.f)
  <2>1. /\ m \in Message /\ m.from = "client" /\ m.seen <= Len(clientGot)
        /\ dss'.events = Append(dss.events, m)
    BY <1>1, RequestInHand DEF S2CRecord, Record, TypeOK, S2CTypeOK, DumpTypeOK
  <2> HIDE DEF m
  <2>2. m.seen <= ResponsesOut
    BY <2>1, Counts DEF Message
  <2>3. Causal(Append(dss.events, m))
    BY <2>1, <2>2, Counts, CausalAppend DEF Recorded
  <2> QED
    BY <2>1, <2>3
<1>2. CASE C2SRecord
  <2> DEFINE m == Head(c2s.f)
  <2>1. /\ m \in Message /\ m.from = "server" /\ m.seen <= Len(serverGot)
        /\ dss'.events = Append(dss.events, m)
    BY <1>2, ResponseInHand DEF C2SRecord, Record, TypeOK, C2STypeOK, DumpTypeOK
  <2> HIDE DEF m
  <2>2. m.seen <= RequestsOut
    BY <2>1, Counts DEF Message
  <2>3. Causal(Append(dss.events, m))
    BY <2>1, <2>2, Counts, CausalAppend DEF Recorded
  <2> QED
    BY <2>1, <2>3
<1>3. CASE dss'.events = dss.events
  BY <1>3
<1> QED
  BY <1>1, <1>2, <1>3, EventsStep

-----------------------------------------------------------------------------
(* The handler's return, the headers and the trailers.                     *)

LEMMA QuietStep ==
  ASSUME TypeOK, Control, Written, S2COutcome, C2SOutcome, HandlerOutcome',
         Quiet, [Next]_vars
  PROVE  Quiet'
<1> USE DEF TypeOK, Control, Written, Quiet, clientCtxDone, ssDone, WireTypeOK,
      ServerTypeOK, HandlerTypeOK, S2CTypeOK, C2STypeOK, DumpTypeOK,
      AppStatuses, NoErr, EOF, NoStatus, clientVars, serverVars, wires, upVars
<1>1. CASE Client
  BY <1>1 DEF Client, ClientSend, ClientCloseSend, ClientRecv, ClientCancel,
     ClientFinish
<1>2. CASE Server
  BY <1>2 DEF Server, ServerSend, ServerRecv, ServerRecvEOF, ServerSetHeader,
     ServerFinish, ServerReset
<1>3. CASE Upstream
  BY <1>3 DEF Upstream, UpstreamEnd, UpstreamBecomes, UpstreamCancel,
     UpstreamBreak
<1>4. CASE OpenUpstream
  BY <1>4 DEF OpenUpstream
<1>5. CASE SetupRejected
  BY <1>5 DEF SetupRejected, Return
<1>6. CASE SetupCancelled
  BY <1>6 DEF SetupCancelled, Return
<1>7. CASE SelectS2CEof
  BY <1>7 DEF SelectS2CEof, Return, HandlerOutcome
<1>8. CASE SelectS2CErr
  BY <1>8 DEF SelectS2CErr, Return, S2COutcome
<1>9. CASE SelectC2S
  BY <1>9 DEF SelectC2S, Return, C2SOutcome, ResponsesDone
<1>10. CASE Dump
  BY <1>10 DEF Dump
<1>11. CASE S2CRecv
  BY <1>11 DEF S2CRecv, s2cOnly, s2cFrame, S2CExit
<1>12. CASE S2CRecvEOF
  BY <1>12 DEF S2CRecvEOF, s2cOnly, s2cFrame, S2CExit
<1>13. CASE S2CRecvErr
  BY <1>13 DEF S2CRecvErr, s2cOnly, s2cFrame, S2CExit
<1>14. CASE S2CRecord
  BY <1>14 DEF S2CRecord, s2cOnly, s2cFrame, S2CExit, Record
<1>15. CASE S2CSend
  BY <1>15 DEF S2CSend, s2cOnly, s2cFrame, S2CExit
<1>16. CASE S2CSendErr
  BY <1>16 DEF S2CSendErr, s2cOnly, s2cFrame, S2CExit
<1>17. CASE C2SRecv
  BY <1>17 DEF C2SRecv, c2sOnly, C2SExit
<1>18. CASE C2SRecvEnd
  BY <1>18 DEF C2SRecvEnd, c2sOnly, C2SExit
<1>19. CASE C2SRecvErr
  BY <1>19 DEF C2SRecvErr, c2sOnly, C2SExit
<1>20. CASE C2SHeader
  BY <1>20 DEF C2SHeader, c2sOnly, C2SExit
<1>21. CASE C2SRecord
  BY <1>21 DEF C2SRecord, c2sOnly, C2SExit, Record
<1>22. CASE C2SSend
  BY <1>22 DEF C2SSend, c2sOnly, C2SExit
<1>23. CASE C2SSendErr
  BY <1>23 DEF C2SSendErr, c2sOnly, C2SExit
<1>24. CASE UNCHANGED vars
  BY <1>24 DEF vars
<1>25. CASE WriteStatus
  BY <1>25 DEF WriteStatus
<1> QED
  BY <1>1, <1>2, <1>3, <1>4, <1>5, <1>6, <1>7, <1>8, <1>9, <1>10, <1>11, <1>12,
     <1>13, <1>14, <1>15, <1>16, <1>17, <1>18, <1>19, <1>20, <1>21, <1>22,
     <1>23, <1>24, <1>25, NextCases DEF Handler, S2C, C2S

LEMMA OneDumpStep ==
  ASSUME TypeOK, OneDump, [Next]_vars
  PROVE  OneDump'
<1> USE DEF TypeOK, OneDump, HandlerTypeOK, DumpTypeOK, clientVars, serverVars,
      wires, upVars
<1>1. CASE Client
  BY <1>1 DEF Client, ClientSend, ClientCloseSend, ClientRecv, ClientCancel,
     ClientFinish
<1>2. CASE Server
  BY <1>2 DEF Server, ServerSend, ServerRecv, ServerRecvEOF, ServerSetHeader,
     ServerFinish, ServerReset
<1>3. CASE Upstream
  BY <1>3 DEF Upstream, UpstreamEnd, UpstreamBecomes, UpstreamCancel,
     UpstreamBreak
<1>4. CASE OpenUpstream
  BY <1>4 DEF OpenUpstream
<1>5. CASE SetupRejected
  BY <1>5 DEF SetupRejected, Return
<1>6. CASE SetupCancelled
  BY <1>6 DEF SetupCancelled, Return
<1>7. CASE SelectS2CEof
  BY <1>7 DEF SelectS2CEof, Return
<1>8. CASE SelectS2CErr
  BY <1>8 DEF SelectS2CErr, Return
<1>9. CASE SelectC2S
  BY <1>9 DEF SelectC2S, Return
<1>10. CASE Dump
  BY <1>10 DEF Dump
<1>11. CASE S2CRecv
  BY <1>11 DEF S2CRecv, s2cOnly, s2cFrame, S2CExit
<1>12. CASE S2CRecvEOF
  BY <1>12 DEF S2CRecvEOF, s2cOnly, s2cFrame, S2CExit
<1>13. CASE S2CRecvErr
  BY <1>13 DEF S2CRecvErr, s2cOnly, s2cFrame, S2CExit
<1>14. CASE S2CRecord
  BY <1>14 DEF S2CRecord, s2cOnly, s2cFrame, S2CExit, Record
<1>15. CASE S2CSend
  BY <1>15 DEF S2CSend, s2cOnly, s2cFrame, S2CExit
<1>16. CASE S2CSendErr
  BY <1>16 DEF S2CSendErr, s2cOnly, s2cFrame, S2CExit
<1>17. CASE C2SRecv
  BY <1>17 DEF C2SRecv, c2sOnly, C2SExit
<1>18. CASE C2SRecvEnd
  BY <1>18 DEF C2SRecvEnd, c2sOnly, C2SExit
<1>19. CASE C2SRecvErr
  BY <1>19 DEF C2SRecvErr, c2sOnly, C2SExit
<1>20. CASE C2SHeader
  BY <1>20 DEF C2SHeader, c2sOnly, C2SExit
<1>21. CASE C2SRecord
  BY <1>21 DEF C2SRecord, c2sOnly, C2SExit, Record
<1>22. CASE C2SSend
  BY <1>22 DEF C2SSend, c2sOnly, C2SExit
<1>23. CASE C2SSendErr
  BY <1>23 DEF C2SSendErr, c2sOnly, C2SExit
<1>24. CASE UNCHANGED vars
  BY <1>24 DEF vars
<1>25. CASE WriteStatus
  BY <1>25 DEF WriteStatus
<1> QED
  BY <1>1, <1>2, <1>3, <1>4, <1>5, <1>6, <1>7, <1>8, <1>9, <1>10, <1>11, <1>12,
     <1>13, <1>14, <1>15, <1>16, <1>17, <1>18, <1>19, <1>20, <1>21, <1>22,
     <1>23, <1>24, <1>25, NextCases DEF Handler, S2C, C2S

\* What is out grows only by a SendMsg of a forwarder.
LEMMA OutStep ==
  ASSUME TypeOK, [Next]_vars
  PROVE  /\ RequestsOut' = RequestsOut \/ S2CSend
         /\ ResponsesOut' = ResponsesOut \/ C2SSend
<1> USE DEF RequestsOut, ResponsesOut
<1>1. CASE ServerRecv
  <2>1. serverGot \in Seq(Message) /\ reqOut \in Seq(Message) /\ reqOut # <<>>
    BY <1>1 DEF ServerRecv, TypeOK, ServerTypeOK, WireTypeOK
  <2>2. /\ Len(Append(serverGot, Head(reqOut))) = Len(serverGot) + 1
        /\ Len(Tail(reqOut)) = Len(reqOut) - 1
        /\ Len(serverGot) \in Nat /\ Len(reqOut) \in Nat
    BY <2>1
  <2> QED
    BY <1>1, <2>2 DEF ServerRecv, clientVars
<1>2. CASE ClientRecv
  <2>1. clientGot \in Seq(Message) /\ respOut \in Seq(Message) /\ respOut # <<>>
    BY <1>2 DEF ClientRecv, TypeOK, ClientTypeOK, WireTypeOK
  <2>2. /\ Len(Append(clientGot, Head(respOut))) = Len(clientGot) + 1
        /\ Len(Tail(respOut)) = Len(respOut) - 1
        /\ Len(clientGot) \in Nat /\ Len(respOut) \in Nat
    BY <2>1
  <2> QED
    BY <1>2, <2>2 DEF ClientRecv, serverVars
<1>3. CASE \/ ClientCloseSend \/ ClientCancel \/ ClientFinish
           \/ \E sz \in RequestSizes : ClientSend(sz)
  BY <1>3 DEF ClientCloseSend, ClientCancel, ClientFinish, ClientSend,
     serverVars, wires
<1>4. CASE \/ ServerRecvEOF \/ ServerSetHeader \/ ServerFinish \/ ServerReset
           \/ \E sz \in ResponseSizes : ServerSend(sz)
  BY <1>4 DEF ServerRecvEOF, ServerSetHeader, ServerFinish, ServerReset,
     ServerSend, clientVars, wires
<1>5. CASE S2C
  BY <1>5, S2CFrame DEF S2C, S2CRecv, S2CRecvEOF, S2CRecvErr, S2CRecord,
     S2CSendErr, clientVars, serverVars
<1>6. CASE C2S
  BY <1>6, C2SFrame DEF C2S, C2SRecv, C2SRecvEnd, C2SRecvErr, C2SHeader,
     C2SRecord, C2SSendErr, clientVars, serverVars
<1>7. CASE Upstream \/ WriteStatus \/ Handler \/ UNCHANGED vars
  BY <1>7, UpstreamFrame, WriteFrame, HandlerFrame DEF clientVars, serverVars,
     wires, vars
<1> QED
  BY <1>1, <1>2, <1>3, <1>4, <1>5, <1>6, <1>7, NextCases DEF Client, Server

\* A response in the hands of c2s has been sent.
LEMMA SomethingSent ==
  ASSUME TypeOK, ResponseFifo, c2s.f # <<>>
  PROVE  serverSent # <<>>
<1> DEFINE a == clientGot \o respOut
           f == c2s.f
<1>1. /\ clientGot \in Seq(Message) /\ respOut \in Seq(Message)
      /\ f \in Seq(Message) /\ respIn \in Seq(Message) /\ f # <<>>
  BY DEF TypeOK, ClientTypeOK, WireTypeOK, C2STypeOK
<1>2. a \in Seq(Message)
  BY <1>1, ConcatProperties
<1>3. serverSent = (a \o f) \o respIn
  BY DEF ResponseFifo
<1> HIDE DEF a, f
<1>4. Len(a) < Len(serverSent) /\ Len(a) \in Nat
  BY <1>1, <1>2, <1>3, NextReceived
<1> QED
  BY <1>4 DEF TypeOK, ServerTypeOK

LEMMA HeadersStep ==
  ASSUME TypeOK, ResponseFifo, Control, Headers, [Next]_vars
  PROVE  Headers'
<1>1. ASSUME c2s'.pc \in {"record", "send"} => c2s.pc \in {"record", "send"},
             c2s'.first = c2s.first, ResponsesOut' = ResponsesOut,
             UNCHANGED <<dss.headers, serverHeaders>>,
             serverSent # <<>> => serverSent' # <<>>
      PROVE  Headers'
  BY <1>1 DEF Headers
<1>2. serverSent # <<>> => serverSent' # <<>>
  BY HistoryStep, AppendProperties DEF TypeOK, ServerTypeOK
<1>3. CASE C2SSend
  BY <1>3 DEF C2SSend, c2sOnly, serverVars, Headers, TypeOK, C2STypeOK
<1>4. CASE ResponsesOut' = ResponsesOut
  <2>1. CASE C2SRecv
    BY <1>4, <2>1, <1>2 DEF C2SRecv, c2sOnly, serverVars, Headers, TypeOK,
       C2STypeOK
  <2>2. CASE C2SHeader
    <3>1. serverSent # <<>>
      <4>1. c2s.pc = "header"
        BY <2>2 DEF C2SHeader
      <4>2. c2s.f \in Seq(Message) /\ Len(c2s.f) = 1
        BY <4>1 DEF TypeOK, C2STypeOK
      <4> QED
        BY <4>2, Singleton, SomethingSent
    <3> QED
      BY <1>4, <2>2, <3>1 DEF C2SHeader, C2SExit, c2sOnly, serverVars, Headers,
         TypeOK, C2STypeOK, DumpTypeOK
  <2>3. CASE ServerSetHeader
    BY <1>4, <2>3 DEF ServerSetHeader, Headers
  <2>4. CASE C2SRecvEnd \/ C2SRecvErr \/ C2SRecord \/ C2SSendErr
    BY <1>1, <1>2, <1>4, <2>4 DEF C2SRecvEnd, C2SRecvErr, C2SRecord, C2SSendErr,
       C2SExit, Record, c2sOnly, serverVars, TypeOK, C2STypeOK, DumpTypeOK
  <2>5. CASE OpenUpstream \/ SetupRejected \/ SetupCancelled \/ Dump
    BY <1>1, <1>2, <1>4, <2>5 DEF OpenUpstream, SetupRejected, SetupCancelled,
       Dump, serverVars, TypeOK, C2STypeOK
  <2>6. CASE SelectS2CEof \/ SelectS2CErr \/ SelectC2S
    BY <1>1, <1>2, <1>4, <2>6 DEF SelectS2CEof, SelectS2CErr, SelectC2S,
       serverVars, TypeOK, C2STypeOK, DumpTypeOK
  <2>7. CASE S2C
    BY <1>1, <1>2, <1>4, <2>7 DEF S2C, S2CRecv, S2CRecvEOF, S2CRecvErr,
       S2CRecord, S2CSend, S2CSendErr, S2CExit, Record, s2cOnly, s2cFrame,
       serverVars, TypeOK, DumpTypeOK
  <2>8. CASE \/ ServerRecv \/ ServerRecvEOF \/ ServerFinish \/ ServerReset
             \/ \E sz \in ResponseSizes : ServerSend(sz)
    BY <1>1, <1>2, <1>4, <2>8 DEF ServerRecv, ServerRecvEOF, ServerFinish,
       ServerReset, ServerSend
  <2>9. CASE Client \/ Upstream \/ WriteStatus \/ UNCHANGED vars
    BY <1>1, <1>2, <1>4, <2>9, ClientFrame, UpstreamFrame, WriteFrame DEF
       serverVars, vars
  <2> QED
    BY <1>3, <2>1, <2>2, <2>3, <2>4, <2>5, <2>6, <2>7, <2>8, <2>9, NextCases
    DEF Server, Handler, C2S
<1> QED
  BY <1>3, <1>4, OutStep

-----------------------------------------------------------------------------
(* The dump.                                                               *)

LEMMA OutputStep ==
  ASSUME [Next]_vars
  PROVE  Dump \/ UNCHANGED output
  BY NextCases, ClientFrame, ServerFrame, UpstreamFrame, WriteFrame, S2CFrame,
     C2SFrame DEF Handler, OpenUpstream, SetupRejected, SetupCancelled,
     SelectS2CEof, SelectS2CErr, SelectC2S, vars

\* The one dump is the record at the moment the handler has returned.
LEMMA DumpIsRecord ==
  ASSUME TypeOK, OneDump, Dump
  PROVE  /\ Len(output') = 1
         /\ output'[1].messages = dss.events /\ output'[1].status = handler.err
         /\ output'[1].headers = dss.headers /\ output'[1].trailers = dss.trailers
         /\ UNCHANGED <<clientVars, serverVars, wires, dss, c2s>>
         /\ RequestsOut' = RequestsOut /\ ResponsesOut' = ResponsesOut
<1>1. output = <<>>
  BY DEF Dump, OneDump
<1> QED
  BY <1>1 DEF Dump, clientVars, serverVars, wires, RequestsOut, ResponsesOut

LEMMA CancelIsFinal ==
  ASSUME [Next]_vars, clientStatus = "Canceled"
  PROVE  clientStatus' = "Canceled"
<1>1. CASE Client
  BY <1>1 DEF Client, ClientSend, ClientCloseSend, ClientRecv, ClientCancel,
     ClientFinish, NoStatus
<1> QED
  BY <1>1, NextCases, ServerFrame, UpstreamFrame, WriteFrame, HandlerFrame,
     S2CFrame, C2SFrame DEF clientVars, vars

\* A server that has finished changes nothing any more.
LEMMA ServerDone ==
  ASSUME IInv, [Next]_vars, server \in AppStatuses
  PROVE  UNCHANGED serverVars
<1> USE DEF AppStatuses
<1>1. CASE Server
  BY <1>1 DEF Server, ServerRecv, ServerRecvEOF, ServerSetHeader, ServerSend,
     ServerFinish, ServerReset
<1>2. CASE Handler
  BY <1>2, HandlerFrame DEF Handler, OpenUpstream, SetupRejected, SetupCancelled,
     SelectS2CEof, SelectS2CErr, SelectC2S, Dump, IInv, Control, serverVars
<1> QED
  BY <1>1, <1>2, NextCases, ClientFrame, UpstreamFrame, WriteFrame, S2CFrame,
     C2SFrame DEF vars

LEMMA DumpCausalStep ==
  ASSUME DumpInv, [Next]_vars
  PROVE  DumpCausal'
<1> USE DEF DumpInv, IInv, DumpCausal
<1>1. CASE Dump
  <2>1. Len(output') = 1 /\ output'[1].messages = dss.events
    BY <1>1, DumpIsRecord
  <2> QED
    BY <2>1 DEF RecordIsCausal
<1>2. CASE UNCHANGED output
  BY <1>2
<1> QED
  BY <1>1, <1>2, OutputStep

LEMMA DumpCoversWireStep ==
  ASSUME DumpInv, [Next]_vars
  PROVE  DumpCoversWire'
<1> USE DEF DumpInv, IInv
<1> SUFFICES ASSUME clientStatus' # "Canceled"
             PROVE  \A d \in 1..Len(output') :
                       Holds(output'[d].messages, "server", ResponsesOut')
  BY DEF DumpCoversWire
<1>1. clientStatus # "Canceled"
  BY CancelIsFinal
<1>2. CASE Dump
  <2>1. Len(output') = 1 /\ output'[1].messages = dss.events
    BY <1>2, DumpIsRecord
  <2>2. Holds(dss.events, "server", ResponsesOut')
    BY <1>2, DumpIsRecord DEF Recorded
  <2> QED
    BY <2>1, <2>2
<1>3. CASE UNCHANGED output
  <2>1. CASE output = <<>>
    BY <1>3, <2>1
  <2>2. CASE output # <<>>
    <3>1. ResponsesOut' = ResponsesOut
      BY <1>1, <2>2, OutStep DEF OneDump, Quiet, C2SSend
    <3> QED
      BY <1>1, <1>3, <3>1 DEF DumpCoversWire
  <2> QED
    BY <2>1, <2>2
<1> QED
  BY <1>2, <1>3, OutputStep

\* A client that has cancelled receives nothing any more.
LEMMA CancelledGetsNothing ==
  ASSUME [Next]_vars, clientStatus' = "Canceled"
  PROVE  UNCHANGED clientGot
<1>1. CASE Client
  BY <1>1 DEF Client, ClientSend, ClientCloseSend, ClientRecv, ClientCancel,
     ClientFinish, NoStatus
<1> QED
  BY <1>1, NextCases, ServerFrame, UpstreamFrame, WriteFrame, HandlerFrame,
     S2CFrame, C2SFrame DEF clientVars, vars

LEMMA DumpCoversClientStep ==
  ASSUME DumpInv, [Next]_vars, IInv', OneDump', DumpCoversWire'
  PROVE  DumpCoversClient'
<1> USE DEF DumpInv, IInv
<1>1. ASSUME clientStatus' \notin {NoStatus, "Canceled"}
      PROVE  \/ output' # <<>> /\ output'[1].status = clientStatus'
             \/ clientStatus' = "ResourceExhausted" /\ OversizedRequest'
  <2>1. clientStatus' = ssStatus' /\ ssStatus' # NoStatus
    BY <1>1 DEF Control
  <2>2. \/ ssStatus' = "ResourceExhausted" /\ OversizedRequest'
        \/ handler'.pc = "finished" /\ ssStatus' = handler'.err
    BY <1>1, <2>1 DEF Written
  <2> QED
    BY <2>1, <2>2 DEF OneDump
<1>2. \A d \in 1..Len(output') :
         Holds(output'[d].messages, "server", Len(clientGot'))
  <2>1. CASE clientStatus' # "Canceled"
    <3> SUFFICES ASSUME NEW d \in 1..Len(output')
                 PROVE  Holds(output'[d].messages, "server", Len(clientGot'))
      OBVIOUS
    <3>1. Holds(output'[d].messages, "server", ResponsesOut')
      BY <2>1 DEF DumpCoversWire
    <3>2. /\ clientGot' \in Seq(Message) /\ respOut' \in Seq(Message)
          /\ output' \in Seq(Dumps)
      BY DEF TypeOK, ClientTypeOK, WireTypeOK, DumpTypeOK
    <3>3. output'[d].messages \in Seq(Message)
      <4>1. output'[d] \in Dumps
        BY <3>2
      <4> QED
        BY <4>1 DEF Dumps
    <3>4. /\ Len(clientGot') \in Nat /\ ResponsesOut' \in Nat
          /\ Len(clientGot') <= ResponsesOut'
      BY <3>2 DEF ResponsesOut
    <3> QED
      BY <3>1, <3>3, <3>4, HoldsLess
  <2>2. CASE clientStatus' = "Canceled"
    <3>1. UNCHANGED clientGot
      BY <2>2, CancelledGetsNothing
    <3>2. CASE Dump
      <4>1. Len(output') = 1 /\ output'[1].messages = dss.events
        BY <3>2, DumpIsRecord
      <4>2. Holds(dss.events, "server", Len(clientGot'))
        BY <3>1, Counts, HoldsLess DEF Recorded
      <4> QED
        BY <4>1, <4>2
    <3>3. CASE UNCHANGED output
      BY <3>1, <3>3 DEF DumpCoversClient
    <3> QED
      BY <3>2, <3>3, OutputStep
  <2> QED
    BY <2>1, <2>2
<1> QED
  BY <1>1, <1>2 DEF DumpCoversClient

LEMMA DumpCoversServerStep ==
  ASSUME DumpInv, [Next]_vars
  PROVE  DumpCoversServer'
<1> USE DEF DumpInv, IInv
<1> SUFFICES ASSUME clientStatus' # "Canceled"
             PROVE  \A d \in 1..Len(output') :
                       Holds(output'[d].messages, "client", RequestsOut')
  BY DEF DumpCoversServer, RequestsOut
<1>1. clientStatus # "Canceled"
  BY CancelIsFinal
<1>2. CASE Dump
  <2>1. Len(output') = 1 /\ output'[1].messages = dss.events
    BY <1>2, DumpIsRecord
  <2>2. Holds(dss.events, "client", RequestsOut')
    BY <1>2, DumpIsRecord DEF Recorded
  <2> QED
    BY <2>1, <2>2
<1>3. CASE UNCHANGED output
  <2>1. CASE output = <<>>
    BY <1>3, <2>1
  <2>2. CASE output # <<>>
    <3>1. RequestsOut' = RequestsOut
      BY <1>1, <2>2, OutStep DEF OneDump, Quiet, S2CSend
    <3> QED
      BY <1>1, <1>3, <3>1 DEF DumpCoversServer, RequestsOut
  <2> QED
    BY <2>1, <2>2
<1> QED
  BY <1>2, <1>3, OutputStep

LEMMA DumpCompleteStep ==
  ASSUME DumpInv, [Next]_vars
  PROVE  DumpComplete'
<1> USE DEF DumpInv, IInv
<1>1. CASE Dump
  <2> SUFFICES ASSUME handler.err \in AppStatuses
               PROVE  /\ handler.err = server
                      /\ Holds(dss.events, "client", Len(serverGot))
                      /\ Holds(dss.events, "server", Len(serverSent))
                      /\ dss.trailers
                      /\ serverSent # <<>> => dss.headers = serverHeaders
    <3>1. /\ Len(output') = 1
          /\ output'[1].messages = dss.events /\ output'[1].status = handler.err
          /\ output'[1].headers = dss.headers /\ output'[1].trailers = dss.trailers
          /\ UNCHANGED <<server, serverGot, serverSent, serverHeaders>>
      BY <1>1, DumpIsRecord DEF serverVars
    <3> QED
      BY <3>1 DEF DumpComplete
  <2>1. server = handler.err /\ c2s.f = <<>> /\ respIn = <<>>
    BY DEF HandlerOutcome, ResponsesDone
  <2>2. Holds(dss.events, "client", Len(serverGot))
    BY Counts, HoldsLess DEF Recorded
  <2>3. Len(serverSent) = ResponsesOut
    <3>1. clientGot \in Seq(Message) /\ respOut \in Seq(Message)
      BY DEF TypeOK, ClientTypeOK, WireTypeOK
    <3>2. clientGot \o respOut \in Seq(Message)
          /\ Len(clientGot \o respOut) = Len(clientGot) + Len(respOut)
      BY <3>1, ConcatProperties
    <3>3. serverSent = clientGot \o respOut
      BY <2>1, <3>2, ConcatEmptySeq DEF ResponseFifo
    <3> QED
      BY <3>2, <3>3 DEF ResponsesOut
  <2>4. Holds(dss.events, "server", Len(serverSent))
    BY <2>3 DEF Recorded
  <2>5. dss.trailers
    BY <1>1 DEF Quiet, Dump
  <2>6. serverSent # <<>> => dss.headers = serverHeaders
    BY <2>3, Counts DEF Headers, TypeOK, ServerTypeOK
  <2> QED
    BY <2>1, <2>2, <2>4, <2>5, <2>6
<1>2. CASE UNCHANGED output
  <2>1. CASE output = <<>>
    BY <1>2, <2>1 DEF DumpComplete
  <2>2. CASE output # <<>> /\ server \in AppStatuses
    BY <1>2, <2>2, ServerDone DEF DumpComplete, serverVars
  <2>3. CASE output # <<>> /\ server \notin AppStatuses
    <3>1. Len(output) = 1 /\ output[1].status \notin AppStatuses
      BY <2>3 DEF OneDump, HandlerOutcome, ResponsesDone
    <3> QED
      BY <1>2, <3>1 DEF DumpComplete
  <2> QED
    BY <2>1, <2>2, <2>3
<1> QED
  BY <1>1, <1>2, OutputStep

-----------------------------------------------------------------------------
(* The invariant and its consequences.                                     *)

LEMMA InitDumpInv == Init => DumpInv
<1> SUFFICES ASSUME Init PROVE DumpInv
  OBVIOUS
<1>1. IInv
  BY InitIInv
<1>2. Stamps /\ RecordIsCausal
  BY DEF Init, Stamps, RecordIsCausal, Causal
<1>3. Recorded /\ Headers
  BY DEF Init, Recorded, Headers, Holds, RequestsOut, ResponsesOut
<1>4. Quiet /\ OneDump
  BY DEF Init, Quiet, OneDump, NoErr
<1>5. DumpCausal /\ DumpCoversWire /\ DumpCoversClient /\ DumpCoversServer
        /\ DumpComplete
  BY DEF Init, DumpCausal, DumpCoversWire, DumpCoversClient, DumpCoversServer,
         DumpComplete
<1> QED
  BY <1>1, <1>2, <1>3, <1>4, <1>5 DEF DumpInv

LEMMA NextDumpInv == DumpInv /\ [Next]_vars => DumpInv'
<1> SUFFICES ASSUME DumpInv, [Next]_vars PROVE DumpInv'
  OBVIOUS
<1>1. IInv'
  BY NextIInv DEF DumpInv
<1>2. Stamps' /\ Recorded' /\ RecordIsCausal' /\ Headers' /\ Quiet' /\ OneDump'
  BY <1>1, StampsStep, RecordedStep, RecordIsCausalStep, HeadersStep, QuietStep,
     OneDumpStep DEF DumpInv, IInv
<1>3. DumpCausal' /\ DumpCoversWire' /\ DumpCoversServer' /\ DumpComplete'
  BY DumpCausalStep, DumpCoversWireStep, DumpCoversServerStep, DumpCompleteStep
<1>4. DumpCoversClient'
  BY <1>1, <1>2, <1>3, DumpCoversClientStep
<1> QED
  BY <1>1, <1>2, <1>3, <1>4 DEF DumpInv

THEOREM DumpInductive == Spec => []DumpInv
<1> QED
  BY InitDumpInv, NextDumpInv, PTL DEF Spec

\* The two recording goroutines never write an answer before what it answers.
THEOREM DumpIsCausal == Spec => []DumpCausal
<1>1. DumpInv => DumpCausal
  BY DEF DumpInv
<1> QED
  BY <1>1, DumpInductive, PTL

\* A client never gets a response that the dump lacks, nor an outcome but that of an
\* oversized request, and without a cancellation a server gets no request it lacks.
THEOREM BothSidesAreDumped == Spec => []DumpCovers
<1>1. DumpInv => DumpCovers
  BY DEF DumpInv, DumpCovers
<1> QED
  BY <1>1, DumpInductive, PTL

\* A call the server ended is dumped completely.
THEOREM FinishedCallIsDumped == Spec => []DumpComplete
<1>1. DumpInv => DumpComplete
  BY DEF DumpInv
<1> QED
  BY <1>1, DumpInductive, PTL

=============================================================================

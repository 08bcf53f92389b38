--------------------------- MODULE ProxiedRpcProofs ---------------------------
(***************************************************************************)
(* Proofs, for any number and size of messages, any window and any limits, *)
(* that a call through grpc-dump keeps its safety properties and           *)
(* implements the direct call.                                             *)
(***************************************************************************)
EXTENDS ProxiedRpcProps, SequenceTheorems, TLAPS

-----------------------------------------------------------------------------
(* What each part of the system leaves alone.                              *)

LEMMA ClientFrame ==
  Client => UNCHANGED <<serverVars, reqOut, respIn, upVars, handler, s2c, c2s,
                        dss, output>>
  BY DEF Client, ClientSend, ClientCloseSend, ClientRecv, ClientCancel,
         ClientFinish, serverVars, wires, upVars

LEMMA ServerFrame ==
  Server => UNCHANGED <<clientVars, reqIn, respOut, upVars, handler, s2c, c2s,
                        dss, output>>
  BY DEF Server, ServerRecv, ServerRecvEOF, ServerSetHeader, ServerSend,
         ServerFinish, ServerReset, clientVars, wires, upVars

LEMMA UpstreamFrame ==
  Upstream => UNCHANGED <<clientVars, serverVars, wires, closeSent, handler,
                          s2c, c2s, dss, output>>
  BY DEF Upstream, UpstreamEnd, UpstreamCancel, UpstreamBreak, UpstreamBecomes,
         clientVars, serverVars, wires

LEMMA WriteFrame ==
  WriteStatus => UNCHANGED <<clientVars, serverVars, reqIn, reqOut, respIn,
                             respOut, upVars, handler, s2c, c2s, dss, output>>
  BY DEF WriteStatus

LEMMA HandlerFrame ==
  Handler => UNCHANGED <<clientVars, serverGot, sawHalfClose, serverSent,
                         serverHeaders, wires>>
  BY DEF Handler, OpenUpstream, SetupRejected, SetupCancelled, SelectS2CEof,
         SelectS2CErr, SelectC2S, Dump, clientVars, serverVars, wires

LEMMA S2CFrame ==
  S2C => UNCHANGED <<clientVars, serverVars, respIn, respOut, upVars, handler,
                     c2s, output>>
  BY DEF S2C, S2CRecv, S2CRecvEOF, S2CRecvErr, S2CRecord, S2CSend, S2CSendErr,
         s2cOnly, s2cFrame, clientVars, serverVars, upVars

LEMMA C2SFrame ==
  C2S => UNCHANGED <<clientVars, serverVars, reqIn, reqOut, closeSent, handler,
                     s2c, output>>
  BY DEF C2S, C2SRecv, C2SRecvEnd, C2SRecvErr, C2SHeader, C2SRecord, C2SSend,
         C2SSendErr, c2sOnly, clientVars, serverVars

LEMMA NextCases ==
  ASSUME [Next]_vars
  PROVE  \/ Client \/ Server \/ Upstream \/ Handler \/ WriteStatus \/ S2C \/ C2S
         \/ UNCHANGED vars
  BY DEF Next, Terminated

LEMMA HeadFacts ==
  ASSUME NEW q \in Seq(Message), q # <<>>
  PROVE  /\ Head(q) \in Message
         /\ <<Head(q)>> \in Seq(Message)
         /\ Len(<<Head(q)>>) = 1
         /\ Tail(q) \in Seq(Message)
  OBVIOUS

LEMMA RequestType ==
  ASSUME NEW sent \in Seq(Message), NEW got \in Seq(Message), NEW sz \in RequestSizes
  PROVE  Request(sent, got, sz) \in Message
  BY SizesAssumption DEF Request, Message, Origins

LEMMA ResponseType ==
  ASSUME NEW sent \in Seq(Message), NEW got \in Seq(Message), NEW sz \in ResponseSizes
  PROVE  Response(sent, got, sz) \in Message
  BY SizesAssumption DEF Response, Message, Origins

-----------------------------------------------------------------------------
(* Type correctness, one group of variables at a time.                     *)

LEMMA TypeInit == Init => TypeOK
<1> SUFFICES ASSUME Init PROVE TypeOK
  OBVIOUS
<1> USE DEF Init
<1>1. ClientTypeOK
  <2> HIDE DEF Init
  <2>1. <<>> \in Seq(Message)
    BY EmptySeq
  <2>2. /\ clientSent = <<>> /\ clientGot = <<>>
        /\ clientClosed = FALSE /\ clientStatus = NoStatus
    BY DEF Init
  <2> QED
    BY <2>1, <2>2 DEF ClientTypeOK
<1>2. ServerTypeOK
  BY EmptySeq DEF ServerTypeOK
<1>3. WireTypeOK
  BY EmptySeq DEF WireTypeOK
<1>4. HandlerTypeOK
  BY DEF HandlerTypeOK
<1>5. S2CTypeOK
  BY DEF S2CTypeOK
<1>6. C2STypeOK
  BY DEF C2STypeOK
<1>7. DumpTypeOK
  BY DEF DumpTypeOK
<1> QED
  BY <1>1, <1>2, <1>3, <1>4, <1>5, <1>6, <1>7 DEF TypeOK

LEMMA StatusFacts ==
  /\ AppStatuses \cup Failures \subseteq Statuses
  /\ {"Canceled", "Internal", "Unknown", "Unreachable"} \subseteq Statuses
  /\ NoStatus \notin Statuses
  BY DEF Statuses, AppStatuses, Failures, NoStatus

LEMMA ClientTypeStep == ASSUME TypeOK, [Next]_vars PROVE ClientTypeOK'
<1> USE DEF TypeOK, ClientTypeOK
<1>1. ASSUME NEW sz \in RequestSizes, ClientSend(sz) PROVE ClientTypeOK'
  <2> DEFINE m == Request(clientSent, clientGot, sz)
  <2>1. m \in Message
    BY RequestType
  <2>2. /\ clientSent' = Append(clientSent, m)
        /\ UNCHANGED <<clientClosed, clientGot, clientStatus>>
    BY <1>1 DEF ClientSend
  <2> QED
    BY <2>1, <2>2
<1>2. CASE ClientCloseSend
  BY <1>2 DEF ClientCloseSend
<1>3. CASE ClientRecv
  BY <1>3, HeadFacts DEF ClientRecv, WireTypeOK
<1>4. CASE ClientCancel
  BY <1>4 DEF ClientCancel, Statuses
<1>5. CASE ClientFinish
  BY <1>5 DEF ClientFinish, WireTypeOK
<1>6. CASE UNCHANGED clientVars
  BY <1>6 DEF clientVars
<1> QED
  BY <1>1, <1>2, <1>3, <1>4, <1>5, <1>6, NextCases, ServerFrame, UpstreamFrame,
     WriteFrame, HandlerFrame, S2CFrame, C2SFrame DEF Client, vars

LEMMA ServerTypeStep == ASSUME TypeOK, [Next]_vars PROVE ServerTypeOK'
<1> USE DEF TypeOK, ServerTypeOK
<1>1. ASSUME NEW sz \in ResponseSizes, ServerSend(sz) PROVE ServerTypeOK'
  <2> DEFINE m == Response(serverSent, serverGot, sz)
  <2>1. m \in Message
    BY ResponseType
  <2>2. /\ serverSent' = Append(serverSent, m)
        /\ UNCHANGED <<serverGot, sawHalfClose, server, serverHeaders>>
    BY <1>1 DEF ServerSend
  <2> QED
    BY <2>1, <2>2
<1>2. CASE ServerRecv
  BY <1>2, HeadFacts DEF ServerRecv, WireTypeOK
<1>3. CASE ServerRecvEOF \/ ServerSetHeader \/ ServerFinish \/ ServerReset
  BY <1>3 DEF ServerRecvEOF, ServerSetHeader, ServerFinish, ServerReset
<1>4. CASE Handler
  BY <1>4, HandlerFrame DEF Handler, OpenUpstream, SetupRejected, SetupCancelled,
     SelectS2CEof, SelectS2CErr, SelectC2S, Dump, serverVars
<1>5. CASE UNCHANGED serverVars
  BY <1>5 DEF serverVars
<1> QED
  BY <1>1, <1>2, <1>3, <1>4, <1>5, NextCases, ClientFrame, UpstreamFrame,
     WriteFrame, S2CFrame, C2SFrame DEF Server, vars

LEMMA WireTypeStep == ASSUME TypeOK, [Next]_vars PROVE WireTypeOK'
<1> USE DEF TypeOK, WireTypeOK, serverVars
<1>1. ASSUME NEW sz \in RequestSizes, ClientSend(sz) PROVE WireTypeOK'
  <2> DEFINE m == Request(clientSent, clientGot, sz)
  <2>1. m \in Message
    BY RequestType DEF ClientTypeOK
  <2>2. /\ reqIn' = Append(reqIn, m)
        /\ UNCHANGED <<reqOut, respIn, respOut, ssStatus, upVars, server>>
    BY <1>1 DEF ClientSend, serverVars
  <2> QED
    BY <2>1, <2>2 DEF upVars
<1>2. ASSUME NEW sz \in ResponseSizes, ServerSend(sz) PROVE WireTypeOK'
  <2> DEFINE m == Response(serverSent, serverGot, sz)
  <2>1. m \in Message
    BY ResponseType DEF ServerTypeOK
  <2>2. /\ respIn' = Append(respIn, m)
        /\ UNCHANGED <<reqIn, reqOut, respOut, ssStatus, upVars, server>>
    BY <1>2 DEF ServerSend
  <2> QED
    BY <2>1, <2>2 DEF upVars
<1>3. CASE ClientRecv
  BY <1>3, HeadFacts DEF ClientRecv, upVars
<1>4. CASE ClientCloseSend \/ ClientCancel \/ ClientFinish
  BY <1>4 DEF ClientCloseSend, ClientCancel, ClientFinish, wires, upVars
<1>5. CASE ServerRecv
  BY <1>5, HeadFacts DEF ServerRecv, upVars
<1>6. CASE ServerRecvEOF \/ ServerSetHeader \/ ServerFinish \/ ServerReset
  BY <1>6 DEF ServerRecvEOF, ServerSetHeader, ServerFinish, ServerReset, wires,
     upVars
<1>7. CASE Upstream
  BY <1>7 DEF Upstream, UpstreamEnd, UpstreamCancel, UpstreamBreak,
     UpstreamBecomes, wires
<1>8. CASE Handler
  BY <1>8 DEF Handler, OpenUpstream, SetupRejected, SetupCancelled,
     SelectS2CEof, SelectS2CErr, SelectC2S, Dump, wires, upVars
<1>9. CASE S2CRecv
  BY <1>9, HeadFacts DEF S2CRecv, s2cOnly, s2cFrame, upVars
<1>10. CASE S2CSend
  BY <1>10, HeadFacts DEF S2CSend, s2cOnly, s2cFrame, upVars, S2CTypeOK
<1>11. CASE S2CRecvEOF \/ S2CRecvErr \/ S2CRecord \/ S2CSendErr
  <2>1. "ResourceExhausted" \in Statuses
    BY StatusFacts DEF Failures
  <2> QED
    BY <1>11, <2>1 DEF S2CRecvEOF, S2CRecvErr, S2CRecord, S2CSendErr, s2cOnly,
       s2cFrame, upVars
<1>12. CASE C2SRecv
  BY <1>12, HeadFacts DEF C2SRecv, c2sOnly, upVars
<1>13. CASE C2SSend
  BY <1>13, HeadFacts DEF C2SSend, c2sOnly, upVars, C2STypeOK
<1>14. CASE C2SRecvEnd \/ C2SRecvErr \/ C2SHeader \/ C2SRecord \/ C2SSendErr
  BY <1>14 DEF C2SRecvEnd, C2SRecvErr, C2SHeader, C2SRecord, C2SSendErr, c2sOnly,
     upVars
<1>15. CASE UNCHANGED vars
  BY <1>15 DEF vars, wires, upVars
<1>16. CASE WriteStatus
  BY <1>16 DEF WriteStatus, upVars, HandlerTypeOK
<1> QED
  BY <1>1, <1>2, <1>3, <1>4, <1>5, <1>6, <1>7, <1>8, <1>9, <1>10, <1>11, <1>12,
     <1>13, <1>14, <1>15, <1>16, NextCases DEF Client, Server, S2C, C2S

LEMMA HandlerTypeStep == ASSUME TypeOK, [Next]_vars PROVE HandlerTypeOK'
<1> USE DEF TypeOK, HandlerTypeOK
<1>1. ASSUME NEW e \in Statuses, NEW c \in BOOLEAN,
             handler' = [handler EXCEPT !.pc = "returned", !.err = e, !.cancelled = c]
      PROVE  HandlerTypeOK'
  BY <1>1, StatusFacts
<1>2. ASSUME NEW e \in Statuses, handler' = Return(e) PROVE HandlerTypeOK'
  BY <1>2, StatusFacts DEF Return
<1>3. CASE OpenUpstream \/ Dump
  BY <1>3 DEF OpenUpstream, Dump
<1>4. CASE SetupRejected \/ SetupCancelled
  BY <1>2, <1>4, StatusFacts DEF SetupRejected, SetupCancelled, Failures
<1>5. CASE SelectS2CEof
  <2>1. CASE handler.i = 0
    BY <1>5, <2>1 DEF SelectS2CEof
  <2>2. CASE handler.i # 0
    BY <1>2, <1>5, <2>2, StatusFacts DEF SelectS2CEof
  <2> QED
    BY <2>1, <2>2
<1>6. CASE SelectS2CErr
  <2>1. handler' = [handler EXCEPT !.pc = "returned", !.err = "Internal",
                                   !.cancelled = TRUE]
    BY <1>6 DEF SelectS2CErr, Return
  <2>2. "Internal" \in Statuses
    BY StatusFacts DEF Failures
  <2> QED
    BY <1>1, <2>1, <2>2
<1>7. CASE SelectC2S
  <2>1. (IF c2s.err = EOF THEN "OK" ELSE c2s.err) \in Statuses
    BY <1>7, StatusFacts DEF SelectC2S, C2STypeOK, AppStatuses
  <2> QED
    BY <1>2, <1>7, <2>1 DEF SelectC2S
<1>8. CASE UNCHANGED handler
  BY <1>8
<1> QED
  BY <1>3, <1>4, <1>5, <1>6, <1>7, <1>8, NextCases, ClientFrame,
     ServerFrame, UpstreamFrame, WriteFrame, S2CFrame, C2SFrame DEF Handler, vars

LEMMA S2CTypeStep == ASSUME TypeOK, [Next]_vars PROVE S2CTypeOK'
<1> USE DEF TypeOK, S2CTypeOK
<1>1. CASE OpenUpstream
  BY <1>1, EmptySeq DEF OpenUpstream
<1>2. CASE SelectS2CEof \/ SelectS2CErr
  BY <1>2 DEF SelectS2CEof, SelectS2CErr
<1>3. CASE S2CRecv
  BY <1>3, HeadFacts DEF S2CRecv, WireTypeOK
<1>4. CASE S2CRecvEOF \/ S2CRecvErr \/ S2CSendErr
  <2>1. PICK e \in {EOF, "Canceled", "ResourceExhausted"} : S2CExit(e)
    BY <1>4 DEF S2CRecvEOF, S2CRecvErr, S2CSendErr
  <2>2. e \in Statuses \cup {EOF, NoErr}
    BY <2>1 DEF Statuses, Failures
  <2> QED
    BY <2>1, <2>2 DEF S2CExit
<1>5. CASE S2CRecord
  BY <1>5 DEF S2CRecord
<1>6. CASE S2CSend
  BY <1>6, EmptySeq DEF S2CSend
<1>7. CASE UNCHANGED s2c
  BY <1>7
<1> QED
  BY <1>1, <1>2, <1>3, <1>4, <1>5, <1>6, <1>7, NextCases, ClientFrame,
     ServerFrame, UpstreamFrame, WriteFrame, C2SFrame
  DEF Handler, SetupRejected, SetupCancelled, SelectC2S, Dump, S2C, vars

LEMMA C2STypeStep == ASSUME TypeOK, [Next]_vars PROVE C2STypeOK'
<1> USE DEF TypeOK, C2STypeOK
<1>1. CASE OpenUpstream
  BY <1>1, EmptySeq DEF OpenUpstream
<1>2. CASE SelectC2S
  BY <1>2 DEF SelectC2S
<1>3. CASE C2SRecv
  BY <1>3, HeadFacts DEF C2SRecv, WireTypeOK
<1>4. ASSUME NEW e \in Statuses \cup {EOF}, C2SExit(e) PROVE C2STypeOK'
  BY <1>4 DEF C2SExit
<1>5. CASE C2SRecvEnd
  <2>1. (IF server = "OK" THEN EOF ELSE server) \in Statuses \cup {EOF}
    BY <1>5 DEF C2SRecvEnd, WireTypeOK, Statuses
  <2> QED
    BY <1>4, <1>5, <2>1 DEF C2SRecvEnd
<1>6. CASE C2SRecvErr \/ C2SSendErr
  BY <1>4, <1>6 DEF C2SRecvErr, C2SSendErr, Statuses, Failures
<1>7. CASE C2SHeader
  BY <1>4, <1>7 DEF C2SHeader, Statuses
<1>8. CASE C2SRecord
  BY <1>8 DEF C2SRecord
<1>9. CASE C2SSend
  BY <1>9, EmptySeq DEF C2SSend
<1>10. CASE UNCHANGED c2s
  BY <1>10
<1> QED
  BY <1>1, <1>2, <1>3, <1>5, <1>6, <1>7, <1>8, <1>9, <1>10, NextCases,
     ClientFrame, ServerFrame, UpstreamFrame, WriteFrame, S2CFrame
  DEF Handler, SetupRejected, SetupCancelled, SelectS2CEof, SelectS2CErr, Dump,
      C2S, vars

LEMMA DumpTypeStep == ASSUME TypeOK, [Next]_vars PROVE DumpTypeOK'
<1> USE DEF TypeOK, DumpTypeOK
<1>0. ASSUME NEW m \in Message, Record(m), UNCHANGED output PROVE DumpTypeOK'
  <2>1. Append(dss.events, m) \in Seq(Message)
    BY <1>0
  <2> QED
    BY <1>0, <2>1 DEF Record
<1>1. CASE Dump
  <2> DEFINE d == [messages |-> dss.events, status |-> handler.err,
                   headers |-> dss.headers, trailers |-> dss.trailers]
  <2>1. d \in Dumps
    BY <1>1 DEF Dump, HandlerTypeOK, Dumps
  <2>2. output' = Append(output, d) /\ UNCHANGED dss
    BY <1>1 DEF Dump
  <2> QED
    BY <2>1, <2>2
<1>2. CASE SelectC2S
  BY <1>2 DEF SelectC2S
<1>3. CASE OpenUpstream \/ SetupRejected \/ SetupCancelled \/ SelectS2CEof
             \/ SelectS2CErr
  BY <1>3 DEF OpenUpstream, SetupRejected, SetupCancelled, SelectS2CEof,
     SelectS2CErr
<1>4. CASE S2CRecord
  <2>1. s2c.f \in Seq(Message) /\ s2c.f # <<>>
    BY <1>4 DEF S2CRecord, S2CTypeOK
  <2> QED
    BY <1>0, <1>4, <2>1, HeadFacts DEF S2CRecord, s2cOnly, s2cFrame
<1>5. CASE C2SRecord
  <2>1. c2s.f \in Seq(Message) /\ c2s.f # <<>>
    BY <1>5 DEF C2SRecord, C2STypeOK
  <2> QED
    BY <1>0, <1>5, <2>1, HeadFacts DEF C2SRecord, c2sOnly
<1>6. CASE C2SHeader
  BY <1>6 DEF C2SHeader, c2sOnly, ServerTypeOK
<1>7. CASE S2CRecv \/ S2CRecvEOF \/ S2CRecvErr \/ S2CSend \/ S2CSendErr
  BY <1>7 DEF S2CRecv, S2CRecvEOF, S2CRecvErr, S2CSend, S2CSendErr, s2cOnly,
     s2cFrame
<1>8. CASE C2SRecv \/ C2SRecvEnd \/ C2SRecvErr \/ C2SSend \/ C2SSendErr
  BY <1>8 DEF C2SRecv, C2SRecvEnd, C2SRecvErr, C2SSend, C2SSendErr, c2sOnly
<1>9. CASE UNCHANGED <<dss, output>>
  BY <1>9
<1> QED
  BY <1>1, <1>2, <1>3, <1>4, <1>5, <1>6, <1>7, <1>8, <1>9, NextCases,
     ClientFrame, ServerFrame, UpstreamFrame, WriteFrame DEF Handler, S2C, C2S,
     vars

\* Every variable keeps its type, and each forwarder holds at most the message
\* its place in the loop says.
THEOREM TypeCorrect == Spec => []TypeOK
<1>1. TypeOK /\ [Next]_vars => TypeOK'
  BY ClientTypeStep, ServerTypeStep, WireTypeStep, HandlerTypeStep, S2CTypeStep,
     C2STypeStep, DumpTypeStep DEF TypeOK
<1> QED
  BY TypeInit, <1>1, PTL DEF Spec

-----------------------------------------------------------------------------
(* The inductive invariant behind the other theorems.                      *)

\* Who is where: nothing runs before the upstream exists, an error in a channel
\* is the last thing its goroutine did, and only a handler that has taken an
\* error from s2c cancels or waits for the second error.
Control ==
    /\ handler.pc = "setup" =>
          /\ upstream = "none" /\ s2c.pc = "idle" /\ c2s.pc = "idle"
          /\ handler.i = 0 /\ ssStatus = NoStatus
    /\ upstream = "none" => handler.pc # "select"
    /\ upstream = "none" <=> server = "absent"
    /\ s2c.err # NoErr => s2c.pc = "exited"
    /\ c2s.err # NoErr => c2s.pc = "exited"
    /\ handler.cancelled => handler.pc \in {"returned", "finished"}
    /\ handler.pc = "select" /\ handler.i = 1 => s2c.pc = "exited" /\ s2c.err = NoErr
    /\ \/ clientStatus \in {NoStatus, "Canceled"}
       \/ clientStatus = ssStatus /\ ssStatus # NoStatus /\ respOut = <<>>

\* Nothing is left to forward, and nothing will come.
RequestsDone ==
    s2c.pc = "exited" /\ clientClosed /\ s2c.f = <<>> /\ reqIn = <<>>

ResponsesDone(status) ==
    /\ upstream = "ended" /\ server = status
    /\ c2s.pc = "exited" /\ c2s.f = <<>> /\ respIn = <<>>

\* An EOF of s2c means the end of the requests, unless the stream is over.
HalfClose ==
    /\ s2c.err = EOF /\ upstream = "active" => RequestsDone
    /\ closeSent => RequestsDone

\* Statuses of forwarders that were cut off by the end of the call.
CutOff == {"Canceled", "Internal", "Unknown"}

\* Who wrote the status of a client that did not cancel: RecvMsg, and s2c is over,
\* or the handler, of whose outcome a cut-off forwarder is not the reason.
Written ==
    ssStatus # NoStatus =>
       \/ clientStatus = "Canceled"
       \/ ssStatus = "ResourceExhausted" /\ OversizedRequest /\ s2c.pc = "exited"
       \/ handler.pc = "finished" /\ ssStatus = handler.err /\ ssStatus \notin CutOff

\* Where each error can come from.
S2COutcome ==
    /\ s2c.err \in {NoErr, EOF, "Canceled", "ResourceExhausted"}
    /\ s2c.err \in {"Canceled", "ResourceExhausted"} => clientCtxDone

C2SOutcome ==
    /\ c2s.err \in {NoErr, EOF, "ServerError", "Canceled", "Unknown",
                   "Unavailable", "ResourceExhausted"}
    /\ c2s.err \in {"Canceled", "Unknown"} => clientCtxDone
    /\ c2s.err = EOF => ResponsesDone("OK")
    /\ c2s.err = "ServerError" => ResponsesDone("ServerError")
    /\ c2s.err = "Unavailable" => upstream = "broken"
    /\ c2s.err = "ResourceExhausted" => OversizedResponse

HandlerOutcome ==
    /\ handler.err # "Unreachable"
    /\ handler.err \in AppStatuses => ResponsesDone(handler.err)
    /\ handler.err = "SetupError" => upstream = "none"
    /\ handler.err = "Unavailable" => upstream = "broken"
    /\ handler.err = "ResourceExhausted" => OversizedResponse
    /\ handler.err \in CutOff =>
          clientStatus = "Canceled" \/ ssStatus = "ResourceExhausted"

IInv ==
    /\ TypeOK /\ RequestFifo /\ ResponseFifo
    /\ Control /\ HalfClose
    /\ Written /\ S2COutcome /\ C2SOutcome /\ HandlerOutcome

LEMMA InitIInv == Init => IInv
<1> SUFFICES ASSUME Init PROVE IInv
  OBVIOUS
<1>1. TypeOK
  BY TypeInit
<1>2. RequestFifo /\ ResponseFifo
  BY ConcatEmptySeq, EmptySeq DEF Init, RequestFifo, ResponseFifo
<1>3. Control /\ HalfClose /\ Written /\ S2COutcome /\ C2SOutcome /\ HandlerOutcome
  BY DEF Init, Control, HalfClose, Written, S2COutcome, C2SOutcome,
     HandlerOutcome, CutOff, NoErr, EOF, NoStatus, AppStatuses
<1> QED
  BY <1>1, <1>2, <1>3 DEF IInv

-----------------------------------------------------------------------------
(* Forwarding moves the boundary between two sequences, and nothing else.  *)

LEMMA MoveHead ==
  ASSUME NEW a \in Seq(Message), NEW q \in Seq(Message), q # <<>>
  PROVE  /\ Append(a, Head(q)) \o Tail(q) = a \o q
         /\ (a \o <<Head(q)>>) \o Tail(q) = a \o q
<1>1. q = <<Head(q)>> \o Tail(q)
  BY HeadTailProperties
<1>2. Head(q) \in Message /\ Tail(q) \in Seq(Message) /\ <<Head(q)>> \in Seq(Message)
  BY HeadFacts
<1>3. Append(a, Head(q)) = a \o <<Head(q)>>
  BY <1>2, AppendIsConcat
<1>4. (a \o <<Head(q)>>) \o Tail(q) = a \o (<<Head(q)>> \o Tail(q))
  BY <1>2, ConcatAssociative
<1> QED
  BY <1>1, <1>3, <1>4

LEMMA AppendBehind ==
  ASSUME NEW a \in Seq(Message), NEW q \in Seq(Message), NEW m \in Message
  PROVE  a \o Append(q, m) = Append(a \o q, m)
<1>1. <<m>> \in Seq(Message) /\ a \o q \in Seq(Message)
  BY ConcatProperties
<1>2. Append(q, m) = q \o <<m>> /\ Append(a \o q, m) = (a \o q) \o <<m>>
  BY <1>1, AppendIsConcat
<1> QED
  BY <1>1, <1>2, ConcatAssociative

LEMMA Singleton ==
  ASSUME NEW f \in Seq(Message), Len(f) = 1
  PROVE  f # <<>> /\ Head(f) \in Message /\ f = <<Head(f)>>
  OBVIOUS

\* One hop: the message in hand goes to the end of the next wire.
LEMMA HandOver ==
  ASSUME NEW a \in Seq(Message), NEW q \in Seq(Message),
         NEW f \in Seq(Message), Len(f) = 1
  PROVE  (a \o Append(q, Head(f))) \o <<>> = (a \o q) \o f
<1>1. Head(f) \in Message /\ f = <<Head(f)>>
  BY Singleton
<1>2. a \o q \in Seq(Message) /\ Append(q, Head(f)) \in Seq(Message)
  BY <1>1, ConcatProperties
<1>3. a \o Append(q, Head(f)) = Append(a \o q, Head(f))
  BY <1>1, AppendBehind
<1>4. Append(a \o q, Head(f)) = (a \o q) \o f
  BY <1>1, <1>2, AppendIsConcat
<1>5. (a \o q) \o f \in Seq(Message)
  BY <1>2, ConcatProperties
<1> QED
  BY <1>3, <1>4, <1>5, ConcatEmptySeq

LEMMA RequestFifoStep ==
  ASSUME TypeOK, Control, RequestFifo, [Next]_vars
  PROVE  RequestFifo'
<1> USE DEF RequestFifo
<1> DEFINE sent == serverGot \o reqOut
<1>1. /\ reqIn \in Seq(Message) /\ reqOut \in Seq(Message)
      /\ serverGot \in Seq(Message) /\ s2c.f \in Seq(Message)
      /\ sent \in Seq(Message) /\ sent \o s2c.f \in Seq(Message)
  BY ConcatProperties DEF TypeOK, WireTypeOK, ServerTypeOK, S2CTypeOK
<1>2. ASSUME NEW sz \in RequestSizes, ClientSend(sz) PROVE RequestFifo'
  <2> DEFINE m == Request(clientSent, clientGot, sz)
  <2>1. m \in Message
    BY RequestType DEF TypeOK, ClientTypeOK
  <2>2. /\ clientSent' = Append(clientSent, m) /\ reqIn' = Append(reqIn, m)
        /\ UNCHANGED <<serverGot, reqOut, s2c>>
    BY <1>2 DEF ClientSend, serverVars
  <2> QED
    BY <1>1, <2>1, <2>2, AppendBehind
<1>3. CASE ServerRecv
  <2>1. /\ serverGot' = Append(serverGot, Head(reqOut)) /\ reqOut' = Tail(reqOut)
        /\ reqOut # <<>> /\ UNCHANGED <<clientSent, s2c, reqIn>>
    BY <1>3 DEF ServerRecv, clientVars
  <2> QED
    BY <1>1, <2>1, MoveHead
<1>4. CASE OpenUpstream
  BY <1>4 DEF OpenUpstream, clientVars, wires, Control, TypeOK, S2CTypeOK
<1>5. CASE S2CRecv
  <2>1. /\ s2c.f = <<>> /\ s2c'.f = <<Head(reqIn)>>
        /\ reqIn # <<>> /\ reqIn' = Tail(reqIn)
        /\ UNCHANGED <<clientSent, serverGot, reqOut>>
    BY <1>5 DEF S2CRecv, s2cOnly, s2cFrame, clientVars, serverVars, TypeOK,
       S2CTypeOK
  <2>2. sent \o s2c.f = sent
    BY <1>1, <2>1, ConcatEmptySeq
  <2> QED
    BY <1>1, <2>1, <2>2, MoveHead
<1>6. CASE S2CSend
  <2>1. /\ Len(s2c.f) = 1 /\ s2c'.f = <<>> /\ reqOut' = Append(reqOut, Head(s2c.f))
        /\ UNCHANGED <<clientSent, serverGot, reqIn>>
    BY <1>6 DEF S2CSend, s2cOnly, s2cFrame, clientVars, serverVars, TypeOK,
       S2CTypeOK
  <2>2. (serverGot \o Append(reqOut, Head(s2c.f))) \o <<>> = sent \o s2c.f
    BY <1>1, <2>1, HandOver
  <2> QED
    BY <2>1, <2>2
<1>7. CASE UNCHANGED <<clientSent, serverGot, reqOut, s2c.f, reqIn>>
  BY <1>7
<1>8. CASE S2CRecvEOF \/ S2CRecvErr \/ S2CRecord \/ S2CSendErr
  BY <1>7, <1>8 DEF S2CRecvEOF, S2CRecvErr, S2CRecord, S2CSendErr, S2CExit,
     s2cOnly, s2cFrame, clientVars, serverVars, TypeOK, S2CTypeOK
<1>9. CASE SelectS2CEof \/ SelectS2CErr
  BY <1>7, <1>9 DEF SelectS2CEof, SelectS2CErr, clientVars, serverVars, wires,
     TypeOK, S2CTypeOK
<1>10. CASE SetupRejected \/ SetupCancelled \/ SelectC2S \/ Dump
  BY <1>7, <1>10 DEF SetupRejected, SetupCancelled, SelectC2S, Dump, clientVars,
     serverVars, wires
<1>11. CASE ClientCloseSend \/ ClientRecv \/ ClientCancel \/ ClientFinish
  BY <1>7, <1>11 DEF ClientCloseSend, ClientRecv, ClientCancel, ClientFinish,
     serverVars, wires
<1>12. CASE ServerRecvEOF \/ ServerSetHeader \/ ServerFinish \/ ServerReset
             \/ \E sz \in ResponseSizes : ServerSend(sz)
  BY <1>7, <1>12 DEF ServerRecvEOF, ServerSetHeader, ServerFinish, ServerReset,
     ServerSend, clientVars, wires
<1>13. CASE Upstream \/ WriteStatus \/ C2S \/ UNCHANGED vars
  BY <1>7, <1>13, UpstreamFrame, WriteFrame, C2SFrame DEF clientVars,
     serverVars, wires, vars
<1> QED
  BY <1>2, <1>3, <1>4, <1>5, <1>6, <1>8, <1>9, <1>10, <1>11, <1>12, <1>13,
     NextCases DEF Client, Server, Handler, S2C

LEMMA ResponseFifoStep ==
  ASSUME TypeOK, Control, ResponseFifo, [Next]_vars
  PROVE  ResponseFifo'
<1> USE DEF ResponseFifo
<1> DEFINE got == clientGot \o respOut
<1>1. /\ respIn \in Seq(Message) /\ respOut \in Seq(Message)
      /\ clientGot \in Seq(Message) /\ c2s.f \in Seq(Message)
      /\ got \in Seq(Message) /\ got \o c2s.f \in Seq(Message)
  BY ConcatProperties DEF TypeOK, WireTypeOK, ClientTypeOK, C2STypeOK
<1>2. ASSUME NEW sz \in ResponseSizes, ServerSend(sz) PROVE ResponseFifo'
  <2> DEFINE m == Response(serverSent, serverGot, sz)
  <2>1. m \in Message
    BY ResponseType DEF TypeOK, ServerTypeOK
  <2>2. /\ serverSent' = Append(serverSent, m) /\ respIn' = Append(respIn, m)
        /\ UNCHANGED <<clientGot, respOut, c2s>>
    BY <1>2 DEF ServerSend, clientVars
  <2> QED
    BY <1>1, <2>1, <2>2, AppendBehind
<1>3. CASE ClientRecv
  <2>1. /\ clientGot' = Append(clientGot, Head(respOut)) /\ respOut' = Tail(respOut)
        /\ respOut # <<>> /\ UNCHANGED <<serverSent, c2s, respIn>>
    BY <1>3 DEF ClientRecv, serverVars
  <2> QED
    BY <1>1, <2>1, MoveHead
<1>4. CASE OpenUpstream
  BY <1>4 DEF OpenUpstream, clientVars, wires, Control, TypeOK, C2STypeOK
<1>5. CASE C2SRecv
  <2>1. /\ c2s.f = <<>> /\ c2s'.f = <<Head(respIn)>>
        /\ respIn # <<>> /\ respIn' = Tail(respIn)
        /\ UNCHANGED <<serverSent, clientGot, respOut>>
    BY <1>5 DEF C2SRecv, c2sOnly, clientVars, serverVars, TypeOK, C2STypeOK
  <2>2. got \o c2s.f = got
    BY <1>1, <2>1, ConcatEmptySeq
  <2> QED
    BY <1>1, <2>1, <2>2, MoveHead
<1>6. CASE C2SSend
  <2>1. /\ Len(c2s.f) = 1 /\ c2s'.f = <<>> /\ respOut' = Append(respOut, Head(c2s.f))
        /\ UNCHANGED <<serverSent, clientGot, respIn>>
    BY <1>6 DEF C2SSend, c2sOnly, clientVars, serverVars, TypeOK, C2STypeOK
  <2>2. (clientGot \o Append(respOut, Head(c2s.f))) \o <<>> = got \o c2s.f
    BY <1>1, <2>1, HandOver
  <2> QED
    BY <2>1, <2>2
<1>7. CASE UNCHANGED <<serverSent, clientGot, respOut, c2s.f, respIn>>
  BY <1>7
<1>8. CASE C2SRecvEnd \/ C2SRecvErr \/ C2SHeader \/ C2SRecord \/ C2SSendErr
  BY <1>7, <1>8 DEF C2SRecvEnd, C2SRecvErr, C2SHeader, C2SRecord, C2SSendErr,
     C2SExit, c2sOnly, clientVars, serverVars, TypeOK, C2STypeOK
<1>9. CASE SelectC2S
  BY <1>7, <1>9 DEF SelectC2S, clientVars, serverVars, wires, TypeOK, C2STypeOK
<1>10. CASE SetupRejected \/ SetupCancelled \/ SelectS2CEof \/ SelectS2CErr \/ Dump
  BY <1>7, <1>10 DEF SetupRejected, SetupCancelled, SelectS2CEof, SelectS2CErr,
     Dump, clientVars, serverVars, wires
<1>11. CASE \/ ClientCloseSend \/ ClientCancel \/ ClientFinish
            \/ \E sz \in RequestSizes : ClientSend(sz)
  BY <1>7, <1>11 DEF ClientCloseSend, ClientSend, ClientCancel, ClientFinish,
     serverVars, wires
<1>12. CASE ServerRecv \/ ServerRecvEOF \/ ServerSetHeader \/ ServerFinish
             \/ ServerReset
  BY <1>7, <1>12 DEF ServerRecv, ServerRecvEOF, ServerSetHeader, ServerFinish,
     ServerReset, clientVars, wires
<1>13. CASE Upstream \/ WriteStatus \/ S2C \/ UNCHANGED vars
  BY <1>7, <1>13, UpstreamFrame, WriteFrame, S2CFrame DEF clientVars,
     serverVars, wires, vars
<1> QED
  BY <1>2, <1>3, <1>4, <1>5, <1>6, <1>8, <1>9, <1>10, <1>11, <1>12, <1>13,
     NextCases DEF Client, Server, Handler, C2S

-----------------------------------------------------------------------------
(* An oversized message stays in the history it was found in.              *)

LEMMA BigHead ==
  ASSUME NEW a \in Seq(Message), NEW q \in Seq(Message), NEW limit \in Nat,
         q # <<>>, Head(q).size > limit
  PROVE  \E k \in 1..Len(a \o q) : (a \o q)[k].size > limit
<1>1. Len(a) + 1 \in 1..Len(a \o q) /\ (a \o q)[Len(a) + 1] = Head(q)
  BY ConcatProperties
<1> QED
  BY <1>1

LEMMA BigAppend ==
  ASSUME NEW a \in Seq(Message), NEW m \in Message, NEW limit \in Nat,
         \E k \in 1..Len(a) : a[k].size > limit
  PROVE  \E k \in 1..Len(Append(a, m)) : Append(a, m)[k].size > limit
<1>1. PICK k \in 1..Len(a) : a[k].size > limit
  OBVIOUS
<1>2. k \in 1..Len(Append(a, m)) /\ Append(a, m)[k] = a[k]
  BY AppendProperties
<1> QED
  BY <1>1, <1>2

LEMMA OversizedRequestFound ==
  ASSUME TypeOK, RequestFifo, reqIn # <<>>, Head(reqIn).size > ServerRecvLimit
  PROVE  OversizedRequest
<1> DEFINE a == (serverGot \o reqOut) \o s2c.f
<1>1. a \in Seq(Message) /\ reqIn \in Seq(Message) /\ ServerRecvLimit \in Nat
  BY ConcatProperties, BoundsAssumption
  DEF TypeOK, ServerTypeOK, WireTypeOK, S2CTypeOK
<1>2. clientSent = a \o reqIn
  BY DEF RequestFifo
<1> HIDE DEF a
<1> QED
  BY <1>1, <1>2, BigHead DEF OversizedRequest

LEMMA OversizedResponseFound ==
  ASSUME TypeOK, ResponseFifo, respIn # <<>>, Head(respIn).size > ClientRecvLimit
  PROVE  OversizedResponse
<1> DEFINE a == (clientGot \o respOut) \o c2s.f
<1>1. a \in Seq(Message) /\ respIn \in Seq(Message) /\ ClientRecvLimit \in Nat
  BY ConcatProperties, BoundsAssumption
  DEF TypeOK, ClientTypeOK, WireTypeOK, C2STypeOK
<1>2. serverSent = a \o respIn
  BY DEF ResponseFifo
<1> HIDE DEF a
<1> QED
  BY <1>1, <1>2, BigHead DEF OversizedResponse

\* Histories only grow.
LEMMA HistoryStep ==
  ASSUME TypeOK, [Next]_vars
  PROVE  /\ \/ UNCHANGED clientSent
            \/ \E m \in Message : clientSent' = Append(clientSent, m)
         /\ \/ UNCHANGED serverSent
            \/ \E m \in Message : serverSent' = Append(serverSent, m)
<1>1. CASE Client
  <2>1. ASSUME NEW sz \in RequestSizes, ClientSend(sz)
        PROVE  \E m \in Message : clientSent' = Append(clientSent, m)
    <3>1. Request(clientSent, clientGot, sz) \in Message
      BY RequestType DEF TypeOK, ClientTypeOK
    <3> QED
      BY <2>1, <3>1 DEF ClientSend
  <2>2. ClientCloseSend \/ ClientRecv \/ ClientCancel \/ ClientFinish
          => UNCHANGED clientSent
    BY DEF ClientCloseSend, ClientRecv, ClientCancel, ClientFinish
  <2> QED
    BY <1>1, <2>1, <2>2, ClientFrame DEF Client, serverVars
<1>2. CASE Server
  <2>1. ASSUME NEW sz \in ResponseSizes, ServerSend(sz)
        PROVE  \E m \in Message : serverSent' = Append(serverSent, m)
    <3>1. Response(serverSent, serverGot, sz) \in Message
      BY ResponseType DEF TypeOK, ServerTypeOK
    <3> QED
      BY <2>1, <3>1 DEF ServerSend
  <2>2. ServerRecv \/ ServerRecvEOF \/ ServerSetHeader \/ ServerFinish \/ ServerReset
          => UNCHANGED serverSent
    BY DEF ServerRecv, ServerRecvEOF, ServerSetHeader, ServerFinish, ServerReset
  <2> QED
    BY <1>2, <2>1, <2>2, ServerFrame DEF Server, clientVars
<1>3. CASE Upstream \/ WriteStatus \/ Handler \/ S2C \/ C2S \/ UNCHANGED vars
  BY <1>3, UpstreamFrame, WriteFrame, HandlerFrame, S2CFrame, C2SFrame
  DEF clientVars, serverVars, vars
<1> QED
  BY <1>1, <1>2, <1>3, NextCases

LEMMA BigStep ==
  ASSUME TypeOK, [Next]_vars
  PROVE  (OversizedRequest => OversizedRequest') /\ (OversizedResponse => OversizedResponse')
<1>1. clientSent \in Seq(Message) /\ serverSent \in Seq(Message)
  BY DEF TypeOK, ClientTypeOK, ServerTypeOK
<1>2. ServerRecvLimit \in Nat /\ ClientRecvLimit \in Nat
  BY BoundsAssumption
<1>3. OversizedRequest => OversizedRequest'
  BY <1>1, <1>2, HistoryStep, BigAppend DEF OversizedRequest
<1>4. OversizedResponse => OversizedResponse'
  BY <1>1, <1>2, HistoryStep, BigAppend DEF OversizedResponse
<1> QED
  BY <1>3, <1>4

-----------------------------------------------------------------------------
(* Control: the goroutines, their channels and the handler.                *)

LEMMA ControlStep ==
  ASSUME TypeOK, Control, [Next]_vars
  PROVE  Control'
<1> USE DEF TypeOK, Control, WireTypeOK, HandlerTypeOK, S2CTypeOK, C2STypeOK,
      ServerTypeOK, AppStatuses, NoErr, EOF, NoStatus, clientVars, serverVars,
      wires, upVars
<1>1. CASE Client
  BY <1>1 DEF Client, ClientSend, ClientCloseSend, ClientRecv, ClientCancel,
     ClientFinish
<1>2. CASE Server
  BY <1>2 DEF Server, ServerSend, ServerRecv, ServerRecvEOF, ServerSetHeader,
     ServerFinish, ServerReset
<1>3. CASE Upstream
  BY <1>3 DEF Upstream, UpstreamEnd, UpstreamBecomes, UpstreamCancel,
     UpstreamBreak
<1>4. CASE OpenUpstream
  BY <1>4 DEF OpenUpstream
<1>5. CASE SetupRejected
  BY <1>5 DEF SetupRejected, Return
<1>6. CASE SetupCancelled
  BY <1>6 DEF SetupCancelled, Return
<1>7. CASE SelectS2CEof
  BY <1>7 DEF SelectS2CEof, Return
<1>8. CASE SelectS2CErr
  BY <1>8 DEF SelectS2CErr, Return
<1>9. CASE SelectC2S
  BY <1>9 DEF SelectC2S, Return
<1>10. CASE Dump
  BY <1>10 DEF Dump
<1>11. CASE S2CRecv
  BY <1>11 DEF S2CRecv, s2cOnly, s2cFrame, S2CExit
<1>12. CASE S2CRecvEOF
  BY <1>12 DEF S2CRecvEOF, s2cOnly, s2cFrame, S2CExit
<1>13. CASE S2CRecvErr
  BY <1>13 DEF S2CRecvErr, s2cFrame, S2CExit, ssDone
<1>14. CASE S2CRecord
  BY <1>14 DEF S2CRecord, s2cOnly, s2cFrame, S2CExit, Record
<1>15. CASE S2CSend
  BY <1>15 DEF S2CSend, s2cOnly, s2cFrame, S2CExit
<1>16. CASE S2CSendErr
  BY <1>16 DEF S2CSendErr, s2cOnly, s2cFrame, S2CExit
<1>17. CASE C2SRecv
  BY <1>17 DEF C2SRecv, c2sOnly, C2SExit
<1>18. CASE C2SRecvEnd
  BY <1>18 DEF C2SRecvEnd, c2sOnly, C2SExit
<1>19. CASE C2SRecvErr
  BY <1>19 DEF C2SRecvErr, c2sOnly, C2SExit
<1>20. CASE C2SHeader
  BY <1>20 DEF C2SHeader, c2sOnly, C2SExit
<1>21. CASE C2SRecord
  BY <1>21 DEF C2SRecord, c2sOnly, C2SExit, Record
<1>22. CASE C2SSend
  BY <1>22 DEF C2SSend, c2sOnly, C2SExit
<1>23. CASE C2SSendErr
  BY <1>23 DEF C2SSendErr, c2sOnly, C2SExit
<1>24. CASE UNCHANGED vars
  BY <1>24 DEF vars
<1>25. CASE WriteStatus
  BY <1>25 DEF WriteStatus
<1> QED
  BY <1>1, <1>2, <1>3, <1>4, <1>5, <1>6, <1>7, <1>8, <1>9, <1>10, <1>11, <1>12,
     <1>13, <1>14, <1>15, <1>16, <1>17, <1>18, <1>19, <1>20, <1>21, <1>22,
     <1>23, <1>24, <1>25, NextCases DEF Handler, S2C, C2S

LEMMA HalfCloseStep ==
  ASSUME TypeOK, Control, HalfClose, [Next]_vars
  PROVE  HalfClose'
<1> USE DEF TypeOK, Control, HalfClose, RequestsDone, WireTypeOK,
      HandlerTypeOK, S2CTypeOK, NoErr, EOF, clientVars, serverVars, wires,
      upVars
<1>1. CASE Client
  BY <1>1 DEF Client, ClientSend, ClientCloseSend, ClientRecv, ClientCancel,
     ClientFinish
<1>2. CASE Server
  BY <1>2 DEF Server, ServerSend, ServerRecv, ServerRecvEOF, ServerSetHeader,
     ServerFinish, ServerReset
<1>3. CASE Upstream
  BY <1>3 DEF Upstream, UpstreamEnd, UpstreamBecomes, UpstreamCancel,
     UpstreamBreak
<1>4. CASE OpenUpstream
  BY <1>4 DEF OpenUpstream
<1>5. CASE SetupRejected
  BY <1>5 DEF SetupRejected, Return
<1>6. CASE SetupCancelled
  BY <1>6 DEF SetupCancelled, Return
<1>7. CASE SelectS2CEof
  BY <1>7 DEF SelectS2CEof, Return
<1>8. CASE SelectS2CErr
  BY <1>8 DEF SelectS2CErr, Return
<1>9. CASE SelectC2S
  BY <1>9 DEF SelectC2S, Return
<1>10. CASE Dump
  BY <1>10 DEF Dump
<1>11. CASE S2CRecv
  BY <1>11 DEF S2CRecv, s2cOnly, s2cFrame, S2CExit
<1>12. CASE S2CRecvEOF
  BY <1>12 DEF S2CRecvEOF, s2cOnly, s2cFrame, S2CExit
<1>13. CASE S2CRecvErr
  BY <1>13 DEF S2CRecvErr, s2cOnly, s2cFrame, S2CExit
<1>14. CASE S2CRecord
  BY <1>14 DEF S2CRecord, s2cOnly, s2cFrame, S2CExit, Record
<1>15. CASE S2CSend
  BY <1>15 DEF S2CSend, s2cOnly, s2cFrame, S2CExit
<1>16. CASE S2CSendErr
  BY <1>16 DEF S2CSendErr, s2cOnly, s2cFrame, S2CExit
<1>17. CASE C2SRecv
  BY <1>17 DEF C2SRecv, c2sOnly, C2SExit
<1>18. CASE C2SRecvEnd
  BY <1>18 DEF C2SRecvEnd, c2sOnly, C2SExit
<1>19. CASE C2SRecvErr
  BY <1>19 DEF C2SRecvErr, c2sOnly, C2SExit
<1>20. CASE C2SHeader
  BY <1>20 DEF C2SHeader, c2sOnly, C2SExit
<1>21. CASE C2SRecord
  BY <1>21 DEF C2SRecord, c2sOnly, C2SExit, Record
<1>22. CASE C2SSend
  BY <1>22 DEF C2SSend, c2sOnly, C2SExit
<1>23. CASE C2SSendErr
  BY <1>23 DEF C2SSendErr, c2sOnly, C2SExit
<1>24. CASE UNCHANGED vars
  BY <1>24 DEF vars
<1>25. CASE WriteStatus
  BY <1>25 DEF WriteStatus
<1> QED
  BY <1>1, <1>2, <1>3, <1>4, <1>5, <1>6, <1>7, <1>8, <1>9, <1>10, <1>11, <1>12,
     <1>13, <1>14, <1>15, <1>16, <1>17, <1>18, <1>19, <1>20, <1>21, <1>22,
     <1>23, <1>24, <1>25, NextCases DEF Handler, S2C, C2S

LEMMA S2COutcomeStep ==
  ASSUME TypeOK, Control, S2COutcome, [Next]_vars
  PROVE  S2COutcome'
<1> USE DEF TypeOK, Control, S2COutcome, clientCtxDone, ssDone,
      HandlerTypeOK, S2CTypeOK, NoErr, EOF, NoStatus, clientVars, serverVars,
      wires, upVars
<1>1. CASE Client
  BY <1>1 DEF Client, ClientSend, ClientCloseSend, ClientRecv, ClientCancel,
     ClientFinish
<1>2. CASE Server
  BY <1>2 DEF Server, ServerSend, ServerRecv, ServerRecvEOF, ServerSetHeader,
     ServerFinish, ServerReset
<1>3. CASE Upstream
  BY <1>3 DEF Upstream, UpstreamEnd, UpstreamBecomes, UpstreamCancel,
     UpstreamBreak
<1>4. CASE OpenUpstream
  BY <1>4 DEF OpenUpstream
<1>5. CASE SetupRejected
  BY <1>5 DEF SetupRejected, Return
<1>6. CASE SetupCancelled
  BY <1>6 DEF SetupCancelled, Return
<1>7. CASE SelectS2CEof
  BY <1>7 DEF SelectS2CEof, Return
<1>8. CASE SelectS2CErr
  BY <1>8 DEF SelectS2CErr, Return
<1>9. CASE SelectC2S
  BY <1>9 DEF SelectC2S, Return
<1>10. CASE Dump
  BY <1>10 DEF Dump
<1>11. CASE S2CRecv
  BY <1>11 DEF S2CRecv, s2cOnly, s2cFrame, S2CExit
<1>12. CASE S2CRecvEOF
  BY <1>12 DEF S2CRecvEOF, s2cOnly, s2cFrame, S2CExit
<1>13. CASE S2CRecvErr
  BY <1>13 DEF S2CRecvErr, s2cFrame, S2CExit
<1>14. CASE S2CRecord
  BY <1>14 DEF S2CRecord, s2cOnly, s2cFrame, S2CExit, Record
<1>15. CASE S2CSend
  BY <1>15 DEF S2CSend, s2cOnly, s2cFrame, S2CExit
<1>16. CASE S2CSendErr
  BY <1>16 DEF S2CSendErr, s2cOnly, s2cFrame, S2CExit
<1>17. CASE C2SRecv
  BY <1>17 DEF C2SRecv, c2sOnly, C2SExit
<1>18. CASE C2SRecvEnd
  BY <1>18 DEF C2SRecvEnd, c2sOnly, C2SExit
<1>19. CASE C2SRecvErr
  BY <1>19 DEF C2SRecvErr, c2sOnly, C2SExit
<1>20. CASE C2SHeader
  BY <1>20 DEF C2SHeader, c2sOnly, C2SExit
<1>21. CASE C2SRecord
  BY <1>21 DEF C2SRecord, c2sOnly, C2SExit, Record
<1>22. CASE C2SSend
  BY <1>22 DEF C2SSend, c2sOnly, C2SExit
<1>23. CASE C2SSendErr
  BY <1>23 DEF C2SSendErr, c2sOnly, C2SExit
<1>24. CASE UNCHANGED vars
  BY <1>24 DEF vars
<1>25. CASE WriteStatus
  BY <1>25 DEF WriteStatus
<1> QED
  BY <1>1, <1>2, <1>3, <1>4, <1>5, <1>6, <1>7, <1>8, <1>9, <1>10, <1>11, <1>12,
     <1>13, <1>14, <1>15, <1>16, <1>17, <1>18, <1>19, <1>20, <1>21, <1>22,
     <1>23, <1>24, <1>25, NextCases DEF Handler, S2C, C2S

LEMMA WrittenStep ==
  ASSUME TypeOK, RequestFifo, Control, Written, HandlerOutcome, [Next]_vars
  PROVE  Written'
<1> USE BigStep DEF TypeOK, Control, Written, HandlerOutcome, ssDone,
      HandlerTypeOK, S2CTypeOK, CutOff, NoErr, EOF, NoStatus, clientVars,
      serverVars, wires, upVars
<1>1. CASE Client
  BY <1>1 DEF Client, ClientSend, ClientCloseSend, ClientRecv, ClientCancel,
     ClientFinish
<1>2. CASE Server
  BY <1>2 DEF Server, ServerSend, ServerRecv, ServerRecvEOF, ServerSetHeader,
     ServerFinish, ServerReset
<1>3. CASE Upstream
  BY <1>3 DEF Upstream, UpstreamEnd, UpstreamBecomes, UpstreamCancel,
     UpstreamBreak
<1>4. CASE OpenUpstream
  BY <1>4 DEF OpenUpstream
<1>5. CASE SetupRejected
  BY <1>5 DEF SetupRejected, Return
<1>6. CASE SetupCancelled
  BY <1>6 DEF SetupCancelled, Return
<1>7. CASE SelectS2CEof
  BY <1>7 DEF SelectS2CEof, Return
<1>8. CASE SelectS2CErr
  BY <1>8 DEF SelectS2CErr, Return
<1>9. CASE SelectC2S
  BY <1>9 DEF SelectC2S, Return
<1>10. CASE Dump
  BY <1>10 DEF Dump
<1>11. CASE S2CRecv
  BY <1>11 DEF S2CRecv, s2cOnly, s2cFrame, S2CExit
<1>12. CASE S2CRecvEOF
  BY <1>12 DEF S2CRecvEOF, s2cOnly, s2cFrame, S2CExit
<1>13. CASE S2CRecvErr
  <2>1. CASE ssStatus' = ssStatus
    BY <1>13, <2>1 DEF S2CRecvErr, s2cFrame, S2CExit
  <2>2. CASE ssStatus' # ssStatus
    <3>1. reqIn # <<>> /\ Head(reqIn).size > ServerRecvLimit
      BY <1>13, <2>2 DEF S2CRecvErr
    <3>2. OversizedRequest
      BY <3>1, OversizedRequestFound
    <3>3. ssStatus' = "ResourceExhausted" /\ s2c'.pc = "exited"
      BY <1>13, <2>2 DEF S2CRecvErr, S2CExit
    <3> QED
      BY <3>2, <3>3
  <2> QED
    BY <2>1, <2>2
<1>14. CASE S2CRecord
  BY <1>14 DEF S2CRecord, s2cOnly, s2cFrame, S2CExit, Record
<1>15. CASE S2CSend
  BY <1>15 DEF S2CSend, s2cOnly, s2cFrame, S2CExit
<1>16. CASE S2CSendErr
  BY <1>16 DEF S2CSendErr, s2cOnly, s2cFrame, S2CExit
<1>17. CASE C2SRecv
  BY <1>17 DEF C2SRecv, c2sOnly, C2SExit
<1>18. CASE C2SRecvEnd
  BY <1>18 DEF C2SRecvEnd, c2sOnly, C2SExit
<1>19. CASE C2SRecvErr
  BY <1>19 DEF C2SRecvErr, c2sOnly, C2SExit
<1>20. CASE C2SHeader
  BY <1>20 DEF C2SHeader, c2sOnly, C2SExit
<1>21. CASE C2SRecord
  BY <1>21 DEF C2SRecord, c2sOnly, C2SExit, Record
<1>22. CASE C2SSend
  BY <1>22 DEF C2SSend, c2sOnly, C2SExit
<1>23. CASE C2SSendErr
  BY <1>23 DEF C2SSendErr, c2sOnly, C2SExit
<1>24. CASE UNCHANGED vars
  BY <1>24 DEF vars
<1>25. CASE WriteStatus
  BY <1>25 DEF WriteStatus
<1> QED
  BY <1>1, <1>2, <1>3, <1>4, <1>5, <1>6, <1>7, <1>8, <1>9, <1>10, <1>11, <1>12,
     <1>13, <1>14, <1>15, <1>16, <1>17, <1>18, <1>19, <1>20, <1>21, <1>22,
     <1>23, <1>24, <1>25, NextCases DEF Handler, S2C, C2S

LEMMA C2SOutcomeStep ==
  ASSUME TypeOK, ResponseFifo, Control, C2SOutcome, [Next]_vars
  PROVE  C2SOutcome'
<1> USE BigStep DEF TypeOK, Control, C2SOutcome, ResponsesDone, clientCtxDone,
      ssDone, WireTypeOK, ServerTypeOK, AppStatuses, HandlerTypeOK, C2STypeOK,
      NoErr, EOF, NoStatus, clientVars, serverVars, wires, upVars
<1>1. CASE Client
  BY <1>1 DEF Client, ClientSend, ClientCloseSend, ClientRecv, ClientCancel,
     ClientFinish
<1>2. CASE Server
  BY <1>2 DEF Server, ServerSend, ServerRecv, ServerRecvEOF, ServerSetHeader,
     ServerFinish, ServerReset
<1>3. CASE Upstream
  BY <1>3 DEF Upstream, UpstreamEnd, UpstreamBecomes, UpstreamCancel,
     UpstreamBreak
<1>4. CASE OpenUpstream
  BY <1>4 DEF OpenUpstream
<1>5. CASE SetupRejected
  BY <1>5 DEF SetupRejected, Return
<1>6. CASE SetupCancelled
  BY <1>6 DEF SetupCancelled, Return
<1>7. CASE SelectS2CEof
  BY <1>7 DEF SelectS2CEof, Return
<1>8. CASE SelectS2CErr
  BY <1>8 DEF SelectS2CErr, Return
<1>9. CASE SelectC2S
  BY <1>9 DEF SelectC2S, Return
<1>10. CASE Dump
  BY <1>10 DEF Dump
<1>11. CASE S2CRecv
  BY <1>11 DEF S2CRecv, s2cOnly, s2cFrame, S2CExit
<1>12. CASE S2CRecvEOF
  BY <1>12 DEF S2CRecvEOF, s2cOnly, s2cFrame, S2CExit
<1>13. CASE S2CRecvErr
  BY <1>13 DEF S2CRecvErr, s2cOnly, s2cFrame, S2CExit
<1>14. CASE S2CRecord
  BY <1>14 DEF S2CRecord, s2cOnly, s2cFrame, S2CExit, Record
<1>15. CASE S2CSend
  BY <1>15 DEF S2CSend, s2cOnly, s2cFrame, S2CExit
<1>16. CASE S2CSendErr
  BY <1>16 DEF S2CSendErr, s2cOnly, s2cFrame, S2CExit
<1>17. CASE C2SRecv
  BY <1>17 DEF C2SRecv, c2sOnly, C2SExit
<1>18. CASE C2SRecvEnd
  BY <1>18 DEF C2SRecvEnd, c2sOnly, C2SExit
<1>19. CASE C2SRecvErr
  <2>1. CASE \/ C2SExit("Canceled") /\ UNCHANGED upstream
             \/ upstream = "broken" /\ C2SExit("Unavailable") /\ UNCHANGED upstream
    BY <1>19, <2>1 DEF C2SRecvErr, c2sOnly, C2SExit
  <2>2. CASE /\ respIn # <<>> /\ Head(respIn).size > ClientRecvLimit
             /\ C2SExit("ResourceExhausted")
    <3>1. OversizedResponse
      BY <2>2, OversizedResponseFound
    <3> QED
      BY <1>19, <2>2, <3>1 DEF C2SRecvErr, c2sOnly, C2SExit
  <2> QED
    BY <1>19, <2>1, <2>2 DEF C2SRecvErr
<1>20. CASE C2SHeader
  BY <1>20 DEF C2SHeader, c2sOnly, C2SExit
<1>21. CASE C2SRecord
  BY <1>21 DEF C2SRecord, c2sOnly, C2SExit, Record
<1>22. CASE C2SSend
  BY <1>22 DEF C2SSend, c2sOnly, C2SExit
<1>23. CASE C2SSendErr
  BY <1>23 DEF C2SSendErr, c2sOnly, C2SExit
<1>24. CASE UNCHANGED vars
  BY <1>24 DEF vars
<1>25. CASE WriteStatus
  BY <1>25 DEF WriteStatus
<1> QED
  BY <1>1, <1>2, <1>3, <1>4, <1>5, <1>6, <1>7, <1>8, <1>9, <1>10, <1>11, <1>12,
     <1>13, <1>14, <1>15, <1>16, <1>17, <1>18, <1>19, <1>20, <1>21, <1>22,
     <1>23, <1>24, <1>25, NextCases DEF Handler, S2C, C2S

LEMMA HandlerOutcomeStep ==
  ASSUME TypeOK, Control, Written, S2COutcome, C2SOutcome, HandlerOutcome,
         [Next]_vars
  PROVE  HandlerOutcome'
<1> USE BigStep DEF TypeOK, Control, Written, S2COutcome, C2SOutcome,
      HandlerOutcome, CutOff,
      ResponsesDone, clientCtxDone, ssDone, WireTypeOK, ServerTypeOK,
      AppStatuses, HandlerTypeOK, S2CTypeOK, C2STypeOK, NoErr, EOF, NoStatus,
      clientVars, serverVars, wires, upVars
<1>1. CASE Client
  BY <1>1 DEF Client, ClientSend, ClientCloseSend, ClientRecv, ClientCancel,
     ClientFinish
<1>2. CASE Server
  BY <1>2 DEF Server, ServerSend, ServerRecv, ServerRecvEOF, ServerSetHeader,
     ServerFinish, ServerReset
<1>3. CASE Upstream
  BY <1>3 DEF Upstream, UpstreamEnd, UpstreamBecomes, UpstreamCancel,
     UpstreamBreak
<1>4. CASE OpenUpstream
  BY <1>4 DEF OpenUpstream
<1>5. CASE SetupRejected
  BY <1>5 DEF SetupRejected, Return
<1>6. CASE SetupCancelled
  BY <1>6 DEF SetupCancelled, Return
<1>7. CASE SelectS2CEof
  BY <1>7 DEF SelectS2CEof, Return
<1>8. CASE SelectS2CErr
  BY <1>8 DEF SelectS2CErr, Return
<1>9. CASE SelectC2S
  BY <1>9 DEF SelectC2S, Return
<1>10. CASE Dump
  BY <1>10 DEF Dump
<1>11. CASE S2CRecv
  BY <1>11 DEF S2CRecv, s2cOnly, s2cFrame, S2CExit
<1>12. CASE S2CRecvEOF
  BY <1>12 DEF S2CRecvEOF, s2cOnly, s2cFrame, S2CExit
<1>13. CASE S2CRecvErr
  BY <1>13 DEF S2CRecvErr, s2cOnly, s2cFrame, S2CExit
<1>14. CASE S2CRecord
  BY <1>14 DEF S2CRecord, s2cOnly, s2cFrame, S2CExit, Record
<1>15. CASE S2CSend
  BY <1>15 DEF S2CSend, s2cOnly, s2cFrame, S2CExit
<1>16. CASE S2CSendErr
  BY <1>16 DEF S2CSendErr, s2cOnly, s2cFrame, S2CExit
<1>17. CASE C2SRecv
  BY <1>17 DEF C2SRecv, c2sOnly, C2SExit
<1>18. CASE C2SRecvEnd
  BY <1>18 DEF C2SRecvEnd, c2sOnly, C2SExit
<1>19. CASE C2SRecvErr
  BY <1>19 DEF C2SRecvErr, c2sOnly, C2SExit
<1>20. CASE C2SHeader
  BY <1>20 DEF C2SHeader, c2sOnly, C2SExit
<1>21. CASE C2SRecord
  BY <1>21 DEF C2SRecord, c2sOnly, C2SExit, Record
<1>22. CASE C2SSend
  BY <1>22 DEF C2SSend, c2sOnly, C2SExit
<1>23. CASE C2SSendErr
  BY <1>23 DEF C2SSendErr, c2sOnly, C2SExit
<1>24. CASE UNCHANGED vars
  BY <1>24 DEF vars
<1>25. CASE WriteStatus
  BY <1>25 DEF WriteStatus
<1> QED
  BY <1>1, <1>2, <1>3, <1>4, <1>5, <1>6, <1>7, <1>8, <1>9, <1>10, <1>11, <1>12,
     <1>13, <1>14, <1>15, <1>16, <1>17, <1>18, <1>19, <1>20, <1>21, <1>22,
     <1>23, <1>24, <1>25, NextCases DEF Handler, S2C, C2S

LEMMA NextIInv == IInv /\ [Next]_vars => IInv'
<1> SUFFICES ASSUME IInv, [Next]_vars PROVE IInv'
  OBVIOUS
<1>1. TypeOK'
  BY ClientTypeStep, ServerTypeStep, WireTypeStep, HandlerTypeStep, S2CTypeStep,
     C2STypeStep, DumpTypeStep DEF IInv, TypeOK
<1>2. RequestFifo' /\ ResponseFifo'
  BY RequestFifoStep, ResponseFifoStep DEF IInv
<1>3. /\ Control' /\ HalfClose' /\ Written'
      /\ S2COutcome' /\ C2SOutcome' /\ HandlerOutcome'
  BY ControlStep, HalfCloseStep, WrittenStep, S2COutcomeStep, C2SOutcomeStep,
     HandlerOutcomeStep DEF IInv
<1> QED
  BY <1>1, <1>2, <1>3 DEF IInv

THEOREM Inductive == Spec => []IInv
<1> QED
  BY InitIInv, NextIInv, PTL DEF Spec

-----------------------------------------------------------------------------
(* The safety properties of the call.                                      *)

\* Neither forwarder loses, repeats or reorders a message, for any traffic and any
\* window.
THEOREM MessagesForwarded == Spec => []Fifo
<1>1. IInv => Fifo
  BY DEF IInv, Fifo
<1> QED
  BY <1>1, Inductive, PTL

\* proxyHandler's CloseSend never overtakes a request.
THEOREM HalfCloseOrdered == Spec => []HalfCloseIsLast
<1>1. IInv => HalfCloseIsLast
  <2> SUFFICES ASSUME IInv, closeSent
               PROVE  clientClosed /\ serverGot \o reqOut = clientSent
    BY DEF HalfCloseIsLast
  <2>1. clientClosed /\ s2c.f = <<>> /\ reqIn = <<>>
    BY DEF IInv, HalfClose, RequestsDone
  <2>2. serverGot \o reqOut \in Seq(Message)
    BY ConcatProperties DEF IInv, TypeOK, ServerTypeOK, WireTypeOK
  <2> QED
    BY <2>1, <2>2, ConcatEmptySeq DEF IInv, RequestFifo
<1> QED
  BY <1>1, Inductive, PTL

\* What a client learns is the server's own outcome, or an error with a cause.
THEOREM StatusIsExplained == Spec => []StatusExplained
<1>1. IInv => StatusExplained
  <2> SUFFICES ASSUME IInv PROVE StatusExplained
    OBVIOUS
  <2> USE DEF IInv, HandlerOutcome
  <2>1. /\ handler.err # "Unreachable"
        /\ handler.err \in {"Canceled", "Internal", "Unknown"} =>
              clientStatus = "Canceled" \/ ssStatus = "ResourceExhausted"
    BY DEF CutOff
  <2>2. ASSUME clientStatus \notin {NoStatus, "Canceled"}
        PROVE  /\ clientStatus = ssStatus /\ respOut = <<>>
               /\ \/ clientStatus = "ResourceExhausted" /\ OversizedRequest
                  \/ clientStatus = handler.err /\ clientStatus \notin CutOff
    BY <2>2 DEF Control, Written
  <2>3. ASSUME clientStatus \in AppStatuses
        PROVE  clientStatus = server /\ clientGot = serverSent
    <3>1. clientStatus = handler.err /\ respOut = <<>>
      BY <2>2, <2>3 DEF AppStatuses, NoStatus
    <3>2. server = clientStatus /\ c2s.f = <<>> /\ respIn = <<>>
      BY <2>3, <3>1 DEF ResponsesDone
    <3>3. clientGot \in Seq(Message)
      BY DEF TypeOK, ClientTypeOK
    <3> QED
      BY <3>1, <3>2, <3>3, ConcatEmptySeq, EmptySeq DEF ResponseFifo
  <2>4. clientStatus \notin {"Internal", "Unknown"}
    BY <2>2 DEF NoStatus, CutOff
  <2>5. clientStatus = "SetupError" => server = "absent"
    BY <2>2 DEF NoStatus, Control
  <2>6. clientStatus = "Unavailable" => upstream = "broken"
    BY <2>2 DEF NoStatus
  <2>7. clientStatus = "ResourceExhausted" => OversizedRequest \/ OversizedResponse
    BY <2>2 DEF NoStatus
  <2> QED
    BY <2>1, <2>3, <2>4, <2>5, <2>6, <2>7 DEF StatusExplained
<1> QED
  BY <1>1, Inductive, PTL

-----------------------------------------------------------------------------
(* The proxied call implements the direct one: a step of either end is the *)
(* same step of the direct call, and the proxy's own steps do not show.    *)

LEMMA NextReceived ==
  ASSUME NEW a \in Seq(Message), NEW q \in Seq(Message), NEW b \in Seq(Message),
         q # <<>>
  PROVE  /\ Len(a) < Len((a \o q) \o b)
         /\ ((a \o q) \o b)[Len(a) + 1] = Head(q)
<1>1. Len(a \o q) = Len(a) + Len(q) /\ Len(q) > 0
  BY ConcatProperties, LenProperties
<1>2. (a \o q)[Len(a) + 1] = Head(q) /\ a \o q \in Seq(Message)
  BY ConcatProperties
<1> QED
  BY <1>1, <1>2, ConcatProperties, LenProperties

LEMMA Regroup ==
  ASSUME NEW a \in Seq(Message), NEW q \in Seq(Message), NEW b \in Seq(Message)
  PROVE  (a \o q) \o b = a \o (q \o b)
  BY ConcatAssociative

LEMMA DirectClientStep == ASSUME IInv, Client PROVE [Direct!Next]_(Direct!vars)
<1> USE DEF Direct!vars, Direct!clientVars, Direct!serverVars, Direct!NoStatus,
            NoStatus, Direct!AppStatuses, AppStatuses, Direct!Failures, Failures
<1>1. UNCHANGED <<serverGot, sawHalfClose, serverSent, server>>
  BY ClientFrame DEF serverVars
<1>2. ASSUME NEW sz \in RequestSizes, ClientSend(sz) PROVE Direct!Next
  BY <1>1, <1>2 DEF ClientSend, Direct!ClientSend, Direct!Next, Request,
     Direct!Request
<1>3. CASE ClientCloseSend
  BY <1>1, <1>3 DEF ClientCloseSend, Direct!ClientCloseSend, Direct!Next
<1>4. CASE ClientRecv
  <2>1. /\ clientGot \in Seq(Message) /\ respOut \in Seq(Message)
        /\ c2s.f \in Seq(Message) /\ respIn \in Seq(Message)
    BY DEF IInv, TypeOK, ClientTypeOK, WireTypeOK, C2STypeOK
  <2>2. c2s.f \o respIn \in Seq(Message)
    BY <2>1, ConcatProperties
  <2>3. serverSent = (clientGot \o respOut) \o (c2s.f \o respIn)
    <3>1. clientGot \o respOut \in Seq(Message)
      BY <2>1, ConcatProperties
    <3>2. ((clientGot \o respOut) \o c2s.f) \o respIn
            = (clientGot \o respOut) \o (c2s.f \o respIn)
      BY <2>1, <3>1, Regroup
    <3> QED
      BY <3>2 DEF IInv, ResponseFifo
  <2>4. Len(clientGot) < Len(serverSent) /\ serverSent[Len(clientGot) + 1] = Head(respOut)
    BY <1>4, <2>1, <2>2, <2>3, NextReceived DEF ClientRecv
  <2> QED
    BY <1>1, <1>4, <2>4 DEF ClientRecv, Direct!ClientRecv, Direct!Next
<1>5. CASE ClientCancel
  BY <1>1, <1>5 DEF ClientCancel, Direct!ClientAbort, Direct!Next
<1>6. CASE ClientFinish
  <2> USE DEF IInv, HandlerOutcome
  <2>1. /\ clientStatus' = ssStatus /\ clientStatus = NoStatus
        /\ ssStatus # NoStatus /\ respOut = <<>>
        /\ UNCHANGED <<clientSent, clientClosed, clientGot>>
    BY <1>6 DEF ClientFinish
  <2>2. \/ ssStatus = "ResourceExhausted"
        \/ ssStatus = handler.err /\ ssStatus \notin CutOff
    BY <2>1 DEF Written
  <2>3. CASE ssStatus \in AppStatuses
    <3>1. server = ssStatus /\ c2s.f = <<>> /\ respIn = <<>>
      BY <2>2, <2>3 DEF ResponsesDone
    <3>2. clientGot \in Seq(Message)
      BY DEF TypeOK, ClientTypeOK
    <3>3. clientGot = serverSent
      BY <2>1, <3>1, <3>2, ConcatEmptySeq, EmptySeq DEF ResponseFifo
    <3> QED
      BY <1>1, <2>1, <2>3, <3>1, <3>3 DEF Direct!ClientFinish, Direct!Next
  <2>4. CASE ssStatus \notin AppStatuses
    <3>1. ssStatus \in Failures
      BY <2>1, <2>2, <2>4 DEF TypeOK, WireTypeOK, Statuses, CutOff
    <3> QED
      BY <1>1, <2>1, <3>1 DEF Direct!ClientAbort, Direct!Next
  <2> QED
    BY <2>3, <2>4
<1> QED
  BY <1>2, <1>3, <1>4, <1>5, <1>6 DEF Client

LEMMA DirectServerStep == ASSUME IInv, Server PROVE [Direct!Next]_(Direct!vars)
<1> USE DEF Direct!vars, Direct!clientVars, Direct!serverVars, Direct!NoStatus,
            NoStatus, Direct!AppStatuses, AppStatuses, Direct!Failures, Failures
<1>1. UNCHANGED <<clientSent, clientClosed, clientGot, clientStatus>>
  BY ServerFrame DEF clientVars
<1>2. ASSUME NEW sz \in ResponseSizes, ServerSend(sz) PROVE Direct!Next
  BY <1>1, <1>2 DEF ServerSend, Direct!ServerSend, Direct!Next, Response,
     Direct!Response
<1>3. CASE ServerRecv
  <2>1. /\ serverGot \in Seq(Message) /\ reqOut \in Seq(Message)
        /\ s2c.f \in Seq(Message) /\ reqIn \in Seq(Message)
    BY DEF IInv, TypeOK, ServerTypeOK, WireTypeOK, S2CTypeOK
  <2>2. s2c.f \o reqIn \in Seq(Message)
    BY <2>1, ConcatProperties
  <2>3. clientSent = (serverGot \o reqOut) \o (s2c.f \o reqIn)
    <3>1. serverGot \o reqOut \in Seq(Message)
      BY <2>1, ConcatProperties
    <3>2. ((serverGot \o reqOut) \o s2c.f) \o reqIn
            = (serverGot \o reqOut) \o (s2c.f \o reqIn)
      BY <2>1, <3>1, Regroup
    <3> QED
      BY <3>2 DEF IInv, RequestFifo
  <2>4. Len(serverGot) < Len(clientSent) /\ clientSent[Len(serverGot) + 1] = Head(reqOut)
    BY <1>3, <2>1, <2>2, <2>3, NextReceived DEF ServerRecv
  <2> QED
    BY <1>1, <1>3, <2>4 DEF ServerRecv, Direct!ServerRecv, Direct!Next
<1>4. CASE ServerRecvEOF
  <2>1. reqOut = <<>> /\ clientClosed /\ s2c.f = <<>> /\ reqIn = <<>>
    BY <1>4 DEF ServerRecvEOF, IInv, HalfClose, RequestsDone
  <2>2. serverGot \in Seq(Message)
    BY DEF IInv, TypeOK, ServerTypeOK
  <2>3. serverGot = clientSent
    BY <2>1, <2>2, ConcatEmptySeq, EmptySeq DEF IInv, RequestFifo
  <2> QED
    BY <1>1, <1>4, <2>1, <2>3 DEF ServerRecvEOF, Direct!ServerRecvEOF, Direct!Next
<1>5. CASE ServerSetHeader
  BY <1>1, <1>5 DEF ServerSetHeader
<1>6. CASE ServerFinish \/ ServerReset
  BY <1>1, <1>6 DEF ServerFinish, ServerReset, Direct!ServerFinish, Direct!Next
<1> QED
  BY <1>2, <1>3, <1>4, <1>5, <1>6 DEF Server

LEMMA DirectHandlerStep == ASSUME IInv, Handler PROVE [Direct!Next]_(Direct!vars)
<1> USE DEF Direct!vars, Direct!clientVars, Direct!serverVars, Direct!NoStatus,
            NoStatus, Direct!AppStatuses, AppStatuses, Direct!Failures, Failures
<1>1. UNCHANGED <<clientSent, clientClosed, clientGot, clientStatus, serverGot,
                  sawHalfClose, serverSent>>
  BY HandlerFrame DEF clientVars
<1>2. CASE OpenUpstream
  <2>1. server = "absent"
    BY <1>2 DEF OpenUpstream, IInv, Control
  <2> QED
    BY <1>1, <1>2, <2>1 DEF OpenUpstream, Direct!ServerStart, Direct!Next
<1>3. CASE SetupRejected \/ SetupCancelled \/ SelectS2CEof \/ SelectS2CErr
             \/ SelectC2S \/ Dump
  BY <1>1, <1>3 DEF SetupRejected, SetupCancelled, SelectS2CEof, SelectS2CErr,
     SelectC2S, Dump, serverVars
<1> QED
  BY <1>2, <1>3 DEF Handler

\* For a client and a server, a call through grpc-dump is a direct call.
THEOREM ProxyIsTransparent == Spec => Transparent
<1>1. Init => Direct!Init
  BY DEF Init, Direct!Init, NoStatus, Direct!NoStatus
<1>2. IInv /\ [Next]_vars => [Direct!Next]_(Direct!vars)
  <2> SUFFICES ASSUME IInv, [Next]_vars PROVE [Direct!Next]_(Direct!vars)
    OBVIOUS
  <2>1. CASE Upstream \/ WriteStatus \/ S2C \/ C2S \/ UNCHANGED vars
    BY <2>1, UpstreamFrame, WriteFrame, S2CFrame, C2SFrame DEF clientVars,
       serverVars, vars, Direct!vars, Direct!clientVars, Direct!serverVars
  <2> QED
    BY <2>1, DirectClientStep, DirectServerStep, DirectHandlerStep, NextCases
<1> QED
  BY <1>1, <1>2, Inductive, PTL DEF Spec, Transparent, Direct!Spec

=============================================================================

--------------------------------- MODULE Tunnel ---------------------------------
(***************************************************************************)
(* A connection that the proxy does not intercept: the bytes it has peeked *)
(* at (internal/peekconn/peeker.go) and the two goroutines that copy       *)
(* between the client and its destination                                  *)
(* (internal/tlsmux/forward_connection.go).                                *)
(*                                                                         *)
(*   client --> wire --> peeked --> copier --> out --> destination         *)
(*   client <------------ out <--- copier <--- wire <---- destination      *)
(*                                                                         *)
(* A tunnel from the multiplexer has peeked once, for TLS; one from the    *)
(* bouncer twice, for TLS and, through that peeker, for HTTP.              *)
(***************************************************************************)
EXTENDS Integers, Sequences, SequencesExt

CONSTANTS
    Modes,      \* how the two connections can be closed, see Mode
    PeekSizes,  \* how many bytes each peek wants: <<3>> or <<3, 8>> in the code
    First,      \* bytes in the client's first segment; later ones have one byte
    Sends,      \* bound: the bytes each side may send
    BufSizes,   \* of the buffer that io.Copy reads into
    Window      \* bytes that are under way to a side that does not read

Sides == {"client", "dest"}
Other(s) == IF s = "client" THEN "dest" ELSE "client"

\*   tcp      both have halves that can be closed by themselves
\*   proxied  the client's is a proxiedConn, which hides these methods, in a peeker,
\*            which has them: what the program's tunnels are
\*   whole    one of them can only be closed as a whole
Mode == {"tcp", "proxied", "whole"}

\* What the bytes ahead of an insufficient read are filled up with.
Zero == 0

ASSUME TunnelAssumption ==
    /\ Modes \subseteq Mode
    /\ PeekSizes \in Seq(Nat \ {0}) /\ Len(PeekSizes) \in {1, 2}
    /\ PeekSizes[1] <= Last(PeekSizes)
    /\ First \in Nat \ {0} /\ BufSizes \subseteq Nat \ {0} /\ Window \in Nat \ {0}
    /\ Sends \in [Sides -> Nat]

VARIABLES
    mode, bufSize,  \* how it closes, what it reads at once
    stage,          \* "peek", "dial", "open" or "failed"
    peeks,          \* the peeks still to be made
    peeked,         \* what the peekers hold
    sent, end,      \* how many bytes a side has sent, and whether it goes on
    wire,           \* from a side to the proxy
    copier,         \* the goroutine that copies from a side
    out, fin,       \* from the proxy to a side, and whether its end is under way
    got, sawEnd,    \* what a side has received
    wg              \* the WaitGroup of the peeker, or of forwardConnection

sides == <<sent, end, got, sawEnd>>
vars == <<mode, bufSize, stage, peeks, peeked, sides, wire, copier, out, fin, wg>>

Copier == [pc : {"read", "write", "closeWrite", "wait", "closeRead", "done"},
           buf : Seq(Nat), last : BOOLEAN]

\* The next n of a queue, or all of it.
Take(q, n) == IF n < Len(q) THEN SubSeq(q, 1, n) ELSE q
Drop(q, n) == IF n < Len(q) THEN SubSeq(q, n + 1, Len(q)) ELSE <<>>

Init ==
    /\ mode \in Modes /\ bufSize \in BufSizes /\ stage = "peek" /\ peeks = PeekSizes /\ peeked = <<>>
    /\ sent = [s \in Sides |-> 0] /\ end = [s \in Sides |-> "open"]
    /\ got = [s \in Sides |-> <<>>] /\ sawEnd = [s \in Sides |-> FALSE]
    /\ wire = [s \in Sides |-> <<>>]
    /\ copier = [s \in Sides |-> [pc |-> "read", buf |-> <<>>, last |-> FALSE]]
    /\ out = [s \in Sides |-> <<>>] /\ fin = [s \in Sides |-> FALSE]
    /\ wg = 2

-----------------------------------------------------------------------------
(* The client and its destination.                                         *)

proxy == <<mode, bufSize, stage, peeks, peeked, copier, fin, wg>>

Segment(s) == IF s = "client" /\ sent[s] = 0 THEN First ELSE 1

Send(s) ==
    /\ end[s] = "open"
    /\ s = "dest" => stage = "open"
    /\ sent[s] + Segment(s) <= Sends[s]
    /\ sent' = [sent EXCEPT ![s] = @ + Segment(s)]
    /\ wire' = [wire EXCEPT ![s] = @ \o [i \in 1..Segment(s) |-> sent[s] + i]]
    /\ UNCHANGED <<proxy, end, got, sawEnd, out>>

End(s) ==
    /\ end[s] = "open"
    /\ s = "dest" => stage = "open"
    /\ end' = [end EXCEPT ![s] = "fin"]
    /\ UNCHANGED <<proxy, sent, got, sawEnd, wire, out>>

\* A side that closes or crashes takes nothing more; what it has sent may be lost.
Leave(s) ==
    /\ end[s] # "gone"
    /\ s = "dest" => stage = "open"
    /\ end' = [end EXCEPT ![s] = "gone"]
    /\ wire' \in {wire, [wire EXCEPT ![s] = <<>>]}
    /\ out' = [out EXCEPT ![s] = <<>>]
    /\ UNCHANGED <<proxy, sent, got, sawEnd>>

Receive(s) ==
    /\ end[s] # "gone" /\ out[s] # <<>>
    /\ got' = [got EXCEPT ![s] = @ \o out[s]]
    /\ out' = [out EXCEPT ![s] = <<>>]
    /\ UNCHANGED <<proxy, sent, end, sawEnd, wire>>

SeeEnd(s) ==
    /\ end[s] # "gone" /\ out[s] = <<>> /\ fin[s] /\ ~sawEnd[s]
    /\ sawEnd' = [sawEnd EXCEPT ![s] = TRUE]
    /\ UNCHANGED <<proxy, sent, end, got, wire, out>>

-----------------------------------------------------------------------------
(* Peeking.                                                                *)

\* A read finds something, or the end.
Readable(s) == wire[s] # <<>> \/ end[s] # "open"

Want == Head(peeks)

\* What a read through the peekers so far returns: what they hold and then, if that
\* is not all that was asked for, what one read of the connection brings.
Ahead == peeked \o Take(wire["client"], Want - Len(peeked))

\* The connection is asked only for what is missing.
PeekReads ==
    /\ stage = "peek"
    /\ Len(peeked) < Want => Readable("client")
    /\ wire' = [wire EXCEPT !["client"] = Drop(@, Want - Len(peeked))]
    /\ UNCHANGED <<mode, bufSize, sides, copier, out, fin, wg>>

PeekMatch ==
    /\ PeekReads
    /\ Len(Ahead) = Want
    /\ peeked' = Ahead
    /\ peeks' = Tail(peeks)
    /\ stage' = IF Len(peeks) = 1 THEN "dial" ELSE "peek"

\* The peek for TLS fails and the connection goes on to the bouncer all the same:
\* its buffer is as long as the peek and counts as peeked.
PeekShort ==
    /\ PeekReads
    /\ Len(Ahead) < Want /\ Len(peeks) = 2
    /\ peeked' = Ahead \o [i \in 1..(Want - Len(Ahead)) |-> Zero]
    /\ peeks' = Tail(peeks)
    /\ UNCHANGED stage

\* The last peek fails: there is no tunnel.
PeekFails ==
    /\ PeekReads
    /\ Len(Ahead) < Want /\ Len(peeks) = 1
    /\ stage' = "failed"
    /\ UNCHANGED <<peeked, peeks>>

\* A failed dial closes the client's connection, or leaves it.
Dial ==
    /\ stage = "dial"
    /\ \/ stage' = "open" /\ UNCHANGED fin
       \/ stage' = "failed" /\ fin' \in {fin, [fin EXCEPT !["client"] = TRUE]}
    /\ UNCHANGED <<mode, bufSize, peeks, peeked, sides, wire, copier, out, wg>>

-----------------------------------------------------------------------------
(* Copying: one goroutine for each direction.                              *)

Pc(s) == copier[s].pc
AtEnd(s) == wire[s] = <<>> /\ end[s] # "open"

\* The goroutine has read `bytes`; it was the end of the stream if `last`.
HasRead(s, bytes, last) ==
    copier' = [copier EXCEPT ![s] =
       [pc |-> IF bytes = <<>> THEN "closeWrite" ELSE "write", buf |-> bytes, last |-> last]]

\* Mutant: what was peeked at comes behind what is read.
ReadPeekedBehind(s) ==
    /\ s = "client" /\ peeked # <<>> /\ Len(peeked) <= bufSize
    /\ Len(peeked) < bufSize => Readable(s)
    /\ HasRead(s, Take(wire[s], bufSize - Len(peeked)) \o peeked,
               AtEnd(s) /\ Len(peeked) < bufSize)
    /\ wire' = [wire EXCEPT ![s] = Drop(@, bufSize - Len(peeked))]
    /\ peeked' = <<>>

\* Mutant: the whole buffer is filled.
ReadPeekedFull(s) ==
    /\ s = "client" /\ peeked # <<>> /\ Len(peeked) <= bufSize
    /\ Len(peeked) + Len(wire[s]) >= bufSize \/ end[s] # "open"
    /\ HasRead(s, peeked \o Take(wire[s], bufSize - Len(peeked)),
               AtEnd(s) /\ Len(peeked) < bufSize)
    /\ wire' = [wire EXCEPT ![s] = Drop(@, bufSize - Len(peeked))]
    /\ peeked' = <<>>

\* What peeker.Read gives out of what it has peeked, together with one read of the
\* connection for the rest of the buffer...
ReadPeeked(s) ==
    /\ s = "client" /\ peeked # <<>> /\ Len(peeked) <= bufSize
    /\ Len(peeked) < bufSize => Readable(s)
    /\ HasRead(s, peeked \o Take(wire[s], bufSize - Len(peeked)),
               AtEnd(s) /\ Len(peeked) < bufSize)
    /\ wire' = [wire EXCEPT ![s] = Drop(@, bufSize - Len(peeked))]
    /\ peeked' = <<>>

\* ... or a part of it.
ReadPartOfPeeked(s) ==
    /\ s = "client" /\ Len(peeked) > bufSize
    /\ HasRead(s, Take(peeked, bufSize), FALSE)
    /\ peeked' = Drop(peeked, bufSize)
    /\ UNCHANGED wire

ReadConn(s) ==
    /\ s = "client" => peeked = <<>>
    /\ Readable(s)
    /\ HasRead(s, Take(wire[s], bufSize), AtEnd(s))
    /\ wire' = [wire EXCEPT ![s] = Drop(@, bufSize)]
    /\ UNCHANGED peeked

CopyRead(s) ==
    /\ stage = "open" /\ Pc(s) = "read"
    /\ ReadPeeked(s) \/ ReadPartOfPeeked(s) \/ ReadConn(s)
    /\ UNCHANGED <<mode, bufSize, stage, peeks, sides, out, fin, wg>>

CopyWrite(s) ==
    /\ Pc(s) = "write" /\ end[Other(s)] # "gone"
    /\ LET o == Other(s)
           room == Window - Len(out[o])
           rest == Drop(copier[s].buf, room)
       IN
       /\ room > 0
       /\ out' = [out EXCEPT ![o] = @ \o Take(copier[s].buf, room)]
       /\ copier' = [copier EXCEPT ![s].buf = rest,
             ![s].pc = IF rest # <<>> THEN "write"
                       ELSE IF copier[s].last THEN "closeWrite" ELSE "read"]
    /\ UNCHANGED <<mode, bufSize, stage, peeks, peeked, sides, wire, fin, wg>>

\* The other side has gone: the write fails, at once or the next time.
CopyWriteFails(s) ==
    /\ Pc(s) = "write" /\ end[Other(s)] = "gone"
    /\ \E next \in {"closeWrite"} \cup IF copier[s].last THEN {} ELSE {"read"} :
          copier' = [copier EXCEPT ![s].buf = <<>>, ![s].pc = next]
    /\ UNCHANGED <<mode, bufSize, stage, peeks, peeked, sides, wire, out, fin, wg>>

closing == UNCHANGED <<mode, bufSize, stage, peeks, peeked, sides, wire, out>>
Goes(s, pc) == copier' = [copier EXCEPT ![s].pc = pc]

\* In a peeker the halves of the client's connection are counted.
Counted(s) == mode = "proxied" /\ s = "client"

\* dst.CloseWrite() goes out by itself...
CopyCloseWrite(s) ==
    /\ Pc(s) = "closeWrite" /\ mode # "whole" /\ ~Counted(Other(s))
    /\ fin' = [fin EXCEPT ![Other(s)] = TRUE]
    /\ Goes(s, "closeRead")
    /\ UNCHANGED wg /\ closing

\* ... but in a peeker waits for CloseRead, and then closes the whole connection.
CopyCountWrite(s) ==
    /\ Pc(s) = "closeWrite" /\ Counted(Other(s))
    /\ wg' = wg - 1
    /\ Goes(s, "wait")
    /\ UNCHANGED fin /\ closing

CopyWait(s) ==
    /\ Pc(s) = "wait" /\ wg = 0
    /\ fin' = [fin EXCEPT ![Other(s)] = TRUE]
    /\ Goes(s, "closeRead")
    /\ UNCHANGED wg /\ closing

\* Mutant: it is counted on either side.
CopyCloseReadTwice(s) ==
    /\ Pc(s) = "closeRead"
    /\ wg' = IF mode = "proxied" THEN wg - 1 ELSE wg
    /\ Goes(s, "done")
    /\ UNCHANGED fin /\ closing

\* Mutant: CloseRead is a no-op.
CopyCloseReadNoop(s) ==
    /\ Pc(s) = "closeRead"
    /\ Goes(s, "done")
    /\ UNCHANGED <<fin, wg>> /\ closing

\* src.CloseRead()
CopyCloseRead(s) ==
    /\ Pc(s) = "closeRead"
    /\ wg' = IF Counted(s) THEN wg - 1 ELSE wg
    /\ Goes(s, "done")
    /\ UNCHANGED fin /\ closing

\* Without halves: both goroutines are counted, a third one closes both ends.
CopyDone(s) ==
    /\ Pc(s) = "closeWrite" /\ mode = "whole"
    /\ wg' = wg - 1
    /\ Goes(s, "done")
    /\ UNCHANGED fin /\ closing

CloseBoth ==
    /\ mode = "whole" /\ wg = 0 /\ fin # [s \in Sides |-> TRUE]
    /\ fin' = [s \in Sides |-> TRUE]
    /\ UNCHANGED <<copier, wg>> /\ closing

-----------------------------------------------------------------------------

Endpoint(s) == Send(s) \/ End(s) \/ Leave(s) \/ Receive(s) \/ SeeEnd(s)
Peek == PeekMatch \/ PeekShort \/ PeekFails
Close(s) == CopyCloseWrite(s) \/ CopyCountWrite(s) \/ CopyWait(s) \/ CopyCloseRead(s)
               \/ CopyDone(s)
Copy(s) == CopyRead(s) \/ CopyWrite(s) \/ CopyWriteFails(s) \/ Close(s)

Finished == stage = "failed" \/ \A s \in Sides : Pc(s) = "done"

\* Nothing more to do for the proxy, whatever the ends do.
Rest == Finished /\ UNCHANGED vars

Next == Peek \/ Dial \/ CloseBoth \/ Rest \/ \E s \in Sides : Endpoint(s) \/ Copy(s)

Spec == Init /\ [][Next]_vars

\* The goroutines run and dials come to an end. The destination reads what arrives;
\* the client need not.
Fairness ==
    /\ WF_vars(Peek) /\ WF_vars(Dial) /\ WF_vars(CloseBoth)
    /\ \A s \in Sides : WF_vars(Copy(s))
    /\ WF_vars(Receive("dest") \/ SeeEnd("dest"))
FairSpec == Spec /\ Fairness

-----------------------------------------------------------------------------
(* Properties.                                                             *)

\* The type of every variable; the window is not exceeded, nor the WaitGroup's
\* counter taken below 0, which would be a panic.
TypeOK ==
    /\ mode \in Modes /\ bufSize \in BufSizes
    /\ stage \in {"peek", "dial", "open", "failed"}
    /\ peeks \in Seq(Nat \ {0}) /\ peeked \in Seq(Nat)
    /\ sent \in [Sides -> Nat] /\ end \in [Sides -> {"open", "fin", "gone"}]
    /\ wire \in [Sides -> Seq(Nat)] /\ copier \in [Sides -> Copier]
    /\ out \in [Sides -> Seq(Nat)] /\ got \in [Sides -> Seq(Nat)]
    /\ \A s \in Sides : Len(out[s]) <= Window
    /\ fin \in [Sides -> BOOLEAN] /\ sawEnd \in [Sides -> BOOLEAN]
    /\ wg \in 0..2

\* Each side gets what the other has sent, in order, nothing else, and sees the end
\* of it no earlier: what the proxy peeked at is put back in front.
Transparent == INSTANCE Pipe WITH refused <- stage = "failed"
IsTransparent == Transparent!Spec

\* Once both sides have ended, and the client is gone or everything has reached it,
\* neither goroutine stays behind.
NothingStays ==
    stage = "open" /\ (\A s \in Sides : end[s] # "open")
       ~> \/ \A s \in Sides : Pc(s) = "done"
          \/ end["client"] # "gone" /\ out["client"] # <<>>

LastPeek == Last(PeekSizes)
Arrives(n) ==
    \/ Len(got["dest"]) >= n \/ stage = "failed"
    \/ \E s \in Sides : end[s] = "gone"

\* The client is heard, though it may not read what the destination goes on sending:
\* what it has sent arrives, once that is more than was peeked at, and so does its
\* end. The directions do not wait for one another.
ClientIsHeard ==
    /\ \A n \in (LastPeek + 1)..Sends["client"] : sent["client"] = n ~> Arrives(n)
    /\ mode # "whole" /\ end["client"] # "open" /\ stage = "open"
          ~> sawEnd["dest"] \/ end["dest"] = "gone"

\* CHANGELOG.md:26, "will transparently forward all non-HTTP traffic to the original
\* destination": what arrives is what the client has sent.
OnlyItsBytes ==
    \A i \in 1..Len(got["dest"]) : got["dest"][i] = i

=============================================================================

---------------------------------- MODULE Pipe ----------------------------------
(***************************************************************************)
(* What a transparent tunnel promises to the two ends it connects: each    *)
(* receives what the other has sent, in order and nothing else, and sees   *)
(* the end of it when it has it all, or when the other end is gone.        *)
(*                                                                         *)
(* Byte n of a stream is the number n, so what an end has received is a    *)
(* sequence of numbers that ought to be 1, 2, 3 and so on.                 *)
(***************************************************************************)
EXTENDS Integers, Sequences

CONSTANT Sides
Other(s) == CHOOSE o \in Sides : o # s

VARIABLES
    sent,      \* how many bytes each side has sent
    got,       \* what each side has received
    end,       \* whether it is still sending, has finished, or is gone
    sawEnd,    \* whether it has seen the end of the other side's stream
    refused    \* the tunnel was never opened

pipe == <<sent, got, end, sawEnd, refused>>

Stream(n) == [i \in 1..n |-> i]

Init ==
    /\ sent = [s \in Sides |-> 0]
    /\ got = [s \in Sides |-> <<>>]
    /\ end = [s \in Sides |-> "open"]
    /\ sawEnd = [s \in Sides |-> FALSE]
    /\ refused = FALSE

Send(s) ==
    /\ end[s] = "open"
    /\ sent'[s] \in Nat /\ sent'[s] > sent[s]
    /\ sent' = [sent EXCEPT ![s] = sent'[s]]
    /\ UNCHANGED <<got, end, sawEnd, refused>>

End(s) ==
    /\ \/ end[s] = "open" /\ end' = [end EXCEPT ![s] = "fin"]
       \/ end[s] # "gone" /\ end' = [end EXCEPT ![s] = "gone"]
    /\ UNCHANGED <<sent, got, sawEnd, refused>>

Receive(s) ==
    /\ end[s] # "gone" /\ ~sawEnd[s] /\ ~refused
    /\ \E n \in (Len(got[s]) + 1)..sent[Other(s)] : got' = [got EXCEPT ![s] = Stream(n)]
    /\ UNCHANGED <<sent, end, sawEnd, refused>>

SeeEnd(s) ==
    /\ end[s] # "gone" /\ ~sawEnd[s]
    /\ \/ refused
       \/ end[Other(s)] = "gone"
       \/ end[Other(s)] = "fin" /\ got[s] = Stream(sent[Other(s)])
    /\ sawEnd' = [sawEnd EXCEPT ![s] = TRUE]
    /\ UNCHANGED <<sent, got, end, refused>>

Refuse ==
    /\ \A s \in Sides : got[s] = <<>> /\ ~sawEnd[s]
    /\ refused' = TRUE
    /\ UNCHANGED <<sent, got, end, sawEnd>>

Next == Refuse \/ \E s \in Sides : Send(s) \/ End(s) \/ Receive(s) \/ SeeEnd(s)
Spec == Init /\ [][Next]_pipe

=============================================================================

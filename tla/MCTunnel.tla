-------------------------------- MODULE MCTunnel --------------------------------
(***************************************************************************)
(* Tunnel with streams of a few bytes.                                     *)
(***************************************************************************)
EXTENDS Tunnel, TLC

AllModes == Mode
Proxied == {"proxied"}

\* 3 and 8 bytes in the code.
TwoPeeks == <<1, 2>>
LongPeeks == <<2, 3>>

Few == [s \in Sides |-> IF s = "client" THEN 4 ELSE 2]
=============================================================================

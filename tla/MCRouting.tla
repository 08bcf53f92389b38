------------------------------ MODULE MCRouting ------------------------------
(***************************************************************************)
(* Routing on small instances.                                             *)
(***************************************************************************)
EXTENDS RoutingProps, TLC

CONSTANTS p1, p2, s1, id1, id2, other

MCIdOf == (p1 :> id1) @@ (p2 :> id2)

Part(i) == [id |-> i, exact |-> TRUE]

NoVias == {<<>>}

\* Nothing, a foreign proxy, a proxy of ours (a call that comes from a dump), and
\* one of ours in the middle, where AddVia leaves it alone.
MCVias == {<<>>, <<Part(other)>>, <<Part(id1)>>,
           <<Part(other), Part(id2), Part(other)>>}

=============================================================================

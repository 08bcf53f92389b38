-------------------------------- MODULE MCCodec --------------------------------
(***************************************************************************)
(* Codec with one type, older versions of it, and every message of at most *)
(* a few fields.                                                           *)
(***************************************************************************)
EXTENDS Codec, TLC

T(type, repeated, sub) == [type |-> type, repeated |-> repeated, named |-> TRUE, sub |-> sub]
Number == T("int64", FALSE, EmptyType)
Text == T("string", FALSE, EmptyType)
Without(D, nums) == [n \in DOMAIN D \ nums |-> D[n]]

Inner == (1 :> Number) @@ (2 :> Text)
Entry == (1 :> Text)
TheTruth ==
    (1 :> Number) @@ (2 :> Text) @@ (3 :> T("message", FALSE, Inner)) @@ (4 :> T("message", TRUE, Inner))
    @@ (5 :> T("map", TRUE, Entry)) @@ (6 :> T("double", FALSE, EmptyType))
    @@ (7 :> T("int64", TRUE, EmptyType))

\* 7, and what nobody knows any more as a group, is in no .proto file; older ones lack
\* more, on either level.
Younger == Without(TheTruth, {7})
OldInner == [Younger EXCEPT ![3].sub = Without(Inner, {2}), ![4].sub = Without(Inner, {2})]
TheVersions ==
    {Younger, OldInner, Without(Younger, {1, 2, 6}), Without(OldInner, {3}), Without(OldInner, {4, 5}),
     Without(Younger, {3, 4, 5})}

F(num, wire, tag, reads, fields) ==
    [num |-> num, wire |-> wire, tag |-> tag, reads |-> reads, fields |-> fields]
V(num, tag) == F(num, "varint", tag, {}, <<>>)
B(num, tag, reads) == F(num, "bytes", tag, reads, <<>>)
S(num, tag) == B(num, tag, {"text", "packed"})
M(num, reads, fields) == F(num, "bytes", "", {"message"} \cup reads, fields)

\* Numbers; text, other bytes, and a string that could be a message; embedded messages
\* with and without the newer field, one of them printable; packed and single numbers.
Stock ==
    {V(1, "x"), V(1, "y"), S(2, "hi"), B(2, "binary", {}),
     F(2, "bytes", "like a message", {"message", "packed"}, <<V(1, "x")>>),
     M(3, {"packed"}, <<V(1, "x")>>), M(3, {}, <<V(1, "y"), S(2, "hi")>>), M(3, {"text"}, <<S(2, "hi")>>),
     M(4, {}, <<V(1, "x")>>), M(4, {}, <<S(2, "hi"), V(1, "x")>>), M(4, {"text", "packed"}, <<>>),
     M(5, {"packed"}, <<S(1, "key")>>), F(6, "fixed64", "x", {}, <<>>),
     V(7, "x"), B(7, "many", {"packed"}), B(7, "few", {"packed", "text"}),
     F(8, "group", "x", {}, <<>>), F(9, "fixed32", "x", {}, <<>>)}

Body(fields) == [reads |-> {"message"}, fields |-> fields]
UpToThree ==
    {[reads |-> {}, fields |-> <<>>], Body(<<>>)}
       \cup {Body(<<f>>) : f \in Stock} \cup {Body(<<f, g>>) : f, g \in Stock}
       \cup {Body(<<f, g, h>>) : f, g, h \in Stock}
=============================================================================

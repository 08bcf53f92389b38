------------------------------- MODULE MCConnMux -------------------------------
(***************************************************************************)
(* ConnMux on small instances: the certificate is valid for `own` and not  *)
(* for `foreign`.                                                          *)
(***************************************************************************)
EXTENDS ConnMux, TLC

CONSTANTS c1, c2, own, foreign

L(kind) == [kind |-> kind, to |-> None]
C(d) == [kind |-> "connect", to |-> d]

DirectScripts ==
    {<<L("http")>>, <<L("get")>>, <<L("short")>>, <<L("silent")>>,
     <<L("tls"), L("http")>>, <<L("tls"), L("other")>>, <<L("tls")>>}

TunnelScripts ==
    {<<C(foreign), L("tls")>>, <<C(own), L("tls"), L("http")>>,
     <<C(own), L("http")>>, <<C(own), L("get")>>, <<C(foreign), L("other")>>,
     <<C(foreign), L("brief")>>, <<C(foreign), L("short")>>, <<C(foreign)>>}

NestedScripts ==
    {<<C(own), C(foreign), L("tls")>>, <<C(foreign), C(own), L("tls"), L("http")>>,
     <<L("tls"), C(foreign), L("tls")>>, <<C(own), L("tls"), C(foreign), L("other")>>,
     <<L("tls"), C(own), L("http")>>, <<C(own), L("tls"), L("silent")>>}

AllScripts == DirectScripts \cup TunnelScripts \cup NestedScripts
=============================================================================

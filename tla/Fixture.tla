-------------------------------- MODULE Fixture --------------------------------
(***************************************************************************)
(* grpc-fixture: a dump is loaded, line by line and message by message,    *)
(* into one tree for each method (grpc-fixture/fixture/load.go); every     *)
(* call then walks down its method's tree, and says what it finds there    *)
(* (fixture_interceptor.go).                                               *)
(*                                                                         *)
(* Calls only read the tree. A message is who sent it and its encoded      *)
(* bytes; a line of the dump is the messages of one call in the order in   *)
(* which they were recorded. How it ended is not looked at.                *)
(***************************************************************************)
EXTENDS Integers, Sequences, SequencesExt

CONSTANTS
    Methods, Bodies,
    Dumps,     \* the dumps that may be loaded
    Clients,   \* other calls that a client may want to make than the recorded ones
    Calls,
    Users      \* the calls that clients of any kind make

Origin == {"client", "server"}
Message == [from : Origin, body : Bodies]
Recording == [method : Methods, messages : Seq(Message)]

ASSUME FixtureAssumption ==
    /\ Methods # {}
    /\ Dumps \subseteq Seq(Recording)
    /\ Clients \subseteq Recording
    /\ Users \subseteq Calls

VARIABLES
    dump,            \* what the file contains
    phase,           \* "loading", "serving", or "failed": Run has returned
    line, pos,       \* how many lines have been begun, messages of the last one added
    node,            \* loadFixture's messageTreeNode
    nodes, root,     \* the trees: all their nodes, and the map from methods
    call             \* the calls being served

loading == <<phase, line, pos, node, nodes, root>>
vars == <<dump, loading, call>>

\* nextMessages is a list of nodes; a node is an index of `nodes`.
Node == [from : Origin \cup {"root"}, body : Bodies \cup {"root"}, next : Seq(Nat)]
RootNode == [from |-> "root", body |-> "root", next |-> <<>>]
NoNode == 0

\* A call: `wants` is what its client has in mind, `sent` and `received` count the
\* client's messages on either side, `at` is the interceptor's messageTreeNode, `seen`
\* what has been exchanged.
CallState ==
    [pc : {"idle", "loop", "ended"}, wants : Recording, sent : Nat, halfClosed : BOOLEAN,
     cancelled : BOOLEAN, received : Nat, at : Nat, seen : Seq(Message),
     status : {"none", "ok", "unavailable", "unknown", "cancelled"}]

\* "No call": a client that has not called wants nothing in particular.
Unasked == [method |-> CHOOSE m \in Methods : TRUE, messages |-> <<>>]
Idle == [pc |-> "idle", wants |-> Unasked, sent |-> 0, halfClosed |-> FALSE,
         cancelled |-> FALSE, received |-> 0, at |-> NoNode, seen |-> <<>>,
         status |-> "none"]

Init ==
    /\ dump \in Dumps
    /\ phase = "loading" /\ line = 0 /\ pos = 0 /\ node = NoNode
    /\ nodes = <<>> /\ root = [m \in Methods |-> NoNode]
    /\ call = [c \in Calls |-> Idle]

-----------------------------------------------------------------------------
(* loadFixture.                                                            *)

Current == dump[line]
LineDone == line > 0 => pos = Len(Current.messages)

\* Mutant: every line begins a tree of its own.
NextTree ==
    /\ phase = "loading" /\ LineDone /\ line < Len(dump)
    /\ nodes' = Append(nodes, RootNode)
    /\ root' = [root EXCEPT ![dump[line + 1].method] = Len(nodes) + 1]
    /\ node' = Len(nodes) + 1
    /\ line' = line + 1 /\ pos' = 0
    /\ UNCHANGED <<dump, phase, call>>

\* The decoder returns the next line.
NextRecording ==
    /\ phase = "loading" /\ LineDone /\ line < Len(dump)
    /\ LET m == dump[line + 1].method IN
       IF root[m] = NoNode
       THEN /\ nodes' = Append(nodes, RootNode)
            /\ root' = [root EXCEPT ![m] = Len(nodes) + 1]
            /\ node' = Len(nodes) + 1
       ELSE /\ node' = root[m]
            /\ UNCHANGED <<nodes, root>>
    /\ line' = line + 1 /\ pos' = 0
    /\ UNCHANGED <<dump, phase, call>>

\* Which of a node's nextMessages are the message m.
Matches(n, m) ==
    {i \in DOMAIN nodes[n].next : LET c == nodes[nodes[n].next[i]] IN
                                  c.from = m.from /\ c.body = m.body}
IsFirst(i, S) == i \in S /\ \A j \in S : i <= j

\* Mutant: the link goes to the last node there was.
AddedNodeOff(m) ==
    Append([nodes EXCEPT ![node].next = Append(@, Len(nodes))],
           [from |-> m.from, body |-> m.body, next |-> <<>>])

AddedNode(m) ==
    Append([nodes EXCEPT ![node].next = Append(@, Len(nodes) + 1)],
           [from |-> m.from, body |-> m.body, next |-> <<>>])

\* Mutant: every message gets a node of its own.
LoadAlways ==
    /\ phase = "loading" /\ ~LineDone
    /\ nodes' = AddedNode(Current.messages[pos + 1])
    /\ node' = Len(nodes) + 1
    /\ pos' = pos + 1
    /\ UNCHANGED <<dump, phase, line, root, call>>

\* A message goes to the node it has already, or to a new last one.
LoadMessage ==
    /\ phase = "loading" /\ ~LineDone
    /\ LET m == Current.messages[pos + 1] IN
       \/ /\ \E i \in Matches(node, m) :
                IsFirst(i, Matches(node, m)) /\ node' = nodes[node].next[i]
          /\ UNCHANGED nodes
       \/ /\ Matches(node, m) = {}
          /\ nodes' = AddedNode(m)
          /\ node' = Len(nodes) + 1
    /\ pos' = pos + 1
    /\ UNCHANGED <<dump, phase, line, root, call>>

\* End of the file: the proxy starts.
LoadDone ==
    /\ phase = "loading" /\ LineDone /\ line = Len(dump)
    /\ phase' = "serving"
    /\ UNCHANGED <<dump, line, pos, node, nodes, root, call>>

\* A line that is no JSON, a message that cannot be encoded.
LoadFails ==
    /\ phase = "loading"
    /\ phase' = "failed"
    /\ UNCHANGED <<dump, line, pos, node, nodes, root, call>>

-----------------------------------------------------------------------------
(* The clients. Each has a call in mind, sends its messages, sooner or     *)
(* later than it should, and then half-closes; or it cancels.              *)

\* The messages of one side, in their order.
By(who, ms) ==
    LET upTo[k \in 0..Len(ms)] ==
          IF k = 0 THEN <<>>
          ELSE IF ms[k].from = who THEN Append(upTo[k - 1], ms[k]) ELSE upTo[k - 1]
    IN  upTo[Len(ms)]

Asks(r) == By("client", r.messages)
serving == UNCHANGED <<dump, loading>>

ClientSend(c) ==
    /\ call[c].pc = "loop" /\ ~call[c].cancelled
    /\ call[c].sent < Len(Asks(call[c].wants))
    /\ call' = [call EXCEPT ![c].sent = @ + 1]
    /\ serving

ClientHalfClose(c) ==
    /\ call[c].pc = "loop" /\ ~call[c].cancelled /\ ~call[c].halfClosed
    /\ call[c].sent = Len(Asks(call[c].wants))
    /\ call' = [call EXCEPT ![c].halfClosed = TRUE]
    /\ serving

ClientCancel(c) ==
    /\ call[c].pc = "loop" /\ ~call[c].cancelled
    /\ call' = [call EXCEPT ![c].cancelled = TRUE]
    /\ serving

-----------------------------------------------------------------------------
(* intercept.                                                              *)

Ends(c, status) == call' = [call EXCEPT ![c].pc = "ended", ![c].status = status]

Start(c, r) ==
    /\ phase = "serving" /\ call[c].pc = "idle"
    /\ call' = [call EXCEPT ![c] =
          [Idle EXCEPT !.wants = r, !.at = root[r.method],
                       !.pc = IF root[r.method] = NoNode THEN "ended" ELSE "loop",
                       !.status = IF root[r.method] = NoNode THEN "unavailable" ELSE "none"]]
    /\ serving

\* Mutant: the server speaks only if it has a single thing to say.
ServerAlone(n) ==
    /\ Len(nodes[n].next) = 1
    /\ \A i \in DOMAIN nodes[n].next : nodes[nodes[n].next[i]].from = "server"

\* The server speaks first when every next message is one of its own.
ServerFirst(n) ==
    /\ nodes[n].next # <<>>
    /\ \A i \in DOMAIN nodes[n].next : nodes[nodes[n].next[i]].from = "server"

\* Mutant: nothing ends the loop.
WalkOn(c, n) ==
    [call[c] EXCEPT !.at = n,
                    !.seen = Append(@, [from |-> nodes[n].from, body |-> nodes[n].body])]

\* Down to node n; a leaf is the end of the exchange.
Walk(c, n) ==
    [call[c] EXCEPT !.at = n,
                    !.seen = Append(@, [from |-> nodes[n].from, body |-> nodes[n].body]),
                    !.pc = IF nodes[n].next = <<>> THEN "ended" ELSE "loop",
                    !.status = IF nodes[n].next = <<>> THEN "ok" ELSE "none"]

\* The first of several server messages is sent.
SendMsg(c) ==
    /\ call[c].pc = "loop" /\ ServerFirst(call[c].at)
    /\ \/ call' = [call EXCEPT ![c] = Walk(c, nodes[call[c].at].next[1])]
       \/ call[c].cancelled /\ Ends(c, "cancelled")
    /\ serving

Received(c) == Asks(call[c].wants)[call[c].received + 1]

\* Mutant: only the first of the next messages is compared.
RecvFirst(c) ==
    /\ call[c].pc = "loop" /\ ~ServerFirst(call[c].at)
    /\ call[c].received < call[c].sent
    /\ LET found == Matches(call[c].at, Received(c)) \cap {1} IN
       \/ \E i \in found :
             call' = [call EXCEPT ![c] = [Walk(c, nodes[call[c].at].next[i]) EXCEPT
                                             !.received = @ + 1]]
       \/ found = {} /\ Ends(c, "unavailable")
    /\ serving

RecvMsg(c) ==
    /\ call[c].pc = "loop" /\ ~ServerFirst(call[c].at)
    /\ call[c].received < call[c].sent
    /\ LET found == Matches(call[c].at, Received(c)) IN
       \/ \E i \in found :
             /\ IsFirst(i, found)
             /\ call' = [call EXCEPT ![c] = [Walk(c, nodes[call[c].at].next[i]) EXCEPT
                                                !.received = @ + 1]]
       \/ found = {} /\ Ends(c, "unavailable")
    /\ serving

\* io.EOF is returned as it is, which gRPC makes an unknown error.
RecvEnd(c) ==
    /\ call[c].pc = "loop" /\ ~ServerFirst(call[c].at)
    /\ \/ call[c].halfClosed /\ call[c].received = call[c].sent /\ Ends(c, "unknown")
       \/ call[c].cancelled /\ Ends(c, "cancelled")
    /\ serving

-----------------------------------------------------------------------------

Load == NextRecording \/ LoadMessage \/ LoadDone
Client(c) ==
    \/ \E r \in Clients \cup Range(dump) : Start(c, r)
    \/ ClientSend(c) \/ ClientHalfClose(c) \/ ClientCancel(c)
Intercept(c) == SendMsg(c) \/ RecvMsg(c) \/ RecvEnd(c)

Finished == phase = "failed" \/ (phase = "serving" /\ \A c \in Users : call[c].pc = "ended")
Rest == Finished /\ UNCHANGED vars

Next ==
    \/ Load \/ LoadFails \/ Rest
    \/ \E c \in Users : Client(c)
    \/ \E c \in Calls : Intercept(c)

Spec == Init /\ [][Next]_vars

\* A client sends its next message when it has seen all that came before it.
\* Some of a call's messages have been exchanged when `seen` has as many.
InTurn(c) ==
    \E k \in 1..Len(call[c].wants.messages) :
       /\ Len(call[c].seen) = k - 1 /\ call[c].wants.messages[k].from = "client"
       /\ call[c].sent = call[c].received

Fairness ==
    /\ \A c \in Calls : WF_vars(Intercept(c))
    /\ \A c \in Users :
          /\ WF_vars(InTurn(c) /\ ClientSend(c))
          /\ WF_vars(ClientHalfClose(c))

-----------------------------------------------------------------------------
(* Properties.                                                             *)

\* The type of every variable; links go to nodes made later, so no walk goes round.
TypeOK ==
    /\ dump \in Dumps /\ phase \in {"loading", "serving", "failed"}
    /\ line \in 0..Len(dump) /\ pos \in Nat
    /\ node \in 0..Len(nodes)
    /\ nodes \in Seq(Node)
    /\ \A n \in 1..Len(nodes) : \A c \in Range(nodes[n].next) : c \in (n + 1)..Len(nodes)
    /\ root \in [Methods -> 0..Len(nodes)]
    /\ call \in [Calls -> CallState]

\* The messages on the way ids from a root down the tree.
IsPath(method, ms, ids) ==
    /\ Len(ids) = Len(ms) + 1
    /\ ids[1] = root[method] /\ ids[1] # NoNode
    /\ \A i \in 1..Len(ms) :
          /\ ids[i + 1] \in Range(nodes[ids[i]].next)
          /\ nodes[ids[i + 1]].from = ms[i].from /\ nodes[ids[i + 1]].body = ms[i].body

Ways(method, ms) ==
    {ids \in [1..(Len(ms) + 1) -> 1..Len(nodes)] : IsPath(method, ms, ids)}

\* Every call that was recorded can be walked, in exactly one way, however the lines
\* of the dump share their beginnings.
AllLoaded ==
    (phase = "serving" /\ \A c \in Calls : call[c].pc = "idle") =>
       \A r \in Range(dump) : \E ids \in Ways(r.method, r.messages) :
                                Ways(r.method, r.messages) = {ids}

\* What has been recorded of a method, as far as any point.
Recorded(method) ==
    UNION {Prefixes(r.messages) : r \in {q \in Range(dump) : q.method = method}}

\* No call is answered with something that was not recorded, in that order and behind
\* the same messages, for its method; and a call that ends well is the whole of a
\* recorded one.
OnlyRecorded ==
    \A c \in Calls :
       /\ call[c].pc = "loop" \/ call[c].status = "ok" =>
             call[c].seen \in Recorded(call[c].wants.method)
       /\ call[c].status = "ok" =>
             \E r \in Range(dump) : r.method = call[c].wants.method /\ r.messages = call[c].seen

\* A client is turned away only if no recording goes on with what it has sent.
RefusalIsJust ==
    \A c \in Calls : call[c].status = "unavailable" /\ call[c].sent > call[c].received =>
       Append(call[c].seen, Received(c)) \notin Recorded(call[c].wants.method)

\* Both: an answer, or none, for the right reason.
AnsweredAsRecorded == OnlyRecorded /\ RefusalIsJust

\* A recording that nothing in the dump competes with: whenever the server is to say
\* something all others of its kind say the same, and none goes on after its end.
Unrivalled(r) ==
    /\ \A k \in 1..Len(r.messages) : r.messages[k].from = "server" =>
          \A p \in Recorded(r.method) :
             Len(p) = k /\ SubSeq(p, 1, k - 1) = SubSeq(r.messages, 1, k - 1)
                => p[k] = r.messages[k]
    /\ \A p \in Recorded(r.method) : IsPrefix(r.messages, p) => p = r.messages

Replayed(c) ==
    \/ call[c].status = "ok" /\ call[c].seen = call[c].wants.messages
    \/ call[c].cancelled

\* A client that repeats such a call gets nothing but what it is waiting for, and is
\* not let go before it has it all: it is neither refused nor told of an unknown error,
\* whatever it sends too early and however soon it half-closes.
UnrivalledIsRight ==
    \A c \in Calls :
       call[c].pc # "idle" /\ call[c].wants \in Range(dump) /\ Unrivalled(call[c].wants) =>
          /\ IsPrefix(call[c].seen, call[c].wants.messages)
          /\ call[c].pc = "ended" /\ call[c].wants.messages # <<>> => Replayed(c)

\* And it does get all of it.
UnrivalledIsReplayed ==
    \A c \in Users :
       /\ call[c].pc = "loop" /\ call[c].wants \in Range(dump)
       /\ Unrivalled(call[c].wants) /\ call[c].wants.messages # <<>>
       ~> Replayed(c)

=============================================================================

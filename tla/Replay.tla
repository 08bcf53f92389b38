--------------------------------- MODULE Replay ---------------------------------
(***************************************************************************)
(* grpc-replay (grpc-replay/replay/replay.go) against grpc-fixture: the    *)
(* RPCs of a dump are made again, one after the other, by a client that    *)
(* takes its turn from the dump and not from what it gets. It never        *)
(* half-closes a stream, does not look at how an RPC ends, and leaves the  *)
(* stream of one that goes wrong as it is.                                 *)
(***************************************************************************)
EXTENDS Fixture

CONSTANTS
    Scripts,   \* for each dump that is served, the dumps that may be replayed
    Streams    \* the streams that replay opens, in this order

ASSUME ReplayAssumption ==
    /\ Streams \in Seq(Calls \ Users)
    /\ \A d \in Dumps : \A s \in Scripts[d] : s \in Seq(Recording) /\ Len(s) <= Len(Streams)

VARIABLES
    script,    \* the dump that is replayed
    replay     \* the process: where it is, what it has printed

replayVars == <<script, replay>>
allVars == <<vars, replayVars>>

\* `rpc` and `pos` count the RPCs and the messages of the last one that have been begun,
\* `got` the responses received; `verdicts` is the output, `cause` a history of why Run
\* has returned an error.
ReplayState ==
    [mode : {"next", "exchange", "done", "error", "exited"}, rpc : Nat, pos : Nat, got : Nat,
     verdicts : Seq({"ok", "mismatch"}), cause : {"none", "send", "recv", "other"}]

ReplayInit ==
    /\ Init
    /\ script \in Scripts[dump]
    /\ replay = [mode |-> "next", rpc |-> 0, pos |-> 0, got |-> 0, verdicts |-> <<>>,
                 cause |-> "none"]

Stream == Streams[replay.rpc]
Job == script[replay.rpc]
Exchanging == replay.mode = "exchange" /\ replay.pos < Len(Job.messages)
Upcoming == Job.messages[replay.pos + 1]

\* What the fixture has sent on a stream.
Answers(ms) == By("server", ms)

Fails(cause) == replay' = [replay EXCEPT !.mode = "error", !.cause = cause]
fixtureVars == <<vars, script>>

-----------------------------------------------------------------------------

\* The next line of the dump, a connection, a stream.
Open ==
    /\ replay.mode = "next" /\ replay.rpc < Len(script)
    /\ Start(Streams[replay.rpc + 1], script[replay.rpc + 1])
    /\ replay' = [replay EXCEPT !.mode = "exchange", !.rpc = @ + 1, !.pos = 0, !.got = 0]
    /\ UNCHANGED script

\* The line is no JSON, there is no connection after five seconds, a message cannot be
\* encoded or is nobody's.
GivesUp ==
    /\ Exchanging \/ (replay.mode = "next" /\ replay.rpc < Len(script))
    /\ Fails("other")
    /\ UNCHANGED fixtureVars

\* SendMsg: once the call has ended it returns io.EOF, unless that is not known yet.
Send ==
    /\ Exchanging /\ Upcoming.from = "client"
    /\ \/ /\ call[Stream].pc = "loop"
          /\ call' = [call EXCEPT ![Stream].sent = @ + 1]
          /\ replay' = [replay EXCEPT !.pos = @ + 1]
       \/ /\ call[Stream].pc = "ended"
          /\ replay' = [replay EXCEPT !.pos = @ + 1] \/ Fails("send")
          /\ UNCHANGED call
    /\ UNCHANGED <<dump, loading, script>>

\* Mutant: what is received is not compared.
RecvAnything ==
    /\ Exchanging /\ Upcoming.from = "server"
    /\ LET answers == Answers(call[Stream].seen) IN
       \/ /\ replay.got < Len(answers)
          /\ replay' = [replay EXCEPT !.pos = @ + 1, !.got = @ + 1]
       \/ /\ replay.got = Len(answers) /\ call[Stream].pc = "ended"
          /\ Fails("recv")
    /\ UNCHANGED fixtureVars

\* RecvMsg and the comparison; a mismatch ends the RPC here, and not there.
Recv ==
    /\ Exchanging /\ Upcoming.from = "server"
    /\ LET answers == Answers(call[Stream].seen) IN
       \/ /\ replay.got < Len(answers) /\ answers[replay.got + 1].body = Upcoming.body
          /\ replay' = [replay EXCEPT !.pos = @ + 1, !.got = @ + 1]
       \/ /\ replay.got < Len(answers) /\ answers[replay.got + 1].body # Upcoming.body
          /\ replay' = [replay EXCEPT !.mode = "next", !.verdicts = Append(@, "mismatch")]
       \/ /\ replay.got = Len(answers) /\ call[Stream].pc = "ended"
          /\ Fails("recv")
    /\ UNCHANGED fixtureVars

\* Mutant: the end of the call is waited for.
VerdictAtEnd ==
    /\ replay.mode = "exchange" /\ replay.pos = Len(Job.messages)
    /\ call[Stream].pc = "ended"
    /\ replay' = [replay EXCEPT !.mode = "next", !.verdicts = Append(@, "ok")]
    /\ UNCHANGED fixtureVars

\* All messages are through: "OK".
Verdict ==
    /\ replay.mode = "exchange" /\ replay.pos = Len(Job.messages)
    /\ replay' = [replay EXCEPT !.mode = "next", !.verdicts = Append(@, "ok")]
    /\ UNCHANGED fixtureVars

EndOfDump ==
    /\ replay.mode = "next" /\ replay.rpc = Len(script)
    /\ replay' = [replay EXCEPT !.mode = "done"]
    /\ UNCHANGED fixtureVars

\* The process ends after Run has returned; its connections close.
Exit ==
    /\ replay.mode \in {"done", "error"}
    /\ replay' = [replay EXCEPT !.mode = "exited"]
    /\ call' = [c \in Calls |->
                  [call[c] EXCEPT !.cancelled = @ \/ (c \in Range(Streams) /\ call[c].pc = "loop")]]
    /\ UNCHANGED <<dump, loading, script>>

-----------------------------------------------------------------------------

Run == Open \/ Send \/ Recv \/ Verdict \/ EndOfDump \/ Exit

ReplayNext == (Next /\ UNCHANGED replayVars) \/ Run \/ GivesUp

ReplaySpec == ReplayInit /\ [][ReplayNext]_allVars

\* The process goes on, and the fixture's handlers do.
ReplayFairSpec == ReplaySpec /\ Fairness /\ WF_allVars(Run)

-----------------------------------------------------------------------------
(* Properties.                                                             *)

\* The type of every variable; replay's counters stay within its dump.
ReplayTypeOK ==
    /\ TypeOK
    /\ script \in Scripts[dump] /\ replay \in ReplayState
    /\ replay.rpc <= Len(script)
    /\ replay.rpc > 0 => replay.pos <= Len(Job.messages)

SelfReplayed == phase = "serving" /\ script = dump

\* A fixture that has only recordings without rivals answers a replay of its own dump
\* as recorded: every RPC is OK, though none is half-closed and replay looks at no
\* status, and whatever other clients do meanwhile.
SelfReplay ==
    SelfReplayed /\ (\A r \in Range(dump) : Unrivalled(r))
       ~> \/ replay.mode \in {"done", "exited"} /\ Len(replay.verdicts) = Len(dump)
             /\ Range(replay.verdicts) \subseteq {"ok"}
          \/ replay.cause = "other"

\* Such a replay never says that an RPC differs, and neither sending nor receiving ever
\* fails it, whether or not it comes to its end.
SelfReplayIsOk ==
    SelfReplayed /\ (\A r \in Range(dump) : Unrivalled(r)) =>
       /\ Range(replay.verdicts) \subseteq {"ok"}
       /\ replay.cause \in {"none", "other"}

\* Nowhere may both sides speak.
Uncontested(m) ==
    \A p, q \in Recorded(m) \ {<<>>} :
       (Len(p) = Len(q) /\ Front(p) = Front(q)) => Last(p).from = Last(q).from

\* Replay waits for a response that never comes only where the recordings do not agree
\* on whose turn it is, and the fixture waits for the client: different responses to the
\* same requests, and calls recorded to different lengths, do not hang it.
ReplayEnds ==
    SelfReplayed /\ (\A m \in Methods : Uncontested(m)) ~> replay.mode \in {"done", "error", "exited"}

\* An RPC that is said to be OK has got the responses of a recorded call, in their
\* order, for requests of its own, whatever is replayed; except that requests after
\* the last response may be refused or lost without a word.
OkIsRecorded ==
    \A k \in 1..Len(replay.verdicts) : replay.verdicts[k] = "ok" =>
       LET r == script[k] IN
       Answers(r.messages) # <<>> =>
          \E p \in Recorded(r.method) :
             Answers(p) = Answers(r.messages) /\ IsPrefix(Asks([r EXCEPT !.messages = p]), Asks(r))

\* What may be asked on a call: what its client is given to ask, or a line of a dump.
Questions == Clients \cup UNION {Range(s) : s \in Dumps \cup UNION {Scripts[d] : d \in Dumps}}

\* A call as its recordings see it, without the tree.
Exchange(c) ==
    [method |-> call[c].wants.method, asks |-> Asks(call[c].wants), seen |-> call[c].seen,
     taken |-> call[c].received,
     status |-> CASE call[c].pc = "idle" -> "none" [] call[c].pc = "loop" -> "open"
                  [] OTHER -> call[c].status]

Server == INSTANCE Recordings WITH
    Asked <- {[method |-> r.method, asks |-> Asks(r)] : r \in Questions},
    rpc <- [c \in Calls |-> Exchange(c)]

\* With its trees the fixture answers as if it looked through the recordings every time:
\* it goes on like the first of those that have come where the call is.
PlaysBack == Server!Spec

=============================================================================

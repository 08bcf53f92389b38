# A verification project for grpc-tools

TLA+ models of `grpc-proxy` and of the tools built on it (`grpc-dump`,
`grpc-fixture`, `grpc-replay`), TLC runs that check them on small instances, and
TLAPS proofs of the properties that matter most for every value of their
constants. Paths below are relative to the repository's root.

## The system

`grpc-proxy` listens on one port and accepts everything there: plain and TLS
connections, HTTP/1, HTTP/2, gRPC, gRPC-Web and `CONNECT`. A connection is
peeked at and sorted (`internal/tlsmux`, `internal/peekconn`), a `CONNECT`ed one
re-enters the listener with its original destination
(`grpc-proxy/listener.go`), what cannot be intercepted is tunnelled
(`forward_connection.go`), other HTTP requests go to a reverse proxy
(`grpc-proxy/http_handler.go`), and gRPC calls go to `proxyHandler`
(`grpc-proxy/grpc_handler.go`). It computes the destination, takes a connection
from the pool (`internal/connPool.go`, dialled through
`internal/proxydialer`), opens a stream to the server and forwards in both
directions. `grpc-dump` wraps the handler with an interceptor that records the
call, `grpc-fixture` replaces the handler by one that answers from recordings,
and `grpc-replay` is a client that sends recordings again.

| component | state | operations | interacts by |
|---|---|---|---|
| call proxying, `grpc_handler.go` | two streams, the goroutines of `forwardServerToClient` and `forwardClientToServer`, a channel of capacity 1 from each, the select loop's turn, `clientCtx` | accept, dial, forward, `CloseSend`, `SetTrailer`, return | gRPC streams and contexts |
| recorder and interceptor, `grpc-dump/dump` | `events`, `headers`, `trailers` under a mutex; the output | record on `SendMsg`, `RecvMsg`, `SendHeader`, `SetTrailer`; write the line | called by both forwarders and after the handler |
| routing, `calculateDestination`, `internal/marker` | the metadata map of the call (`:authority`, `forwarded`, `via`) | choose a destination, add the default port, check for loops, mark TLS | the map is shared with the outgoing call and with the dump |
| connection pool, `connPool.go` | a map from address to connection under a mutex; the slice `s.dialOptions` | look up, dial, store | concurrent handlers, replay |
| proxy dialer | none | dial, `CONNECT` | the environment's proxy |
| connection multiplexing, `tls_mux.go`, `listener.go` | five channels, one goroutine per connection | accept, peek, sort, bounce, redirect | net listeners, `CONNECT` handlers |
| tunnels, `forward_connection.go`, `peeker.go` | the peeked prefix, a wait group, two copying goroutines | copy, half-close | TCP |
| grpc-fixture | a tree of messages per method | load a dump, walk the tree | server stream |
| grpc-replay | position in the dump, one stream per RPC | send, receive and compare | pool, client stream |
| message codec, `internal/proto_decoder` | none | resolve, decode, guess unknown fields, encode | dump, fixture and replay |
| system proxy, `toggle_darwin.go` | the network locations of the machine | create, switch, set, restore, delete | shell commands that may fail |

What is hard about it, and what makes each part correct:

- *Call proxying.* Two forwarders and a select loop run between two peers, either
  of which can finish, cancel or vanish at any step, and `io.EOF` means three
  different things (end of requests, a clean end of responses, a stream that is
  gone). Correct: the client and the server cannot tell the proxied call from a
  direct one; nothing hangs or leaks.
- *Dump.* Both goroutines append to one record, which is written while they may
  still run. Correct: the record is in causal order and covers what either end
  has seen.
- *Routing.* Metadata is rewritten as text at each proxy. Correct: a call ends at
  a server that its client or a `-destination` on its way names, on the port and with
  the protocol that its client asked for; loops end; a recording can be replayed.
- *Pool.* Lookup, dial and store are three critical sections. Correct: what is
  used is a live connection to the right place, as its own caller asked for.
- *Multiplexing and tunnels.* Goroutines hand connections over through channels
  with nobody on the other end of the error channels; half-closes travel in both
  directions. Correct: each connection reaches exactly one handler with its
  destination and its bytes, and one bad connection does not stop the others.
- *Fixture and replay.* Recordings share their beginnings and differ behind them, and
  neither side says whose turn it is. Correct: what was recorded is what is served,
  a replay of it is recognised, and neither waits for the other for ever.
- *Codec.* The types of a message are known, outdated or guessed, differently when it
  is dumped and when it is encoded again. Correct: the dump shows what was sent, and
  what it shows is what is sent again.
- *System proxy.* The state is the machine's and outlives the process, which may end
  between any two commands. Correct: the machine ends where its user put it.

`PROJECT.json` lists the components with their status, and every hazard at its
line with the properties that cover it.

## Modules

### The call: `RpcMessages`, `DirectRpc`, `ProxiedRpc`, `ProxiedRpcProps`

`DirectRpc` is the abstract specification: a bidirectional gRPC call between a
client and a server that talk directly. `ProxiedRpc` is the code: the same client
and server with four wires, the proxy's stream to the server (`upstream`), the
select loop of `proxyHandler` (`handler`), both forwarders (`s2c`, `c2s`, named
from the proxy's point of view as in the code), the recorder (`dss`) and the
interceptor's `output`.

- Each forwarder is a small machine over its program counter: `recv`, (`header`),
  `record`, `send`, `exited`. `err` is its channel of capacity 1.
- `SelectS2CEof`, `SelectS2CErr` and `SelectC2S` are the branches of the select in
  lines 67-93; if both channels hold something either may be taken, as in Go. The
  loop's two turns are `handler.i`; falling out of it is the status
  `"Unreachable"`, which no run and no proof lets happen.
- The contexts are state functions: `ssDone` (the client cancelled, or a status was
  written to it) and `clientCtxDone` (derived from it, and `clientCancel()`).
- The client's status is `ssStatus`, and two can write it: `WriteStatus`, which is the
  library with what the interceptor has returned, and `S2CRecvErr`, since the library's
  `RecvMsg` writes `ResourceExhausted` itself, at once, when a request is above the
  receive limit. The first one counts. So the client of an oversized request may
  have its status before anything is dumped, and the dump names another one.
- `Dump` and `WriteStatus` are two steps: `dss.Unlock` is deferred, and between it and
  the status `c2s` may still record a response and send it. That nothing reaches the
  client which the dump lacks (`DumpCovers`) rests on why the handler can return while
  `c2s` is alive: only after an error of `s2c`, that is after the client has cancelled
  or after its status has been written, and in both cases it hears nothing more.
- The grpc library, the client and the server are external: their actions are the
  contract of the calls the code makes. `SendMsg` on a stream that is over
  returns `io.EOF` whatever ended it (or the context's status); `RecvMsg` gives
  messages before the status; a message above the receive limit fails with
  `ResourceExhausted` and cancels the stream; flow control bounds each wire.
- A message is its sender, its rank, how many messages its sender had received
  (its causal past) and its size in MiB.

### Where a call goes: `Routing`, `RoutingProps`

One call and its metadata, from proxy to proxy, over every configuration of
`-destination` flags and environment proxies; then, once more, the call that
`grpc-replay` makes of the dump. A step of a proxy (`NoDestination`,
`LoopDetected`, `NotReached`, `Forward`) is its whole handler up to `NewStream`.
A Via header is the list of its comma-separated parts, and `exact` says whether
a part is still, character for character, what `viaFormat` yields: `AddVia`
models what `fmt.Sprintf("%s, %s", via, ...)` does to a list of strings.

### The pool: `ConnPool`

`Found`/`Missed` are `getConn`, `Dial` with `Connected`/`DialFailed` the dial between
the two critical sections, `Add` is `addConn`. `Start` holds the `append(s.dialOptions,
...)` of `proxyHandler`: when the slice has room behind its elements
(`spare`, one of `Spares`; three elements are needed), all calls write their
credentials to the same array element (`slot`), and `Dial`, which is `DialContext`,
reads it. A call's `rivals` are a history variable: who started between its own start
and its dial, and may have written there.

### Connections: `ConnMux`

A client is its *script*, the protocols it speaks one inside the other (`connect`
to a destination, then `tls`, then `http`, ...), each known by its first bytes. A
connection is at one *place* at a time: a goroutine of `tlsmux.New`, a channel, a
listener's `Accept`, a handler. `ListenerAccept`, `MuxAccept` and `MuxError` are
the accept loop and `listener.go`; `PeekTLS`, `PeekPlain`, `PeekFails`,
`PeekError`, `ToPlain`, `ToTLS` and `Dial` the goroutine of a connection with
`handleTLSConn`; `PlainAccept` and `Bouncer...` the `nonHTTPBouncer` of the plain
listener (that of the TLS listener only passes on, `HttpsAccept`);
`HandleConnect` is the redirect, which brings the connection back to the
listener with its destination and the next layer of its script.
`stopped` is the end of the process: `Serve` returned an error, so did `Start`.

### Tunnels: `Pipe`, `Tunnel`

`Pipe` is the abstract specification: each end receives what the other has sent,
in order and nothing else, and sees its end when it has it all or when the other
end is gone. `Tunnel` is the code: the two peeks (`PeekMatch`, `PeekShort`,
`PeekFails`), the peeker's `Read` (`ReadPeeked`, `ReadPartOfPeeked`, `ReadConn`),
one copier per direction (`copier`, named by the side it reads), and closing. How
a connection can be closed is its `mode`: the program's tunnels are `proxied`, a
peeker around a `proxiedConn` which hides the halves of the connection below;
`tcp` is what the TCP branch was written for, `whole` the other branch of
`forwardConnection`, which no caller reaches at present.

### Recordings served: `Fixture`

`NextRecording` and `LoadMessage` are the loops of `loadFixture`, one message at a
time, on an array of nodes that stand for the `*messageTree`s. `Start`, `SendMsg`,
`RecvMsg` and `RecvEnd` are `intercept`. A client has a call in mind and sends its
messages (`Asks`: those of the call that are `By` the client) as early as it likes; it
may cancel. `Users` are the calls of such clients;
the other calls are streams that `Replay` opens.

### What a fixture promises: `Recordings`

The abstract specification of grpc-fixture: a server that has the recorded calls and no
tree. Wherever a call is, it looks for the recordings that have come there too (`Lines`)
and goes on like the first of them: it speaks if all of them do (`Speak`), takes the
client's message if one of them has it (`Listen`), and ends the call where none goes on
(`With`). `Exchange` in `Replay` is the refinement mapping: of a call it keeps the
method, what its client asks, what has been said and how many of the client's messages
are among it, and forgets the node, the wire and who has closed what. Loading is a
stutter. The tree is there to make this fast; the promise is that it changes nothing,
the order of the recordings included, which decides between several answers.

### Recordings sent: `Replay`

`Run` of `grpc-replay` composed with `Fixture`: the process and the handlers of the
fixture run side by side and share the calls. `Open` is the next line of the dump
with its stream, `Send` and `Recv` are a message, `Verdict` is `"OK"`, a mismatch in
`Recv` goes on with the next line and leaves the stream as it is. `SendMsg` on a call
that has ended may fail or not, as the client learns of it later. `Scripts` says
which dumps are replayed against which: the fixture's own, and others.

### Messages in a dump: `Codec`

One message, from its bytes to what `grpc-fixture` or `grpc-replay` sends. A message
is its fields in wire order; of a content it matters what it can be *read as* (text,
a message, packed numbers). `StartDump` and `StartEncoder` are the two tools, each
with a version of the message's type or without any (`Versions`, `Resolved`);
`Decode` is `Decode` with `enrichMessage` (`Enrich`) and `detectUnknownFieldType`
(`Detect`); `Edit` is the user; `Encode` is the encoder with its fallbacks. `kept` says
whether the dump still has the bytes: a request of no bytes is recorded as none (`nil`),
and written as `null`. A type is a function from field numbers, so the module needs recursive operators.

### The machine's proxy: `SystemProxy`

What `networksetup` keeps (`at`, `made`, `web`, `secure`) and runs of the proxy, one
after the other. Each command of `EnableProxy` and of the function that it returns is
an action, since each is a process of its own that may fail (`CommandFails`,
`DisableFails`); `TakeSignal` to `Report` are the goroutine that waits for the signal,
`ServeFails` is a server's error meanwhile. `Kill` ends a run anywhere. In between,
`UserSwitches` changes the location. `chosen` is a history variable: where the user
last put the machine.

## Runs

| run | bounds | shows |
|---|---|---|
| `core_safety` | 2 requests of 1 or 65 MiB, 2 responses of 1 or 5, 1 in flight per wire | forwarding in order, statuses explained, also of what is too large for the proxy, dump causal, covering and complete, refinement of `DirectRpc` |
| `core_live` | 1 request, 1 response of 1 or 5 MiB | five liveness properties |
| `routing` | 2 proxies, 1 server, 3 hops, 4 client Via headers | the header names the path, the loop check errs on neither side as far as it goes, served calls are served where someone named, with the port and the protocol asked for |
| `routing_loops` | 2 proxies, 3 hops | finding, below |
| `pool` | 3 calls, 3 destinations, a spare capacity of 2 or 3 | pool invariants; whose credentials a call can dial with; a hanging dial delays nobody else |
| `mux` | 2 connections, 21 scripts of up to 4 layers, queues and error channels of 1 | destinations, certificate, marker, one owner; what one client can do to another |
| `tunnel` | 4 and 2 bytes, peeks of 1 and 2, buffers of 1 and 4, window 1, every mode | implements `Pipe`; the client's bytes and its end arrive; no goroutine stays |
| `tunnel_short` | peeks of 2 and 3, a first segment of 1 | finding |
| `fixture` | 110 dumps of 1 or 2 lines out of 10 recordings and 125 of 3 out of 5, one call of a client, replays of 1 or 2 lines | recordings are loaded; the fixture implements `Recordings`; unrivalled recordings are replayed as they are and in full; a replay of the fixture's own dump reports no difference, succeeds and ends; `OK` means what it says |
| `system_proxy` | 3 runs, 2 locations of the user, 2 services | settings only in the temporary location and there for everything; the machine is back where it was after every run that is not cut off, and only there; a signal ends a run |
| `system_proxy_failure` | 1 run | finding |
| `codec` | every message of up to 3 fields out of 18, 6 versions of its type | unedited dumps are encoded to what was recorded; every unknown field is shown, within limits; edits arrive |

Of the type invariants only that of `Tunnel`, which also says that no WaitGroup goes below
0, is part of a run; the others are theorems. So are `HalfCloseIsLast`, which the refinement of
`DirectRpc` implies, and `AnsweredAsRecorded`, which speaks of what `PlaysBack` checks
more closely.

*Why the bounds are enough.* A forwarder holds one message at a time and its
behaviour depends on the first message and on whether there is another one, so
two per direction reach every control state, with one in each place a message
can be; flow control at one per wire makes both `SendMsg`s block. Sizes are
one value on either side of each limit. In `ConnMux` channels of one element are
full as soon as there is a second connection, and four layers hold a `CONNECT`
and TLS in either order around another such pair. The tunnel's 3 and 8 bytes of
peeking are scaled to 1 and 2 so that a stream is longer than both peeks; the
buffers of 1 and 4 bytes are smaller and larger than what was peeked, and a stream
of two more bytes meets an empty and a full window. The
stock of recordings has unary calls, both speakers first, a common beginning, a
continuation and a second method; three lines are a common beginning, what
branches off and one that meets both. One call of a client is enough, since calls
only read the trees; two lines of a replay are one and what the first leaves behind,
or two that branch at the client's first message. Three runs of the proxy are one that leaves something, one that finds it, and one
more; two services are one that is set and one that is not yet. The fields of
`codec` have each wire type, each thing that a content can be read as, a repeated
and a nested message, a map, a group and a number twice; three fields are two of a
kind and one beside them. Three hops let a header grow to the
point where no part of it matches any more, which is where `AddVia` stops
changing. Three calls are two that race and one that comes later; a spare capacity of 2 is the
last with which `append` copies, 3 the first with which it does not. The safety
properties of `core_safety`, `routing`, `pool`, `mux`, `tunnel`, `fixture` and
`system_proxy` are also proved without the bounds.

*Fairness.* `ProxiedRpc` is weakly fair in each goroutine of the proxy (the Go
scheduler), in the library's writing of the status, its delivery of ends,
cancellations and resets, and in reading by client and server, which flow control presupposes. Nothing forces the
client to send, to close or to cancel, the server to answer, or a dial to
succeed. `ConnPool` is weakly fair per call in the steps of the pool and in the
answer of a destination that takes the connection; a hanging destination never
answers. `ConnMux` is weakly fair in the accept loop and, per connection, in the
goroutine that has it, but not where the client has yet to send (`Waits`,
`silent`). `Tunnel` is weakly fair in
peeking and dialling, in both copiers and in a destination that reads what
arrives; the client need not read. `Fixture` is weakly fair in the interceptor and in a
client whose turn it is; sending earlier is its choice. `Replay` adds the process's
own loop, which never chooses to stop. `SystemProxy` is weakly fair in the goroutine
that has taken the signal and in its commands; nothing forces a start to go on, a
server to fail or a signal to come.

Deadlock is checked in every run: `Terminated`, `Over`, `Resting`, `Finished` and
`Stop` name the states in which a model may rest; in `SystemProxy` there is always a
user.

## Findings

Places where the repository's own words and its code differ; each is a run that
must find the violation.

- Loops through more than one proxy are not detected (`LoopsEnd`;
  `CHANGELOG.md:30`).
- A first segment of fewer than 3 bytes is filled up with zeros (`OnlyItsBytes`;
  `CHANGELOG.md:26`).
- A start that fails after it has switched the location does not switch back: the
  function that would has been overwritten (`FailureIsUndone`;
  `toggle_darwin.go:32`).

The models show other differences, for which no run is kept:

- `grpc-replay` sends the Via header of the dump, so that the proxy which wrote
  the dump rejects the replay (`Replay` of `Routing`; `grpc-replay/replay/replay.go:63`
  speaks of metadata that should be removed).
- At a destination that takes both, the pool hands a call with TLS a plain connection
  and the other way round (`ConnPool`; `grpc-dump/README.md:9`).
- `s.dialOptions` is a slice that every call appends to, and its spare room is not
  bounded: repeated `WithDialOptions` (`grpc-proxy/config.go:34`) can leave three
  elements of it. Then concurrent calls write their credentials over each other's, and a
  call is dialled with TLS for a plain one, or without for a TLS one. `OwnCredentials`
  says how far that goes: only then, and only from a call that started meanwhile.
- A tunnelled client whose first message is shorter than 8 bytes makes `Accept`
  fail and ends the proxy (`BouncerFails`, and `HeldUp` in `EachIsServed`;
  `tls_mux.go:157`).
- A request above 64 MiB ends the client's call with `ResourceExhausted`, not with the
  `Internal` that `grpc_handler.go:81` returns for it: by then the library's `RecvMsg`
  has written the status. The dump has `Internal`, or what cutting the call off led to
  (`OversizedRequest` in `StatusExplained`).
- Responses above 4 MiB fail although `grpc-proxy/proxy.go:62` raises the limit to
  64 MB: only the server side of the proxy has the option (`ClientRecvLimit`).
- Headers of a call without a response message are neither forwarded nor dumped
  (`README.md:5`).
- `-destination` overrides the request's destination (`grpc_handler.go:103`), and
  `grpc-proxy/README.md:68` says so; the help text (`grpc-proxy/config.go:92`) and
  `grpc-dump/README.md:17` call it a fallback. `RightServer` takes no side: either way
  a call may only end where its client or a proxy on its path has named a server.
- What a client speaks inside intercepted TLS is never bounced, HTTP or not
  (`HttpsAccept`; `CHANGELOG.md:26`).
- In a tunnel the destination's end does not reach the client before the client
  ends too: the peeker claims halves that the connection below does not have
  (`CopyCountWrite`; `forward_connection.go:16`). And a first message of exactly 8
  bytes is held back (`ReadPeeked`), hence the bound in `ClientIsHeard`.
- `grpc-fixture` replays only the first of several answers to the same messages, no
  recording that another one continues, hence `Unrivalled`, and every status as a
  success (`grpc-fixture/README.md:3`, `:7`).
- `grpc-replay` hangs where recordings of the fixture disagree on whose turn it is
  (`Uncontested` in `ReplayEnds`), reports `OK` for a call whose last requests were
  refused, and leaves the stream of a mismatch open to its end (`OkIsRecorded`).
- `--proto_descriptors` never helps: `dump.go:21`, `fixture.go:20` and `replay.go:38`
  pass the value of `--proto_roots` to `NewDescriptorResolver`, so no version of
  `Codec` comes from there.
- Unknown fields in all but the first of repeated messages are not shown, nor any in a
  message that holds a map or a group next to them; since the encoder prefers what is
  shown, they are lost when the dump is served or replayed unedited (`Whole` in
  `RoundTrip`, `Plain` in `AllShown`; `unknown_message.go:22`).
- An empty request is dumped without its bytes (`recorded_server_stream.go:69` stores
  the `nil` that it has got, and only `SendMsg` replaces it), and a tool without its
  type then fails on the line (`encode.go:45`), though `recorded_server_stream.go:46`
  and `CHANGELOG.md:4` speak of such messages as supported (`KnowsMethod` in
  `RoundTrip`).
- An edit that the encoder's types cannot express is dropped without a word
  (`EditArrives`; `encode.go:40`).
- A run that starts in a temporary location left by another has no way back, however
  well it ends (`CutOff` in `HomeAgain`).

## Proofs

All theorems hold for every value of the constants under the named assumptions of
the modules. `SizesAssumption`, `BoundsAssumption`, `RoutingAssumption`,
`PoolAssumption`, `MuxAssumption` and `TunnelAssumption` only say of what kind a
constant is; `SystemProxyAssumption` that the temporary location is none of the
user's; `FixtureAssumption` that there is a method and that a dump is a list of calls;
`ReplayAssumption` that every RPC of a dump has a stream that no other client uses.
Three theorems have a hypothesis of their own (`NothingLost`, `TunnelIsTransparent`,
`OnlyWhatWasSent`), which is stated with them below.

- `ProxiedRpcProofs`. `IInv` joins the type invariant and the two forwarding
  invariants to what they need: `Control` (which goroutine may be where, given
  the handler), `HalfClose` (an EOF in `s2c`'s channel means the client closed and
  all is forwarded, or the stream is over), `S2COutcome`, `C2SOutcome` and
  `HandlerOutcome` (each error value together with the cause it stands for), and
  `Written` (who wrote the client's status: nobody but the library for the handler,
  and `RecvMsg` for a request that is too large, when `s2c` is over).
  Neither `HalfCloseIsLast` nor `StatusExplained` is inductive alone, because
  both speak of what a channel *led to*; the outcome invariants speak of the
  channel itself. From `IInv` follow `TypeCorrect`,
  `MessagesForwarded`, `HalfCloseOrdered`, `StatusIsExplained`, and
  `ProxyIsTransparent`: the step simulation `Spec => Direct!Spec`.
- `ProxiedRpcDumpProofs`. `DumpInv` relates the recorder's list to every place a
  message can be: whatever is past `record` in a forwarder, on a wire to an end,
  or received there, is recorded, and what a message's sender had seen stands in
  front of it. `DumpCoversWire` says it of the written dump: it also has the responses
  that are still on the wire to a client which has not cancelled. A response that is
  sent after the dump was written would break it; so the step of `c2s` that sends one
  needs `Quiet`: while `c2s` is alive behind a handler that has returned, a status has
  been written or the client is gone (`CancelledGetsNothing`). Yields `DumpIsCausal`,
  `BothSidesAreDumped` and `FinishedCallIsDumped`.
- `RoutingProofs`. `IInv` adds to the properties what holds at the first proxy
  (`Fresh`, `FirstHop`), where an exact Via part can come from
  (`ExactExplained`) and, between two proxies, that someone has named where the call
  is going and that it is marked as its client sent it (`OnTheWay`); `TargetNamed` is
  the lemma that `calculateDestination` and the default port keep that.
- `ConnPoolProofs`. `IInv` adds that the calls that are through are in the pool
  (`DoneIsPooled`), which connection belongs to which call (`OpenedByCalls`) and
  that whoever dials overlapped with whoever dialled before (`DialIsNew`).
  For the credentials it has where they can come from at each stage: the element that
  the calls share (`SlotExplained`) and the options of a call that dials
  (`CredsExplained`) hold the call's own, or, if the slice has room, those of one that
  started meanwhile, which did start (`RivalsStarted`). Yields `PoolStaysSound`,
  `RedialsAreRaces` and, for every spare capacity, `CredentialsAreExplained`.
- `ConnMuxProofs`. `IInv` is `OneOwner` (each queue lists the connections that are
  in it, once) and `AllSound`: for each connection by itself, how its place, its
  layer, its destination and its server belong together. `Sound` is needed
  because the properties speak of a few places each, and a connection comes
  there from others. `AskedHere` and `AskedStill` say how the last `CONNECT`
  before a layer changes from one layer to the next; `ListsAppend` and `ListsTail`
  are the two lemmas about queues. Yields `OneOwnerAlways`,
  `OwnDestinationAlways` and `PlacedRightlyAlways`, together `WellPlacedAlways`.

- `TunnelProofs`. `IInv` is about the goroutines: who may be where (`Copying`), that
  the WaitGroup counts exactly those who have not counted it down (`Counting`, so that
  it never goes below 0, which would be a panic), what may have happened before the
  tunnel is open, and what a peek still wants. `StreamInv` is about the bytes: what an
  end has, what is on the way to it, what its copier holds, what the peekers hold and
  what is on the wire are consecutive stretches of what the other end has sent
  (`Chain`), as long as that end can get them (`Intact`). Received bytes alone say
  nothing of the next one; hence the five places. `NothingLost` is that invariant,
  `TunnelIsTransparent` the step simulation `Spec => Transparent!Spec`, so that
  `IsTransparent` holds for streams, buffers, peeks and windows of any size.
  `OnlyWhatWasSent` is the changelog's promise: what the destination has received is what
  the client has sent, byte for byte. All three assume
  `PeeksFit`: the first segment is no shorter than the first peek, and a second peek
  wants more than the first (3 and 8 bytes in the code). Without it they are false, as
  the run `tunnel_short` shows with a short segment: that segment is all there is to the
  finding.
- `ReplayProofs`, about `Fixture` first. `IInv` says that the nodes stand, one each,
  for the beginnings of the calls loaded so far. Which beginning a node stands for is
  not in the state: `Standing` says that there is such a function (`Tree(place)`), and
  every step of `loadFixture` extends it. A call of `intercept` is at the node of what
  has been exchanged (`At`). From this follow `AllIsLoaded` (there is one way for each
  recorded call, and by an induction along the way only one) and `FixtureAnswers`.
  Then, about `Replay`: `ReplayTypeCorrect`, `AllIsLoadedForReplay` and
  `ReplayIsAnswered`, the same with a replay among the clients; and `OkMeansRecorded`.
  That one needs `Heard` (the client's messages in an exchange are the first of what
  it asks, as many as have been received), `Exchanged` (the responses that replay has
  compared are the first that its stream has answered, and it has sent no more than its
  part of the dump) and `Judged` (the verdicts are those of the RPCs that are over).
  What `By` yields for a longer and longer list is found by induction over numbers, in
  the form of the lemma `Induct`: a set that has 0 and the successor of each of its
  elements below n has everything up to n.

  The refinement `PlaysBack` (`TreesPlayBack` for the fixture and its clients,
  `ReplayIsPlayedBack` with a replay among them) is proved in two halves. The first is
  about the tree: a node's next ones are what the recordings that have come there have
  next (`Branches`), so that both sides agree on whose turn it is (`Turns`).
  *Which* of them is first needs more than that: nodes are as old as the lines that
  brought them (`Older`), and a node's next ones are in the order in which they were made
  (`Rising`), so the first of `nextMessages` is that of the first recording. Both are
  part of `Tree(place)`. The second half maps each action to a step of `Recordings` or a
  stutter; `Closing` is needed there, since an end of the client's messages is `io.EOF`
  only if all have been sent.

  `UnrivalledAreRight` and `UnrivalledForReplay` say that a client which repeats a
  recording without rivals hears it and nothing else, and is not let go before it has all
  of it. They are proved on the abstract side: `Right` is about an exchange and a
  recording, with no tree in sight; each step of `Recordings` keeps it (`RightStep`),
  and the refinement carries it over (`Faithful`). `SelfReplayIsAlwaysOk`, that a replay of
  the fixture's own dump without rivals never reports a difference and that neither of
  its sends and receives ever fails, adds that nobody cancels a stream of replay's before
  it exits (`Quiet`) and that every call that has ended says how (`Told`): then a stream
  has a beginning of its recording behind it, and the whole if it has ended (`OnStream`),
  so the response that replay is waiting for is the next that the stream has or will
  have, and a call cannot have ended with a message of it still to go (`NothingAmiss`).
  What remains, that the replay also comes to its end, is liveness: `SelfReplay` of the
  run.
- `SystemProxyProofs`. `IInv` says for each place of a run where the machine is and
  which way back the run has (`Course`), which services it has set (`Progress`), who
  has brought the machine where it is (`Whereabouts`) and whose the temporary location
  is (`Owned`). `HomeAgain` is about states without a run, and needs to know what
  every way of ending leaves behind. Yields `SettingsStayInTemp`, `MachineIsHome` and
  the action property `BackHomeOnly`, for any number of runs, one after the other.

*Only model-checked:* the liveness properties (fairness and ENABLED are beyond the
prover), the findings, and `Codec`, whose operators recurse over types and messages and
are declared `RECURSIVE`: that an edit or an unedited dump comes out right is an
induction over the data, which the provers here cannot do. Every safety property of the
other passing runs is a theorem.

## Not modelled

Protobuf parsing, JSON and log text, certificate files, flags, the reverse proxy
of `net/http/httputil`, and the internals of the grpc library. Decoding cannot
change a call: the dump keeps the raw message next to the decoded one, and so `Codec`
stands by itself.

- The `CONNECT` handshake of `internal/proxydialer` is byte I/O on one connection; a
  dial that succeeds, fails or hangs is in `ConnPool`, where it leads in `Routing`.
- `Codec` leaves out what numbers turn into under a wrong numeric type, zeros, the
  elements of packed fields, and a JSON text that cannot be written at all (an `Any`
  of an unknown type), at which `grpc-dump` ends with `Fatal`.
- `SystemProxy` has one run alive at a time, and its user changes the location only
  while none is. With two runs, or a user who switches during one, the commands
  change whatever location is current. A location of the user's whose name begins
  with that of the temporary one, which the code would take for it, is left out.
- Bytes that a client sends behind its `CONNECT` before it is answered are dropped
  with the buffered reader of `Hijack`; the clients of `ConnMux` wait for the answer.
- Deadlines are a cancellation by the client, who sees them first. Inside the grpc
  library a message that `Write` has accepted may still be dropped when the status is
  written at that moment; `ProxiedRpc` delivers what was accepted before the status.
- The id of a proxy is its listen address. Every proxy of `Routing` has an id of its
  own, though two hosts may listen on the same loopback port.

## Plan

The models follow the inventory, and the safety properties of all of them but `Codec`
are proved. What could be added:

1. An abstract specification above `ConnMux`, in the way in which `Pipe` stands above
   `Tunnel` and `Recordings` above `Fixture`: a switch that hands each connection to its
   handler, with the refinement proved from the invariant that is there.
2. The findings from their other side: that without a failing command the machine is
   always switched back.
3. `Codec` with recursive functions over a bounded depth instead of recursive
   operators; then `RoundTrip` for each kind of field by the induction of `Induct`.

# Verification of raidan-sdk

TLA+ models of raidan-sdk, a Go library with which protocol test cases talk to
Ethereum execution and consensus clients. The models are translated from the
source, TLC checks them on small instances, and TLAPS proves the central
properties for every value of the constants.

The library has no tests of its own, and its hard parts are the ones a test
hardly reaches: goroutines that share one encrypted stream, connections that end
for several reasons at once, handshakes that fail half-way, shared fetches whose
callers come and go.

## Inventory

| Component (directory) | State | Operations | Interacts with | Hard behaviour | What makes it correct |
| --- | --- | --- | --- | --- | --- |
| ETH connection (`eth/conn.go`) | message queue, `dead`, cause, write lock | reader goroutine, `ReadMsg`, `WaitForMsg`, `WaitDisconnect`, `Send*`, `Close` | RLPx stream, peer, callers | concurrent callers, full queue, blocked writes, several reasons to end | no silent loss, cause before end, one writer, every wait returns |
| ETH dial and Status (`eth`, `wit`) | sockets of up to two attempts, deadlines, sender goroutine | `Dial`, `DialPreStatus`, `DialReady`, `wit.Dial` | chain parameters, RLPx, peer | failure at every stage, goroutine that outlives an attempt, retry | sockets released, handed-out connection ready, peer's past is ours, dial returns |
| Capabilities (`eth/caps.go`) | none | negotiation, offsets | dial | order and versions decide offsets | disjoint message spaces |
| Fork identifiers (`rpc/chainparams.go`) | none | `computeForkID`, `ValidateForkID` | dial | index arithmetic over block and time forks | nodes on one schedule accept each other, an accepted peer shares our past |
| Chain parameter cache (`rpc`) | bounded map, singleflight group | `FetchChainParams`, `Load`, `Store` | JSON-RPC node, concurrent dials | shared fetch, own contexts, eviction | bound, no refetch, every caller answered |
| RLPx (`rlpx`, waits of `eth/wait.go`, `eth/messages.go`, `wit`) | cipher and MAC state, write lock, read deadline | handshake, `Read`, `Write`, `WaitClose`, `WaitStatus`, `WaitForRequestID`, `ReadRaw` | socket | partial writes, deadlines inside frames | frames stay aligned, a close is reported for a reason |
| Consensus requests (`reqresp`) | libp2p session, stream, response reader | `Request`, `RequestChunks`, `ReadResponseChunk` | libp2p, beacon API | retries, truncated streams, ceilings | at most one send, nothing but an end of stream passes for the end of a response |
| Consensus inbound (`reqresp/inbound.go`) | stream handler, channels of one | `Accept`, `WriteResponse` | libp2p | a stream that arrives while `Accept` returns | a stream is returned, reset, or the one left in its channel |
| Consensus status (`reqresp/status.go`) | none | `BeaconStatus`, `StatusWarmup` | beacon API | several requests make one answer | fields fit together |
| Gossip (`gossipsub`) | joined topics | `Publish`, `Await`, `Close` | libp2p pubsub | join and close, cancellation after publishing | published once, topics left once |
| mplex (`mplex`) | counters, read buffer | `Open`, `Data`, `Drain` | libp2p security | partial frames | parser keeps its place |
| discv4, discv5 (`discovery`) | UDP socket, session keys | send, read, handshake | peer, network | lost, late and foreign datagrams | only the peer's answer counts |
| DNS discovery (`discovery/dnsdisc.go`) | visited sets of a walk | branch walk | none | cycles, shared and deep subtrees | an accepted tree is well formed and acyclic, a refusal has its path |
| Session, target, runner, encoders | none or one value | deadlines, HTTP discovery, encoding | all | `Remaining` replaces timeouts | stages stay within their time |

`PROJECT.json` lists the same components with the reason for what is left out,
and the hazards with the line where each one bites.

## Modules

| Module | Models | Kind |
| --- | --- | --- |
| `MessageFeed` | what a connection promises to its readers | abstract specification |
| `EthConn` | a live `eth.Conn` | component, implements `MessageFeed` |
| `Caps` | `eth/caps.go` and the offset in `wit/conn.go` | operators |
| `ForkId` | fork identifiers of `rpc/chainparams.go` | operators |
| `EthDial` | the dial functions of `eth` and `wit` | component, built on `Caps` and `ForkId` |
| `ChainParams` | `FetchChainParams` and its cache | component |
| `ReqResp` | `Request` and `RequestChunks` of `reqresp`, with the session, the warm-up and the response reader | component |
| `RlpxWire` | an RLPx connection (`rlpx/conn.go`) and the five waits of cases on it | component |
| `UdpRead` | a UDP socket, a context and `readUDPWithContext` | part of `Discovery` |
| `Discv4`, `Discv5` | the calls of either protocol, and a discv5 peer | parts of `Discovery` |
| `Discovery` | a discovery connection with its socket and its network | composition |
| `Inbound` | `reqresp/inbound.go` | component |
| `Publisher` | `gossipsub/publish.go` | component |
| `BeaconStatus` | `BeaconStatus` and the fork digest of `reqresp/status.go` | component |
| `Mplex` | `mplex/mplex.go` | component |
| `DnsWalk` | `ValidateDNSBranchWalk` of `discovery/dnsdisc.go` | component |
| `Services` | the five above and `ChainParams`, one at a time | composition, implements each of the six |
| `MCEthConn`, `MCEthDial`, `MCChainParams`, `MCReqResp`, `MCRlpxWire`, `MCDiscovery`, `MCServices` | small instances | for TLC |
| `EthConnProofs`, `EthDialProofs`, `ChainParamsProofs`, `ReqRespProofs`, `RlpxWireProofs`, `DiscoveryProofs`, `PublisherProofs`, `ServicesProofs` | theorems | for TLAPS |

`EthConn`, `EthDial`, `ReqResp`, `RlpxWire` and `Discovery` are specifications of
their own. The components gathered in `Services` share no state in the code, so a
behaviour of `Services` is one of a single component: `part` picks it, and the
variables of the others keep an initial value.

Definitions named `Mutant` in their comment are plausible bugs of the definition
that follows them. They are part of no specification; with one of them in place
of the original, the property named in `PROJECT.json` fails.

### EthConn

One step is one blocking point of the code: a wire read with the dispatch that
follows it, taking `writeMu`, a wire write, one case of a `select`. `reader` is
the program counter of `readMessages`; `op[c]` and `want[c]` are the call that
caller `c` is in. The socket is a sequence of unread frames and a count of
unread outgoing ones; a write blocks when the outgoing buffer is full, fails
when an end is gone, and may still succeed for a while after the peer closed in
order. A frame is its code and position. `timer[c]` is the timer of a wait: the call
arms it, it fires at any later moment or never, and it stays fired until the wait
takes that case of its `select` or returns by another one. A timer that a loop
armed again for each message would be another model (`ReceiveMsgRearms`).
`log`, `taken`, `pings` and `pongs` are history.

`session.ObserveWrite` is left out: it calls a function of the test case.
`RLPx()` hands the stream itself to the case, which can then bypass the lock;
the model is of cases that do not.

### EthDial, Caps, ForkId

`pc` is where the dialling goroutine is, `sender[a]` where the Status sender of
attempt `a` is. An attempt that fails closes its socket in the same step as in
the code, where the close precedes every error return. `deadline` says whether
the current socket has one. A Status is the chain its sender is on: genesis,
fork blocks, fork times and head; the fork ID is computed from it, and the
refusals that have nothing to do with the fork ID are one step.
Handshake frames are a few hundred bytes and fit the socket buffer, so that a
write does not block. `SetDeadline` fails only on a descriptor that is closed,
which nobody does during a dial, so its error returns are not modelled.
`DialPreStatus` without an RPC URL fetches nothing and works with empty
parameters; a PreStatus call never looks at them, so any chain stands for it.

A checksum is the sequence of forks it covers: CRC32 collisions do not exist in
the model. The code's lists and loops over capabilities are sets and a maximum.

### ChainParams

`exp[u]` is the cache entry of a URL by its expiry (0 for none), `due[u]` the
expiry a flight computed before it has the lock. `flight[u]` is the singleflight
call of the URL, `waiters[u]` the channels it will fill. Parameters are not
modelled. The four RPC calls of a fetch are one step that succeeds, fails with the
node's error, or ends with the timeout of `fetchCtx`. That timeout comes back as an
error that wraps `context.DeadlineExceeded`, also to callers whose own contexts
live (`rpc/call.go:45`), so a context error is not always the caller's own; what
the code does promise is `SharedFetchServes`: as long as the node answers, a caller
whose context lives gets the parameters, although the caller that started
the fetch, or any other, gives up.
`Clear` and `Len` have no callers.

### ReqResp

One step is one operation of the code that can block or fail: making a host,
connecting, opening a stream, the caller's `BeforeSend`, the write, closing the
write side, decoding a chunk. `attempt` counts the loop of `Request`, `host[a]`
is the libp2p host of attempt `a`, and `phase` is the exchange under way: the two
Status versions of `StatusWarmup` and the request itself share `Session.request`
and so share the actions. `Over` is what happens after an exchange: the caller of
`Session.request` is `StatusWarmup` or one of the two retry loops, and these close
the session in the step that decides.

What a peer answers is chosen when the request is written: complete chunks, what
follows the last of them, and how the stream ends. A chunk is its code, its
length and what its snappy blocks yield: the payload, an error, or no data at all up
to the limit on the compressed length. `Next` reports the last as `io.EOF`, wherever
in the response it is. A read can fail at any time, for the deadline or a
reset. Whether an error is retryable depends on its text
(`retryableConsensusConnectError`) and is a choice, except for the failed
connection, whose text is fixed. `written` and `warm` are history: the attempts
whose request reached a stream, also in part, and the attempts whose peer
answered a Status with Success.

Limits that were left out are 0 in a call, as in `RequestOptions`. The caller's
`Timeout` bounds an exchange and has no counterpart but the steps that fail.

### RlpxWire

`dial` is the initiator's handshake, which closes its socket on every failure; what
the handshake computes is left out. Afterwards one goroutine waits (`op`, `step`)
and another one sends. A frame crosses the socket in two parts, in both
directions: a deadline can pass between them, and a write can fail between them.
`egress` counts the frames the cipher and the MAC were advanced for, and a part
in `outbound` carries that number, so that the peer decodes exactly the frames
that are whole and numbered in order. A frame that is refused for its size never
reaches the cipher. Reading is go-ethereum's `ReadFrame`: a read that fails inside a
frame loses what it had taken (`lostSync`), and what follows fails its MAC. A peer that
is up may also send a frame that cannot be read: one whose MAC is wrong, after which the
stream is lost, or one whose size, code or snappy data is refused. The
five waits are the same loop with different tables: what ends it, what is
skipped, whether a Ping is answered.

### Discovery: UdpRead, Discv4, Discv5

`rd` is the program counter of `readUDPWithContext` with one step for each point
where the context, the watcher goroutine or `Close` may come in between. Deadlines
are ticks that count down (`readUntil`, `ctxLeft`, `call.left`), so nothing bounds
time. `call` is the operation the read is part of, `outcome` what it returned.

A datagram is its source and what a reader can tell of it. The network may
deliver anything that has been sent at any moment, again, or never, from the
sender's address or another one, and any time junk: loss, duplication, delay,
reordering and forgery are the set `Wire` that a read takes from. discv5 keys are
the pair of the call's ephemeral key and the peer's challenge; the derivation is
injective and only the two parties know it. Packet contents, signatures and the
node records are left out. A discv4 reader in this library verifies neither hash
nor signature, and the model does not either.

### Inbound

`handler[p]` is what the libp2p host runs for a protocol, `accept[a]` a call of
`Accept`, `stream[s]` a stream with the goroutine of its handler, which goes on after
the call has returned. `requests[a]` and `errorsCh[a]` are its two channels of
capacity one. Two calls for one protocol replace each other's handler, and the
first to return removes the other's. A request body is the length it claims and
how much of it the peer has sent; a body that does not decode ends on the same error path
as one that breaks off.

### Publisher

`router`, `sub`, `queue` and `peers` stand for go-libp2p-pubsub as the code uses it: a
topic is joined by one publisher until it is closed, a topic with a live
subscription is not closed, a cancelled subscription hands out what it has
queued. `topics`, `closed` and `mu` are the fields of a `Publisher`, and `job[j]` is a
call of `Publish`, `Await` or `Close` with the place it is at; the calls use a topic
after the lock is released.

### BeaconStatus

The five requests are five steps, between which the head advances, and so are the
turns of the loop of `blobParameters` (`turn`, `best`), which begins after the last of
them. A fork version is the number of forks it stands after, and a digest is what it hashes:
the version and, from Fulu on, the blob parameters. `spec` is what the node says of
its network: entries in any order, `FULU_FORK_EPOCH` or `SLOTS_PER_EPOCH` possibly
missing. A `BLOB_SCHEDULE` is taken to be well formed, with one entry per epoch.

### Mplex

Bytes are modelled one by one, since the parser keeps partial frames: a frame of
n bytes is `<<id, 1, n>> .. <<id, n, n>>`, its first byte stands for both varints. The
peer sends byte by byte, a read takes any part of what has arrived, a write of
ours may stop after any byte. `buf`, `received` and `sent` are the fields of the code;
`bytes`, what the peer has sent so far, `frames` and `given` are history. `ReadChunk` is one
`conn.Read` and `ParseFrame` one turn of the inner loop, which is over when nothing
parses: only then does `Drain` read again or return.

### DnsWalk

The recursion of the walk is a stack of the calls under way, one step per entry
of `walk` and per child; `refusal` is its chain of checks in their order. `WalkVerdict`
judges the verdict by the paths of the graph (`Paths(d)`: the sequences of d steps from
the root along children), with no reference to the walk. Every graph over three names is an initial state, with
missing and malformed entries, self-references, repeated children and too many
children.

## Runs

| Run | Question | Instance |
| --- | --- | --- |
| `EthConn_safety` | is anything lost or ended without a cause, and is this a `MessageFeed`? | 2 callers, 2 codes, 2 frames, queue and socket buffer of 1 |
| `EthConn_liveness` | do the reader and the callers come to an end after `Close` or the peer's end, does a wait return when its time is over, is a Ping answered? | 2 callers, 2 codes, 1 frame, a message or a Ping |
| `EthConn_waitdisconnect` | is `WaitDisconnect` true only if the peer disconnected? (it is not) | 1 caller, 2 frames |
| `EthConn_waitformsg` | is a message that is already queued returned? (not always) | 1 caller, 2 frames |
| `EthDial_handshake` | what is left behind by a dial, what is handed out, and do the dial and its sender end? | 7 calls, 3 capability sets, 4 chains, 7 peers, 1 Ping |
| `EthDial_retry` | is a second attempt made after a fork-ID rejection only? (it is not) | the same, no Ping |
| `ChainParams_cache` | does a full cache lose the oldest entry only, and does the shared fetch keep its promises? | 2 callers, 3 URLs, limit 2, lifetime 2, 3 ticks |
| `ReqResp_request` | is a request sent once, on a warm session, with nothing left behind, and is a response complete and within its ceilings, does the call return? | 5 kinds of calls, 13 bodies, 3 tails, 3 ends, 3 attempts, ceilings 3, 4 and 3 |
| `ReqResp_truncated` | is a response that breaks off inside a chunk, or goes on behind a chunk without data, an error? (not always) | the same |
| `RlpxWire_waits` | does the peer get whole frames in order, is a close reported for a reason, do waits end? | 5 waits, 2 sends, 2 Pings, socket buffer of 1, frames that cannot be read |
| `Discovery_calls` | are answers the peer's, do both ends of a session agree, does every call end? | both protocols, 2 nonces, 2 challenges, another port of the peer's host, contexts with and without a deadline |
| `Services_calls` | is any stream or topic left behind, does the digest fit the head, do frames survive any chunking, is the verdict on a tree justified, does every call return, and does a shared fetch serve who still waits? | see below |

`Services_calls` has 2 calls of `Accept` for one protocol and 2 streams; 2 publishers,
1 topic and 3 concurrent calls; 3 networks with two slots per epoch and a head
that passes up to four epochs; mplex frames of up to 2 bytes, 2 in each direction,
a send cap of 3 and 2 calls of `Drain`; all graphs over 3 names with a fan-out of 2 and
depth limits 1 and 2; 2 callers and 1 URL for the shared fetch.

The bounds are chosen so that the interesting cases happen. A queue of one is
full after one frame, so two frames reach the overflow; a socket buffer of one
blocks the second writer; two callers compete for the lock and for messages. One
frame is enough for liveness: it can be a Ping, a wanted message or an unwanted one that comes
before or after a timer has fired; a second one adds no new way to block. Three URLs over a cache of two force an eviction, and a lifetime
of two ticks lets entries expire, be pruned and be stored late. The chains cover
heads before and after a block fork and a time fork, a chain without time
forks whose head has passed a fork it does not know, and peers on another schedule or genesis. The bodies of responses meet
each ceiling exactly, exceed each of them, and have a refusal, a chunk that
does not decode or one without data at the start, in the middle or at the end; one call has limits
below the hard ones with a warm-up that has them not, one has a limit above.
Three attempts are those of the code.

Two sends and two Pings let a Pong meet a frame of the sender in both orders, and
a second wait begin after a first was cut off inside a frame. Two nonces and two
challenges make a session follow another one while challenges and messages of
the first are still under way; one foreign address is enough, because it may send
everything, and it shares the peer's ip. Two streams over channels of one leave
one stream behind, and two calls replace each other's handler. A third concurrent
call meets two publishers in the middle of a join. The networks have a fork at
Fulu and after it, blob parameters that change where the version does and where
it does not, and no Fulu at all. A send cap of three is met inside the second
frame, and an oversized frame follows a whole one. Over three names a walk meets a
cycle of every length, a diamond, and a long path behind a short one.

Deadlock checking is off in every run: a closed connection, a finished dial or
request, and a cache at the end of its clock rightly stop. Whether something stops
that should not is what the liveness properties ask.

### Fairness

Goroutines that can run do run (weak fairness of the reader, of each caller's
steps, of each flight). `sync.Mutex` hands itself to a waiter that starves, hence
strong fairness of taking `writeMu`. A `select` chooses at random among its ready
cases, hence fairness of receiving a message and of ending a wait each on its own:
a case that stays ready is taken in the end. The timers of an `eth.Conn` need not
fire; `WaitsReturn` is about those that have. An armed socket deadline expires. `fetchCtx` has a timeout of its own, so a fetch ends. Connecting, opening
a stream and the stream itself have timeouts, so that weak fairness of a
request's steps is justified whatever the peer does. Nothing is assumed
of the peer, of the node, of `Close` or of calls being made; `PingAnswered` and
`WaitReturns` ask that the peer reads, inside the property, since a Pong is written
under no deadline.

In `Discovery` the calling goroutine and the watcher run. That a context that has
ended ends the call needs nothing else; that every call ends asks for a clock and
a context timer, inside `CallsEnd`. No datagram need ever arrive. In `Services` every
goroutine runs, and no timer need fire but the one of `fetchCtx`: `CallsReturn` says
that what has not ended in the long run waits, within its own time, for something
that may still come. `SharedFetchServes` asks, inside the property, that the node answers.

### Findings

1. `WaitDisconnect` returns true after the connection closed itself because its
   own queue was full; the comment says "Returns true if the peer disconnected"
   (`eth/conn.go:436`).
2. `WaitForMsg` may report a failure while the wanted message is queued, since
   `select` picks either ready case (`eth/conn.go:412`, `568`).
3. `Dial` also retries with the peer's fork ID after an accepted Status when
   writing its own Status failed, which the comment leaves to the caller
   (`eth/conn.go:313`).
4. `ResponseReader.Next` passes on `io.EOF` from inside a chunk, wrapped but still
   `io.EOF`, and `RequestChunks` then returns a truncated response as a complete
   one; the comment promises `io.EOF` "after a clean stream end"
   (`reqresp/framing.go:133`). The same happens in mid-stream: a chunk whose blocks hold no
   data uses up its `LimitReader`, which is `io.EOF` again (`framing.go:182-186`,
   `request.go:148`), and the complete chunks behind it are dropped. `AllOrError` is what
   does hold: up to such a chunk, or a failure the peer reports, every chunk is there.

Remarks that no run of their own shows:

- `ValidateForkID` does not look at our own fork ID, so the retry cannot change
  the verdict on a peer whose Status is the same.
- `ExpectAnyDiscv4Reply` ends with false at the first datagram from another
  address (`discovery/discv4_conn.go:60`), where its comment speaks of ignoring
  such datagrams; the discv5 calls do go on.
- A deadline that passes inside a frame loses the bytes read so far. A later
  `rlpx.WaitClose` on that connection fails on a MAC and reports a close although the
  peer never closed; so does a wait that meets a frame it cannot read, sent by a peer
  that is up. The comment says "whether the peer closed or sent Disconnect"
  (`rlpx/conn.go:123`); `ClosedIsJustified` names both exceptions.
- A wait answers Pings under no write deadline, so a peer that stops reading can
  hold it past its own deadline (`eth/wait.go:66`).
- `BeaconStatus` reads the fork version before the head; when the chain passes a fork
  in between, the digest mixes both, and `DigestAtHead` does not ask for more. Any failure of the config request on a Fulu
  network silently yields a digest without blob parameters
  (`reqresp/status.go:164`), which it names as well.
- An oversized mplex frame stays at the head of the buffer for good: later frames are
  never returned, and the buffer keeps growing.
- `Publisher.leave` has an error path for a topic that cannot be closed
  (`gossipsub/publish.go:179`). It needs a router that is gone, and the model's router
  lives, so leaving a topic does not fail there.
- A deadline that falls inside a message of the security layer loses the bytes of
  that message to `Drain`. `FramesRecovered` is about the bytes that reached `Drain`.
- `DialReturns` does not cover a Status sender that blocks in its write: `rawDial` would wait
  for it under no deadline (`eth/conn.go:720`). A Status is a few hundred bytes on a
  fresh socket, so the model's handshake writes do not block.
- `waitForGossipPeer` passes half its timeout to `session.Remaining`, which returns the
  whole time of the context when that has a deadline.
- The DNS walk does not look again at a name it has found good on a short path, so
  a longer path through it is not held against the depth limit.

## Proofs

Everything is proved for arbitrary constants under the assumptions named
`...Assumption` in the components: natural numbers for capacities and bounds,
reader and lock names that are no caller names, chains that satisfy `IsChain`,
no head that reaches the epoch which stands for "never", children that are names,
and, for `Services`, that each component has an initial state.

`EthConnProofs`. `TypeOK` bounds the queue. `CauseKnown` is not inductive:
that nobody else closes `dead`, and that the reader leaves its loop only after it
recorded a cause, is `ReaderCause`; `CauseKnownCorrect` states both.
`PongBeforeNextRead` and `OneWriter` are proved and no longer run, since
`ImplementsFeed` and `ReaderCause` ask more of the same code. `NoSilentLoss` needs `ReaderCause` as well: a
frame is only read while there is no cause, so the one lost frame is the last.
`Refinement` maps `msgs`, the cause a caller would see and `dead` to `MessageFeed`;
each step is an `Accept`, `Take`, `Fail`, `End` or stutters. That a second cause
never replaces the first also rests on `ReaderCause`.

`ChainParamsProofs`. `NoRefetch` is inductive with the types, given how each step
may change the cache (`CacheSteps`) and which flights fetch (`FetchSteps`).
`NoOrphanWaiter` follows from `WaiterInv`, which adds that a flight that delivers has
an answer.
`WithinLimit`, which is proved and not run, rests on `OldestExists`: a nonempty cache has an entry that
`evictOldestLocked` removes, which takes the order of expiries and of keys.
`EvictsOldestOnly` rests on `StoreEvicts`, what a store does to a live entry of
another URL, and on `NoRefetch`: the stored URL itself has no live entry.

`EthDialProofs`. `SocketInv`, `ReadyInv` and `AgreedInv` strengthen
`SocketsOwned`, `LiveIsReady` and the properties of what was negotiated and
agreed. `SpacesDisjoint` needs only the bounds of what can be negotiated.
`SameScheduleCompatible` is a theorem about the two algorithms alone: the fork
ID one node computes passes the other's check when they share genesis and
schedule, wherever the two heads are. The argument is by cases on which node has
passed more forks. `AcceptedSharesHistory` is the converse, judged by the chains and not by
the check: equal checksums are taken over equal forks (`ChecksumEqual`), the fork the
check stops at is the one behind those the head has passed (`CurrentOf`,
`CurrentUnique`), and each of the three rules then gives its part. `SharedHistory`
follows for every live connection, since `AgreedInv` keeps the verdict on the peer.

`ReqRespProofs`. `OverCases` sums up what follows an exchange and is used by every
step that ends one. `SendInv` strengthens `SentOnce`: once `sendAttempted` is set the
call is in the exchange of its request or over, so no later attempt begins.
`HostInv` says where a host and a stream can be open. `ReaderInv` strengthens
`WithinCeilings` with the places where nothing has been read; it needs `SendInv`,
because a call that has read something does not go to sleep. `WarmInv` needs
`ReaderInv`: a Status answer is the first chunk of its exchange. `AnswerInv`
strengthens `AllOrError`: at any time the chunks kept are, in order, those at the front of what
the peer sent. The end of a response is then one of the cases of `atEOF`, of which one is
a chunk without data, the exception that `AllOrError` names.

`RlpxWireProofs`. `TypeInv` adds to the types who may write: the holder of `mu` is
writing the last sealed frame, and nobody else is inside a frame (`LockInv`), and
that a frame read in part leaves at most one part under way (`InboundInv`). `OrderInv`
strengthens `FramesInOrder` by counting the parts on the wire against the frames
sealed and the part the holder of the lock is at. `ClosedIsJustified` follows from
each step alone: a wait that reports a close does so in the branch of an error that is no
timeout, or of a Disconnect; `CloseReason` lists what such an error comes from.

`DiscoveryProofs`. `FromThePeer` and `SessionAgreement` speak of what a call returned;
`Inv` adds what they rest on: a datagram that has been read is one the peer has sent, from
whatever address (`ReadInv`), and a handshake under way answers a challenge for the
packet of its own call (`HandshakeInv`). `WireType` shows that for every datagram the
network may deliver.

`PublisherProofs`. `LockInv` says who holds `p.mu`: a call of `p` about to subscribe or
to leave. `TopicsInv` is `RouterMatches` without its condition on the lock: the
router has for `p` its topics and the one that is being joined, and a
closed publisher has topics only while `Close` leaves them. The steps
outside the lock share `FreeStep`, the ones that take or give back a lock `TakesLock`
and `FreesLock`, and `Unaffected` covers every other publisher. The theorems are about
`PublisherSpec`, which `Services` runs as one of its parts.

`ServicesProofs` has four arguments and joins them.

- `Inbound`: `StreamInv` ties a stream to a call that has fixed its limit, `ChannelInv` says
  that an open stream whose handler is done is in its call's channel or the one the
  call has taken, and `HandlerInv` that a handler is its call's while the call is under way.
- `BeaconStatus`: `LoopInv` says that `best` is the newest of the entries seen so far that are
  not after the epoch, whatever their order (`TurnKeepsNewest`). At the end of the loop these are
  all the entries, by `SpecInv`.
- `DnsWalk`: `StackInv` says that the stack is a path of the graph without repetition
  with every child before the current one settled, and `VisitedInv` that the
  visited names have settled children only and that every set of them has one without
  a child in the set, so none is on a cycle. An accepted graph has only settled names; that every path is
  then as the verdict says is an induction over its length, made by the least
  counterexample (`LeastNatural`).
- `Mplex`: `PairInv` relates any two bytes of the peer: they are of one frame and as far apart as
  in it, or the later one is of a later frame. From it `NextFrame` derives what the
  front of `c.buf` holds. `BufInv` says that `c.buf` is what follows the frames returned, which are
  numbered without a gap, and `EndsParsed` that no whole frame is left where
  nothing parses.

`ServicesImplement` shows that the composition implements the specification of each
component, and `ServicesCorrect` that it therefore keeps all the invariants which
`Services_calls` checks.

Two of these proofs changed the model. The loops of `blobParameters` and of `Drain` and the
paths of the DNS property were recursive definitions, about which TLAPS cannot
reason; the loops are now steps, as in the code, and a path is a function. And
`refusal` was a `CASE` with overlapping guards, whose choice among true
guards TLA+ leaves open: the code checks them in order, and so does the model now.

Only model-checked: all liveness (`EndReleasesAll`, `WaitsReturn`, `PingAnswered`,
`DialReturns`, `CallReturns`, `CallsReturn`, `SharedFetchServes`, `CallsEnd`, `WaitReturns`), because TLAPS does not
reason about fairness and `ENABLED`. Every invariant and every action property that a
passing run checks is also a theorem.

## Not modelled

- Cryptography (RLPx authentication, discv5 keys, ENR signatures), encodings (RLP,
  SSZ, JSON) and ENR construction: pure functions whose content no property here
  depends on.
- The JSON-RPC client: one request per call, no state; a call is a success, a
  failure or a timeout of the fetch in `ChainParams`.
- Target discovery, runner, output and observation: sequential I/O.
- `ReadResponseChunk`, raw streams and sessions that a case keeps for several requests:
  sequential uses of what `ReqResp` models once.
- The package function `gossipsub.Publish`, which makes a session as `ReqResp` does and
  calls `Publisher.Publish` once, and the raw RPC encoders.
- libp2p, go-ethereum's frame reader and the operating system are taken as the code
  uses them.

## Plan

Every component with state of its own has its module. What is left:

1. Proofs: the safety that liveness rests on, such as that a call under way always has a step
   of its own or a timer to wait for.
2. `ReqResp` with raw streams and with a session that serves several requests.
3. Composition of `EthDial` with `EthConn`, so that deadlines left by the dial meet
   the reader, and of `ChainParams` with `EthDial`.

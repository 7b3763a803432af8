# TLA+ models of Pisaller

Pisaller is a proxy in two Go programs. The client (`src/cmd/client/main.go`)
offers SOCKS5 and HTTP to local programs and carries every connection as a stream
of a multiplexed session (smux) over a websocket; the server
(`src/cmd/server/main.go`) ends the websocket and relays each stream to its target
over TCP or UDP. This directory holds TLA+ modules that model the concurrent part
of both programs, TLC configurations that check them on small instances, and
proofs checked by TLAPS.

    tlc -config <run>.cfg <module>       # the runs are listed below and in PROJECT.json
    tlapm <module>_proofs.tla

Paths below are relative to `src/`; `main.go` is the client's unless it says
`server`.

## The parts of the system

| part | code | state it keeps | operations |
|---|---|---|---|
| websocket as `net.Conn` | `internal/transport/wsconn.go` | upload queue and its size, chunk timer, current reader, `closed`, `deadErr`, `deadCh` | `Write`, `Read`, `Close`, timer callback, `signalDead` |
| connection race | `internal/relay/dial.go` 14-80 | `resultCh`, the winner, a cancellable context | `DialTCPWithRace` |
| TCP stream relay | `internal/relay/tcp.go` | `dataCh`, `errCh`, `dialCh`, a context | `handleTCPStream`: reader, dialer, handler, downloader |
| main session | `main.go`, `server/main.go`, `internal/session/session.go`, `internal/protocol/handshake.go` | `currentSession`; the server's `sessions` map; per session `done`, `channels` | `connectLoop`, `doHandshake`, `keepAlive`, `acceptStreams`, `handleWebSocket`, `ClientSession.Close`, `AddChannel`, `WSChannel.Close` |
| ECH pool | `main.go` 108-304 | a slot and a round trip per channel, `selectCounter` | `dialAndServe`, `probeChannelRTT`, `openBestStream` |
| UDP association and relay | `main.go` 851-1012, `internal/relay/tcp.go` 144-200 | owner's address, target, stream, `receiving`, `closed`; the relay's socket and context | `loop`, `send`, the receiver, `Close`; `handleUDPStream` |
| IP strategy | `internal/relay/dial.go` 82-186, `internal/relay/udp.go` | none (pure functions) | `resolveIPsForDial`, `DialTCPWithStrategy`, `resolveUDPAddr` |
| front ends | `main.go` 625-820, 1080-1189 | per connection only | `handleSOCKS5`, `handleSOCKS5Connect`, `handleHTTP`, `proxyConn` |
| stream framing | `internal/protocol/stream.go`, `tcp.go`, `main.go` | none | open header, chunks, UDP replies |
| DnAggregator | `internal/transport/dnagg.go` | a write queue, a flusher goroutine, `closed`, `stopCh` | `Write`, `Close`, `flusher`, `ProxyConnStream`; called by nobody |
| ECH list, DNS answers | `internal/transport/ech.go` | the list, under a lock | `InitECH`, refresh, parser |
| UUID, configuration, fingerprints, buffers | `internal/transport/uuid.go`, `utls.go`, `internal/config`, `internal/pool`, `internal/constants` | set once | |

At this commit the repository does not build: `config.go` 69 and 85 apply `parseStrategy`,
which takes a string, to a `byte`; `transport.BufPool` is not defined; and `dnagg.go` 67 calls a
`flushLocked` its type does not have. The first is left out of `Config`, the second is a
buffer, and `DnAggregator` says what it takes the third for.

How the parts interact. A front end asks the pool for a stream
(`openTCPStream`, `openUDPStream`); the pool opens it on a smux session over a
`WSNetConn`; the server's `acceptStreams` gives each stream a `WSChannel` and hands
it to `HandleSmuxStream`, which reads the header and runs the TCP or the UDP
relay; the TCP relay dials with `DialTCPWithRace`. Beside the pool the client keeps
one main session that does the handshake. The parts share state through mutexes
(`upMu`, `readMu`, the pool's and the sessions' locks), through channels that are
closed exactly once (`deadCh`, `done`, `resultCh`, `dataCh`), and by closing the
connection the other one blocks on.

What is hard, and what makes each part correct:

* **WSNetConn.** A callback of a timer that was stopped too late runs beside the
  next one; a direct write must not overtake the queue; Close marks the connection
  before it flushes. Correct: what is accepted reaches the wire in order and once;
  nothing stays in the queue for want of a timer; a loss has a reason.
* **Race.** Several goroutines send on a channel another one closes; cancel arrives
  while connections are in every possible place. Correct: one open connection or
  none, nobody sends on the closed channel, failure means that all attempts failed.
* **TCP relay.** Four goroutines that stop each other. Correct: the upload is
  complete, the target is closed, and every goroutine ends.
* **Main session.** Links, handshakes and whole servers fail while both sides keep
  maps of what they believe is alive. Correct: no relay without a handshake, both
  sides agree on it, one session per client, no entry of a session that is over,
  and the client comes back.
* **Front ends and a stream as a whole.** Success is reported before there is a stream, and two
  copies close both connections when either ends, against four goroutines on the server. Correct:
  the way from the application to the target is a byte stream, what ends by itself is complete,
  and whoever ends first, everybody ends.
* **IP strategy.** Filters in three places of two programs, and four ways to dial. Correct: no
  address of an excluded family is dialled, and a preferred one is tried first.
* **DnAggregator.** A flusher that copies the queue, gives the lock up to write, and empties the queue
  afterwards; signals that nobody may be waiting for. Correct: losses, overtaking and a flusher that
  hangs have the causes the properties name, and no others.
* **Formats.** Lengths of two bytes, headers and bodies in separate writes, a DNS parser that
  computes offsets by hand. Correct: what is written is what is read.
* **Pool.** A slot is read, chosen and read again without a lock in between, and its
  round trip is written by a goroutine of its own. Correct: a round trip belongs to
  the session in the slot, sessions that leave their slot are closed, dead ones leave.
* **UDP association.** Three goroutines and a Close that two of them call, against a
  relay that looks at its context only when it is idle. Correct: one owner, order,
  and nothing stays open whichever side ends first.

`PROJECT.json` lists these hazards at their lines, with the properties that would
catch each of them.

## Modules

| module | role |
|---|---|
| `ByteStream` | abstract specification: accepted data reaches the wire in order; while the link is up nothing is dropped |
| `WSNetConn`, `MCWSNetConn` | the websocket connection; the send side implements `ByteStream` |
| `DialRace` | the connection race |
| `Dial` | from a request's host to a connection: the strategy, then the race (it extends `DialRace`) or one dial after the other |
| `TCPRelay` | `handleTCPStream`: one TCP stream on the server |
| `FrontEnd` | the handler of one SOCKS5 or HTTP connection and `proxyConn` |
| `TCPTunnel` | `FrontEnd` and `TCPRelay` at the two ends of one stream; the upload implements `ByteStream` |
| `Tunnel`, `MCTunnel` | sessions of several clients with one server |
| `ECHPool` | the pool of channels |
| `UDPTunnel` | an association composed with its relay |
| `DnAggregator` | the downlink aggregator |
| `Formats`, `MCFormats` | what is written and read byte by byte |
| `Config`, `MCConfig` | loading a configuration |
| `SeqLemmas` | facts about data the proofs share: prefixes, concatenations, rising sequences, what `FlattenSeq` yields, sets of numbers, and that a function that calls itself exists |
| `WSNetConn_proofs`, `Dial_proofs` (also of `DialRace`), `Tunnel_proofs`, `Transport_proofs` (of `ECHPool` and `Formats`), `DnAggregator_proofs`, `TCPTunnel_proofs` (also of `FrontEnd` and `TCPRelay`), `UDPTunnel_proofs` | the theorems |

`MC*` modules only add the values and the symmetry set of an instance. Two modules compose
others: `Dial` extends `DialRace` and runs its steps on the addresses it chose, and
`TCPTunnel` joins `FrontEnd` and `TCPRelay` by one stream (`sent` is what the client wrote, `taken`
what the relay's reader read; either may end, and the link may break under both).
The others take what is below them as their environment, and state the promise of it they rely on
(`TCPRelay` uses a dial that gives one connection or none, which is `DialRace!OneOpen`; `Tunnel`,
`TCPTunnel` and `UDPTunnel` use a stream that keeps order until its link breaks, which is
`ByteStream`, and which `WSNetConn` implements).

### WSNetConn

Variables carry the names of the fields. `pc` says where each goroutine is: the
callers of Write, Read and Close, and `Timer`, the goroutine of the timer's
callback (`callbacks` counts those that wait for `upMu`, since a timer can fire
again before the last callback got the lock). `accepted`, `wire`, `lost`, `arrived`
and `got` are histories.

What a goroutine does between taking `upMu` and its websocket write is one action
(`WriteFlush`, `WriteDirect`, `WriteEnqueue`, `TimerFlush`, `CloseFlush`); the write
itself (`WsWriteOk`, `WsWriteFail`) is another, because it can block while Close
marks the connection. `writeMu` is only taken under `upMu` and is never contended, so it has no
variable. A failed write may have sent any part of its message (`WsWriteFail` picks
it): the websocket's writer buffers, and what it had flushed before the error is
gone. `signalDead` is split where it matters: `deadErr` is set under its lock, then
`deadCh` is closed by `sync.Once`.

A chunk is the copy one Write queues, with its length; bytes are not modelled.
`up_chunk_wait` is not a number either: the timer fires any time after it is set.

### DialRace

One attempt per `Dialers` element (`concur` in the code), the goroutine that waits
for them and closes `resultCh`, and the caller that ranges over it. `Send` and
`GiveUp` are the two arms of the attempts' select: once ctx is cancelled either may be
chosen. `net.Dialer` may return a connection after the cancel, so `DialOk` has no guard
for it. `concur <= 1` is a plain dial, in `Dial`.

### TCPRelay

One action per arm of each select. `conn` is the target connection from the moment
the dialer has it; `dialCh` says whether it is in that channel. `Leave` holds the
deferred calls of `handleTCPStream`; the deferred `stream.Close` of its caller is
`CloseStream`. `errCh` has room for two errors, and a third is dropped when
ctx is cancelled (`PostError`).

### Dial

`via` is the way a request came in (SOCKS5 CONNECT, HTTP, SOCKS5 UDP), `host` its host and the
SOCKS5 address type. `Passes` is the front ends' filter, `Resolve` and `Ordered` are
`resolveIPsForDial`; then UDP takes the first address (`StartUdp`), `concur > 1` starts the race with
address `i % len(ips)` for attempt `i` (`StartRace`), and `concur = 1` dials in turn
(`StartPlain`, `PlainTry`); `concur = 0` is an error. An IPv6 literal may stand for an IPv4 address (`Mapped`), since the code decides
by `To4`. The resolver answers anything. Facts the module shows:

* With `concur = 1`, `DialTCPWithStrategy` dials a literal without looking at the strategy. SOCKS5
  filters literals before that, HTTP does not: `FamilyHonoured` names this one exception.
* In a race, "prefer" decides which addresses are tried, not which one wins, and
  with fewer attempts than addresses some are never tried.

### FrontEnd and TCPTunnel

`phase` follows one handler: `greet`, `auth`, `request`, `connect` for SOCKS5, `head`, `password`,
`host`, `body` for HTTP, then `open` (or `openFirst`, when there is a request to pass on), `copy`
and `over`; a request for UDP ends in `udp`, where `UDPTunnel` goes on. `upCopy` and `downCopy` are the two `io.Copy` of
`proxyConn`; `closeFunc` is part of the step that ends the first of them. Pieces of the upload are
numbered (`typed`, `consumed`), 0 is the request that HTTP passes on. Facts the module shows:

* `http.ReadRequest` reads through a buffer that is dropped afterwards: what the application sent
  right behind its request is lost (`swallowed`), whether the buffer took it with the head (`ReadHead`)
  or with the body, when `req.Write` reads that from the same buffer (`Body`). `ImplementsStream` starts behind it.
* Either end of input closes both connections, and so does a piece that cannot be written: an application that
  half-closes cuts off its own download. `DownloadComplete` says what else can: with the application
  and the link there and every piece taken on the stream, a download is over only when the target ended, could
  not be written to, or was never reached, and the application then has every answer the relay wrote. No
  timeout and no end of the relay's reader cuts it off.
* An upload that ends before the server's dial is done is dropped: the reader's error is in
  `errCh` when the handler looks there. `UploadComplete` speaks of uploads whose end reached the relay's loop.

### Tunnel

A link is one websocket with a smux session on each end, `C(l)` and `S(l)`. `loop` is
`connectLoop` of each client, `keep` its `keepAlive`, `srv` the server's handler
of the link, `acc` the `acceptStreams` of an end. `close` follows
`ClientSession.Close` through its three effects (`done` closed, smux closed,
`channels` set to nil), since `connectLoop` goes on after the first. `hello` and `reply`
are the two handshake messages. Faults (`EndBreaks`, a handshake deadline, SIGINT,
`Restart`) share one bound; an end that notices that its peer is gone is not a fault.

Facts the module shows that a reader of the code may miss:

* A pool channel never sends a handshake: its first stream is a ping, so
  `handleWebSocket` refuses it (`RefuseHello`). The SOCKS5 and HTTP front ends use
  pool channels only. `AuthBeforeRelay` therefore holds, and traffic is not relayed
  with the two programs as they are.
* The handler of a lost link deletes the entry of its UUID whoever owns it by then;
  a live session of the same UUID loses its entry. Nothing reads the map, and
  `EntryIsLive` states only the direction the code keeps.
* SIGINT closes the current session; `connectLoop` dials again and main waits for it.
* `ClientSession.channels` is nil after Close and `AddChannel` would panic. On the
  client this is unreachable only because the server opens no streams; on the
  server `acceptStreams` itself calls Close, after its loop.

### ECHPool

`serve` is `dialAndServe` of each channel, `probe` the probe goroutine of each of its
sessions. `rttOf` is a history: the session a published round trip was measured on. The answer to a ping
(`ProbeAnswer`) and its publication (`ProbeOk`) are two steps, so a round trip may be stored after its session has died.
`Scan` is the loop under the read lock; `Pick` chooses, counts and reads the slot again; `Open` opens
the stream and writes the header (`openTCPStream`, `openUDPStream`). The refusal of
pool links by the server is allowed here (`LinkDies`, `SmuxCloses`) and not forced,
so the pool is checked for a server that would accept them, too.

### UDPTunnel

`loop`, the TCP reader and the receiver of an association with the two goroutines of
`handleUDPStream`, joined by one stream (`up`, `down`, `broken`). `send` holds `mu` while it
opens and writes, which is why `OpenOk`, `OpenFails`, `WriteOk` and `WriteFails` are steps
of their own: `CloseMark` has to wait for them. Packets keep what the properties tell apart: who
sent them, the target they name, whether they are empty.

### DnAggregator

`writer` is the loop of `ProxyConnStream` (its only caller of Write and Close), `flusher` the
goroutine, with the places where it holds no lock: `wait` (in `cond.Wait`), `select` (timer or
`stopCh`), `write` and `last` (in `writeQueue`); in `sleep` it holds the lock between its check and `cond.Wait`.
Chunks are numbered and have a size. `during`, `overlap`, `failed` and `missed` are histories: the
four things that excuse a loss, a wrong order, and a flusher that never ends. They are what the code does:

* `writeQueue` empties the whole queue after its write, with what was queued meanwhile.
* Write at the limit flushes a queue that the flusher may be writing.
* `Close` signals without the lock and `writeDirect` does not signal at all when it fails: the flusher can
  sleep on, and `Close` with it.
* `qr` is reset whenever a timer is set, so for `dnQr >= 2` it never reaches its limit: a small
  tail is written by the other conditions or not before Close.

### Formats

A conversation is a list of messages that one side writes and the other reads: the open header and
chunks, UDP replies, SOCKS5 UDP packets, or a DNS answer. The write of a stream may fail after any byte. A byte
has `Base` values, so that lengths of two bytes overflow within reach. The walks of the DNS parser are recursive functions, not
`RECURSIVE` operators, so that they can be proved about.

What may be written is `Conversations`, and `ConversationsAssumption` says what a conversation is:

* On a stream the open header comes first and only first, as the client's `writeSmuxOpenHeader` comes before everything else. Its fields may have any length:
  those of 65536 bytes and more are refused by the writers (`Refused`).
* The payload of a UDP reply is a datagram, thus shorter than 65536 bytes.
* The host of a packet has 4 or 16 bytes, or is a name of at most 255: `buildSOCKS5UDPPacket` refuses more.
* A DNS answer has the question, then records. The length of a label has its two upper bits clear, as DNS
  asks. A record's name is any number of labels and then either the root or a pointer, as DNS allows.

`parseDNSResponse` follows a pointer only where a name begins (`ech.go` 168). After labels it takes the pointer for
the length of a label (`ech.go` 181-186), steps over as many bytes, and reads from there on whatever it meets: TLC shows that
the list of a complete answer with one such record is not found. `EchFound` therefore leaves the result open (`Lost`) from
the first such name on, and promises the right list for every answer whose list comes before it, or that has no such name.

`BaseAssumption`: `Base` has room for the two bits of a pointer (`Base % 4 = 0`) and for the types of an address; it is 256 in the code and 16 in the run.

### Config

A file maps the keys it gives to strings or numbers. `LoadClientConfig` and `LoadServerConfig` decode,
fill in defaults and publish. `setCommonDefaults` replaces zero values only, so a negative `concur`
survives; `IPStrategy` has no JSON tag, so `ip_strategy` is ignored. The one run is a
finding: a duration written as a string, as `config.go` 16 asks and as both example files have it,
does not decode, so neither program starts with its example.

## Runs

| run | instance | shows |
|---|---|---|
| `ws_upload` | 2 writers, 2 closers, 4 chunks of 1-3 bytes, flush at 3, limit 4; 1.0M states | `SizeExact`, `LossReported` |
| `ws_tiny_queue` | 2 writers, 1 closer, chunks of 1, 3 and 4 bytes, flush at 4, limit 2; 168k states | `QueueBounded`, `QueueDrains`, `CloseCompletes`, `ImplementsStream` |
| `ws_read` | 2 readers, 1 closer, 2 messages of 0-2 pieces | `ReadStream`, `CloseReleasesReaders` |
| `dial` | every request and strategy, 4 addresses, answers of up to 4, a race of 3; 200k states | `FamilyHonoured`, `PreferenceKept`, `OneOpen`, `NoSendOnClosed`, `FailureIsTotal`, `Answered` |
| `tcp_tunnel` | 2 pieces up and a first request, 1 answer, `dataCh` of 2; 374k states | `UploadComplete`, `DownloadComplete`, `ConnClosed`, `ImplementsStream`, `AllEnd` |
| `tunnel_auth` | an allowed client, one that is not, a pool channel, 2 streams with ids from a set of 2, 1 fault; 384k states | `AuthBeforeRelay`, `Agreement`, `NoStaleChannel`, `NoPanic` |
| `tunnel_shared` | 2 clients of one UUID, 2 links each, 1 fault; 84k states | `OneSession`, `EntryIsLive`, `Reconnects`, `LinksEnd` |
| `ech_pool_slots` | 2 channels with 2 sessions each, 1 caller; 531k states | `RttOfSlot`, `NoneLeftOpen`, `FailureExplained`, `SlotRecovers` |
| `udp_tunnel` | 2 client addresses, 2 targets, 2 packets, 1 reply; 0.3M states | `UploadOrdered`, `NothingLeft`, `BothEnd` |
| `dn_aggregator` | 4 chunks of 1, 3 and 6 bytes, written at 4 bytes or 3 chunks, limit 5; 24k states | `LossExplained`, `InOrder`, `BatchIsSent`, `FlusherEnds` |
| `formats` | 16 values of a byte, fields of 0 to 256 bytes, names with and without labels and pointer, every cut; 380k states | `MessagesKept`, `EchFound` |
| `example_config` | one key of each kind, up to 2 UUIDs; a violation | `DocumentedLoads` |

Why these bounds are enough for the questions asked:

* The queue of `WSNetConn` behaves differently by the order of `up_pack` and
  `max_queue_bytes` (the defaults have the first well below the second). `ws_upload` has
  the usual order, where a full queue is flushed and a large chunk goes through it;
  `ws_tiny_queue` the opposite one, where chunks are written directly. Three chunks are
  needed for one to be on the wire, one in hand and one behind it; two writers and the
  timer give every pair of owners of `upMu`. The theorems remove the bounds for the
  properties they cover.
* Three attempts let one win, one wait in `resultCh` and one be in its select or fail; proved for any number. Two
  addresses of each family and answers of four give every mix, an order within a family, and more addresses
  than attempts.
* In `tcp_tunnel` up to three chunks (the request that HTTP passes on and two pieces) with a `dataCh` of two let one be written while the queue is full. One answer
  is enough for a download to be complete or not.
* Two links per client and one fault are a session, its loss and the reconnection while
  the old link winds down on both sides; `Reconnects` would fail at the bound if
  the faults could use up the links, so `MaxLinks > MaxFaults` there. Two streams and
  two ids are the least where ids collide and differ; the theorems have no bound.
* Two channels let a caller choose, and be overtaken by the replacement of the one it chose.
* Four chunks let one be on the wire, one in the flusher's copy, one be queued meanwhile and one go over the
  limit; the sizes are below, at and above the limits.
* Sixteen values of a byte make 256 the first length that does not fit (65536 in the code); fields of
  255 and 256 bytes are on both sides of it.
* Two packets per association: the first opens the stream and the second finds it open,
  being opened, or failed.

`CHECK_DEADLOCK FALSE` everywhere: all of these systems come to rest (a connection is
closed, a relay returns, a bound is reached). That nothing stops too early is what the
liveness properties say.

Symmetry is used in the safety run `ws_upload` only, over goroutines of one kind.

### Fairness

* The Go runtime runs every goroutine that can go on, fires timers, and lets everyone
  who waits for a mutex have it in the end (its mutexes hand over after 1 ms of
  starvation): weak fairness for steps that stay enabled, strong fairness in
  `WSNetConn` for steps that need a mutex others keep taking.
* A websocket write returns, if only because the connection breaks; a dial
  returns by its timeout; a probe by its deadline; smux notices a dead peer by its
  keep-alive. There is no write deadline in `WSNetConn`, so how long a Close waits behind a
  blocked write is up to TCP: `CloseCompletes` says that it ends, not when.
* A dial that is tried for ever succeeds once, and a target falls silent once (for
  `BothEnd`: `handleUDPStream` looks at its context only after five seconds without a
  datagram, or when a reply cannot be written).
* Never assumed: that anybody calls Write, Read or Close, that a client sends or ends,
  that something arrives, that a link fails. `LeaveOnCancel` of `TCPRelay` is strongly fair in `TCPTunnel`:
  Go's select chooses at random, so it cannot pass over a ready `ctx.Done()` for ever.
* In `TCPTunnel` the handlers and copies run; requests have a deadline, but the body of an HTTP
  request has none (`Body` is not fair); application and target read what they are sent, or are gone. `Dial` relies on
  the timeouts of lookups and dials, `DnAggregator` on stream writes that return.

## What is proved

The theorems hold for every value of the constants that satisfies the `ASSUME`s of the
module (positive sizes, disjoint sets of goroutines, a finite set of attempts, values that
stand for "none" outside the sets they are not in): any number of goroutines, channels and
clients, any limits, any number of chunks, packets and answers. Every safety property of the
passing runs is a
theorem: those of `WSNetConn`, `Dial`, `Tunnel`, `ECHPool`, `DnAggregator`, `TCPTunnel`, `UDPTunnel` and `Formats`. Each proof has the same plan: an invariant that is inductive (`IInv`, or layers of it),
a lemma per conjunct with a step per action, and the property as a consequence. Every `IInv` of a component with goroutines was
model-checked first, on the constants of the component's run.

**WSNetConn** (`WSNetConn_proofs`), in three layers, each inductive relative to the ones before:

1. `OwnInv`: the types, and who holds `upMu` and `buf`. `NoneStranded` and `QueueBounded`
   are not inductive: they speak of moments when `upMu` is free, so one has to
   know which goroutine owns it at each `pc`, that a queue is only non-empty outside the
   lock if the owner armed the timer on its way out, and that an emptied queue has size 0.
   It gives `TypeCorrect`, `QueueBoundedCorrect`, `NoneStrandedCorrect`.
2. `DataInv`: `Lossless`, `Numbered` (ids on the wire, in `buf` and in the queue rise, and are
   below the number of accepted chunks), `Counted` and `LossNoted`. The proof first
   shows that every step has one of four shapes (`StepShape`: what is outstanding stays as it is,
   wherever it moves; a chunk is added at its end; a closed connection drops it; a failing write cuts
   it) and then argues on the shapes alone. It gives `LosslessCorrect`, `InOrderCorrect`, `LossReportedCorrect`.
3. `ReasonInv`: `deadCh` is closed only after `deadErr` is set, and `deadErr` is set once. It gives `DeadReasonFixedCorrect`.

`SizeExact` and `ReadStream` add up sequences of any length. They need no induction
over the data: both are kept by every step, once one knows what appending, removing the head
and cutting do to a `FlattenSeq`. `SeqLemmas` proves that from its definition. The sum of the bytes is
written as a length (`Bytes`: one item per byte) for this reason. `ReadStreamCorrect` also
uses `ReaderAssumption` (the value for "no message" is not a message).

`ImplementsStreamCorrect` is the refinement: with `waiting` mapped to `buf \o upQueue` and `up` to
"neither closed nor broken", a step that keeps what is outstanding is `Transmit`, a `Degrade` that drops
nothing, or a stutter; one that takes a chunk is `Accept`; a drop is `Degrade` or
`AcceptAndDrop`; a failing write is a `Degrade` that sends a beginning and drops the rest
(`NextStream`, again on the shapes of layer 2).

**DialRace and Dial** (`Dial_proofs`). `IInv` says where each connection is: an attempt
that has one is in its select, or it sent it and then it is in `resultCh`, or was the
first to be received (the winner, open), or a later one (closed); `resultCh` holds no
connection twice; `resultClosed` only when all attempts are over. With that,
`OneOpenCorrect`, `NoneForgottenCorrect`, `NoSendOnClosedCorrect`, `FailureIsTotalCorrect` and
`WinnerStaysCorrect` each follow in a few steps.

`DialIsRace` shows that a request runs the race as it is (`DialSpec => Spec`), so that these theorems
hold of every request, too. `DialInv` relates the list of addresses to the resolver's answer: it `Suits`
the strategy, that is, only-strategies leave one family, prefer-strategies put the addresses of one family
before the others and keep them all. What the filters keep is proved by induction on the length
of the answer (`OnlyItems`, `OnlyBoth`). In the race the address of attempt `i` is
`i % len(ips)`: the attempts cover a beginning of the list, so a later address is
tried only if all earlier ones are. It gives `FamilyHonouredCorrect` and `PreferenceKeptCorrect`.

**Tunnel** (`Tunnel_proofs`), for any clients, channels, UUIDs (none of them the words
the model uses for no hello and for a ping), stream ids and bounds. `IInv` adds to the
properties what they rest on:

* `ClientInv` and `GrantInv`: `connectLoop` serves its own last link and has had an OK on it. Without
  them a step of an old link could touch the session of a new one.
* `Fresh`: a link that was not dialled has no state, so a dial always starts from nothing.
* `HelloInv` and `SrvInv`: what a link brings, and for each place of `handleWebSocket`
  what it has read, what it has answered and that its `acceptStreams` has not started.
  `AuthBeforeRelay` and `Agreement` follow from these.
* `AccInv`: a server session is closed only by its own `acceptStreams`, after its loop, and a
  client gets no streams. `NoPanic` rests on it.

It gives `TypeCorrect`, `AuthBeforeRelayCorrect`, `AgreementCorrect`, `OneSessionCorrect`,
`EntryIsLiveCorrect`, `NoPanicCorrect` and `NoStaleChannelCorrect`: every safety property of the
two tunnel runs.

**ECHPool** (`Transport_proofs`), for any channels, callers and numbers of sessions. `SlotInv`: from
`Install` to `Clear` the slot holds the session that `dialAndServe` works on. `ProbeInv` and `ServeInv`: the
probe of a session is started once and after the session is in its slot, and `dialAndServe` leaves a session only
after it is closed and its probe has ended. That is why no late probe can write into a
slot that has a new session (`RttOfSlotCorrect`), and why nothing is left open
(`NoneLeftOpenCorrect`). `CandInv`: a caller's candidates are sessions that exist, one per channel, which
makes the second look at the slot meaningful (`FailureExplainedCorrect`). It gives `TypeCorrect`, too.

**Formats** (`Transport_proofs`), for any conversations that satisfy the assumption: any number of messages, chunks,
records, labels and parameters, of any length, and any `Base`. The part about streams and packets:

* Each reader reads a message from its encoding and whatever follows , and is `Cut`
  on every proper part of an encoding (`OpenRead`, `ChunkRead`, `ReplyRead`, `PacketRead`).
* `StreamInv`: what is read is a beginning of what is written; the wire holds the encodings of what is not yet
  read and, only if the stream is cut, a part of one more message. `PacketInv`: the wire is empty or
  one packet, and all packets before it were read or skipped. They give `MessagesKeptCorrect`.

The part about DNS answers has to reason about functions that call themselves on offsets. tlapm takes nothing
for granted about them, so `SeqLemmas` proves `TailRecursion`: such a function exists, and satisfies its equation, when
each call has a smaller rank. The rank here is the number of bytes left. `LabelsStep`, `QuestionStep`, `ParamStep` and
`RecordStep` are the equations. On them stand:

* `ResponsePart`: on a beginning of any bytes at all `parseDNSResponse` finds what it finds in all of them, or nothing. No answer cut off by
  the buffer makes up a list.
* `ResponseRead`: in the bytes of an answer it finds the first of the answer's lists, or nothing if there
  is none, unless a name of labels and a pointer comes first (`Astray`, `Right`). Its lemmas follow the walk over labels, parameters and records from the last to the first
  (`LabelsThere`, `ParamsThere`, `RecordsThere` say what is at which offset).

`AnswerInv`: the wire is a beginning of the answer's bytes. It gives `EchFoundCorrect`.

**DnAggregator** (`DnAggregator_proofs`), for any sizes, thresholds and numbers of chunks.
`CopyInv`: while the flusher writes, its copy is the beginning of the queue, and everything else in the
queue came meanwhile. `OrderInv`: what waits comes after what is written, and a chunk that Write
sends by itself finds queue and flusher empty-handed. `overlap` marks what breaks
this, a Write at the limit while the flusher writes; `InOrderCorrect` shows that nothing else does.
`LossExplainedCorrect`, with the same reading: without a failed write nothing is lost but what came
while the flusher wrote.

**TCPTunnel** (`TCPTunnel_proofs`), front end and relay together, for any number of pieces and answers and any room in
`dataCh`. `HolderInv` says who has the target connection, `EndInv` what each flag says about
who has ended; with them `ConnClosedCorrect`. `FlowInv` and `ReadAllInv`: what was written, what the
handler holds, what is in `dataCh` and what the reader holds are, in this order, a beginning of
what was read, and all of it as long as nobody cancelled; the reader ends by itself only at the end of the
stream. `SentInv` says the same of the front end: an optional first item (the request), then the pieces that
were taken, but for the one in hand. Joined at the stream they give `UploadCompleteCorrect`. `AnswerInv`
counts the answers through the other copy. `OverInv` says why the way down is over, from the stream back to the
target: while neither the application nor the link has ended, a stream that the front end finds
closed was closed by the relay, or by an upload copy that still holds a piece (`HeldIsMissing`: that
piece is missing from the stream, so `Taken # sent`); the relay's handler left because the target ended, because a write to
it failed, or before there was a downloader; and neither its reader nor its downloader ends otherwise. `DownloadCompleteCorrect` follows from the two.
`ImplementsStreamCorrect`: the way from io.Copy to the target implements `ByteStream`. What waits in the
stream are the chunks in the relay (`OnWay`), the items on the stream behind them and the piece in
hand; `StreamInv` adds that the relay holds only places of `sent`. `UpRead` and `WriteFirst` are `Accept`,
`WriteTarget` is `Transmit`; `DropChunk`, every `Leave` and `UpFails` with a piece in hand are `Degrade`, for they
drop a middle part, the first or the last of what waits, and the link is down after each. Every
other step leaves what waits as it is, wherever it moves, and may only bring the link down: `AliveBefore`
shows that nobody brings it up again.

**UDPTunnel** (`UDPTunnel_proofs`), an association and its relay, for any addresses, targets
and packets. `CloseInv`: `mu` keeps Close and the opening of the stream apart, so a stream is never opened after
Close looked for one; with it `NothingLeftCorrect`. `OnceInv`: before the first packet is sent nothing of the stream exists, and it is
opened once. `OwnerInv`: everything in the association, wherever it is, came from one
address and goes back to it. `TargetInv`: the relay's address is that of the first packet. `FlowInv`: what the target was
sent, the chunk in hand and what is on the stream are a beginning of what `send` accepted
without the empty packets, and everything while loop and relay run. It gives `UploadOrderedCorrect`.

`TypeOK`, `NoneStranded`, `Lossless`, `InOrder` and `DeadReasonFixed` of `WSNetConn` and `WinnerStays` of
`DialRace` are proved and have no run of their own; the runs check what they amount to for a caller
(`ImplementsStream`, `QueueDrains`, `LossReported`, `OneOpen`).

Only model-checked:

* all liveness properties, which need fairness and ENABLED (out of the prover's reach);
* `Config`, one value on one file, whose run is a finding.

## Not modelled

* Timing: timeouts may expire at any moment, tickers tick at any moment.
* smux and the websocket library: only what the code relies on (order, no data after an
  error, Close releases who blocks). smux's own window and frames are left out.
* Error texts and logging everywhere, ports, and the accept loops of the listeners.
* The wrap of `selectCounter` at 2^63; no property says that equally fast channels are used in turn.
* `InitECH`, `RefreshECH`, `GetECHList`: one value under a lock, set at the start; the DNS queries are I/O.
  `dialWS` goes on without ECH when the list cannot be had.
* `parseStrategy` (see above), the UUID store (a value set by `sync.Once`), fingerprints, the buffer pool.
* `protocol/stream.go` from line 32 on, and `readChunk` and `writeUDPReply` of `main.go`: nobody calls them.

## Plan

Done, in this order: `WSNetConn` with `ByteStream` (everything else stands on it), its
proofs; `DialRace` and its proofs; `TCPRelay`; `Tunnel` and its proofs; `ECHPool`; `UDPTunnel`;
`FrontEnd` and `TCPTunnel`; `Dial`; `DnAggregator`; `Formats`; `Config`.

Proofs, in this order: `WSNetConn`, `DialRace`, `Tunnel`; then `ECHPool`, `DnAggregator`, `Dial`, `TCPTunnel`,
`UDPTunnel`, the refinement of `ByteStream` by `WSNetConn` and by `TCPTunnel`, and last `Formats`. No safety property
of a passing run is left without a theorem.

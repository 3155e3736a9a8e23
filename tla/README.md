# TLA+ models of NWS

NWS carries TCP connections over Nostr relays. This directory holds TLA+ models of its
concurrent core, the TLC configurations that check them, and proofs for TLAPS. Paths such as
`exit/exit.go:220` are relative to the repository; `PROJECT.json` maps every definition to the
lines it models, and lists the hazards of the code with the properties that cover them.

## 1. The system

An **entry node** is a SOCKS5 proxy. For each client it publishes a CONNECT event on the relays
that the destination names, then one event per chunk the client sends. An **exit node** subscribes
to the events addressed to its key, dials its backend for every CONNECT, forwards the chunks and
publishes the backend's replies. With `PUBLIC_ADDRESS` set, the exit node dials the entry node back
instead and the relays carry only the CONNECT (**reverse mode**).

    client -- SOCKS5 -- entry node -- events --> relays -- subscription --> exit node -- TCP -- backend
                            ^------------- events (relay mode) / TCP (reverse) --------'

| Component | State | Operations | Talks to |
|---|---|---|---|
| Map of mutexes (`exit/mutex.go`) | `mu`, map id -> `*sync.Mutex` | `Lock`, `Unlock` | the exit node's handlers |
| Exit node's handlers (`exit/exit.go`) | `nostrConnectionMap`, a goroutine per event | `ListenAndServe`, `processMessage`, `handleConnect`, `handleSocks5ProxyMessage` | relays (subscription), the connections (channel), backend (dial) |
| Connection (`netstr/conn.go`) | context, `subscriptionChan`, `readIDs`, `writeIDs`, `readBuffer` | `Read`, `Write`, `WriteNostrEvent`, `Close`, the goroutine of `WithSub` | relays, `Proxy` |
| Proxies (`socks5/request.go:384`) | two goroutines per connection and node | `Proxy` = `io.Copy`, then close both ends | connection, socket |
| Dial (`netstr/dial.go`) | - | `DialSocks` | relays |
| Reverse mode (`socks5/tcp.go`, `socks5/request.go:172`, `exit/exit.go:300`) | `connectChannels`, a channel per key | `Start`, `handleConnection`, `AddConnectChannel`, `handleConnectReverse` | both nodes, over TCP |
| Discovery (`exit/nostr.go`, `netstr/dns.go`) | `e.relays`; announcements on the relays | `announceExitNode`, `Resolve` | relays |
| Certificate (`exit/https.go`) | key file; certificate and key on the relays | `StartReverseProxy`, `createAndStoreCertificateData`, `storeCertificate`, `storePrivateKey` | relays, file system |
| SOCKS5 session (`socks5/socks5.go`, `auth.go`, `request.go:95`) | per client | negotiation, request, replies | client |
| Destinations (`protocol/domain.go`, `conn.go:253`) | - | `Parse`, `parseDestination` | pure functions |
| Messages (`protocol/message.go`, `signer.go`) | - | encode, encrypt, sign | pure functions |
| Configuration, commands | read once | `LoadConfig`, `main` | environment |

What makes this hard: every event gets a goroutine of its own, so order is lost where the protocol
needs it; relays repeat, reorder and refuse events; a handler blocks on an unbuffered channel with
a lock in hand; a variable is replaced while another goroutine reads it; publications go relay by
relay and fail half-way; and the exit node keeps state on relays that survives its crashes. What
each part has to guarantee:

- *Map of mutexes*: mutual exclusion per key, no panic, no starvation, independence of keys.
- *Exit node*: no duplicates reach a backend, nothing read is lost, a handler sends to the current
  connection of its key, a stuck connection blocks only itself, teardown completes.
- *Entry node*: relays are left at most one chunk apart, the subscription's filter admits every
  answer, every reply that is handed over is read once, teardown completes.
- *Reverse mode*: one connection per key, the same at both nodes; handshakes end; a close arrives.
- *Discovery*: nobody is sent to a node that is gone; a running node is found, but for short gaps.
- *Certificate*: a pair that was published to the end is served as a pair, before and after restarts.
- *SOCKS5 session*: no byte of the client is lost between handshake and proxies, nothing is dialed
  for a client that has not logged in or may not connect, a session ends with its client.
- *Destinations*: dial and every later write choose the same key and relays; the name an exit node
  prints leads to it.
- *Both nodes together*: what arrives end to end, and that nothing is held once both sides closed.

## 2. The modules

| Module | Models | Kind |
|---|---|---|
| `KeyedLock` | what `mutex.go` promises: one lock per key | abstract |
| `MutexMap` | `exit/mutex.go`, one step per load, store and lock operation | detailed; implements `KeyedLock` |
| `Datagrams` | what a connection really gives: events of its key, at most once, in any order, none after the close | abstract |
| `ExitNode` | handlers, connections and proxies of the exit node | detailed; implements `Datagrams`, uses `KeyedLock` |
| `EntryConn` | one connection of the entry node in relay mode | detailed; implements `Datagrams` |
| `ReverseConnect` | reverse mode, both nodes | composition of handleConnect, the listener and handleConnectReverse; uses `KeyedLock` |
| `Tunnel` | both nodes of one connection in relay mode | composition of `EntryConn` and `ExitNode`; implements `Datagrams` in both directions |
| `Route` | destinations: printed names, `Parse`, `parseDestination`, the choice at both nodes | pure operators |
| `Session` | one SOCKS5 session from the greeting to the end, with `Route` | detailed |
| `Discovery` | announcer and `Resolve` | detailed |
| `CertStore` | certificate, key and key file across restarts | detailed |
| `MC*` | instances for TLC | |
| `MutexMapProofs`, `ExitNodeProofs`, `EntryConnProofs`, `TunnelProofs`, `ReverseConnectProofs`, `SessionProofs`, `DiscoveryProofs`, `CertStoreProofs` | the theorems about each of these modules | |

Names follow the source where TLA+ allows (`mutex`, `readIDs`, `connectChannels`, `handleConnect`
becomes `HandleConnect`). A definition introduced by "Variant of" is a plausible mistake in the
definition next to it; `PROJECT.json` pairs it with the property that must catch it, and it is in no
next-state relation. A definition introduced by "what ... says and the code does not do" is a claim
of a document or comment that a run refutes (section 5).

### How state and actions correspond to the code

- **MutexMap.** `mu`, `m`, and the local variables `id` and `mutex` are those of the methods; a
  `sync.Mutex` is a number in the order of allocation, with a locked bit and no owner, as in Go.
  Program counter labels are the statements of `Lock` and `Unlock`; reads and writes of the map are
  separate steps, so that what `mu` protects is checked rather than assumed.
- **ExitNode.** A handler is a pair of event and copy, the goroutine of `go e.processMessage`. The
  lock is taken as `KeyedLock` has it (the theorem `UsesKeyedLockHolds`, here and in
  `ReverseConnectProofs`), because `MutexMap` implements that. `DialSucceeds` is the rest of
  `handleConnect` as one step: it only touches what the key's lock protects and nothing else can see it before the store. A `WriteNostrEvent` is the meeting of
  the handler's send with the connection's `Read`; the channel is unbuffered. `Proxy` leaves
  `io.Copy` and closes both ends in one step: the two closes are independent and idempotent.
  A connection that has ended stays in `nostrConnectionMap`, as in the code.
- **EntryConn.** `main` is `handleConnect`, `up` and `down` are the two proxies, `helper` the
  goroutine that `WithSub` starts. `relay` is the loop variable of `DialSocks` and of
  `publishEventToRelays`, which never run at once. `helper = "first"` means it waits on the channel
  that `NewConnection` made, on which nobody ever sends; `"subscription"` that it saw the channel of
  the first `Write`. The unsynchronised read may see either once the channel has been replaced.
  `since` has the resolution of a second. `Subscribe` is the call of `SubMany` within the first
  `Write`, which fixes the filter and returns at once: `SubscribesAt` says when a relay has the
  subscription, which may be after the data is published, after the answer, or never. A reply that
  reaches its relay earlier may be `kept` until then (the repository's strfry keeps ephemeral events
  for five minutes) or not. A `Publish` that fails, of the CONNECT or of a chunk, may have been
  stored by the relay.
- **ReverseConnect.** `listener` is `handleConnection` with `Load`, `Delete`, acknowledgement and
  send as separate steps; `wire` counts two pieces of the key, so that a `Read` may return a part of
  it; `crashed` is a panic in any goroutine of the entry node, which ends all of them.
- **Tunnel.** `EntryConn` and `ExitNode` keep their own steps and meet in two actions: `HandOver`
  (a relay that has the CONNECT or a chunk hands it to the exit node's subscription) and
  `PublishReply` (what the exit node has read becomes a reply that the entry node's subscription may
  get). The failed `Write` of a reply may have been stored as well. `heard` and `answers` are history
  variables: which replies were sent by a backend that had received data before. A dial that fails
  may leave the CONNECT at the relay, so that the exit node serves a connection whose entry node has
  given up. No other variable is shared, because the program has no message for the end
  of a connection.
- **Route.** A host name is a sequence of labels with a text and a length; lengths are those of the
  unpadded base32 encoding, so that the limits of 63 and 253 characters bite where they do in the
  code. `getDomain`, `parseDestination`, `parseDestinationDomain` have the source's names;
  `dialTarget` is the choice at the head of `DialSocks`, `routeAtExit` the one of `processMessage`.
- **Session.** `pc` is where the goroutine of `ServeConn` is: the two authentication messages, the
  request, `Resolve`, the switch of `handleRequest`, the loop of `DialSocks`, the wait of reverse
  mode, `Proxy`. The handshake reads from `bufConn`, which `Fill` fills with any part of what is in
  the socket (`wire`); `Proxy` reads the socket. `early` remembers that the client sent data
  before the success reply. `relay` and `published` are the loop of `DialSocks`, with a step
  per relay. An empty public key makes `CreateSignedEvent` fail; its error is not looked at, and the
  empty event that is published has no signature, so no relay takes it (`DialPublishes`). In relay
  mode `Forward` parses the destination again, as `Write` does. `served` is what the exit node
  dials, `answer` the reply that the client gets.
- **Discovery.** Ages instead of time stamps, so that a run may go on for ever and the state space
  stays finite. `live` is `e.relays` without lost connections: `announceExitNode` calls `Publish` on
  the objects of the start, whose connection the library does not open again. A publication may
  fail on a live connection too (a refusal, a time-out), with or without the relay having the event;
  `failed` are the relays where that of the current event did.
- **CertStore.** Pairs are numbered; a relay keeps the latest certificate and key, their kinds
  (38334, 38335) being replaceable. `QuerySingle` may return what any relay has, or nothing when the
  relays that have it do not answer. A publication that fails may have been stored. `os.WriteFile`
  may leave a truncated file. `complete` is a history variable: the pairs whose publication ended
  without an error.

### Assumptions and abstractions

- Clocks of the two nodes agree (`EntryConn`, `Discovery`); in `CertStore`, two pairs are never
  created within one second.
- Encryption, JSON and signatures succeed on events that the nodes make themselves; an event that
  cannot be decrypted is ignored by every handler and is left out.
- The relays hand the first copies of the events of one connection over in the order of publication,
  which is the best a backend can hope for: what goes wrong then is not the relays' fault.
- In `ExitNode`, what the backend sends is not tracked, only that it does (`ReadBackend`); the same
  code path with its order is the client's side of `EntryConn`.
- A relay that has the subscription keeps it until the connection is closed: that the library loses its
  connection to a relay and subscribes anew, perhaps from a later second on, is left out, so that
  `AnswersPassFilter` and `RepliesRead` are about subscriptions that last. No property says that an
  answer arrives.
- A subscription channel that is closed makes `Read` return nothing again and again; that loop does
  not change the state and is a stuttering step.
- Garbage collection of abandoned sockets, restarts of an entry node, and the `time.Sleep` between
  polls in `Read` are left out.
- In `Session` SOCKS messages arrive whole (`io.ReadAtLeast` waits for the rest), and a client keeps to
  the order of the protocol, though it need not wait for answers and may leave steps out.
- In `Route` words are never base32 by accident, only letters and digits occur, and the public
  suffix is one label: only names under `.nostr` are parsed, all others have become addresses.
- `Discovery` takes publishing to last at most `MaxLatency` seconds in all and queries `MaxWait`.

### Fairness

A goroutine that can run does (weak fairness of its steps): the Go scheduler is preemptive and fair.
Taking a `sync.Mutex` gets strong fairness, since a waiter of more than a millisecond puts the mutex
into starvation mode; so does a `select` case that is ready again and again (`ReadCancelled`,
`HelperCancelled`), because `select` chooses at random. Network operations return, with a result or
an error. Nothing is assumed about when clients and backends send, close or dial, about handlers
giving up a key (`MutexMap`), about relays (which may lose, repeat and refuse, and may get the
subscription late or never), or about crashes and restarts, which may or may not happen.

`Session` assumes weak fairness of the session's goroutine (`Server`) and nothing of the client, the
exit node and the far end of the proxies. `Tunnel` has the fairness of `EntryConn` and of
`ExitNode` and none for the relays, which may lose everything.

## 3. The runs

| Run | Instance | Shows |
|---|---|---|
| `mutexmap` | 3 goroutines, 2 keys | no panic, refinement of `KeyedLock`, no starvation |
| `exit_dup` | 1 key, 2 data events, every event twice | nothing read is lost, sends go to the current connection, refinement of `Datagrams` |
| `exit_keys` | 2 keys, 1 data event each | progress of one key while the other is stuck; teardown |
| `entry` | 2 relays, 2 chunks, a reply twice, 2 seconds | relays in step, answers pass the filter, replies read, teardown, refinement of `Datagrams` |
| `tunnel` | 1 relay, 1 chunk, a reply twice, 2 seconds | answers pass the filter, `Datagrams` end to end in both directions, two closed sides end both nodes' proxies and sockets |
| `reverse` | 1 key, CONNECT twice, split reads, resets | one acknowledgement, the same connection at both ends, a panic needs a reset, handshake ends, an acknowledged connection is received, close arrives |
| `session` | 1 exit node, 6 lists of relays, 19 kinds of host, 5 configurations, 3 offers, 4 messages | the stream, what is dialed and for whom, dial and write agree, printed names, sessions end |
| `discovery` | 1 node, 2 relays, 10 s period, 2 s latency, 2 s query | age of announcements, no dead node returned, announcements go on whatever other relays do |
| `certstore` | 3 relays, 3 pairs | a complete pair stays one, key file, new pair everywhere, every start ends |
| `session_names`, `entry_stolen`, `cert_lost` | as the run of the same module, or smaller | section 5 |

`BothClosedEnds` says what is let go of: both sockets, all proxies and `handleConnect`. It names what
may stay, which is the goroutine of `WithSub` of a dial that failed, and the handlers of a key of which
one is stuck for ever with a chunk that came too late (section 5).

What is proved and not repeated in a run: the type invariants of `MutexMap`, `ExitNode` and
`ReverseConnect`; `MutualExclusion` follows from `ImplementsKeyedLock`,
`AtMostOnce` from `ImplementsDatagrams`; `MapAccessSerialised`, `UsesKeyedLock` and
`KeyAfterCertificate` are steps on the way to stronger properties (section 4).

Why these bounds are enough. The map of mutexes needs two goroutines competing for one key while a
third uses another. A backend's stream needs two data events to be reordered and two copies to be
duplicated; two CONNECTs with one key are two copies of one. Independence of keys needs two keys.
A partial publication needs two relays; three relays give the certificate a first, a middle and a
last one, and three pairs let a half-published pair be replaced by another. `discovery` runs with
the code's own ten seconds. In `session`, four messages are greeting, login, request and data, or
two data messages where no login is asked for; URLs of 20, 39 and 40 bytes lie on both sides of
the label's limit, and three URLs of 39 with and without one of 20 on both sides of the name's.
`tunnel` is small because two components multiply: with two relays, two chunks, two replies or two
copies at the exit node its liveness takes more than five minutes, and those cases are the ones that
`exit_dup` and `entry` cover for each side. A partly published CONNECT, which takes two relays, has its
counterpart with one: the dial fails and the relay has the CONNECT. For the modules with proofs, the theorems remove these
bounds for the properties they cover.

`CHECK_DEADLOCK FALSE` stands where the system may really stop: a connection or a session that is
over, or handlers that are stuck for ever.

## 4. The proofs

All theorems are about `SafetySpec`; constants are arbitrary up to the named `ASSUME`s. Each proof
gives an inductive invariant `IInv`, which TLC was asked about first, and shows that it holds
initially, is preserved by each action and implies the properties.

- **MutexMapProofs** (any sets of goroutines and ids): `TypeOK`, `MutualExclusion`, `NoPanic`,
  `MapAccessSerialised`, `ImplementsKeyedLock`. Mutual exclusion alone is not inductive: two ids
  could share a mutex, or a goroutine could hold a stale one. `MapInv` says that the map is
  injective and names allocated objects only, `MutexInv` that a goroutine past its look-up has the
  map's mutex, and that whoever holds an id holds a locked mutex.
- **ExitNodeProofs** (any keys, numbers of events and of copies): `TypeOK`, `AtMostOnce`,
  `SendsToCurrent`, `AcceptedNotLost`, `ImplementsDatagrams`, `UsesKeyedLock`. `AtMostOnce` needs
  that what was delivered or is in the buffer is in `readIDs` and not in both (`ReadInv`), and that
  connections only ever see events of their key (`KeyInv`); `SendsToCurrent` needs the lock
  (`LockInv`), without which a second CONNECT could replace the entry during the send;
  `AcceptedNotLost` needs `HandedInv`, which follows an event from the handler that sent it.
- **DiscoveryProofs** (any period, latency, number of relays and nodes): `TypeOK`, `GapBounded`,
  `ResolvedWasAlive`. An announcement is at least as old as its node has been down (`AgeInv`), and
  the relays before the loop's index that are connected and have not failed have the current event
  (`LoopInv`). The bound on the latency of publishing may be any number, also one above the period.
- **CertStoreProofs** (any number of relays and pairs): `TypeOK`, `KeyAfterCertificate`,
  `CompletePairKept`, `KeyFileNotStale`, `NewPairIsEverywhere`. The invariant says how far a start
  has come: what is being published is the latest pair, its key is in the file, and the relays
  before the loop's index have it. `CompletePairKept` is not inductive: it needs that no relay goes
  back behind a complete pair (`CompleteInv`) and that a key on a relay is nowhere newer than a
  certificate (`KeyAfterCertificate`), so that whoever finds the certificate of a complete pair finds
  no newer key.
- **EntryConnProofs** (any number of relays, chunks, replies, copies and seconds): `TypeOK`,
  `RelaysInStep`, `AnswersPassFilter`, `ImplementsDatagrams`, and `ReadLosesNothing`, which no run
  checks by itself. `LoopInv` says how far the loop of `publishEventToRelays` is: the relays before its
  index have all that was sent, the others all but the last chunk. `SinceInv` says that the
  subscription is made with the first chunk, neither later nor before, and `ReadInv` that a reply in
  `readIDs` has passed the filter, and where it can be.
- **TunnelProofs** (any number of relays, chunks, replies, copies and seconds): `AnswersPassFilter`
  and `EndToEnd`. The proof module instantiates the proof modules of the two nodes, whose invariants
  are part of its own; `NodesRunAsSpecified` says that either node, composed with the other, still
  makes only steps of its own specification, so that the theorems about it hold of the composition.
  `SentInv` ties the nodes together: the exit node handles no chunk that the client has not sent.
  It makes the exit node's side of the refinement go through, and with `HeardInv` puts every answer
  after the second that the filter starts with. The lemmas `SameEntry` and `SameExit` relate the instances of `Tunnel`
  with those of the proof modules, which are different operators to the provers. For the direction
  to the client, `EndToEnd` is the refinement that `EntryConn` has, with the replies that are
  published in the composition; for the direction to the backend, the events offered are those that
  the client has sent.
- **ReverseConnectProofs** (any keys, any number of copies of a CONNECT): `TypeOK`, `AckedOnce`,
  `SameConnection`, `PanicNeedsReset`, `UsesKeyedLock`. `Load` and `Delete` of the listener are two
  steps, so two connections may find the channel of one key; the exit node's lock excludes that both
  are open (`StageInv`, `LockInv`), and `OnceInv` says what an acknowledgement leaves possible for the others.
  `UsesKeyedLock` is the same as in `ExitNodeProofs`, for the handlers of reverse mode.
- **SessionProofs** (any configurations, requests, relays and number of messages): `TypeOK`,
  `StreamIntact`, `DialsWhatWasAsked`, `WriteAgreesWithDial`, `PrintedDomainWorks`. The buffered
  reader is empty when `Proxy` starts
  because of the order in which the client sends (`OrderInv`: behind a request there is only data)
  and the waiting of a client that is not early (`EarlyInv`). `AuthInv` carries the login and
  `DialInv` the request to the exit node's decision, which `RouteAgrees` compares with the one of
  `DialSocks`: a literal address has no key, so no CONNECT for it is ever sent. `DialTypes` adds what
  `TypeOK` says of the dial. It, and `PrintedDomainWorks`, are about loops over labels of any number,
  so they need induction. `NatLeast` takes it from the library's well-foundedness of `<` on the
  numbers, and `SetInduction` states it for a set instead of a predicate, which is a form that the
  provers can instantiate. `DecodedPrefix` uses it on the loop of `parseDestinationDomain`: for the
  name that `getDomain` prints, the first n subdomains decode to the first n relays. `Base32Limits`
  turns the label's 63 characters into 39 bytes, and the length of a printed name depends on its key
  only through the key's 32 bytes.

The assumptions on constants are those of the modules: numbers are natural, the marks for "nothing"
or an error (`NoSub`, `NoConn`, `None`, `Failed`, ...) are not values, a relay URL has a positive
length (`RouteAssumption`), a public name has resolved to an IPv4 or an IPv6 address, a domain is a
sequence of labels and an npub or nprofile has a key and a list of URLs (`SessionAssumption`), and an
event is handed to the exit node once at least if at all (`ExitCopies` is positive in
`TunnelAssumption`). The real bounds of the models (`MaxOut`, `MaxTime`, `MaxSent` and the like) are
arbitrary numbers in the theorems.

Every safety property of a passing run is proved. Only model-checked:

- Every liveness property (`NoStarvation`, `OtherKeysProgress`, `TeardownCompletes`, `RepliesRead`,
  `AwaitingEnds`, `AckedIsReceived`, `CloseReachesBackend`, `SessionEnds`, `BothClosedEnds`, `AnnouncedWhileConnected`,
  `StartEnds`): the proof system has no rules for fairness that the installed provers could use.

## 5. Where the code and its documents disagree

- `session_names`: the README says that entry nodes resolve nprofiles. They do, and the CONNECT
  reaches the right exit node; `processMessage` there refuses the destination, because `Parse` wants
  an eTLD, and the client, which has got the success reply, hears nothing.
- `entry_stolen`: the comment on `subscriptionChan` says its events are read by `Read`. The
  goroutine of `WithSub` may receive from the same channel and puts what it takes into `readBuffer`,
  which nobody reads: a hole in the stream. `RepliesRead` shows there is no other way to lose a
  reply that the relays hand over.
- `cert_lost`: a comment says the private key is loaded from the file; it is asked of the relays. A
  failure between the two publications makes every later start panic, although the file has the key.

Met while modelling. Some of it is bounded by a property that says exactly what does hold:

- The handlers of one connection race for its lock, so chunks overtake each other and the CONNECT; a
  chunk handled before the CONNECT is dropped (`exit/exit.go:220`). `ImplementsDatagrams` and
  `EndToEnd` are what is left of a stream.
- A chunk for a connection that has ended blocks its handler for ever, with the lock of the key
  (`netstr/conn.go:79`). `OtherKeysProgress` shows that the damage stays with that key.
- When the acknowledgement of a reversed connection cannot be written, the listener closes the
  channel, the target is nil, and the entry node panics (`socks5/tcp.go:68`). `PanicNeedsReset` shows
  that nothing but a reset connection leads there.
- Data that a client sends before the success reply may stay in the buffered reader when `Proxy`
  starts (`socks5/socks5.go:196`). `StreamIntact` shows that a client that waits loses nothing.
- A relay URL of more than 39 bytes, or relays that make the name longer than 253 characters, give
  the exit node a name that no entry node can use; no error is reported (`exit/exit.go:136-149`).
  `PrintedDomainWorks` says which names work.
- An IPv6 address keeps its brackets, which `net.ParseIP` refuses (`netstr/conn.go:293`): the dial to a
  public name with such an address succeeds and the first write fails. `WriteAgreesWithDial` shows
  that this is the only destination where the two choose differently.
- Nobody subscribes before the client's first write (`netstr/conn.go:216`), so client and backend wait
  for each other when the protocol has the backend speak first: a greeting is heard only if the relay
  kept it and it is not older than the filter.
- The subscription is not awaited (`netstr/conn.go:219`): `SubMany` returns before any relay has it and
  the data is published at once, so an answer may be at its relay first and is lost unless the relay
  keeps it. `AnswersPassFilter` shows that the filter is never to blame.
- Certificate and key are put together without comparing them (`exit/https.go:42-91`): after a
  publication that stopped between the two, a new certificate may be served with the key of an
  earlier pair. `CompletePairKept` shows that this cannot happen to the certificate of a pair that was
  published to the end.
- Of the publications of an announcement, a refusal or a time-out is only logged
  (`exit/nostr.go:36-40`). `GapBounded` shows that it costs nothing on the other relays.

and some is only recorded: `NOSTR_RELAYS` of the entry node is not used when an npub or a `.nostr`
name has no relays, against `README.md:121` (`netstr/conn.go:274`, `308-316`), so that nothing is
published and the client gets the success reply; the error of `CreateSignedEvent` is not looked at
(`netstr/dial.go:65`);
`Resolve` compares the suffix `.nostr` with its case (`netstr/dns.go:28`), while DNS names have none;
`loadFromEnv` does not use its path (`config/config.go`); the announcer never reopens a lost relay
connection, so that `AnnouncedWhileConnected` cannot be had without its premise; the reverse proxy's
goroutine may use `exit.config` before it is assigned.

## 6. Not modelled

SOCKS5 messages and host names byte by byte, encryption, JSON, configuration, logging and the relays
themselves (third-party; only their interface). `DeleteEvent` and most methods of `protocol.URL` have
no caller. The start of the exit node's subscription (`setSubscriptions`) and what a restart of a
node does to open connections: neither node keeps anything of them. The default `Resolve` and the
rewriter of the SOCKS server are replaced or absent in this program.

## 7. Plan

1. *Done*: all modules of section 2, and proofs of every safety property that the runs check.
2. A relay that cannot be reached (`netstr/dial.go:72`): what a client may rely on when no relay has
   the CONNECT.
3. An answer that overtakes the subscription (`netstr/conn.go:219`): under which retention of the relay
   nothing is lost when the subscription comes late but comes.
4. Clocks that differ (`netstr/conn.go:218`): with an exit node that is d seconds slow, an answer is
   lost if it is published less than d seconds after the subscription, since `Matches` is the only
   place where the two clocks meet. What a margin in `Since` would cost is open.

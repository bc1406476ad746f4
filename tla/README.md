# A TLA+ verification project for the go-iroh examples

The repository holds 54 self-contained Go programs (`src/cmd/go-iroh-*`), each of
which shows one use of the peer-to-peer library `github.com/tmc/go-iroh`, a
catalogue checker (`src/internal/catalog`) and Rust peers for interoperability
tests (`src/interop`). The library itself, and QUIC under it, are not in the
repository: the modules model what the programs use of them and say so ("external"
in the map of `PROJECT.json`).

Most programs are a `run` function that starts several goroutines in one process
(servers, handlers, readers) and talks to itself over loopback; four are tools in
their own right (`dumbpipe`, `sendme`, `doctor`, `public-endpoint`).

## 1. Inventory

| Component | State it keeps | Operations | What makes it correct |
|---|---|---|---|
| gossip-kv | per node: scope -> key -> (value, timestamp) | put, apply, broadcast | every entry is the newest accepted, is signed by its scope's owner, never steps back; order of delivery does not matter |
| gossip-topic | per node: neighbours up, a wake-up channel, received messages | consume, awaitNeighbor, broadcast | no lost wake-up; nothing is broadcast before the chain stands; every wait ends |
| dumbpipe | two copy goroutines and a stream per end, the loops of the forwarding commands | dial/accept, handshake, forward, linger, acceptLocal, listenForward, forwardLocal | no silent truncation, a half-close travels, both commands end |
| sendme receive | temporary directory, open files, targets | download, rename, clean-up, rerun | only whole files appear, none is replaced, nothing is left behind |
| sendme send | store directory, endpoint, accept loop | import, serve, interrupt, Close | the store outlives its readers; the command ends and cleans up |
| custom-transport | ports with bounded channels, counters | attach, send, Serve | datagrams arrive as sent; each is accounted for |
| custom-router | handler table under a mutex | handle, remove, lookup, serve, report | each dial gets one consistent decision, and an answer |
| incoming-filter | an admission gate | filter, close the gate | a connection is never served against the gate |
| alpn-negotiation | none | preferred, serve | never an older version than necessary |
| key-exchange | per-endpoint policy | probe, answer | a refusal is told from a failure |
| docs-live-sync, docs-sync | entry set and content per replica, a file, live-sync flags | put, startLiveSync, await, syncOnce | replicas converge, a count means contents, the file is complete, an entry's content exists |
| client/server examples (36 programs) | goroutines, connections, streams, channels | run, exchange, echo, handlers | nobody closes what another needs; success is complete; run ends; no goroutine leaks |
| blobs-store | a directory: blobs, temporary and persistent tags | write, reopen, download, collect, run again | a tagged blob survives kills and the collector, an unnamed one does not stay, nor does a temporary file |
| blobs-gateway | none | ServeHTTP's routes, the index | every link of the index leads to its entry |
| path-selection, path-upgrade, relay-limits, local-infra, doctor, mdns-discovery, public-endpoint, qlog-tracing, stream-listener | connections, waits for somebody outside | run, discover, waitForDirect, listen, connect | as for the client/server examples, of which they are twelve |
| catalog | none | progression, agree | tables and tree agree exactly |
| keys, addresses, address-filtering, pkarr-*, dns-resolve, net-report, relay-online | none of their own | construct, call a service, print | out of scope (section 8) |

How they interact: programs do not call each other. Inside a program the parts
share connections (a close by one end is an error for the other), streams (a
half-close is the end of a read), Go channels, a context with a deadline, and, in
a few, state under a mutex.

What is hard: one end closing while the other still reads; a deadline that not every
call looks at (`io.ReadAll` takes no context); events and broadcasts in any order,
repeated or lost; tables and gates that change while connections queue; several
processes in one directory; crashes between two file-system steps; final checks that
compare state which background goroutines still change. `PROJECT.json` lists each
such hazard at its line with the properties that would catch it.

## 2. Modules

| Module | Models | Proofs |
|---|---|---|
| `GossipKV`, `MCGossipKV` | `go-iroh-gossip-kv` | `GossipKVProofs` |
| `Pipe` | the abstract specification of a pipe: two bounded buffers | |
| `DumbPipe`, `MCDumbPipe` | `go-iroh-dumbpipe`: one pipe, under each of the commands that makes one; implements `Pipe` | `DumbPipeProofs` |
| `SendmeReceive`, `MCSendmeReceive` | `go-iroh-sendme receive` | `SendmeReceiveProofs` |
| `SendmeSend`, `MCSendmeSend` | `go-iroh-sendme send` | `SendmeSendProofs` |
| `GossipTopic` | `go-iroh-gossip-topic` | `GossipTopicProofs` |
| `DatagramBus` | `go-iroh-custom-transport` | `DatagramBusProofs` |
| `ExamplePrograms`, `Exchange` | 36 client/server programs and the machine that runs them | |
| `Admission` | the abstract specification of a deciding server | |
| `Dispatch` | custom-router, incoming-filter, alpn-negotiation, key-exchange; implements `Admission` | `DispatchProofs` |
| `Documents` | docs-live-sync, docs-sync, blobs-store | `ContentProofs` |
| `Gateway`, `MCGateway` | the HTTP side of `go-iroh-blobs-gateway` | `ContentProofs` |

**GossipKV.** `put` signs the next timestamp of the node's clock and stores it, the
caller broadcasts it (or fails to); `applyEvents` takes any message of the topic,
intact, edited, or garbled, and runs decode, verify and merge. A topic that
repeats, reorders and loses is a set that only grows and that nobody is obliged to
read. `signed` and `applied` are history variables.

**DumbPipe / Pipe.** Each end has the command (`pc`) and the two copy goroutines of `forward`.
`kind` says which command it is: a dialer's other side is its own stdio, or the client
of connect-tcp or connect-unix (`acceptLocal` takes it, and `acceptLocalReturns` on an
interrupt); a listener's is stdio or, under `listenForward`, a local service that
`forwardLocal` connects to, and that may refuse (`forwardLocalFails`). Only the stdio ends and
connect-tcp linger before they close. Payload is counted in units; the five handshake
bytes are one. The `world` is fixed at the start: `steady` (nothing fails,
`lingerTimeout` is long enough), `silent` (a stdin delivers nothing more) or `faulty`
(interrupts, stdin and stdout errors, lost connections, short lingers). Two operators name
what the code does not promise: `Cut` (an interrupt of an end that does not linger discards
what is on its way) and `Jammed` (a copy to a broken stdout does not cancel the stream's read
side, so the peer's writer, blocked by flow control, stays blocked while the connection is
kept). `Terminates` holds outside `Jammed`, and its definition characterises the stuck
states exactly. `Pipe` knows none of this: a source puts units in, at most the window ahead of
the other side's sink, and ends (`eof`), fails or is cut; a sink gets them and fails, or succeeds with
all that was put in once the source has ended or failed, never when it was cut. The mapping counts what
went in and came out without the handshake (`PutIn`, `GotOut`) and reads how a source ended off its goroutine
and its stdin (`SourceIs`).

**SendmeReceive.** Files are inodes holding the chunks written to them, so that
`os.Create` on an existing name truncates, and an open file keeps its inode after a
rename. Receivers of one ticket in one directory share `.sendme-recv-<root>`. `Kill`
stops a receiver between any two steps; `Start` runs it again.

**SendmeSend.** The start-up of `startSend`, the accept loop with its connection and
stream goroutines, the interrupt, and `Close` with its waiting order.

**GossipTopic.** `awaitNeighbor` reads `up` and `changed` under the lock and waits
outside it; channels are numbered so that "closed" means "smaller than the current
one". Links may be steady, flapping or adverse; in an adverse overlay an event stream may
yield an error, on which `consume` returns (`consumeFails`), and only the deadline ends a wait on its node.

**DatagramBus.** The three steps of `send` (lookup under the mutex, put into the
channel, count) are separate actions, because `Serve` and the endpoints run between them.

**ExamplePrograms / Exchange.** Each program is a record: its goroutines, and for each
its calls in order (connect, accept, open, write, half-close, read, close, deferred
calls, channel sends and receives, the shutdown of an endpoint, a router, a listener or a
context). `Exchange` gives each kind of call its meaning once. Nothing ends by itself
when `run` returns: what a program stops, by a call or by a deferred one, is in its record, `off` is
what has been stopped, and a goroutine's context is that of `run` (with its deadline), of a signal
(graceful-shutdown, without one; `Interrupt` is the user's ^C), of the router, of a listener, or of another process.
A program is therefore as short as its control flow, and a new example is one more
record. Relays, published records and peers that answer a query are outside these
programs: a call that waits for them (`Outside`, `WaitPath`) succeeds, or fails in a bad
world. The world is `calm`, `broken` (the network goes down at some point) or `late`
(the deadline passes at some point, datagrams get lost).

**Dispatch / Admission.** A dial passes handshake, filter, accept queue, lookup and
handler while `main` changes the table (`Handle`, `Remove`) or the gate (`CloseGate`),
connections break and the context expires. `Admission` knows only: ask, one decision
against what is admitted now, and the answer. The mapping reads admitted names off the
table, gate and policies, the phase off the client's call, and the decision off
`verdict`, which is set at the lookup (or by the filter's last run, or by the alert).
The peers of `Dispatch` dial independently of each other, because a server has to
expect that; the scripted dials of `run` are some of its behaviours.

**Documents.** `main` follows the script of `run` (a sequence of steps), while the
library's neighbour events, deliveries and reconciliations interleave with it. A
reconciliation has three steps: the asker's snapshot, the answerer's merge and
snapshot, the asker's merge. `put` is two steps, the content and then the entry that names
it, and either may fail on its store (`StoreFails`). A StartLiveSync that fails withdraws the
namespace it had published (`StartLiveSyncFails`). Which of two entries is newer, and what a store and its file do
with it, is go-iroh's (`Newer`, `Merge`, `TakeIn`). The third script is blobs-store's: a store directory whose blobs live by a temp tag
(gone with the process) or a persistent one, a temporary file between NewBlob and Commit that the collector does not see (`parts`), a collector that deletes blob by blob, a call
that may fail at any step, and a process that may be killed (`Kill`) and run again with the same
`-dir` (`Rerun`).

**Gateway.** A request is a route, an identifier and a name; `ServeHTTP` gives the set of
answers it may get (the provider may be out of reach). A client reads the index of a
collection and follows its links, or asks anything else. Names are sequences of
characters, of which only five kinds matter: white space, at which the client splits the
index; `?` and `#`, which end the path of a URL; a `%` that starts no escape, which makes a URL
invalid; an escape (`%41`, one character here), which the gateway sees decoded; and all others.

## 3. Runs

Every module of a running system states its type invariant as `TypeOK` (`Gateway`, whose
variables only record the last request, has none). Those of `GossipKV`, `DumbPipe`, `SendmeReceive`, `SendmeSend`, `GossipTopic`,
`DatagramBus`, `Dispatch` and `Documents` are theorems (`TypeCorrect` in each module of proofs,
`DocumentsTypes` in `ContentProofs`), so that no run repeats them; in `Exchange` it documents the
values of the variables.

| Run | Instance | Shows |
|---|---|---|
| `gossip_kv` | 2 nodes, 2 keys, 2 values, 2 clock readings, symmetry | stores are newest, order-independent, authentic, never step back |
| `gossip_kv_ties` | a clock that repeats a reading | **violation**: with equal timestamps the result depends on the order (finding) |
| `dumbpipe` | 1 and 2 units, window 1, all commands, all worlds | implements `Pipe`; no silent loss, half-close travels, both ends return unless jammed |
| `sendme_receive` | 1 receiver, 3 files, 2 chunks, 2 slots, 2 runs | whole files only, nothing replaced or left behind |
| `sendme_two_receivers` | 2 receivers in one directory | **violation**: one reports success with a truncated file (finding) |
| `sendme_send` | 2 files, 1 slot, 3 streams on 2 connections | the store outlives readers; every interrupted send ends clean |
| `gossip_topic` | 3 nodes, 2 links, 2 drops of a link | no lost wake-up, waits return, both receive |
| `datagram_bus` | 2 ports, capacity 1, 2 sends each | order, integrity and accounting with full queues |
| `exchange` | 36 programs x 3 worlds | no early failure, complete success, run returns, no goroutine left |
| `dispatch` | 5 servers, 2 peers, 2 table changes | implements `Admission`; newest version; reports and handlers end |
| `documents` | 3 programs, 2 replicas, their whole scripts, 2 runs over one directory | awaited means received, no false alarm, nobody refused, what is named is there and nothing else stays, no temporary file after a run that returned, convergence |
| `gateway_links` | up to 2 entries, names of up to 2 of 5 characters | **violation**: a link of the index leads elsewhere when a name has a blank, `?`, `#`, a bad `%` or an escape (finding) |

Each property of a passing run has a mutant in `PROJECT.json`: a plausible bug in one
definition that makes TLC find the property violated.

## 4. Bounds, and why they are enough

* `MaxTime` (GossipKV): two clock readings give older, equal and newer updates of a key;
  the proofs remove the bound altogether.
* `Units`, `Window` (DumbPipe): one unit one way and two the other against a window of one
  (the handshake counts) let a writer block in either direction, and one direction end while the
  other is busy.
* `NFiles`, `Chunks`, `Jobs`, `MaxRuns` (sendme): more files than slots, files that can be
  partial, one restart over what a kill left.
* `SeenCap`, `MaxDown` (GossipTopic): a full channel, and a link that flaps twice (before
  and during a wait).
* `QueueCap`, `MaxSends` (DatagramBus): the second datagram meets a full channel.
* Exchange has no bound: no call repeats, so each program is finite. The rpc example makes two of
  its three calls; three differ from two in nothing the goroutines share.
* `MaxChanges` (Dispatch): two changes remove a name and add it (or another) back while a
  connection is queued. Two peers compete for the accept loop.
* Documents bounds only the runs of blobs-store over one directory (`MaxRuns` = 2: one that is
  killed or fails anywhere and one over what it left), a bound that the proofs remove; the scripts are finite. docs_sync writes three of its five
  keys: one both replicas write, one that is updated later.
* MCGateway: two characters and two entries are enough for a violation; the theorem has no bound.

## 5. Fairness

Weak fairness means a goroutine that can run does. It is assumed for goroutines of the
modelled process, for loopback delivery, and for `time` where a deadline must pass
eventually; never for users (interrupts), peers that need not dial, or networks that
need not fail. `Dispatch` has strong fairness of `Accept` per peer: the queue is
first-in first-out in the code and unordered in the model, and strong fairness keeps
what the order guarantees. It also requires that the filter runs at least once on a
connection, not that it runs again. In `DumbPipe` the sources (stdin, local clients and
services) deliver what they have in every world but `silent`, where they need not, and a
local client is not obliged to come; in `Documents` no kill, rerun or failure has to happen.

## 6. What is proved

A theorem holds for every value of the constants that satisfies the module's named
assumption, so its proof removes the bounds of section 4. Each module of proofs starts with
its inductive invariant, has one lemma per action or group of actions (what the step keeps), and
ends with the theorems. The invariants were checked on the runs' instances before they were proved.

| Module | Theorem | States | For every |
|---|---|---|---|
| `GossipKVProofs` | `NewestWins`, `NoStepBack`, `OnlySignedTravels`, `ScopesAreAuthentic`, `Converges` | below | nodes, keys, values, clock range |
| `DumbPipeProofs` | `CopiesAreComplete` | `Spec => []NoSilentLoss` | stdins, flow-control window, handshake or none, commands, world |
| | `LingerSuffices` | `Spec => []NothingLost` | as above |
| | `DumbPipeImplementsPipe` | `Spec => ImplementsPipe` | as above |
| `SendmeReceiveProofs` | `TargetsAreWhole`, `NilMeansComplete`, `TidyExit` | `[]ExportedIsWhole`, `[]SuccessIsComplete`, `[]NothingLeftBehind`, for one receiver | collection, jobs, kills and reruns |
| | `ExportsAreFinal` | `NeverReplaced`, for one receiver | as above |
| `SendmeSendProofs` | `ReadersHaveAStore`, `TicketsAreGood` | `[]StoreOutlivesReaders`, `[]TicketIsServed` | files, slots, connections, streams |
| | `ExitsAreClean` | at every exit nothing is left: the safety half of `InterruptEnds` | as above |
| `GossipTopicProofs` | `WakeUpsAreNotLost`, `OverlayComesFirst` | `[]NoLostWakeup`, `[]OverlayBeforeBroadcast` | capacity of `seen`, number of drops |
| `DatagramBusProofs` | `DatagramsArriveAsSent`, `EveryDatagramIsCounted` | `[]ReceivedAsSent`, `[]Accounted` | finite set of ports, capacity, sends |
| `DispatchProofs` | `DispatchImplementsAdmission` | `Spec => AtomicAdmission` | finite set of peers, table changes |
| | `NewestIsChosen` | `[]NewestInCommon` | as above |
| `ContentProofs` | `AwaitReceivesAll`, `ChecksAreRight`, `NobodyIsRefused` | `[]AwaitedMeansReceived`, `[]NoFalseAlarm`, `[]NoNeighborRefused` | number of runs over one directory |
| | `NamesAreHeld`, `CollectedIsClean`, `TempFilesGo` | `[]NamedIsHeld`, `[]OnlyNamedStay`, `[]NoTempFileLeft` | as above |
| | `PlainNamesAreLinked` (of `Gateway`) | below | alphabet, requests, provider |

**DumbPipe.** Neither property is inductive: that a copy which ended saw everything is a
fact about the other end's goroutine, some steps earlier. `Inv` follows one direction of the stream
through its life. `Counts`: what is read has arrived, what has arrived was sent, and the handshake
precedes every copy. `Ends`: the write side is ended only by the goroutine that writes, when
everything is written, or its stdin failed, or the peer never got to copying (`Stuck`, which is
for good). `NoSilentLoss` follows from these two. For `NothingLost`, `ClosedLate` adds that with nothing
failing the first connection to close, or the first read to fail, comes when both ends have copied
everything or one is `Stuck`. That is the argument for the linger: an end closes after its peer's
half-close has arrived, or after a time in which the peer reads what was sent.
The refinement (`DumbPipeImplementsPipe`) maps each copy to a put or a get, the end of a copy to the end of a
source or sink, and everything else (dial, accept, handshake, deliveries, closes, the linger) to no step
(`Unseen`). It needs two more inductive facts. `Opened`: the two copies of an end start in one step, and the listener's
only when the dialer's have. `Unread`: an end that does not copy yet has read at most the handshake,
so that the window counts payload only. That a success follows the true end of the source is `Ends`: a direction that ended
because the peer gave up belongs to a `Stuck` peer, which copies nothing.

**SendmeReceive.** `Typed` (ranges, stages of a run, and the places in the semaphore) holds for any
number of receivers. The rest assumes `OneReceiver`, that nobody else runs in the directory, which is what the
command expects and does not enforce. The hypothesis is needed: with two receivers TLC finds
`ExportedIsWhole`, `SuccessIsComplete` (the run `sendme_two_receivers`) and `NothingLeftBehind` violated, with
three `NeverReplaced`. The invariant says what a run has at each stage: while it downloads, no target
exists and a job's inode holds exactly what its offset says (`Downloading`); while it exports, the entries
before `next` are in place and the others wait, whole, in the temporary directory (`Exporting`); and what
it leaves (`Returned`). A kill between any two steps keeps it because a download truncates the file it finds.

**SendmeSend.** `Resources` ties store, endpoint and accept loop to the point `startSend` or `Close` has
reached, `Teardown` says who may have stopped whom, `Promise` what a printed ticket was preceded by, `Goroutines`
that connections and requests are served only while `serve` runs or waits. `SemBoundsImports` counts the
places of the semaphore.

**GossipTopic.** `NoLostWakeup` is inductive with the types. `OverlayBeforeBroadcast` needs the chain from
links to events to `up` to the waits: until a link goes down, a neighbour that is recorded or still in an event
stream is linked (`HeardOfIsLinked`), and each wait that is over has its link (`WaitedIsLinked`). The chain of three nodes is the
program's; the capacity of `seen` and the number of drops are arbitrary.

**DatagramBus.** Order needs more than order: `InOrder` says that what a port was handed and what waits in
its channel are, one after the other, in each sender's order, and `NoneEarly` that no datagram is anywhere before the bus
has decided on it, so that the one a call of `send` holds is new to every port. For `Accounted`, a sum over the
ports is the number of things counted (`Total`), so that one more at one port is one more in all (`TotalUp`,
`TotalDown`), and a call that moves on changes the number of calls under way by one (`CallsMoveOn`).
`BalanceIsKept` is then linear arithmetic, action by action. The number of ports is assumed finite for this.

**Dispatch.** The refinement is proved step by step: `InitRefines` maps initial states; each action of
`Dispatch` maps to asking, deciding, answering or a stutter of `Admission` (`NextRefines`), with the mapping kept peer by peer
(`AskedOf`, `PhaseOf`, `DecisionOf`). The invariant it needs relates the four places in which a decision leaves a
trace (link, handler, reply, report) to the one point where it was taken (`Verdicts`), says which connections exist at all (`Connections`) and
what a report was preceded by (`Reports`). `PassedOver` adds, for `NewestInCommon`, that a version which was passed
over had been refused.

**Documents.** The first part of `ContentProofs`. The properties
say what follows from many steps of several actors, and `Inv` says what each of these steps leaves behind.
`OnlyWritten`: an entry in a store, in the file, in a broadcast or in a reconciliation is one that main has put, so that
counting to n means having the n entries there are (`CountsAreContents`), and no put finds its own entry or a newer
one (`PutsAreNew`). `OneEach` with `MergeKeeps`: a merge drops only what something newer replaces, which is why
crossing reconciliations lose nothing (`WritesSurvive`). `Admitted`: whoever has joined, or may be asked, has published the namespace,
and only `Close`, after run has returned, or a StartLiveSync that failed, which makes run return, withdraws it. `Awaited`: bob's file is his store, also for what arrives by
reconciliation. `Synced`: between `syncOnce` and its return the answer is owed, on its way with alice's entries,
or taken in, unless a connection broke. `Content`: the blob precedes the entry that names it. `Stored`: what tags, temp
tags and blobs a run of blobs-store has at each call, whatever the directory held when it began; it is what
makes the theorems hold for any number of kills and reruns. `Parts`: this run's temporary file exists only between its NewBlob and its Commit, or
because it was killed there. The scripts are fixed sequences, so that
the lemmas on them (`LiveSyncCalls` to `DocCalls`) are facts about their fourteen places. The assumption is
`DocumentsAssumption`, that blobs-store is run at least once.

`GossipKVProofs` proves, for all nodes, keys, values and clock ranges:

| Theorem | States |
|---|---|
| `TypeCorrect` | `Spec => []TypeOK` |
| `NewestWins` | `Spec => []StoreIsNewest` |
| `NoStepBack` | `Spec => NeverBackwards` |
| `OnlySignedTravels` | only updates somebody signed, with their own data, are in the topic, in an outbox or applied |
| `ScopesAreAuthentic` | `Spec => []Authentic` |
| `Converges` | if no clock repeats a reading, `Spec => []OrderIndependent` |

The argument: everything is reduced to one cell, a store's entry for one scope and one
key. `AcceptsCells` says what merging an update does to a cell, `CellPreserved` that the
cell stays the newest of what was accepted (`CellIsNewest`), and `StoreByCell` puts the
cells together. `StoreIsNewest` is inductive with `TypeOK`. `Authentic` is not: an entry
says nothing of where it came from, so the invariant `Signatures` adds that outboxes, the
topic and the accepted updates hold only signed updates. For `Converges` the newest of a
set must be unique, which is the inductive invariant `UniqueTimestamps`: one signer never
signs two updates with one timestamp. It needs the clock assumption, and `gossip_kv_ties`
shows that the theorem is false without it. The only assumption on constants is
`ConstantsAssumption`.

**Gateway.** The second part of `ContentProofs` proves `PlainNamesAreLinked`: for every alphabet, every set of requests and
every provider whose collections are `Linkable` (no name is empty, contains a character
that the index, the URL or its parser treats specially or decodes, or occurs twice), `Spec =>
[]LinksLeadToEntries`. Its assumptions are that, and that collections and names are sequences. The
invariant `LinksAreNames` adds to the property that the links a client holds are the names
themselves; `NothingDecoded` says that the gateway sees such a name as it is, `OneOfThatName` that `serveEntry` then finds the one entry. The run
`gateway_links` shows that the theorem is false without `Linkable`.

## 7. Only model-checked

* Every liveness property (`~>`, `<>` under fairness): ENABLED and
  fairness are outside the prover's reach.
* `Exchange` (`NoEarlyFailure`, `SuccessLosesNothing`): 36 finite programs in three worlds. The module has no
  constant, so that TLC's search is complete and a proof would only repeat it, program by program.
* What the theorems about sendme receive say without `OneReceiver`, and `Converges` with a clock that repeats: false, and shown so.

## 8. Not modelled, and known limits

* The library: BAO verification, CRDT merging inside Automerge, the gossip overlay, the relay
  protocol, pkarr and DNS. The programs rely on them, and the models take what the programs use.
* Encodings and printed text, except where a property is about them (gossip-kv's decoding of
  malformed messages). In particular the text of TLS alerts on which
  `noVersionInCommon` and custom-router's `report` depend.
* After its deadline a client inside `io.ReadAll` may wait for ever when the server's
  goroutine has stopped without closing the connection: `HungRead` in `Exchange` is exactly that
  state, and `expired` in `Dispatch`.
* graceful-shutdown runs under a signal context without a deadline and defers neither the router's nor the
  server's shutdown. When its connection is lost before the handler has the request, `WaitStarted` waits until ^C:
  `HungWait`, which `RunReturns` excludes. When its `run` returns early with an error, the router still accepts and a
  handler may sit in its select: `Undrained`, which `NoGoroutineLeft` excludes. The liveness properties exclude
  these cases and `HungRead` only.
* What runs in another process (public-endpoint's `listen`) does not end with `run`, and is not asked to.
* A kill of blobs-store between NewBlob and Commit leaves a temporary file that no later run removes: the model has
  it, and `NoTempFileLeft` is about the runs that return.
* External assumptions taken from use: closing a stream on a closed connection is not an error;
  a router's handlers run under a context without run's deadline; gossip between neighbours
  delivers; a reconciliation that breaks is not retried by itself.
* blobs-store's second run over one directory finds the remote blob there. Whether the
  library's downloader then asks a provider is its choice; if it does not, `download` fails on its
  own counters. The model has both, and `NoFalseAlarm` leaves that one case out.
* dumbpipe handles one client and one connection at a time in the model; the loops start
  the same goroutines for each. The race of the two providers is one step in blobs-store.
* tickets' encoding; path-selection's policy; the text of reports (doctor, net-report).
* relay-online, net-report, dns-resolve and the pkarr programs have one goroutine that makes one
  call of an outside service, repeats it or gives up, and prints; keys, addresses, address-filtering
  and pkarr-packet build values and print them. They keep no state that a second actor could change.
* The catalogue checker parses Markdown and lists a directory, at test time and in one
  goroutine: a model of it would transcribe it. The Rust peers run in interoperability tests only.

## 9. Plan

Done: the most stateful programs (gossip-kv, dumbpipe, sendme), the concurrency inside the
rest, the deciding servers, the forwarding commands of dumbpipe, blobs-store over restarts,
the gateway, and the programs that wait for relays, paths and discovery; and the proofs
of section 6.

What is left: several clients at once under listenForward, each with its own pipe.

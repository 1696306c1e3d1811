# Verification of dash-dim

dash-dim is a set of C++ programs that carry TCP traffic over other TCP
connections: a transparent proxy, a proxy that spreads one connection over
several paths, two experimental proxies, and a DASH video client and server
to measure them with. Each program has one thread that runs an epoll loop;
everything else happens in callbacks of that loop.

This directory holds TLA+ models of the code, TLC configurations that check
them on small instances, and TLAPS proofs. All paths below are relative to
`src/`. `PROJECT.json` lists the runs, the mutants of every property, the map
from definitions to source lines, the findings and the hazards.

## The system

| component | files | state it keeps | operations | interacts through |
|---|---|---|---|---|
| event loop | `base/simple_epoll_server` | callback per descriptor, ready list and the list of the current round, alarm multimap | register, modify and unregister descriptors and alarms; one round of the loop; destructor | `epoll_ctl` and `epoll_wait`; `OnEvent`, `OnShutdown`, `OnAlarm` |
| alarms | `base/base_alarm`, `base/base_epoll_alarm_factory` | deadline; registration token | Set, Update, Cancel, Fire | the loop's alarm map; delegates |
| context, threads | `base/base_context`, `base/base_thread`, `base/epoll_thread` | posted tasks, exit visitors, `running_` | PostTask, ExecuteTask, HandleEvent, Start, Stop | deletes objects after the dispatch that condemned them |
| stream sequencer | `sequencer/` | ring of blocks, interval set, read position, highest and final offset | OnStreamFrame, Readv, MarkConsumed, Clear, Flush, blocking, StopReading | `StreamInterface` callbacks into the session |
| transparent proxy | `tpproxy/tpproxy_server`, `interval_budget` | two sockets, a write buffer and read and write budgets each, peer pointers | OnEvent, budget alarms, Notify, deletion | each side sends into and notifies the other |
| multipath proxy | `tpproxy/mpproxy_*` | ends of the paths, a server per session and host with its ready and wait lists, read and write buffers and sequencer; the table of sessions | connect, join a session, schedule, frame, send, reassemble, close, delete | paths and servers notify each other; frames between the two hosts |
| hen | `hen/` | two sticks per host for a connection, write buffers, what each knows of the other | accept, connect, read the address, Sink, flush, close, delete | Sink and Notify between the sticks of a host; exit visitors |
| octopus | `octopus/octopus_base` | a dispatcher and a hand per host and session, write buffers, flags of the meta exchange, alarms | meta exchange, signals, alarm-driven socket I/O | SignalFrom in both directions, nested |
| dash client and server | `dash/` | requested and received segments, play back buffer, two alarms; owed requests | request, response, play back | one TCP connection |
| rate adaptation | `dash/dash_algorithm` | the quality and what each of eight algorithms remembers | GetNextQuality | called by the player for each segment |
| interval set | `sequencer/quic_interval_set.h` | sorted disjoint intervals | add, union, intersection, difference, complement, queries | what the sequencer has received |
| codec | `base/byte_codec` | position in a buffer | write and read fields | the messages of all programs |
| goodput filter, budgets | `tpproxy/windowed_filter.h`, `interval_budget` | three estimates with their ages; rate and bytes left | update, increase, use | two alarms of each path |
| tcp | `tcp/` | listening socket | accept loop | endpoints created per connection |
| addresses, time, files, logging, tools | the rest | values | | |

What makes it hard to get right:

* **Callbacks that change what is being iterated.** Any callback may unregister,
  replace or re-register any descriptor or alarm, its own included, while the
  loop walks its lists (event loop, alarms).
* **Calls back into the caller.** `CloseFd` notifies the peer, whose `CloseFd`
  notifies back; deletion is put off by a posted task (all proxies).
* **Edge-triggered readiness.** A budget, a full buffer or an early return can
  leave a descriptor ready with no further edge to come (proxies, accept loop).
* **Several bits in one report.** `OnEvent` tests the bits in turn and goes on
  after one of them closed the socket.
* **Reordering and overlap.** Frames of one stream come over several paths, in
  any order, twice, or cut differently; a ring buffer reassembles them.
* **Limits.** The interval limit, the window, the wrap of the ring, the last
  short block, budgets that go below zero.
* **Time.** Alarms set for now, put off, or cancelled in the round in which they
  are due.

What correctness means, per component:

* event loop: a listed descriptor has a callback and is served; the kernel
  watches what the table says; a node outlives the callback that runs on it;
* alarms: one entry per set alarm; not early, not after Cancel, not twice in a
  round, not never;
* sequencer: the application gets the accepted bytes, in order, once, and is
  told whenever there is something to read; nothing buffered is overwritten;
* proxies: the byte stream is a faithful prefix in both directions, what one
  side wrote before it closed is delivered, no data wait for a wakeup that never
  comes, both halves are deleted once and neither calls a deleted one;
* hen, octopus: the objects of a host point to each other exactly as long as both
  live, data keep their order through all buffers, and the end of one
  connection reaches the other host;
* dash: every segment is requested and received once; the player plays while it
  has something to play; the session ends;
* data structures and algorithms: the interval set is the set it stands for,
  what was written is read, an estimate is recent, a budget is no burst, and a
  quality exists and is one the link carries.

## The modules

| module | models | built on |
|---|---|---|
| `InOrderStream` | what a reassembly buffer promises (abstract) | |
| `SequencerBuffer` | `QuicStreamSequencerBuffer` | implements `InOrderStream` |
| `StreamSequencer` | `QuicStreamSequencer` with `TpServerBase` as its stream | `SequencerBuffer`; implements `InOrderStream` |
| `SequencerProofs` | buffer: types, window and count, bytes intact, blocks freed in time, exact regions; sequencer: no lost wakeup, no unannounced end; both implement `InOrderStream`, for every geometry | `StreamSequencer` |
| `EpollServer` | descriptors, ready list and rounds of `SimpleEpollServer` | |
| `EpollServerProofs` | the registry is consistent, for any descriptors and callbacks | `EpollServer`, TLAPS |
| `EpollAlarms` | alarm map, `BaseAlarm`, `QuicEpollAlarm` | |
| `EpollAlarmsProofs` | alarms, tokens and the map agree, and alarms go off on time, for any alarms and times | `EpollAlarms` |
| `Sockets` | a nonblocking socket under edge-triggered epoll (kernel) | |
| `TpProxy` | `TpProxyLeft` and `TpProxyRight` of one connection | `Sockets` |
| `TpProxyProofs` | peers, registrations, wakeups, both byte streams and closing, for any chunks, budgets and amounts of data | `TpProxy` |
| `MpProxy` | one session of the multipath proxy on both hosts, with its paths | (the sequencer as `StreamSequencer` shows it) |
| `Links` | TCP connections between two modelled programs, level triggered (kernel) | |
| `BaseContext` | posted tasks, exit visitors, the end of a loop | |
| `Hen` | the relay of `src/hen` on both hosts, with its client and echo server | `Links`, `BaseContext` |
| `HenProofs` | the two sticks of a host agree, and the data stay whole and in order, for any requests and any room | `Hen`, TLAPS |
| `Octopus` | the single path proxy of `src/octopus` on both hosts | `Links`, `BaseContext` |
| `OctopusInvariant` | the inductive invariants of the octopus proxy, and what a call does, moves or loses | `Octopus` |
| `OctopusProofs` | hands and dispatchers agree, and no unit is lost or reordered while the connections live, for any amounts of data, resets and room | `OctopusInvariant`, TLAPS |
| `Dash` | video player and segment server | `Links`, `BaseContext` |
| `DashProofs` | player, buffer and alarm agree and the bytes of a segment add up, for any segments and any room | `Dash`, TLAPS |
| `IntervalSet` | `QuicIntervalSet` and `QuicInterval`, against sets of numbers | |
| `ByteCodec` | `DataWriter` and `DataReader` | |
| `Goodput` | windowed maximum, `IntervalBudget` and the alarms that use them | |
| `GoodputProofs` | the bound on bursts and the estimates, for every window, rate and lateness | `Goodput`, TLAPS |
| `DashAdaptation` | the eight algorithms that choose a quality | |
| `MCAlgorithms` | the last four in one run, one of them per behaviour | `IntervalSet`, `ByteCodec`, `Goodput`, `DashAdaptation` |
| `MC...` | constants for TLC that are not plain values | |

A component's object is a record, each of its methods an operator from the
record to the next one, so that a caller's handler is the composition of the
calls it makes; the actions of a specification are the entry points.

### SequencerBuffer

The record `buf` has the members of the class; `received` is the interval set
as a set of offsets (its `Size()` is the number of maximal runs), `memory` the
bytes of all blocks by cell and `blocks` the indices of the blocks that exist.
Memory of a block that is created or freed holds `NoByte`: the code leaves it
uninitialised, and no property may depend on what it is. `OnStreamData` is one
step, as the code runs it, from the window test to the copy; that intervals are
added before the limit is tested, and the copy left out when it is reached, is
in the model. `Consume` is the loop shared by `Readv` and `MarkConsumed`:
`ChunkEnds` are the places where the loop stops and `RetiresAt` the
conditions of `RetireBlockIfEmpty`. `accepted`, `delivered` and `limitHit`
are history.

`allocate_blocks_on_demand_` is never set in the repository, and the two
branches of `CopyStreamData` it guards are left out.

### StreamSequencer

Every public method is an action; `HandleStreamFrame` follows
`OnStreamFrame`, `CloseStreamAtOffset` and `OnFrameData`. The callbacks are made
inside the handler, as in the code: `OnDataAvailable` of `TpServerBase`
calls `Read`, which calls `Readv`. A failed `DCHECK` is fatal in the build of
`CMakeLists.txt` and sets `aborted`. `OnUnrecoverableError` of `TpServerBase`
only logs, so the stream goes on after an error: see "Seen while modelling".

### EpollServer

`eps.nodes` is `cb_map_`, `eps.ready` and `eps.tmp` the two intrusive lists
and `eps.kernel` the interest set of the epoll instance. The lists are sets:
the code walks them in order, the model in any order, which adds behaviours
and takes none away. Every method can be called between rounds and from within
a running `OnEvent`; a callback may do anything any number of times. Nested
loops are not modelled (`DCHECK` in the code forbids them).

### EpollAlarms

`eps.map` is the multimap in order; `cursor` the iterator of
`CallAndReregisterAlarmEvents`. One tick is the granularity of the clock the
proxies use, and a millisecond is `Millisecond` ticks: `WaitTime` is `wait_time_in_us`, and `Sleep`
what `epoll_wait` is asked for, which takes whole milliseconds (less than one is raised to one, the
rest of a longer time is cut off). A deadline less than a millisecond ahead is therefore slept past. `Alarms \ Repeating` are `BaseAlarm` objects, whose server-side
callback always returns 0. The clock may run between any two steps, those of a
round included, so a callback may take any time. `Timeout` is the
`timeout_in_us` of the server; `Forever`, the case in which only alarms bound
the sleep, is the one checked.

### Sockets and TpProxy

`Sockets` is the kernel, as far as the code relies on it: nonblocking reads and
writes, the bits `epoll_wait` reports, and edge-triggered arming, where a report
disarms a descriptor until something new happens or it is modified. A socket
wakes for room only when it was full: the fewest edges the interface allows.

`TpProxy` has one record per side: descriptor state, write buffer, budgets,
the two alarms, the peer pointer and the deletion state. Each callback
is one action and runs to its end through all the calls it makes, the peer's
`SendData`, `Notify` and `CloseFd` included (`Then` puts one call after another; once a CHECK
failed nothing else happens). Methods that stay with their own object are operators on
one object, those that call the peer on the pair. Deletion by posted task is an action of its own. The batch of one
`epoll_wait` is not modelled: a handler that runs late in a batch finds the
socket as it is then. A read may stop after any chunk when the budget is used up;
the write budget is counted in units of `Quota` per alarm, at most `MaxBudget`.
The remote hosts send, read slowly, finish (FIN) and reset at any time.

### MpProxy

`mp` is the state of one session on two hosts. `conn[h][p]` is the end of path
`p` on host `h` (`TcpConnectionRight` on the client, `TcpConnectionLeft` on the
server), `srv` the `TpServerLeft` and the `TpServerRight`s, each with the socket
of its application, `link` the TCP connection of a path and `table` the entry of the
session in `uuid_sessions_`. A `TpServerRight` is named after the path whose META
frame made it, so that a second one for the same session can be told from the
first. Frames are records; data are numbered units, which the scheduler may cut
anywhere and in any proportion (the bandwidth estimates decide in the code).
A frame may be read in part, at any point of the stream.

`io` is `io_status_` with the combinations of bits the code sets. Each method is an
operator, and a callback runs through all the calls it makes, on objects of
both kinds: for example `RightCloses` is `CloseFd`, `CloseEntity`, `Notify` of the
server, its `CheckCloseFd` and its `DeleteSelf`. A `CHECK` that fails sets `fault`, after
which nothing happens; a use of a deleted server does the same. The properties say what
holds until then.

`QuicStreamSequencer` is not composed in but replaced by what the `sequencer` run
shows of it (`Readable`): composing them would multiply the states of the
ring with those of two hosts. Frames of a session stay far below its window
and interval limit here.

`TpServerLeft` differs from `TpServerRight` in one respect that decides its liveness:
nothing registers its descriptor, so it gets no events and stays blocking. Its
reads are steps of their own (`LeftReads`), and while one of them blocks, no other
callback of the client host runs (`Blocked`, `Runs`).

### Links and BaseContext

`Links` is the kernel for programs whose both ends are modelled: a link has a near
end, which connects, and a far end, which is accepted. What one end sent and the
other has not read is in a queue of at most `Room` units. Reports are level triggered:
`hen` and `octopus` register their descriptors so unless their edge-triggered option is
turned on, which is not modelled, and so does the dash server after its first request. `d_echo`, the
dash server until then and the dash client are edge triggered. Where that loses a report their
modules say so (`EchoOnEvent`, `edge` in `Dash`). It does not for the dash client: it reads
until nothing is left, leaves EPOLLOUT out of its mask once it is connected, and gives its descriptor up at
a hangup or at the end of file, so that what it is told is what a level-triggered one would be.
`reset` is the state of the connection, `error` that no call has returned it
yet; a second `send` after that raises SIGPIPE. `BaseContext` has the
queue of posted tasks, all of which are "delete this", and the visitors that
the destructor calls.

### Hen

`hx` holds links, sticks and contexts. The objects BL and BR of host B and CL
and CR of host C hand what they read to their mate. An action is one `OnEvent`, through
all the calls it makes on the mate; deletion is a task of its own; `SignalHost` is the
signal that ends a host, `End_` the end of a process by it, by a `CHECK` or by SIGPIPE.
The client is `a_echo`, which waits for each answer, the server `d_echo`.

### Octopus

`ox` holds links, objects and hosts. On the caller, the dispatcher CD has the
connection of the application and the hand CH that of the other host; on the
callee, SH and SD. The first unit on the relay is the address of the origin
server, the first one back the answer. Hands are served by epoll and flush by a
bandwidth alarm, dispatchers are served by a socket alarm. Signals between the two
objects of a host run nested inside the handler, as in the code. The budget that
the code computes from `TCP_INFO` (`GetWriteBudget`) is any number of units, and
at least one when nothing is under way on the relay.

### Dash

The player asks for one segment at a time, by its size, and plays frame by frame from
an alarm; a second alarm delays requests. The client's round is split where the
server can interfere: after `epoll_wait`, and before each alarm. Qualities
(and so sizes) and delays are any: which ones the algorithm chooses is
`DashAdaptation`'s subject. The loop of `Responce` over the requests that wait is a recursive
function, one round (`AnswerFirst`) for each. The variable `predicts` stands for those algorithms whose
`BandwidthPredicator` aborts when a download took no time.

### IntervalSet, ByteCodec, Goodput, DashAdaptation

The set of intervals is a sequence in the order of the comparator, an iterator an
index, `end()` the index behind the last. Insertions and erasures move the
iterators as they do in the code. `SetsAreExact` compares each operation and
query with the one on sets of numbers, for every pair of sets the run reaches: all of them.

An integer of `ByteCodec` is the set of its bits, so that 64 bits
are within reach of the checker; both variable length encodings are modelled with their
prefix bits, at the sizes where an encoding ends and one beyond.

`Goodput` counts time in budget intervals and rates in bytes per interval. `Late`
is how many intervals an alarm may be late. `excess` is history: what was sent
beyond what the rate allowed in the time that has passed.

`DashAdaptation` compares fractions by multiplying out their
denominators, where the code uses floating point; the weights of the fuzzy rules of
`fdash` and the exponential of `svaa` are choices over the qualities they may lead to. The bandwidth
share that `panda` smooths and keeps between its calls is not modelled: any share may come at each
request, and `Panda` is the choice of a quality by it. So `RaisesOnlyWhatTheLinkCarries` holds of `panda`
with respect to its share, and nothing is said of how the share follows the link.

## The runs

| run | question | result |
|---|---|---|
| `buffer` | is the ring right under any order of frames, reads, clears and flushes, while the window wraps, with a short last block and the interval limit in reach? | yes, until the limit is hit |
| `sequencer` | is the stream told of all it can read, in order, and of the end? does the buffer implement `InOrderStream`? | yes |
| `epoll_server` | are lists, nodes and kernel consistent, and is every listed descriptor served? | yes |
| `alarms` | one entry per alarm, not early, not after Cancel, not never, and does the round end? | yes, but for less than a millisecond, and if alarms are re-armed in the future |
| `tpproxy` | byte streams, peer pointers, wakeups, flush before close, deletion | yes |
| `tpproxy_peerless` | do data never reach a proxy without a peer? | **no**, `CHECK(0)` |
| `mpproxy` | over one path, both directions: is all that a client sent written to the origin server, does a session end on both hosts? | yes, while the path is not reset and the origin server does not finish first |
| `mpproxy_paths` | over two paths: is every unit of an upload or a download that was put on a path accounted for, is the rest kept until the origin server finishes or the client is gone, do servers and paths agree, may a chosen path be sent to, is the table right, is the origin's connection closed only after all was handed over? | yes |
| `hen` | do the sticks of a host agree, is no byte lost or reordered, do all sticks end with one, is every message answered? | yes, or the client sees the end |
| `octopus` | do hands and dispatchers agree, is no unit lost or reordered, does what is sent arrive, do sessions end? | yes, but for two kinds of session the code leaves open |
| `dash` | do buffer, player and alarm agree, do the bytes of the segment under way add up, does the video end, does the endpoint go? | yes |
| `algorithms` | are the interval set, the codec, the filter, the budget and the rate adaptation what they are taken for? | yes |

The run with a bold result is expected to end in a violation; the finding in
`PROJECT.json` quotes the text of the repository that it contradicts.

Properties that belong together are conjunctions: `BufferSafe` is the type invariant, the
window and the byte count of the ring; `SeqSafe` types, no readable byte left behind and the
read position below the highest; `RegistryAgrees` types, lists, kernel and running node;
`AlarmsAgree` types and one entry per set alarm; `AlarmsAreOnTime` not early, and not overslept
by a millisecond or, with a millisecond to go, at all;
`DueAlarmsGoOff` the end of a round and that no due alarm waits for ever; `ProxySound` and
`SessionSound` the pointers, sockets, alarms and lists of a proxy; `SessionCompletes` flushing
and deletion; `IntervalSetsAreExact` every operation and query.

### Bounds

* `buffer`: capacity 5 in blocks of 3 and 2, limit 3 intervals, frames of up to 2 bytes
  at offsets up to 5 with two byte values: streams longer than the ring, frames that
  cross blocks, cover gaps, wrap, and end outside the window. The short
  block makes a gap inside a block possible, and reaching the limit takes two gaps
  (220 thousand states).
* `sequencer`: capacity 3 with a block of 2 and a block of 1; a FIN at any frame; no
  limit, which the refinement is stated without.
* `epoll_server`: two descriptors are enough for a callback to act on
  itself and on another; three classes of bits would only rename events. A
  replaced callback needs a second one.
* `alarms`: two BaseAlarms and two repeating ones, times 1..5 and two ticks in a
  millisecond: before, at and after the recorded time, a deadline less than a millisecond ahead, and
  one so far ahead that a tick is cut off.
* `tpproxy`: one byte from the left, five from the right, chunks of two, room for
  two: the longer direction fills the socket, the buffer, and the
  buffer above its threshold while data are still to come; the other closes
  meanwhile.
* `mpproxy`: one path that takes one frame, and applications that take one
  unit, so that every buffer fills; two units up and one down are enough for data to wait
  in each place while either side closes. `mpproxy_paths`: two paths and two units in one of the two
  directions (`DataAll`, `OneWay`; a download is followed up to a reset or a restart of the session,
  beyond which `DownloadAccounted` says nothing), on which
  two frames overtake each other, one path joins while the other closes, and
  either is reset. The two paths are interchangeable (symmetry), in
  safety properties only. `Threshold = 0`: a path that has anything to write is not chosen.
* `hen`: two requests, one outstanding as in `a_echo`, room for two units in a
  link: the address and a message in one read, or a message that does not fit.
* `octopus`: links that take one unit, two units up and one down, one reset anywhere:
  every buffer fills, and both directions are under way when something ends.
* `dash`: four segments of two frames, play starts with two, a segment is of one or
  three units, so that it arrives in one read or in several and does not fit in the link's two.
* `algorithms`: every interval set of six numbers (64, with three intervals at most), under
  every operation with every interval and every other set. Messages of two fields
  in buffers of 3 and 12 bytes, cut anywhere. Window of five measurements, so that
  its quarter and its half are apart; alarms up to two intervals late. Six rates in
  the proportions of `dash_client_test.cc`, bandwidths below the lowest, between, and above the highest
  rate, four levels of the buffer around the thresholds of `tobasco` and the others.

### Fairness

The loop runs for as long as the process does, and each callback returns: weak
fairness of the loop's own steps (`Wait`, `CallOnEvent`, ...). API calls are never
fair. `DueAlarmsGoOff` and `RoundEnds` need that a delegate arms its alarm at
least one tick ahead (`MinDelta = 1`), which all delegates of the programs do
(they add an interval to the present time).
`hen`, `octopus` and `dash` assume weak fairness of all steps of the programs
and of the network's progress (`Progress`): a connection attempt ends, what was sent can be
read. Resets, refusals and signals are never fair. `algorithms` assumes that the player asks for
segment after segment; that the estimated bandwidth becomes steady is not assumed, `QualitySettles` is
about the case that it does, for the two algorithms that go by nothing else.
`TpProxy` assumes in addition that a connection attempt ends and that remote
hosts keep reading; a host that stops for ever keeps its proxy waiting in the
code too. Its liveness properties end when the process aborts.
`MpProxy` assumes the same, and that the budget alarms, which set themselves again
whenever they go off, keep going off with a budget to spend. `UploadSpec`
adds a client that at some time finishes; without it the read of `TpServerLeft` may
block for ever. A path that is reset, or a process that has aborted,
ends what its liveness properties promise.

### Seen while modelling

Behaviour met while reading the code and checking the models, on which no run of its own is spent:

* At the interval limit `OnStreamData` refuses a frame whose interval it has already
  added (`quic_stream_sequencer_buffer.cc:141`). The comment at
  `quic_stream_sequencer.h:38` expects the stream to close then; `TpServerBase`
  only logs (`mpproxy_types.cc:400`), and later reads deliver the bytes that
  were never copied as zeros. `limitHit` marks where the properties of the buffer end.
* A META frame that arrives after its session has ended starts the session again,
  with a second connection to the origin server (`mpproxy_server.cc:81`), whose units are numbered from 1 again;
  `OneOriginConnection` in `MpProxy` states what then fails, and is a premise of `DownloadAccounted` and
  `ClosesAfterUpload`.
* The descriptor of `TpServerLeft` is registered nowhere and stays blocking. Its read loop
  (`mpproxy_types.cc:487`) stops the thread until the client sends more or
  finishes, with what it read before not yet scheduled.
* The header of the buffer gives an example in which an overlapping frame is
  refused with an error (`sequencer/quic_stream_sequencer_buffer.h`); the code
  stores the part of it that is new.
* `SetUnblocked` hands data to a stream that called `StopReading`.
* The destructor of `SimpleEpollServer` erases nodes that may be on a list and
  calls `OnShutdown` after that.
* `out_ready_mask` survives when a node is recycled by `RegisterFD` within the
  callback that unregistered it.
* A `BaseAlarm` that its delegate arms for a time already passed runs again in
  the same round; none of the delegates of the programs does so.
* `PeekRegion` computes a negative length when the readable bytes wrap around into the
  block of the offset (`quic_stream_sequencer_buffer.cc:410`). It has no
  caller and is left out.
* `OnEvent` of both sides of the transparent proxy goes on to its EPOLLOUT branch after another
  branch closed the socket; with bytes left to write the CHECK of `FlushBuffer`
  fails (`tpproxy_server.cc:225`). `TpProxy` has this as `fault = "FlushBuffer"`.
* `TcpConnectionRight` and, for the origin server, `TpServerRight` treat a hangup as
  the end at once: unread downloads are lost, waiting uploads fail a CHECK
  (`mpproxy_client.cc:196`). At the origin server EPOLLRDHUP comes with its FIN, and what was not read by then, or
  read and not scheduled, is dropped (`mpproxy_server.cc:190`): a download that simply ends may reach
  the client without its end. `DownloadAccounted` is what is left to hold: nothing is
  dropped before, and what was scheduled arrives.
* `CloseEntity` of a server tells the paths on the ready list only; a waiting path of a
  `TpServerLeft` keeps a pointer to it (`mpproxy_types.cc:627`, `fault = "server_"`).
* A path that is reset in the middle of a frame stays on the ready list without a
  descriptor, and `SendData` then fails its CHECK (`mpproxy_types.cc:172`); data that come
  for a path that is flushing fail another (line 319).
* When the last path closes, what a `TpServerRight` has in both of its buffers at once keeps it from
  being deleted (`Stranded`).
* When the first path of a session has closed before the META frame of another
  arrives, frames already sent on the other path go to a second `TpServerRight` and are lost without
  any reset (`Joined` excludes it from `ClosesAfterUpload`).
* A dispatcher whose hand is gone, or a hand whose dispatcher is, may meet `CHECK(dispatcher_)`
  (`octopus_base.cc:426`, `:480`); a bandwidth alarm of a hand that was closed in
  the same round meets the CHECK of `FlushBuffer` (line 376). The caller's dispatcher ignores `DST_FAILED`, and the
  application's connection then stays open (line 423): `LeftOpen` names the two cases.
* The order of session keys (`octopus_base.h:52`) compares field by field without the
  equality of the earlier ones, which is no strict weak order; the table is empty in the programs.
* A refused connect is reported with EPOLLOUT, and a stick that closed then goes
  on to `FlushBuffer`, whose CHECK (`hen_base.cc:50`) ends the host.
* `CHECK(end>start)` of the bandwidth predictor fails for a segment that arrives in the round in which it
  was asked for, since both times come from the cached clock (`dash_algorithm.cc:27`).
* At an end of file the dash client unregisters the descriptor and closes nothing
  (`dash_client.cc:150`), and its read loop reads the end of the file again and again:
  the callback never returns (`pc = "spins"`).
* The dash server reads one request from each chunk (`dash_server.cc:47`); it is right
  only because the player never has two under way (`RequestAccounted`).
* The loop of `raahs` counts an unsigned index below zero when no rate is below the bandwidth
  (`dash_algorithm.cc:427`); `osmp` may drop from the highest quality to the lowest in
  one step, and go back in the next.
* The accept loop of `tcp_handle.cc:168` ends on any error. When descriptors run out, the connections that
  wait get no further edge of the edge-triggered listening socket. `running_` of `epoll_thread.cc:9` is a plain `bool` that
  two threads use.
* The test programs of both proxies leave SIGPIPE at its default, so that `send` on
  a connection that was reset ends the process; the models go on as if it were ignored.

## What is proved

`SequencerProofs` proves for every capacity, block size, interval
limit, set of frames and alphabet, first of the buffer, from `BufferAssumption` alone:

* `BufTypeCorrect`: the type invariant;
* `WindowAlwaysRespected`: everything read was received and nothing is received
  beyond the window, so two unread bytes never share a cell;
* `BytesAlwaysCounted`: `num_bytes_buffered_` is the number of received unread
  bytes until the interval limit is hit.

The type invariant is not inductive alone: that the read position does not run
past the received prefix is part of the window invariant, and it needs that
the set of received offsets is finite, for `Max` and `Cardinality` to mean
anything. `WellFormed` joins these facts about one buffer. The lemmas show
that each method keeps it (storing, consuming, clearing, flushing), and the three
theorems follow with one step per action. Counting rests on the lemmas on what
a step adds to and takes from the set of unread offsets.

It also proves `StoredBytesAlwaysIntact`, from the same assumption:
until the interval limit is hit, every accepted byte that was not read lies unchanged
in a block that exists. The invariant `Intact` adds that nothing is remembered of
an offset outside the received set, so a newly stored byte is the first at its offset.
Storing is sound because the cells of a window are distinct (`CopyStoresNew`,
`CopyStoresOld`). Consuming is sound by `RetireSound`: suppose byte `p - 1` was
consumed last and its block were freed with an unread offset `o` in it. `o` is less than a
capacity ahead, so its cell is in the same lap or in the next one (`CellAhead`). In the
same lap the block goes on at `p`, so `p` ends the prefix and the next interval
begins in the block, which the second test of `RetireBlockIfEmpty` sees. In the next
lap the last byte received lies between `o` and the end of the block, which the first
test sees. Both tests are needed, and the tests of the code are enough.

It proves `BlocksAlwaysHoldUnreadBytes` as well: a block exists exactly while it holds an unread
byte. The read loops stop behind the last unread byte of every block they finish, because
there the prefix or the block ends, and what was received beyond lies in other
blocks, so neither test holds the block back (`RetireComplete`).

It proves `ReadableRegionsAlwaysExact`: the regions of a zero-copy read are the readable bytes. The blocks are
counted on from the lap of the first readable byte into the next one (`Unrolled`), where each starts at the
offset at which the one before ends (`UnrolledFacts`), and the modulo of the code is shown to name the same
blocks (`ModOnce`). Whether the bytes wrap into the block they start in is decided, as in the code, by comparing two
offsets inside a block; `ReadableSpan` shows that the comparison decides it.

`BufferAlwaysSafe` joins the first three: it is the invariant `BufferSafe` of the run.

Of the sequencer it proves `SequencerAlwaysSafe` (the invariant `SeqSafe` of the run) and
`ClosingAlwaysAnnounced` (its action property `ClosingIsAnnounced`), from `BufferAssumption` and
`SequencerAssumption`. The stream is told on an edge, when the readable bytes go from none to
some, so it must then read all of them. It asks `Readv` for that many, and gets them only if the
blocks of all unread bytes exist (`Backed`, which storing, consuming and clearing keep until the
interval limit is hit). That the read position stays below the highest offset needs that all
received bytes do. `Sound` joins these facts and holds at every point inside a handler, `Quiet`
(nothing readable is left) only between handlers, and `Told` relates the context before a handler to
the one after it. There is one lemma per helper and one per handler.

It also proves `BufferImplements` and `SequencerImplements`: under `[]~limitHit` (past the
interval limit the code goes on without bytes it dropped, see above) every behaviour of
the buffer, and of the sequencer, is one of `InOrderStream`, with `accepted`, `buf.totalRead` and `delivered`
for its variables. The invariant is `Valid`: what is unread lies in the ring as it was accepted,
and nothing else is remembered of offsets that were not received. A handler of the sequencer goes through
several contexts, but is one step of the stream. So each method is related to the context the
handler began with: storing only gathers, reading after that advances, and clearing or flushing
after that discards, after which nothing is left that a second read or clear could change.
When a FIN closes the stream before its data are stored, the position has passed them already,
and nothing is stored.

`EpollAlarmsProofs` proves `AlarmsAlwaysAgree`, the invariant `AlarmsAgree` of the run, for any alarms and
times, from `AlarmAssumption`. `AlarmsInv` says that every registered alarm has exactly one entry besides
the one whose `OnAlarm` runs, at its deadline and where its token points. `RoundInv` says when the cursor of
the round is an entry of the map at all, and that an alarm that registers itself again by
the time it returns is registered by nobody else while it runs. The lemmas say where an insertion or a removal
moves every other entry, the token of each alarm and the running entry, since callbacks change the map
under the loop. From the same invariant follows `AlarmsAlwaysOnTime`, the action property `AlarmsAreOnTime`:
the entry that fires is the only one of its alarm and stands at its deadline, and the first entry, from which
the sleep is computed, has the earliest deadline of all; the rounding to milliseconds then adds less than one,
and nothing to a sleep of one or more, whatever a millisecond is in ticks.

`EpollServerProofs` proves `RegistryAlwaysAgrees`, the invariant `RegistryAgrees` of the run,
for any sets of descriptors, callbacks and event bits, from `EpollAssumption`: a listed node
has a callback, no `epoll_ctl` fails, the kernel watches exactly what is registered, and the node
of a running callback is kept. It is not inductive: whether `UnregisterFD` frees a node
is decided by its `in_use` bit, which therefore has to be set in the node of the running
callback and in no other (`NodesAgree`); and in the destructor, where the callbacks still
unregister descriptors, the kernel must go on watching at least every descriptor with a
callback, or `epoll_ctl` would fail (`Covered`). There is one lemma per method and one per step of
the loop.

`GoodputProofs` proves `BurstAlwaysBounded`, the invariant `BurstBounded` of the run, for every
window, rate, chunk and lateness, from `GoodputAssumption`. The invariant `BurstInv` adds that
what was sent too much and what may still be sent together are at most one late grant, that the
budget is overdrawn by less than a chunk, and that the filter only holds goodputs that were
possible, so that every rate lies between that of no goodput and that of the largest.

It also proves `EstimatesAlwaysRecent`, the invariant `EstimatesAreRecent`, for every window. The
invariant is inductive (`FilterInv` only adds types), because it says of each estimate what it owes to the
next: an estimate is a measurement of the window that nothing newer equals, and the one behind it is no
better, and younger unless the two are the same measurement of the last half of the window. An attempt to
prove more failed for a reason: after a decline longer than the window the best estimate
need not be the best measurement of the window, since only three are kept. What is stated is what the code keeps.

`TpProxyProofs` proves all three safety properties of the run `tpproxy`, `ProxyAlwaysSound`,
`StreamAlwaysPreserved` and `AlwaysClosesAfterFlush`, from `ProxyAssumption` and `SocketAssumption`: for any chunks,
thresholds, budgets and amounts of data. None is inductive. The invariant `ProxyInv` consists of

* `Good`, which holds at every point inside a handler: each object is sound by itself (`OwnSound`: a socket
  that is still connecting has brought nothing, a dead one has reported its end, only the right object connects),
  peers are mutual and live (`Linked`), what an object was given, sent or not, followed by what its peer can
  still read, is the whole stream that came in (`Passed`), and unsent data are armed (`Armed`), except on the side whose report is
  being handled: there the edge has been consumed, and `OnWriteEvent` has to arm it again;
* `Quiet`, which says what holds while the right socket connects: nothing waits in its buffer, it asks for
  EPOLLOUT, its socket has all its room and neither side reads. Without it data could be read by the left
  object before the right one can report that it is writable;
* that nothing has happened before the left object is made.

`Passed` says more of a closed object than `StreamPreserved`: it was given exactly what came in and was passed on
unless its remote host had finished. Since no handler changes what a host has finished (`Kept`),
`AlwaysClosesAfterFlush` follows. The calls of an object to itself are operators on one object with a lemma each, the calls
to the peer operators on the pair; the lemmas on the latter carry `Good` from call to call. A read loop
passes on any number of chunks by a recursive function, whose existence and values are shown by the least number at which they
would fail (`LeastNatural`).

`DashProofs` proves both invariants of the run `dash`, `PlayerAlwaysAgrees` and
`RequestsAlwaysAccounted`, from `DashAssumption` and `RoomAssumption`: for any number and sizes of segments,
any start-up buffer and any room between the programs. Neither is inductive. `DashInv` says of the link,
the client, the server and the faults together:

* a client that keeps its socket finds it broken, or the endpoint gone, only after a fault (`Blamed`): so the hangup
  that `epoll_wait` reported, on which the player gives up, was one too, though the round serves it later (`Noticed`);
* there is never more than one request, in the socket or in the queue of the endpoint (`Queued`), which is
  why the server may read one request from each chunk and why the loop of `Responce` ends after one round;
* the two alarms are where they should be: that of the player only once it has started (`Playing`), that of a request
  only while nothing at all is under way (`Asking`);
* the bytes add up while the connection is sound, and are never more than the size, broken or not (`Accounted`):
  the comparison by equality in the read loop cannot be overshot.

There is a lemma for each call, which carries the invariant from call to call within a handler, and one for
each step.

`HenProofs` proves `SticksAlwaysAgree`, the invariant `SticksAgree` of the run `hen`, from `HenAssumption` and
`RoomAssumption`: for any number of requests and any room. What `SticksAgree` says of a stick is not inductive alone.
`Agrees` adds that a socket which was not accepted yet has no stick; `InTurn` adds in which order
socket, left stick and right stick appear, so that a new right stick finds its link unused (`Unused`) and no old
task, pointer or notice of its own; `Shaped` adds that the far end of a connection appears only with its handshake. The three make `Sound`,
which holds after every call inside a handler (`CloseFdSound`, `SinkSound`, `ReadOnSound`, ...), so that a handler which
closes, reads and flushes in one report is covered however its branches combine. A call that moves only data keeps it by
`SameSound`; one that changes the sticks of one host does not disturb the other host (`HostSound`), although they
share a link, because closing an end never changes the state of the other end (`CloseStates`).

It also proves `EchoAlwaysPreserved`, the invariant `EchoPreserved` of the same run. The property speaks of whole connections only
when all of them stand, and nothing of it is inductive: a connection may end while data are in its buffers, and what is behind
the gap still moves. `FlowInv` therefore takes each direction as a row of five buffers, a queue, a stick, a queue, a stick and
a queue (`Upward`, `Downward`), and gives every buffer the number of the unit it begins after (`Lies`). The joints between the buffers hold
from the reader up to the first connection that has ended (`UpLevel`, `DownLevel`); what is behind it may be anything. Four kinds of steps remain:

* a part of one buffer goes on to the next, by a flush or a read (`FlowMoves`, `FlushFlows`, `ReadFlows`), however much `send` takes;
* data are lost because an end closes or is reset, and then the row holds no further than there (`Fades`, `Fading`, `FlowBreaks`); all of closing,
  failing, ending a host and the network are steps of this kind, and `Fading` is transitive, so that the calls of a handler add up;
* a stick appears (`FirstRightFlows`, `SecondRightFading`), and the address goes into the row ahead of the data and is taken out
  of it (`FlowAddress`, `FlowUnwraps`): `Lag` is 1 in between, and nothing is past CL then;
* the client adds at the end of one row, the server takes from it and adds to the other (`FlowAdds`, `FlowTakes`). The server sends back all it
  reads because the client waits for its answers: no more than `Outstanding` units are under way, for which there is room
  (`EchoCounts`). `d_echo` only counts what `send` returns, so the assumption `Outstanding <= Room` is needed: in `a_echo` it is one.


`OctopusProofs` proves `HandsAlwaysAgree`, the invariant `HandsAgree` of the run `octopus`, from `OctopusAssumption` and
`RoomAssumption`: for any amounts of data, any number of resets and any room. `HandsAgree` is not inductive. The invariant
`OctopusInv` has four parts:

* `Base`: of every object, its life, the state of its socket, its posted deletion and its entry with the host (`Own`); in which
  order objects and sockets appear (`InTurn`); that the far end of a connection appears only with its handshake (`Shaped`);
* `Quiet`: until the hand of the callee has answered, nothing but the address is on its way to it, and neither it nor its dispatcher
  has anything to send or an alarm. Therefore the answer finds room and nothing overtakes it, and the address is read alone, as
  the CHECK of `CalleeParseMeta` demands;
* `Pair`: who points to whom. It says of a destroyed hand whose alarm still goes off that it no longer points to a
  dispatcher;
* `Reaching`: while the dispatcher of the callee connects, its hand lives, points to it and has not answered. It is true without
  the words that the hand lives, but not inductive: the first EPOLLOUT of the dispatcher sets its alarm, and from
  there a dead hand would be reached.

The two sides of a close call each other. Between these calls `Pair` and `Reaching` may be false: when the connect of the
dispatcher fails, the hand points to a dead object until `ConnClose` of the hand has run. What holds
at every point inside a handler is `Steady`, `Base` with `Quiet`; there is a lemma for each call, which says what it keeps of `Steady`,
and one for each action, which restores the pair.

It also proves `StreamAlwaysPreserved`, the invariant `StreamPreserved` of the same run, from the same assumptions. The invariant is
`FlowInv`: `OctopusInv`, that each party has received units in order, and `Flows`, which has two parts.

* `Meant` says where the address and its answer are, which travel with the data and are none: until the callee's hand has parsed
  the address nothing else is on its way there; until the caller's hand has read the answer it is ahead of everything else, and
  if it could not be sent nothing that follows it can arrive. `Arrived` and `Kept` are the buffers without them.
* `Flow` says that there are numbers for the five buffers of each direction, so that a buffer holds the units which follow its number
  (`Lies`). Each buffer is joined to the one it is filled from as long as the end of the connection that holds it stands. An end that
  has closed breaks this joint, and what lies behind it keeps its order but need not follow any more.

A step moves a part of one buffer to the next, however much `send` takes; or adds or takes at a party's end; or loses data
(`Fading`): closing, failing, deleting, the end of a host and a reset are all of this kind, and since `Fading` is transitive the
nested calls of a close add up. There is a lemma for each call of a hand or a dispatcher that moves data. When all connections stand, all joints do, and what
was received and the five buffers together are one run from the first unit to the last (`WholeWay`): this is the second part of `StreamPreserved`.
The property names the place of the address or its answer exactly, one unit at the head of a queue of the relay or of
the buffer of the caller's hand, so that nothing else of the buffers may be left out.

Only model-checked: the multipath proxy, the interval set, the codec and
the rate adaptation, and everything that is liveness. The handlers of the multipath proxy go over the frames of a
read and the paths of a session by folds of the community modules, and its properties sum over the paths by one: these are defined
by recursion over data. Liveness is
out of the prover's reach together with ENABLED, induction over data and
recursive operators. `IntervalSet`, and with it `MCAlgorithms`, declare RECURSIVE operators, and
no module with a theorem reaches them.

## Not modelled

* Addresses, byte order of addresses, time, random numbers, files, ini files, the command
  line, logging: values and wrappers of the operating system without protocol state.
* The ARP tools, the traffic generators, the mock endpoints of `tcp/` and the tests.
* The trace and the measurements that the dash client writes; the minimum variant of the
  windowed filter, which nobody uses.
* Of the two proxies: the bandwidth estimate is left open where it only sets proportions and
  rates (what the filter and the budget do with it is `Goodput`); `OnShutdown` runs
  only when the process ends.
* Of the multipath proxy: sockets that fail at once in `AsynConnect`, the health alarm, which only
  logs, and more than one session.
* Of octopus: sessions over several paths, which are stubs in the code.
* `PostTask` from another thread, which has no caller in the proxies.

## Plan

All components with protocol state are modelled. What is left, in order:

1. Proofs: `DownloadAccounted` of the multipath proxy.
2. Several sessions of the multipath proxy, whose objects share the table of sessions and
   the event loop of each host.
3. `AsynConnect` of the multipath proxy that fails at once.

The runs take about twelve minutes in all.

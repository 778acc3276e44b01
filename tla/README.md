# A TLA+ verification of the scuffle crates

This directory specifies the stateful and concurrent parts of the Rust workspace
under `crates/` in TLA+, checks them with TLC on small instances, and proves the
central safety properties with TLAPS for every instance. The reference is the
code: each definition is a translation of the lines that `PROJECT.json` ("map")
names for it, with the control kept and the data reduced to what the properties
tell apart.

Contents: [the system](#the-system), [the modules](#the-modules),
[the runs](#the-runs), [fairness](#fairness), [the proofs](#the-proofs),
[where code and documentation disagree](#where-code-and-documentation-disagree),
[oddities](#oddities),
[what is not modelled](#what-is-not-modelled), [plan](#plan).

## The system

The workspace is a set of libraries for streaming servers. They fall into three
groups.

**Runtime.** How a process starts, serves and stops.

| crate | state | operations | what makes it hard |
|---|---|---|---|
| `context` | tree of cancellation tokens; per handler a `stopped` flag, a count of live contexts and a `Notify` | `Handler::context`, `new_child`, `clone`, `cancel`, `shutdown`, `done`, `wait`; drop of a context or handler | every method is a few separate atomic accesses, some `Relaxed`; a wakeup that is not sent is never sent again |
| `batching` | the batch being filled behind a mutex, spawned batches behind a semaphore, one oneshot per request (`Batcher`) or one shared cell and token per batch (`DataLoader`) | `execute_many`, `load_many`, `batch_loop`, `Batch::spawn` | callers, loop and tasks interleave; callers go away; executors answer partly or panic; the loop's sleep is set for a batch that is replaced meanwhile |
| `signal` | registered signal streams; the progress of `SignalSvc::run` | `with_signal`, `recv`, `run` | `select!` polls in random order; second signals and the timeout race the graceful end |
| `bootstrap` | the spawned services and their exits | the `main` that `main!` generates, the hooks of `Global` | hooks and services fail, panic, ignore cancellation or drop their context early |
| `http` | the server's slot with its group of workers; connections, requests in flight; an idle timer; per request what is left of its body | `start`, `wait`, `shutdown` on a shared server; accept, handshake, serve, close; `TimeoutTracker`; `poll_frame` and `copy_body` | the calls run concurrently and their futures are dropped; workers fail; requests outlive the accept loop; bodies longer or shorter than announced |

**Protocols.** What is done with one connection.

| crate | state | operations | what makes it hard |
|---|---|---|---|
| `rtmp` chunk stream | per chunk stream the last header, per message the bytes so far, the chunk size | `write_chunk`, `read_chunk` | chunks of several messages interleave; reads stop anywhere; headers refer to earlier headers; limits |
| `rtmp` session | handshake state, read and write buffers, the published stream, the channel to the application | `do_handshake`, `do_ready`, one handler per message | bytes of the first message arrive with the handshake; any order of `publish`, `deleteStream` and data; slow or vanished application |
| `h3-webtransport` | map of sessions, channels between driver and sessions | `drive`, `accept`, `upgrade`, session calls and drop | answers travel through one channel and closes through another; full channels; `drive`'s future is dropped |

**Media.** Formats, the transmuxer that turns one into another, and the bindings
of a C library.

| crate | state | operations | what makes it hard |
|---|---|---|---|
| `flv` | none | `FlvTag::demux` | nested type fields select what a tag becomes |
| `bytes-util` | position and the byte at it | `read_bit`, `align`, `seek_bits`, `seek` | the byte is read ahead of the position and kept; calls fail half-way |
| `h264`, `h265`, `av1`, `aac`, `expgolomb`, `amf0` | none | `parse`/`demux`, `mux`, `size` | each field's place depends on all fields before it |
| `mp4` | none | size, mux, validate, demux of each box; `Traf::optimize`; codec strings | the size is computed apart from the bytes, and flags decide both |
| `transmuxer` | queue of tags, settings, one clock per track | `demux`, `add_tag`, `mux` | headers in any order, missing or bad; rounding that accumulates; a data offset computed before the box is final |
| `ffmpeg` | C objects and who owns them; the state of an `Output`; what is left over of a chunk | constructors, methods and drops; io callbacks, `ChannelCompat` | ownership moves between Rust and C in the middle of functions that can fail; threads cut one stream of bytes differently |

They interact as follows. `bootstrap` runs `SignalSvc` among the services and all
of them live under the global `context` handler, whose `shutdown` `SignalSvc`
calls; module `Bootstrap` composes the three, with `context` represented by the
promise that `Context` establishes for root handlers. `http` gives each group of workers
a `context` handler and each connection a child, and drives `h3-webtransport`
from its QUIC backend. An RTMP session feeds what `ChunkStream` decodes to its
message handlers, and its data, wrapped as FLV tags, is what a transmuxer gets;
`Fragments` composes `Transmuxer` with the boxes of `Mp4Boxes`. `flv` and `mp4` carry
the configuration records of `Headers`, which the transmuxer hands from one to the
other, and an RTMP message or FLV script tag is a list of AMF0 values.

What correctness means, part by part: nobody sleeps for ever (`context`,
`batching`, `signal`, `http`, `rtmp`, `h3-webtransport`); nothing handed over is
lost, doubled or attributed to somebody else (`batching`, `rtmp`,
`h3-webtransport`, `transmuxer`); a call that says "done" is right about it
(`context`, `bootstrap`, `http`, `rtmp`); bounds hold at their edges (`batching`,
`rtmp`, idle timer, `transmuxer`); what is written can be read back
(`rtmp` chunks, `mp4`, codec headers, `amf0`, bodies and channels); and every C object
is freed once, after its last use (`ffmpeg`). The hazards behind these, each at its
line, are listed in `PROJECT.json`.

## The modules

One module per component. `MC*` modules and the `.cfg` files only give constants
their values; `*Proofs` modules hold the theorems. Operators whose comment begins
with "Mutant" are plausible bugs in the definition that follows them: `PROJECT.json`
pairs each with a property that then fails, which shows that the property is
about that code.

* **`Context`** – `crates/context/src/lib.rs`. A node is a `Handler` with all its
  clones: token and `ContextTrackerInner` (`stopped`, `active_count`, the waiters
  of `notify`). A context is one `ContextTracker`. A call is one invocation of
  `cancel`, `shutdown`, `done` or `wait`, and every atomic access of it is a
  step. `ContextTracker::drop` is a decrement (`DropFetchSub`) and, for the last
  one, a read of `stopped` (`DropLoadStopped`). Both are `Relaxed` accesses to
  different atomics; `DropLoadEarly` lets the read take effect first.
  `CallNotified` creates the `Notified` future before `active_count` is read,
  as the code does; only futures that exist are woken.
* **`Batcher`, `DataLoader`** – `crates/batching/src/{batch,dataloader}.rs`.
  `Lock`, `Push`/`AddKey`, `Unlock` are the stretches of a caller between awaits,
  `LoopRound` is one round of `batch_loop`, and tasks take a permit, run the
  executor and end. The executor may answer any part of its requests, return
  nothing, or panic. Time is relative: the age of the current batch and what is
  left of the loop's sleep; a sleeping task may be polled up to `Lag` late.
* **`SignalSvc`, `Bootstrap`** – `crates/signal`, `crates/bootstrap`.
  `SignalSvc` registers the signals one by one (`SigListen`) and has one action per await of `run`; `SigForce` and `SigCancel`
  compete for the first poll of `select!`. The handler is global, so anybody in the
  process may cancel it at any time (`GlobalCancel`), and `SigRecv` ends for that
  as well as for a signal; `begun` records for which. `Bootstrap` adds the generated `main`
  (`Boilerplate`, `SpawnService`, `OnServicesStart`, `HandleServiceExit`,
  `OnExit`) and services that finish, fail, panic, ignore their context or drop
  it early. `result` is what the main block gives to `on_exit`, and `exit` what
  the process returns, which is up to `on_exit`.
* **`HttpServer`** – `crates/http/src/backend`. A group is one `StartGroup`.
  `StartLock` to `StartPublish`, `WaitLock`, `WaitDrain`, `WaitSelect` and
  `ShutdownCancel` are the calls between awaits; a call's future may be dropped
  in any of them. Workers accept, drain or fail, and a QUIC worker stops when its
  endpoint has closed (`WorkerClosed`); connections go through
  handshake, serving, graceful end and close. `inflight` are the calls of
  `on_request` that run, `bodies` the responses hyper still sends, which hold the
  guard of the idle timer and no context. The variable `backend` selects
  hyper's or h3's behaviour where `serve.rs` differs.
* **`TimeoutTracker`** – `crates/http/src/util.rs`: the race of `wait`'s sleep,
  the guards of requests and the two accesses of `decr_inflight`.
* **`HttpBody`** – `crates/http/src/body.rs`, `backend/quic/body.rs` and `copy_body`: an
  HTTP/3 request whose handler echoes its body. `PollData` and `PollTrailers` are the
  two halves of `poll_frame`; client, stream and tracker may fail at any point, and
  `recv_trailers`, which is polled once, may not be ready.
* **`ChunkStream`** – `crates/rtmp/src/chunk`. The client writes with the encoder's
  functions and whatever header compression the RTMP specification allows at that
  place (`Formats`), and may interleave messages on one chunk stream if their message
  streams differ; the wire is a sequence of tokens and
  every read may stop between any two; `ReadChunk` is one call of `read_chunk`.
* **`RtmpSession`** – `crates/rtmp/src/session/server_session.rs`. Units of bytes for the handshake, two units per message; `Session` is one step
  of the session's task up to its next await. A broken connection shows as one of
  the kinds of io error `is_client_closed` lists, or as another, which ends `run` with
  an error.
* **`RtmpHandshake`** – `crates/rtmp/src/handshake/{server,digest}.rs`: the contents of C1,
  S1 and S2, byte by byte with short halves. The bytes of an HMAC are named after
  its key and message, so two are equal only if made from the same.
* **`WebTransport`** – `crates/h3-webtransport/src/{server,session}.rs`. `Drive` is the
  driver between awaits, with the channels at their capacity; `SessionStep` and
  `AcceptItem` are the session's calls. When driver and `Incoming` are not split,
  `AcceptRequest` is `accept`, whose `select!` drops the future of `drive`. The model's
  application drops the driver once `drive` has returned (`End`); one that keeps the
  `Connection` after that keeps its maps and channels, and the calls of its sessions
  would wait for it.
* **`BitCursor`, `BitReader`** – `crates/bytes-util/src/bit_read.rs`. `BitCursor` is what a
  bit reader promises: a position in bits, reads that return the bits there, seeks
  that go where they say or fail; and the hole in it that the code has, a seek
  that fails past the end and after which reads return any bits until the next byte. `BitReader` has the fields of the code (stream
  position, `bit_pos`, the byte held) and one action per method; `read_bits` and an
  unaligned `read` are `read_bit` several times, and an aligned `read`, which goes
  straight to the underlying reader, is not an action. The refinement
  mapping is `Cursor == INSTANCE BitCursor WITH ...`, and `ReaderIsCursor` is the abstract
  specification under it.
* **`BitSyntax`** – how a header is written and read, over bit units: the primitives of
  `BitReader`, `BitWriter`, `expgolomb` and `av1/src/obu/utils.rs`. A format is a list of
  steps, one list for the writer and one for the reader; a read that does not ask
  for the unit that comes next is `torn`.
* **`Headers`, `SequenceHeaders`, `Amf0`** – the lists: configuration records of the four
  codecs as `mux` and `demux` have them; the parsers of SPS and sequence headers; AMF0.
  **`Standards`** has the syntax the standards give for the same headers, as the
  reference that writes what the parsers read, the forms that are not read as written
  (`Deviates`), the values that do not fit (`Unfit`, `CastOverflows`) and the property. **`CodecStrings`** – `crates/mp4/src/codec.rs`: `Display` and `from_str`.
* **`Widths`, `Flv`** – fixed-width integers; how an FLV tag's fields select what
  it becomes (`crates/flv/src`).
* **`Transmuxer`** – `crates/transmuxer/src/lib.rs`: `Demux`, `AddTag`, and `mux`
  as four actions, one for each way it can return (`MuxInit`, `MuxNotYet`,
  `MuxMedia`, `MuxNothing`). `sent_video` and `sent_audio` are histories.
* **`Mp4`, `Mp4Boxes`, `Fragments`** – `crates/mp4/src/boxes` and
  `crates/transmuxer/src/codecs`. `Mp4Boxes` has for each box its layout: the fields
  it writes, in order, with their widths and the flags they depend on. `Mp4` has
  the bytes a layout stands for, and separately the size the code computes, the
  validation and the reader. `Fragments` builds the boxes of each segment.
* **`FfmpegHeap`** – `crates/ffmpeg/src`, without `channel.rs`. The heap of C objects, and
  each function as a table of steps (allocate, wrap in a guard, hand over, change
  the destructor, use, drop) that may fail at each. A program calls functions and
  drops values in any order that borrows allow.
* **`FfmpegIo`** – `crates/ffmpeg/src/io/{channel,internal,output}.rs`: `Output`'s states,
  `write_packet` into the channel, and `ChannelCompat::read` with its left-over buffer. The
  channel keeps every chunk, as the mpsc and crossbeam channels do; a broadcast
  receiver that lags is not modelled.

`MCMedia`, `MCHttpServer` and `MCRtmpSession` put several machines that do not share
state beside each other: the variable `machine`, chosen in the initial state, says
which of them runs. A behaviour is one of one machine.

## The runs

`tlc -config X.cfg M` for each; the state counts are of distinct states.

| run | instance and bounds | states |
|---|---|---|
| `context` | 2 handlers (one the global), 2 contexts, 2 calls: `shutdown`/`done` beside `cancel`/`wait` | 317k |
| `context_done` | the same, one property that fails | – |
| `batcher` | callers with 3 and 2 items, batches of 2, 1 permit, delay 2, lag 1 | 35k |
| `dataloader` | 2 callers, 3 keys, batches of 2, 1 permit, delay 2, lag 1 | 113k |
| `bootstrap` | 3 services, 2 signal kinds (one listed twice, or none), with and without timeout and default hooks, 3 signals | 219k |
| `http_safety` | 2 starts, a droppable `wait`, a `shutdown`; 2 groups of 2 workers, a connection with a request, http3, workers that fail. Timer: 3 requests that may come again, timeout 4, lag 2. Body: up to 4 bytes in frames of up to 2, `Content-Length` 0, 2, 3 or none | 979k |
| `http_live` | 2 starts, a `shutdown`, 1 worker per group, a connection with a request, all three protocols, workers that fail and endpoints that close | 85k |
| `chunk_stream` | 7 clients, see `MCChunkStream`; limits 2 and 3, chunk sizes 1 and 2 | 683k |
| `rtmp_session` | handshake of 2 units, any 3 of all messages, 2 stream ids, data channel of 1. Handshake bytes: digests of 2 bytes, five quadruples of offset bytes, with every sum up to past the wrap | 635k |
| `webtransport` | 2 sessions, 4 items, channels of 1; split and unsplit | 100k |
| `media` | traffic of 5 kinds, up to 6 tags, `U32Max` 3499; 351 segments and boxes; 1781 headers and values; a reader of 3 bytes, seeks of -19 to 19; 7 programs, each over a set of FFmpeg functions, 2 values held and 2 objects of a kind; 7 bytes through a channel of 2 chunks, buffers of 3 | 396k |
| `channel_read` | the same, one property that fails | – |

What they show:

* **context.** `NoLostWakeup`: while a `shutdown` sleeps, somebody who will wake
  it exists. `EarlyReturnNeedsRevival`: a `shutdown` that returns has seen all the contexts
  it was called with go; the one exception, a context made between the two
  accesses of a drop, is stated exactly. `ShutdownReturns`, with the exception
  that `Relaxed` allows. Two handlers are enough for parent and child; the theorems
  about this module hold for every tree.
* **context_done** and **channel_read** are disagreements, see below.
* **batcher.** `NoRequestLost`: a waiting request is in exactly one place.
  `DelayBounded`: no batch waits longer than `delay` and the lag of the loop,
  whatever batch the loop fell asleep for. `CallersReturn`, whatever the executor
  does. Five items and batches of two give batches that mix callers, a caller that
  spans batches, full batches and batches that time out.
* **dataloader.** `LoadIsRight`: what `load_many` returns is right, key by key
  and error by error. `CallersReturn`, also when fetchers panic.
* **bootstrap.** `OkMeansAllExited`: what `Ok` says of the services, before `on_exit`
  and, if that is the default one, after it. `GracefulUnlessForced`: only the timeout
  or a signal other than the one that began a shutdown forces it; after a cancel by
  somebody else that may be the first signal. `SignalEndsProcess`, whose antecedent
  states the conditions it needs.
* **http_safety, http_live.** `NoStrayGroup`: no group goes on accepting behind
  a newer one. `ShutdownClosesGroup`: what `Ok` of `shutdown` means.
  `OnCloseIsLast`: `on_close` comes once, after the last `on_request` has returned; an
  HTTP/2 response may still be sent after it.
  `ShutdownReturns`, and cancelled groups come to an end. Two groups are what
  a restart needs; the safety run has two workers because the order in which
  their handles finish matters.
  `ClosedIsIdle` and `MaxIdle`: the timer neither closes a busy connection nor
  keeps an idle one, with lagging tasks. `BodyIsFaithful`: a body is delivered once and
  in order, within its `Content-Length`, and an end without error is the end; only the
  trailers can be missing.
* **chunk_stream.** `RoundTrip`: messages come out as sent, in the order they
  were completed, but for a timestamp that lags by the deltas format 3 headers repeated
  (see the oddities). `NothingLeftBehind`: nothing that has arrived whole stays in the
  buffer. `ErrorsAreEarned`: only a client past a limit is refused. The
  small constants put every border within reach: 2 stands for the timestamp 0xFFFFFF and the chunk stream ids are the real ones
  around 63/64 and 319/320.
* **rtmp_session.** `HandshakeKeepsFraming`: no byte is lost or taken for another
  between handshake and messages. `RepliesBeforeRead`: the session never waits for a
  client that waits for it. `DataIsAccepted`, `ResultUnlessRepublished`,
  `SessionEndsWhenReady`. `HandshakeIsAnswered`: a client finds the server's digests
  where the handshake puts them, for every place of its own.
* **webtransport.** `MapIsLive`, `EstablishedIsRouted`, `CallsReturn`. Channels of
  capacity one are full after one element, so every "no room" case happens.
* **media.** `TimelineIsContiguous`: each track is gapless and sequence
  numbers are 1, 2, 3, … over both. `MediaIsConserved`: all media is sent, in
  order. `VideoClockIsTrue`: rounding costs at most a millisecond a frame
  (`DriftBounded`), and a constant frame rate loses nothing (`GridIsExact`).
  `SegmentIsReadable`: the bytes of each segment have the size the code announces, read
  back to the same boxes, except exactly for those whose sample rate or length does
  not fit (`LostBoxes`), and the sample's offset, duration and flags, after
  `Traf::optimize`, are those that went in. `BoxesRoundTrip`: so is any other box that
  validates, exactly unless it is one of `IsLost`. `HeadersAgree`: records, sequence
  headers and AMF0 values are read as they were written, exactly unless a length or count
  did not fit its field, the header has a form of `Deviates`, or an array without an
  end mark is followed by bytes like one; a codec
  string is parsed back to its codec for AVC, AAC and Opus, and refused for
  HEVC and AV1. `ReaderIsCursor`: the refinement. `HeapBalanced`: no double free, no use
  after free, and no leak but the dictionary behind `metadata_mut` (see the oddities). `PipeIsFaithful`: bytes arrive once, in order, up to the end.
  A header is checked for each optional part, loop count and border value one
  or a few at a time, since parts that do not refer to each other only add up;
  lengths go up to 2^16 + 1 and the counts of one byte to 256, and 2^16 NAL units in one
  array are not tried.
  Two objects of a kind let a second one be taken for the first; 7 bytes against
  buffers of 3 give chunks and reads of every relative length.

Deadlock checking is off where the system may really stop: all calls returned, the
process ended, the connection closed, or the bound on inputs reached. `Batcher`
and `DataLoader` loop for ever and keep it on.

Bounds that exist only for checking: `MaxRaises` (signals), `max` of a client or of
traffic (messages, tags), `MaxMsg`, `Offsets`, `MaxBody`
and `MaxFrame`, `Far` (how far a seek reaches), `MaxHeld`, `MaxAlike`, `MaxBytes`. Contexts, calls, requests and connections are
used once each, so their number is the bound. The proofs below have no such
bounds where they apply.

## Fairness

Weak fairness throughout means that a task which can go on is polled again,
which tokio guarantees on a runtime that is not blocked. Beyond that:

* `Context`: contexts of a cancelled handler are eventually dropped, as the
  holder of a cancelled context is asked to do; others may be kept for ever.
* `Batcher`, `DataLoader`: strong fairness of `Lock` and `LoopRound`, because
  tokio's mutex is FIFO and so nobody is overtaken for ever; executors end
  (by answer, error or panic).
* `Bootstrap`: of the services only `Heedful` ones finish once cancelled.
* `HttpServer`: handshakes, requests and a graceful end finish; a connection
  in ordinary service need not.
* `RtmpSession`: the session runs, and the application decides publish
  requests; nothing is assumed of the client or of the consumer of the data.
* `WebTransport`: sessions accept what is queued for them, and (`PeerFairSpec`)
  the client sends a frame on each stream it opens. The code needs the
  latter: it awaits that frame without a timeout.
* `ChunkStream`, `TimeoutTracker`, `HttpBody`, `RtmpHandshake` and the media modules: none;
  only safety is checked.

## The proofs

`tlapm XProofs.tla` checks them. A theorem holds for every value of the
constants: any number of handlers, callers, services, requests, tags, and any
batch size, timeout, frame rate or integer width that the named assumptions of
the module allow.

* **`ContextProofs`** (`Context`) assumes that contexts are finitely many. `TypeCorrect` and
  `CountCorrect` (`active_count` is the number of live trackers) are one inductive
  invariant: without the count, the decrement might leave the naturals.
  Both also use `TreeInv`: only handlers that exist are held, cancelled or given
  contexts. `WakeupCorrect` needs `WakeupInv`: a `shutdown` past its
  first step has set `stopped`, which is never cleared, and while it sleeps with
  the count at zero, the drop that took the last context away is still on its way or is
  the one that read `stopped` too early. `ReturnCorrect` needs `ReturnInv`: a drop
  between its two accesses belongs to a handler whose count is zero, unless
  that handler was given a context meanwhile.
* **`RuntimeProofs`** (`Batcher`, `Bootstrap`, `SignalSvc`) assumes natural numbers (a
  batch size or permit count of 0 included) and that the list of services is a finite
  sequence. `LimitsCorrect`: batch size and concurrency. `WakeCorrect` and
  `DelayCorrect` by `TimeInv`: the age of the current batch and what is left of the
  loop's sleep, which may have been set for the batch before, add up to at
  most the delay. `RequestsCorrect` by `PlaceInv`: no two batches share a request, a
  request is in a batch only after its caller pushed it, and one that waits is
  somewhere. `OkCorrect` by `ExitInv`: every service is still in `remaining`, was never
  spawned, or has ended and been reported, unless `main` has failed; and a default
  `on_exit` has passed the result on.
  `GracefulCorrect` needs `HeldInv` (a running service holds its context
  unless it is one that may drop it early) and `ForceInv`: a kind has one stream however often it is
  listed, so the signals that are pending, and the one that began the shutdown if
  it was one, are at most the signals sent.
* **`HttpServerProofs`** (`HttpServer`, `TimeoutTracker`). `NoStrayGroupCorrect` by
  `GroupInv`: the `start` that publishes a group has emptied the slot and holds the
  config lock ever since, and a call past the slot holds the group it is about to
  cancel. `OnCloseCorrect` and `ShutdownCorrect` add `ConnInv`: an open connection
  belongs to a worker that has not ended with `Ok`, and requests are in flight only
  while it serves or drains. `ShutdownCorrect` is an action property: the step in which
  `shutdown` returns finds no live worker. `ClosedCorrect` and `MaxIdleCorrect` by
  `IdleInv`, which bounds the idle time in each phase (before the guard's
  notification, with the permit stored, and after the sleep it restarted).
* **`HttpBodyProofs`** (`HttpBody`). `BodyCorrect` by `BodyInv`: the bytes delivered and the
  data frames that wait are one numbered stretch of the request, up to the place
  where its data ends (trailers, end of the stream, or what the client sends next);
  what may excuse a truncated body, or one without its trailers, is in `causes` from
  then on.
* **`DeliveryProofs`** (`DataLoader`, `FfmpegIo`). `LoadCorrect` by `LoaderInv`: the mutex
  keeps the open batch for the caller that adds to it, the keys a caller has passed so
  far wait in some batch, the batches it has awaited have ended and so do not change
  any more, and its results are what those say. `PipeCorrect` by `PipeInv`: the bytes
  delivered, the ones in hand, the left-overs, the chunks of the channel and the io
  buffer are, one after the other, the bytes the muxer made; the channel loses none.
* **`ProtocolProofs`** (`WebTransport`, `RtmpHandshake`). `MapCorrect` and
  `RoutingCorrect` by `RouteInv`: a session in the map or about to be inserted is alive
  or its close is queued, and a session the client may use is one of these while the
  driver runs. It assumes that channels have room for one element at least.
  `AnswerCorrect` by `ShakeInv`: what the server keeps of C1 after `ReadC0C1` is what the client
  put there. Its lemmas say where the bytes of joined, cut and signed messages are;
  from them follow that the digest a client puts at the place its four offset bytes name
  is the one `read_digest` finds, that no other place holds one (`UnsignedIsRefused`),
  and that S1 and S2 verify. It assumes that a digest and its offset fit into
  a chunk, and, as the model does, that two HMACs are equal only if made with the same key from
  the same bytes.
* **`RtmpProofs`** (`RtmpSession`). `RepliesCorrect` and `FramingCorrect` by `FramingInv`: each
  round of the handshake reads at least a byte more than it takes, what is in the
  buffer and on the wire is the rest of the handshake and then whole messages, and
  nothing is left unsent where the session reads. `ResultCorrect` and `DataCorrect` (an action
  property) by `PublishInv`, which relates the session's two fields to the set of
  publishers the application accepted.
* **`MediaProofs`** (`Transmuxer`, `BitReader`) assumes `U32Assumption` (the width is a natural number),
  `TrafficAssumption` (timestamps and frame rates are natural numbers, composition
  times integers) and `BytesAssumption` (there is at least one byte, and the
  distances of seeks are integers). `TimelineCorrect`: a new segment begins where its track
  ended, since the clocks are advanced by what the segment says. `MediaCorrect` by
  `MediaInv`: the queue is the rest of what was fed, and the payloads sent are, in order,
  those at the media places of the part taken; looking for headers and giving up take nothing away. `DriftCorrect` adds `ClockInv`
  (the last timestamp is that of the last frame sent, and no frame is sent before
  the settings exist) and bounds what one frame adds (`DurationDrift`); the
  arithmetic is nonlinear in frame rate and timestamp and stands in lemmas of its
  own. `GridCorrect` uses `GridInv`, which is `GridIsExact` for all numbers of the
  first frame at once. `ClockCorrect` joins the two to `VideoClockIsTrue`.
  `ReaderImplementsCursor`: the reader implements
  the cursor, `ReaderSpec => ReaderIsCursor`. It needs `ReaderInv`: a reader in the
  middle of a byte has passed at least one byte and is not past the end. That the byte
  it holds is the one just passed is not invariant; where it is not, the cursor is
  `lost`. Each method is one step of the cursor; seeks go through lemmas on
  the quotient and remainder of negative numbers, which Rust rounds towards zero.

The `TypeOK` of these components, `CountIsActive`, and `WithinLimits` and
`WakesInTime` of `Batcher` are stated only as theorems; no run repeats them.

Only model-checked are: liveness, which with its fairness is out of the prover's
reach (`ShutdownReturns`, `CallersReturn`, `SignalEndsProcess`, `SessionEndsWhenReady`,
`CallsReturn`); what recursive definitions compute, which needs induction over
data (`SegmentIsReadable`, `BoxesRoundTrip`, `HeadersAgree`); the safety of
`ChunkStream` (`RoundTrip`, `NothingLeftBehind`, `ErrorsAreEarned`), whose encoder lays
out a whole message with a fold; and `HeapBalanced`, a statement about a large table
of functions.

## Where code and documentation disagree

The models follow the code. Where a comment promises something else, the
properties above state what does hold, with the exception written into them. The
runs `context_done` and `channel_read` show two of them as counterexamples.

`context` (`crates/context/src/lib.rs`)

* `done` of a child handler (256) passes `token.cancelled()` when a *parent* is
  cancelled and then waits for a notification that the last drop does not send,
  because the child's own `stopped` was never set; 253: "Waits for the handler to be
  done (waiting for all contexts to be done)."
* `wait` (260, "Returns once all contexts are done, even if the handler is not
  done") is not woken on a handler that nobody cancelled: the last drop notifies
  only if `stopped` (58).
* `drop` decrements and reads `stopped` in two accesses (58). A `Handler::context`
  between them can make a later `shutdown` return with that context alive; 116: "will
  block until all contexts have been dropped".
* The two accesses are `Relaxed`, on different atomics. If the read takes effect
  first, `shutdown` can miss its wakeup; the comment at 56 describes the
  intended order.

`bootstrap`, `signal`

* `on_services_start` runs after the services were spawned (`main_impl.rs:216`);
  `global.rs:150`: "Called right before all services start. Returning an error from
  this function will prevent any service from starting".
* An error of `on_service_exit` detaches the other services, which run on during
  `on_exit` (`main_impl.rs:226`); `global.rs:163`: "will stop all currently running
  services".
* If no service is enabled, `select_all` panics (`main_impl.rs:222`) and `on_exit`
  is not called.
* For a service that panicked `on_service_exit` is not called (`main_impl.rs:224`);
  `global.rs:160`: "Called after a service exits."
* With a second signal pending, `select!` may take it before `shutdown` was polled;
  with an `on_force_shutdown` that returns `Ok` nothing is cancelled
  (`signal/src/bootstrap.rs:56`); `service.rs:38` says it "will cancel the context as
  soon as a shutdown signal is received."

`http` (`crates/http/src`)

* `shutdown` ("waits for all connections to close", `backend/mod.rs:40`) does not wait
  for the connections of a worker that failed (`backend/tcp/serve.rs:22`), nor for
  those of a group that a second `start` replaced (`backend/tcp/mod.rs:69`).
* `wait` takes the join handles with it: if its future is dropped, the next `wait`
  returns at once (`backend/tcp/mod.rs:40`); `backend/mod.rs:37`: "Waits for the server
  to stop."
* With HTTP/3 an error of `on_request` leaves the connection open
  (`backend/quic/quinn/serve.rs:245`); `svc/mod.rs:39`: "the connection will be closed."
* `on_ready` (`svc/mod.rs:43`) is never called.

`rtmp` (`crates/rtmp/src/session/server_session.rs`)

* The session remembers one stream: after two accepted publishes, `deleteStream` of
  the second makes `run` return `Ok(true)` (134), documented as "true if all publishers
  have disconnected" (97).
* At the end of the stream `do_handshake` reads 0 bytes again and again (147) and
  does not come to an end; 96: "Run the session to completion".

`h3-webtransport` (`crates/h3-webtransport/src/server.rs`)

* `accept` drops the future of `drive` when a request is ready (419), and with it
  a stream that `drive` had taken and not yet delivered.
* `drive` awaits the first frame of a new stream before it polls anything else
  (307), so that one silent stream holds up the connection.

`ffmpeg` (`crates/ffmpeg/src/io/channel.rs`)

* `ChannelCompat::read` copies a chunk into the buffer with `copy_from_slice` (207), which
  panics when the chunk is shorter than the buffer; 6: "The wrapper allows for the channel
  to be used with the `Input` and `Output` structs."

## Oddities

Met while translating; the models have them where they model the code.

* `sbgp` counts `grouping_type_parameter` in its size in version 0 too; `stz2`
  multiplies by the field size in bits; `padb` writes `len * 2 - 1` as its count; the
  validation of `elst` refuses large values in version 1 instead of version 0.
* A descriptor's length is written low group first and read high group first, so
  only lengths below 128 read back: an AAC configuration of up to 103 bytes.
* `AudioSampleEntry` shifts the sample rate by 16 in a `u32`; rates from 65536 lose
  their high bits. `tkhd` has room for a width of 32767.
* `mvhd` announces `next_track_id` 1 although tracks 1 and 2 exist.
* The clock: the frame after one with timestamp 0 always gets 1000 ticks, so does any
  frame within a millisecond of the declared rate (34 ms at 30 fps, without end:
  `DriftBounded` is the bound this leaves), and the scaled difference saturates at `u32`.
* `find_tags` takes the latest header of each kind until it has all three; later
  sequence headers are skipped; after a sequence header that does not parse every
  later `mux` fails, as nothing is taken from the queue.
* AVC composition times are read as unsigned, so that negative offsets are large.
* The loop that takes out emulation prevention bytes (`h264/src/sps.rs:38`,
  `h265/src/sps.rs:33`) drops the last one to three bytes, and its bound underflows for units of
  fewer than three.
* SPS: h264 crops by two whatever the chroma format and field coding; h265 does not
  follow sub-layers without a profile, `ordering_info` 0, predicted reference
  picture sets or long-term pictures. `av1C` drops `hdr_wcg_idc` when written; `avcC`
  writes an extension for profiles 66, 77 and 88 and does not read it. `avcC` and `hvcC`
  cast the length of a parameter set or NAL unit to 16 bits, and `hvcC` its counts of
  arrays (to 8) and of NAL units (to 16), while their sizes count all of them
  (`h264/src/config.rs:146`, `h265/src/config.rs:214`).
* Codec strings of HEVC and AV1 are displayed in another form than `from_str` expects,
  which refuses them (`mp4/src/codec.rs:127`, `168`).
* AMF0: the length of a key is cast to `u16`; long strings are decoded and not
  encoded; an ECMA array without an end mark, as the last property of an object,
  takes the object's, and one before a number whose first bytes are 00 09 takes its marker
  and those for an end mark (`amf0/src/decode.rs:94`); a string longer than the data panics; a value that cannot be
  encoded leaves what precedes it in the output.
* A `BitWriter` whose writer fails at the end of a byte keeps `bit_pos` 8
  (`bytes-util/src/bit_write.rs:29`).
* RTMP chunks: a message that begins with a format 3 header repeats the last delta, but
  gets the timestamp of the message before it (`rtmp/src/chunk/decoder.rs:411`), and so do the
  deltas after it start too early, until the next format 0 header.
* RTMP handshake: `define.rs:7` gives 776 as the offset of schema 0's digest; the code
  has 772.
* HTTP/3 bodies: one shorter than its `Content-Length` ends without an error, and
  `is_end_stream` is true at 0 bytes left although trailers may follow; trailers that h3
  has not ready at the one poll of `recv_trailers` are left out (`backend/quic/body.rs:129`).
* HTTP/1 and HTTP/2: the context of a request is dropped when `on_request` returns, before
  its response is sent (`backend/tcp/serve.rs:231`), so `on_close` may come while an HTTP/2
  response body still exists.
* `StreamWithContext` (`context/src/ext.rs:147`) polls the stream even when the context is
  done, and drops an item that was ready.
* FFmpeg: `metadata_mut` of a stream without metadata sets entries of a dictionary
  that nobody owns; clones of a `Frame` share their buffers although `data_mut` and the
  scaler write in place; the name in a filter's `inout` comes from Rust's allocator and
  FFmpeg frees it; `VideoScaler::new` panics if its frame gets no buffer; a failed
  `Encoder::new` or `copy_stream` leaves its stream in the output; clones of a `ChannelCompat`
  share the channel and not the bytes left over; a broadcast receiver that lags looks like
  the end of the file (`io/channel.rs:118`, not in the model); the size query of `seek` leaves the
  position at the end if seeking back fails (not in the model).

Frame rates are integers in the model (in the code `f64`), and boxes have 32-bit
sizes.

## What is not modelled

`PROJECT.json` ("components") has the reason for each part. In short:

* delegation without state of its own: `h3-webtransport/src/stream.rs`, `with_context`, the
  adapters of `http/src/svc`, the writers of RTMP messages, the telemetry service;
* wrappers over other libraries: metrics, settings, pprof, FFmpeg's constants, log
  callback and plain getters;
* reading a whole FLV file into a list;
* code that runs at compile time or in development: macros, `postcompile`, `xtask`;
* the design documents under `video/`, which have no code yet.

Of what is modelled these stay abstract: the libraries below (tokio, hyper, quinn,
h3, FFmpeg), which are what their callers see of them; floating-point numbers; the
contents of strings, payloads and HMACs; wrap-around of 32-bit RTMP timestamps; and
boxes of 4 GiB and more.

## Plan

1. An abstract specification of what a context handler promises (a set of holders,
   a cancelled flag), shown to be implemented by `Context` and used in place of
   the built-in one by `Bootstrap` and `HttpServer`.
2. A proof of `ChunkStream` (`RoundTrip`), with the encoder writing one chunk a step.
3. An abstract channel that `ChunkStream` refines, composed with `RtmpSession`.

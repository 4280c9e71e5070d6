# TLA+ models and proofs for neo-io

neo-io is a header-first C++20 library of synchronous byte streams: operations
that move *some* bytes (`read_some`, `write_some`), a loop that moves *all* of
them (`neo::read`, `neo::write`), adaptors that turn a stream into a buffer sink
or a buffer source, a TLS client over such buffers, and owners of operating
system handles with files and sockets on top. This directory holds TLA+ models
of that code, TLC runs over small instances of them, and TLAPS proofs for every
instance. Paths below are relative to the root of the repository
(`src/neo/io/...`); PROJECT.json, which prefixes them with the directory the
sources are checked out in, lists for each definition the lines it stands for.

## 1. The system

| Part | State | Operations | Used by / uses |
|---|---|---|---|
| transfer loop: `detail/io_op.hpp`, `read.hpp`, `write.hpp`, `completion_condition.hpp`, `concepts/result.hpp` | per call: the buffer consumer, the accumulated result | `neo::read`, `neo::write` with `transfer_all`, `transfer_exactly` or a condition of the caller's | calls `read_some`/`write_some` of any stream; called by `commit` of the next part |
| `stream_io_buffers`: `stream/buffers.hpp` | a dynamic buffer (read area, prepared region) and a stream | sink: `prepare`, `commit`; source: `next`, `consume` | sits between `ssl::engine` and its inner stream |
| `ssl::engine`, `ssl::stream`: `openssl/engine.*`, `openssl/stream.hpp` | the SSL object, a BIO pair, a sink and a source | `connect`, `read_some`, `write_some`, `shutdown`; construction, moves, `rebind_*` | calls OpenSSL, the sink and the source in turn; refers to streams of its own or of the caller's |
| `native_stream`: `stream/native.hpp`, `stream/posix.*` | one handle, or the invalid one | construction, moves, `release`, `reset`, `close`, destruction; `read_some`, `write_some` | base of file streams and sockets |
| `file_stream`: `stream/file.*` | a native stream | `open` with `open_mode` flags, on POSIX and on Windows | |
| sockets and addresses: `stream/socket.*` | a native stream; a resolved address list | `resolve`, `create`, `connect`, `open_connected` | |
| `ssl::context`: `openssl/context.*` | an `SSL_CTX` | choice of method and protocol versions; moves | engines make their SSL object from it, which holds a reference of its own |
| `dynbuf_stream`, `string_stream`: `stream/dynbuf.hpp`, `stream/string.hpp` | a dynamic buffer | `read_some`, `write_some` | streams for the transfer loop |
| Windows handles and sockets: `stream/win32.*`, `stream/socket.win.cpp` | a handle, the last error of the system | `read_some`, `write_some`; `close` | streams for the transfer loop |
| concepts, standard streams, error category, configuration | none, or constants | | |

Everything is called synchronously, on the caller's thread. What makes the
behaviour hard is therefore not a scheduler of its own but what surrounds it:

* every operation may move fewer bytes than asked, may move bytes *and* fail, or
  may move none, and the layer above must neither lose nor repeat a byte;
* a buffer keeps the bytes that a failed write left behind, and later calls
  meet them;
* the TLS loop interleaves three parties (OpenSSL, the sink, the source) and has to
  get everything out before it waits for something to come in;
* handle numbers are reused by other threads the moment they are closed;
* a TLS stream refers to the stream inside itself, so that a move has to move both
  and bind one to the other again, and OpenSSL counts the references it is given;
* two implementations of `open` have to mean the same thing;
* error codes and `errno` are read after the call that may not have set them.

The list of places, each with its line and the property aimed at it, is under
`hazards` in PROJECT.json.

### What makes each part correct

* **Transfer loop.** The count it returns is what the stream took; a caller that goes
  on behind it repeats and skips nothing; it asks for no more than the condition
  allows; it returns, and for a reason; with the streams of this library it ends
  short and without an error only at the end of the stream.
* **Sink and source.** Bytes come out in the order they went in, each once, however
  operations fail; the buffer never exceeds its maximum; an empty view means the
  stream had nothing; a view is not invalidated by the buffer that showed it.
* **TLS loop.** Ciphertext stays in order both ways; it does not wait for the peer
  with output unsent; success means that OpenSSL finished and that everything it
  produced is out; calls return.
* **Native streams.** Each open handle has exactly one owner, and a close hits the
  owner's handle only.
* **Files.** Flags mean what their comments say, alike on both systems.
* **Sockets.** A call that fails half way loses nothing; a socket is handed out if
  and only if no error is; only the owner's destructor shuts a connection down.
* **Contexts.** A protocol name gives just the versions it names, in every release
  of OpenSSL; each `SSL_CTX` is freed once, and not under an SSL object made from it.
* **TLS streams and engines as objects.** Each SSL object and each BIO has one owner;
  the session of a TLS stream stays on the connection it was given, in both
  directions, wherever the stream is moved.

## 2. The modules

| Module | Models | State | Actions |
|---|---|---|---|
| `BytePipe` | the abstract promise of all byte-moving parts: output is a growing prefix of a growing input | `put`, `got` | `Transfer` |
| `IoOp` | `do_io_op` and the continuation of a short transfer by its caller | the locals of the loop (`consumed`, `next_out`, `res_acc`), the caller's progress (`base`), the history of the stream | `CheckCondition`, `Operate` (any `Transfer`), `Exhausted`, `NextCall` |
| `Streams` | `IoOp` over the streams of the library: what a descriptor, a Windows handle, a Windows socket and a dynamic buffer answer to a chunk, their conversions of sizes and errors included | `IoOp`'s, the kind of stream, what a dynamic buffer has left, why nothing moved (`dried`) | `StreamOperates` in place of `Operate`, `StreamNextCall` |
| `StreamSink` | `prepare`, `commit` | read area, prepared size, histories of accepted and sent bytes | `Prepare`, `Commit` |
| `StreamSource` | `next`, `consume` | read area, shown view, histories of fetched and taken bytes | `NextBytes` (`ShowBuffered`, `ReadMore`), `Consume` |
| `SourceViews` | `StreamSource` with a client that keeps the views it is shown, and *external*: where `prepare` puts the bytes | `StreamSource`'s, the address where the read area starts, the longest view held | `ShowsView`, `ReadsView`, `ConsumesView` |
| `OpenSSL` | *external*: what the SSL object and the BIO pair may answer | handshake, close_notify both ways, bytes in the pair, last result, errno | `Connect`, `Read`, `Write`, `Shutdown` |
| `SslEngine` | `engine_impl::run`, `one_step`, `flush_io` and the four public operations; composes `OpenSSL`, `StreamSink` and `StreamSource` as `ssl::stream` does | where the loop stands, its result and error code, and the state of the three parts | `Begin`, `OneStep`, `PrepareOutput`, `CommitOutput`, `AskInput`, `FeedInput` |
| `FileStream` | `default_open_flags`, both `open` functions, what the systems do with the flags, reading, writing, another program that appends | the file, the stream, the request and its result | `Open`, `WriteSome`, `ReadSome`, `Close`, `OtherAppends` |
| `NativeStream` | handles and their owners | life time and handle of each object, the operation it is in, the handles open in the system and those held by the program | construction, `MoveConstruct`, `Release`, `BeginClose`, `BeginDestroy`, `BeginReset`, `BeginMoveAssign`, `Finish`, `SystemOpen`, `SystemClose` |
| `Socket` | sockets over `NativeStream`: where each call of a socket stands, the descriptor it holds, the caller's error code | `resolved`, `task`, `peer` (whether each handle is connected or shut down) | `Resolve`, `Call`, `SocketFails`, `SocketOpens`, `Adopt`, `Connect`, `Return`, `Destroy`, `ShutDown`, `DestroyMember`, `FinishMember`, `StreamOp`, `OpenElsewhere`, `CloseElsewhere` |
| `SslContext` | the constructor's switch over protocols as the preprocessor leaves it, and the references to each `SSL_CTX` | the build of OpenSSL, the pointer in each context (`ctx`), OpenSSL's count for each pointer (`refs`), the pointer each SSL object was made from (`ssl`) | `Construct`, `Destroy`, `MoveConstruct`, `MoveAssign` |
| `SslObjects` | `ssl::stream<Stream>`, `ssl::stream<Stream&>` and `ssl::engine` as objects over those contexts: what they own, what they refer to, where that is | the fields of each object (`obj`), the BIOs not yet freed (`bios`), the connection at each location (`at`), the connection each session was given (`home`) | `ConstructStream`, `ConstructStreamThrows`, `ConstructBorrowing`, `ConstructEngine`, `AdoptEngine`, `RebindEngine`, `RebindNextLayer`, `MoveConstructObject`, `MoveAssignObject`, `DestroyObject`, `Use`, `Dial`, and the steps of `SslContext` |
| `MCSocket`, `MCSslObjects` | the symmetry of the instances of `Socket` and `SslObjects` that TLC checks | | |
| `SeqLemmas` | facts about sequences and prefixes | | |
| `IoOpProofs`, `StreamSinkProofs`, `StreamSourceProofs`, `SslEngineProofs`, `FileStreamProofs`, `SocketProofs`, `SslObjectsProofs` | theorems about the module they are named for; `IoOpProofs` also about `Streams`, `StreamSourceProofs` about `SourceViews`, `SocketProofs` about `NativeStream`, `SslObjectsProofs` about `SslContext` | | |

`SslEngine` is the composition: its steps *are* `Sink!Prepare`, `Sink!Commit`,
`Source!NextBytes`, `Source!Consume` and `SSL!Call`, so that the properties it is
checked for are those of the parts working together. That it uses those two parts only
as they were modelled to be used (commits no more than it prepared, offers a byte no sink
has seen before, consumes no more than it was shown) is `DrivesItsBuffers`: each of its
behaviours is one of `Sink!Spec` and of `Source!Spec`, so that what is proved of a sink and
a source alone holds of those of a TLS stream (`EngineIsPipe`). `Socket` extends
`NativeStream` and takes its steps with those of that module, and its calls are
proved to be behaviours of `NativeStream!Spec`. `Streams` extends `IoOp` and is
proved to do only what `IoOp` does over an arbitrary stream. `SourceViews` extends
`StreamSource` in the same way: its behaviours are those of a source, with a client. `SslObjects` extends
`SslContext`: an SSL object counts as a holder of its context's `SSL_CTX`. `IoOp`,
`Streams`, `StreamSink` and `StreamSource` are shown to implement `BytePipe`. `StreamSink` uses of `IoOp` what `CountMatchesStream`,
`ReturnsForAReason` and `CallReturns` say: a transfer reports exactly what it moved
and is complete unless it reports an error or met an operation of no bytes
(`WriteResults`).

### How code becomes model

* **Bytes are numbers.** A byte is its position in the order of production, so
  loss, repetition and reordering are all visible and no payload is needed. In
  `FileStream` a unit of the file is a mark that says who wrote it.
* **Calls are atomic unless something can happen inside.** `commit` is one step,
  its write, consumption and throw included. The TLS loop is one step per call to
  another party. A close of a handle is two steps, because between the system call
  and the store that forgets the number another thread may be given the number.
* **Errors that accompany bytes** are part of every result; an exception is an
  outcome (`"threw"`) that comes after the state changes the code makes first.
* **A reused error code** is part of a socket's call: the code writes to it only on
  failure, so `Call` takes it over as the caller left it (`stale`).
* **What a reference refers to** is a location: an object of the model (a stream held
  by value lives in its TLS stream) or a place of the caller's, with the connection
  that is there. A move changes what is where; a reference that is not bound again is
  then seen to read from nowhere or from somebody else's connection.
* **The preprocessor** of `ssl::context` is the constant part of the state: `build`
  is any release together with what it was built without, and never changes.
* **Unsigned arithmetic.** `transfer_exactly` subtracts in `size_t`; `SizeSub` wraps.
  Windows sizes are cast to 32 bits; `Dword` is the remainder.
* **errno** is a Boolean of `OpenSSL` (zero or not). `Begin` takes it over in
  whatever state the program has left it; a call that reaches the socket or the
  handshake machine clears it, a call refused by a dead connection in `SSL_connect`
  does not.
* **Conditions tried in order** are nested IFs; a CASE has guards that exclude each other.
* **A definition marked "mutant"** is a plausible mistake in the code that the
  definition below it translates. None is part of a specification; each is kept
  to show that a property notices it.

## 3. The runs

| Run | Shows |
|---|---|
| `io_op` | the loop over each kind of stream stops for a reason, ends short only at the end of the stream, returns and is a pipe, under any mix of short counts, errors and conditions, over continued calls |
| `stream_sink` | the sink under writes that fall short or fail: order, capacity, and that bytes are left behind after a write that fell short, then always, and never otherwise |
| `stream_sink_delivers` | *violated:* a commit that returns normally has delivered what was committed |
| `stream_source` | the source under short and failing reads: order, honest emptiness, and views that stay readable for a client that keeps them while the buffer moves |
| `ssl_engine` | the TLS loop over a sink that may run full and streams that fail: order both ways, no wait with output unsent, success is sent, calls return unless the sink is full, sink and source are used as modelled |
| `ssl_engine_after_failure` | *violated:* a read or write without an error was completed by OpenSSL |
| `file_stream` | all 256 sets of flags, both systems, files that do not exist or of any length within the bound, with another program at the file and without |
| `file_posix_append` | *violated:* what is opened to append overwrites nothing, on POSIX |
| `file_write_creates` | *violated:* writing alone does not create, as the comment on `no_create` says |
| `socket` | ownership, `open_connected` and shutdown over two sockets and a plain stream, with moves, self-moves, release, reset, close, destruction and immediate reuse of numbers |
| `ssl_objects` | each protocol name in each release and build, its refusals included; contexts, TLS streams and engines that are made, fail to be made, are moved, adopted, rebound and destroyed in any order: references counted right, one owner for each session, one connection for each stream |
| `ssl_context_version` | *violated:* a context bound to one version negotiates no other |

### Bounds, and why they are enough

* `IoOp`: `MaxLen = 3`, `SizeMax = 7`. A transfer needs at most three chunks to show
  a first, a middle and a last operation; `SizeMax` is above twice the length, so a
  difference that wraps is distinguishable from every legal request.
* `Streams`: `Dwords = 2`, so that a chunk of two bytes is cast to none and one of three to
  one; `Capacity = 2` leaves a dynamic buffer short of the longest transfer, and its
  owner may change it between calls.
* `StreamSink`: `Capacity = 3`, `MaxBytes = 5`: the buffer runs full, and there are
  bytes left to commit after a short write. `StreamSource`: `Capacity = 4`,
  `MaxBytes = 8`: the buffer is filled and emptied twice, and `Places` is two addresses farther apart than
  the views of a run reach: storage moves, shifts back to its beginning or stays. A request for bytes is for at
  most `2 * Capacity`: one beyond the capacity asks for no more than there is room for.
* `SslEngine`: `BioSize = 2` so that the pair runs full in the middle of a flight;
  `OutCapacity = 2` so that the sink runs full after a short write and
  `flush_io` gives up; `InChunk = 2` so that a chunk is fed in parts; `MaxOut = 4`,
  `MaxIn = 3` give a flight, a record and a close_notify. One byte of the bound on
  output is kept for the close_notify, as otherwise no bounded run could shut down.
  `MaxCall = 1`: the loop ends at the first plaintext, so a longer buffer only
  changes how much one step reports.
* `FileStream`: `MaxFile = 3`, and a file that starts with any number of old units, none
  and all three included, since properties compare the file before and after one step.
* `Socket`: two sockets (one that fails while the other is connected) and one plain
  stream (which a handle can be moved to and from through `native()`), with two
  numbers (one closed, one given out again). The two sockets are
  interchangeable, and the run uses that symmetry; no liveness is checked in it.
* `SslObjects`: two contexts and two pointers, two sessions, two objects, two places of
  the caller's and two connections: enough for every move, self-move of a context and
  adoption, for two objects over one context and for a context that is destroyed or made
  again before its sessions end. All six sets are symmetric. The releases 1.0.0, 1.0.2,
  1.1.0 and 1.1.1 stand on either side of every condition in the code, each with and
  without SSL 2 and SSL 3. What is checked of moves and counts is also proved for any
  number of each.

`CHECK_DEADLOCK FALSE` appears where the model really may stop: a caller whose
transfer is complete, a producer or stream at its bound, an aborted program. The models
of the TLS loop, of contexts and of handles never stop and are checked for deadlock.

### Fairness

Only two specifications are used for liveness. `Streams` has
`WF_streamVars(StreamLoop)` and `SslEngine` `WF_vars(Run)`: a call that has begun takes its next step, because
the loops run on the caller's thread and the operations they call return (they may
block, but not for ever). Nothing obliges a caller to begin another call. No
progress of the peer is assumed: a read may end with nothing.

`CallReturns` of `SslEngine` says that a call returns *or the sink is full*. With a
bounded sink that a short write has filled, `flush_io` leaves the output in the pair
without an error, OpenSSL answers `SSL_ERROR_WANT_WRITE` again, and `run` goes round
without end; the run contains these loops. The sink `ssl::stream` builds is a
`std::string`, limited by memory, so there the second alternative does not arise.

## 4. What the code does that its words do not say

1. **A commit that returns may leave bytes behind** (`stream/buffers.hpp:57`). After a
   short write, each later commit writes as many of the oldest bytes as it adds, so
   some bytes stay behind for good: `BehindOnceFell` (a part of `Inv`) is proved, `CommitDelivers` fails. The
   test of the class expects each commit to arrive in full.
2. **A dead connection reads as an orderly end** (`openssl/engine.cpp:87`).
   `SSL_ERROR_SYSCALL` is turned into `errno`, which may be zero; then a call
   reports no error and no bytes, which `neo::read` takes for the end.
3. **Append overwrites, on POSIX** (`stream/file.nix.cpp:25`). The access mode is
   assigned over `O_APPEND`. On Windows the pointer is set to the end once, which
   suffices without other writers.
4. **`write` alone creates** (`stream/file.hpp:72`), against the comment on `no_create`.
5. **TLS 1.1 means TLS 1.0** (`openssl/context.cpp:84`). With OpenSSL 1.1 and later the case
   of `tls_v1_1` loads the method for TLS 1.0 alone, and a method for one version does not
   look at the bounds set in the next line.

One more thing is the code's convention and no disagreement: `open_connected` tests
the caller's error code, which success does not clear. A code left over from an
earlier call makes it throw away a socket that is connected; `DropsForAReason` says
that this and failure are the only reasons.

`PlatformsAgree` leaves out flags that truncate without writing: POSIX does not say
what `O_RDONLY | O_TRUNC` does, and Windows refuses.

## 5. The proofs

TLAPS proves, for every value of the constants that satisfies the named assumptions:

| Module | Theorems | Inductive invariant |
|---|---|---|
| `IoOpProofs` | `Invariance`, `CountCorrect`, `ExactCorrect`, `ReturnCorrect`, `LoopIsPipe`, `StreamsAreTransfers`, `ShortCorrect` | `IoOp!Inv`, `DriedOK` |
| `StreamSinkProofs` | `Invariance`, `OrderCorrect`, `CapacityCorrect`, `LagCorrect`, `SinkIsPipe` | `StreamSink!Inv` |
| `StreamSourceProofs` | `Invariance`, `OrderCorrect`, `EmptyCorrect`, `SourceIsPipe`, `ViewsAreSource`, `ViewsCorrect` | `StreamSource!Inv`, `SourceViews!ViewsInv` |
| `SslEngineProofs` | `EngineInvariance`, `OutputCorrect`, `InputCorrect`, `NoWaitCorrect`, `SentCorrect`, `CloseCorrect`, `NoStallCorrect`, `BuffersCorrect`, `EngineIsPipe` | `SslEngine!EngineInv` |
| `FileStreamProofs` | `FileInvariance`, `FlagsCorrect`, `PlatformsCorrect`, `TruncateCorrect`, `CreateCorrect`, `AppendCorrect` | `FileStream!FileInv` |
| `SocketProofs` (of `NativeStream`) | `Invariance`, `OwnedCorrect`, `OwnerCorrect`, `LeakCorrect`, `CloseCorrect` | `NativeStream!Inv` |
| `SocketProofs` (of `Socket`) | `SocketInvariance`, `SocketsAreStreams`, `SocketLeakCorrect`, `SocketCloseCorrect`, `PlacesCorrect`, `ConnectedCorrect`, `DropsCorrect`, `ShutCorrect` | `Inv`, `SocketInv`, `ShutOnlyWhenDestroyed` |
| `SslObjectsProofs` | `ObjectsInvariance`, `OwnerCorrect`, `ConnectionCorrect`, `ReferencesCorrect`, `OffersCorrect` | `ObjectsInv`, then `EachReferenceOwned` |

Why the properties are not inductive as they stand, and what the invariants add:

* **IoOp.** `CountMatchesStream` speaks of the accumulated count, while an operation
  extends the stream from the consumer's position: `ConsumerInStep` ties the two, and
  says that an operation that failed or moved nothing was the last one.
  `ExactlyNeverOvershoots` needs `ChunkInBounds`: a chunk already offered lies within
  what the condition still asks for. From these the difference in `SizeSub` is
  never negative, under `BoundsAssumption` (a buffer is shorter than the largest `size_t`).
* **Streams.** `StreamsAreTransfers` first: whatever a descriptor, a handle or a dynamic
  buffer answers is a `Transfer` of `IoOp`, so that all that is proved there holds of them.
  `ShortCorrect` then needs to know, at the end, why the last operation moved nothing:
  `DriedOK` carries that from the operation to the return.
* **StreamSink.** `FitsCapacity` counts the region handed out as well as the area: it
  bounds what a commit may add. With it, a write can only take from the front of an
  area that holds at least what is offered. `BehindOnceFell` is an equivalence because only
  so it is inductive: what a commit leaves is what waited before and what its own write fell
  short of, so the area is empty after it exactly if it was before and the write was whole.
* **StreamSource.** `ViewInArea` says that what may still be consumed is there;
  `EmptyMeansDry` follows because only `ReadMore` with an empty area answers "empty".
* **SourceViews.** `ViewsAreSource` first, so that `StreamSource!Inv` holds of it. `ViewsStayValid`
  speaks of the longest view a client holds, and a client consumes from the last view it was
  shown: `ViewsInv` adds that the last is no longer than the longest. Then `consume` moves the
  view and the area alike, and storage moves only in a read, when the area, and with it
  every view, is empty.
* **SslEngine.** The sink and the source keep their invariants because the engine takes
  only steps that `StreamSinkProofs` and `StreamSourceProofs` have lemmas for: it commits no
  more than was prepared and consumes no more than was shown. `OutputInOrder` joins the
  sink's order to the numbering of what OpenSSL emits; `CloseFits` keeps room in the bound
  for the close_notify. `NoWaitWhileOutputUnsent` and `SuccessIsSent` come from `Drained`,
  which spans the whole of `flush_io` behind its output: it ends its loop only when nothing
  is pending, or when the sink has no room, and a sink without room holds bytes a write fell
  short of. This needs a sink that can hold a byte, hence `OutCapacity` is positive in
  `EngineAssumption`. The
  last two properties speak of the return, long after the step that decides them:
  `StepKeepsPromise` carries what the last answer of OpenSSL promised
  (`CallAnswers` goes through every answer of `OpenSSL` once) to the place where the call returns,
  `NothingReportedYet` says that bytes are reported only by the step that ends the
  call, and `ReturnsFinished` that a call without an error has such a step.
  `BuffersCorrect` takes each step of the engine to one of the sink (`SinkDriven`) and one of
  the source (`SourceDriven`), or to none. What has to be shown is that the engine hands the
  sink the *next* bytes: what is committed continues the sink's history (`PairIsFresh`),
  which follows from `OutputInOrder` and from the numbering of the bytes in the BIO pair.
  `EngineIsPipe` then is the theorems of the sink and the source, for these two.
* **FileStream.** `TypeOK` is not inductive: a write would put contents into a file that does
  not exist. `OpenHasFile` excludes that, and `AtEnd` carries where a stream that appends
  stands from `open` to each of its writes; both are parts of `FileInv`. About the flags there
  is nothing to be inductive: `FlagsMean` says of each flag in the result of
  `default_open_flags` which flags of the caller's put it there, which the cascade of seven
  lines only does step by step, and `FlagsFilled` that a second pass adds none. `PosixEffect` and
  `WindowsEffect` say of each `open` what it then does to a file, in the same words; that the
  two agree, and create and truncate only as asked, is read off those.
* **NativeStream.** `Owned` attributes to an object in the middle of an operation the
  handle it will have afterwards; `DeadOwnsNothing`, `OnlyResetTakesOver` and
  `HeldIsOpen` close the invariant over destruction, reset and the program's own
  handles. `CloseCorrect` is an action property proved from it: a close frees the
  owner's handle only, although another thread may be given the number
  before the object forgets it.

* **Socket.** `SocketsAreStreams` first: each step is a step of `NativeStream` or leaves
  its variables alone, so that all that is proved there holds of sockets
  (`SocketLeakCorrect`, `SocketCloseCorrect`). `PlaceOK` then says what a call relies on at
  each place: whether the object is there and at rest, that an error has a reason, and that
  before it returns `open_connected` has an error or a connection. It is preserved by the
  socket's own steps (`OwnSocketOK`) and by everybody else's (`OtherSocketOK`,
  `StreamOpInv`, `ElsewhereInv`), the latter because an object at rest owns its number
  alone (`AtRest`). `ConnectedCorrect` and `DropsCorrect` follow from `OpenConnectedReturns`:
  there are two places where the call can return. `ShutOnlyWhenDestroyed` is inductive
  given these two invariants.
* **SslObjects.** That a session stays on its connection follows only if each object
  refers to what its kind says: `RefersAsKind` adds that a stream held by value is the
  object's own in both directions, that a borrowed one is where a connection is, and that
  an object without a kind has nothing. The proof has a lemma for what each operation does
  to the record of an object (`ReboundFields`, `TakenFields`, `MovedFields`), one for
  objects it does not touch (`Untouched`) and one for the two pointers that change hands
  (`OwnersAfterMove`). `EachReferenceOwned` is inductive given that invariant, by counting:
  `CountAfterChange` says what becomes of the number of holders when one of them changes
  what it holds, and a move is two such changes. This is why contexts and sessions
  are assumed to be finitely many.
* **SslContext.** `OffersAsNamed` speaks of the release and build a program was compiled with,
  which no step changes. `EnabledMeans` says which versions a build has, `FixedOffers`,
  `FlexibleOffers` and `BoundedOffers` what a method of each kind offers there, and `MethodOffers`
  goes through the cases of the constructor, a refused one among them: it offers nothing,
  which is right only if the build has nothing of what was named.

The pipe theorems map each initial state to an initial state of `BytePipe` and
each step to `Transfer` or a stutter. The sequence facts they share are in
`SeqLemmas`: `CutAndJoin` (a sequence is its two parts), `FrontOfFront`, `HandOn` (moving the
front of the second part to the end of the first keeps the whole), `ConcatIsPrefix`,
`PrefixOfItself`. No definition is assumed: the only assumptions are the named ones of
the constants, which TLC evaluates in the runs.

### Only model-checked

* `CallReturns` of `Streams` and of `SslEngine`: liveness is beyond the prover. Every other
  property of a passing run is a theorem, or a part of an invariant that is one.
* The statements that the code violates are refuted by their runs, and only there.

## 6. What is not modelled

* **Vectored operations**: on POSIX `_do_readv` and `_tl_iov_arr_len` are declared and
  never defined, and on Windows the vectored operations of sockets are declared only, so
  the code cannot be linked. `wsa_socket_stream::_do_write_some` of a mutable buffer
  likewise calls nothing but an overload of the same kind.
* **The lifetime of `wsa_socket_stream`**: its moves exchange the `SOCKET` as those of a
  native stream do, and its destructor shuts the connection down, but no code of the class
  closes the `SOCKET`, so the properties of owners that `NativeStream` states have no
  counterpart; PROJECT.json lists the missing close as a hazard.
* **Both roles of one `stream_io_buffers` at once.** The sink and the source share
  one buffer if an object is used for both; `ssl::stream` keeps two objects, and so
  do the models.
* **An engine assigned to itself**: `_free` keeps the pointers it has freed, so the
  caller must not do it, and the model does not. A context may be assigned to itself.
* **An engine whose `SSL_new` fails in a constructor declared `noexcept`** ends the
  program; the model has the constructors that throw.
* **Preconditions that assertions state**: `create` asserts that it knows the address family, and the
  model has sockets of known families only. The assertions of `default_open_flags` *are* modelled: a
  conflict of flags ends the program, or, in a build without assertions, `open` goes on with
  both flags set.
* **A retry with other arguments** after a write that failed with OpenSSL still holding the
  record, and **sizes above 2^31** in the casts to `int` for OpenSSL.
* **What a socket reads and writes** in its connection: `read_some` and `write_some` change
  nothing but the kernel; what they may answer is in `Streams`.
* **Concepts, standard streams, error category, configuration**: no behaviour.

## 7. Plan

The order of the work, most important first. Done: `BytePipe`, `IoOp`, `Streams`,
`StreamSink`, `StreamSource`, `SslEngine` with `OpenSSL`, `NativeStream`, `Socket`,
`FileStream`, `SslContext`, `SslObjects`, and the proofs above. To do:

* What the deviations of section 4 come to, as theorems: `StreamSink` has one
  (`LagCorrect`); for an append on POSIX, exactly what it overwrites, and for `tls_v1_1`,
  exactly what its context offers.

Two engines back to back are not on the list: the engine is a client only, and the
`OpenSSL` and peer of `SslEngine` may already answer in any way another program could.

# TLA+ models of the gammaray NBD queuer

These modules model the core of `src/src/nbd/nbd.c` and the bit array of
`src/src/datastructures/bitarray.c`. The core is an NBD
(Network Block Device) server on one libevent loop. It serves a backing
file to NBD clients and publishes every write to a Redis list
(`writequeue`) through an asynchronous hiredis context. The TLC model
checker checks the modules under bounded configurations. Some runs show
properties that hold; others show disagreements between the code and
`spec.md`.

## The system

| Part | Code | Role |
|---|---|---|
| Listener | `nbd_new_conn`, `nbd_old_conn` (nbd.c 627-688) | Accepts a socket and allocates a `struct nbd_client` in `HANDSHAKE_SENT` (new style) or `DATA_PUSHING` (old style). Queues the handshake. |
| Client state machine | `nbd_client_handler` (596-624) | Runs on every read event. `while (evbuffer_get_length(in))` switches on `client->state` and calls a helper. `true` = wait for more bytes, `false` = iterate again. |
| Handshake | `__check_zero_handshake` (285-305), `__check_opt_header` (353-417) | Takes the 4 zero bytes, then options: export name, abort, list or unknown. |
| Request engine | `__check_request` (506-593), `__handle_read` (419-446), `__handle_write` (448-504) | Handles READ, WRITE, DISC, FLUSH, TRIM and unknown commands against the backing file. |
| Teardown | `nbd_ev_handler` (200-212) | Frees the bufferevent, `client->buf` and the client. |
| Publisher | `__handle_write` 496-501, `redis_async_callback` (214-217), `redis_disconnect_callback` (219-274), select in `nbd_init_both` (915-916) | Two `LPUSH writequeue` per successful write, then reconnect on EOF. |
| Startup | `nbd_init_both` (800-921), `nbd-queuer-test.c` | Opens the file and sets up libevent and hiredis. |
| Bit array | `bitarray.c` (35-168) | The block bitmap that gray-crawler fills and serializes, and the filter the async queuer keeps. |
| BSON encoder | `bson-encoder.c` (43-507) | Builds the document `bitarray_serialize` writes: a growing buffer, one serializer per element type, a length prefix added by `bson_finalize`, then `bson_writef` and `bson_cleanup`. |
| Disk crawler | `gray-crawler.c` `main` (64-211), `cleanup` (51-61) | Writes the MBR. For each of the four partitions, probes the crawlers in turn and writes the entry and file system of the first that recognises it. Then writes the bitmap. |
| Async queuer | `async_queuer.c` `read_loop` (27-122) | Reads qemu's block writes (a header, then the sectors) from a pipe and enqueues each one. Short reads are resumed, EOF is a clean end, and other failures end the loop. |
| NTFS inference engine | `inference_engine_ntfs.c` `read_loop` (26-77) | Dequeues writes until a dequeue fails. Each write is inferred and inspected by the gammaray library, then its buffer is freed. |

All of these share one thread. Callbacks never run concurrently, but they
interleave: the read callbacks of all connections, the hiredis reply and
disconnect callbacks, and the Redis server executing commands on its own.
A write's data reaches the file and its LPUSH pair is queued within one
callback. The replies to those LPUSHes and any disconnect arrive in later
callbacks.

The other programs of the repository are separate pipeline stages:
- the disk crawler;
- the async queuer;
- the NTFS inference engine.

They exchange files and queue items with the core (spec section 1). Of their
code, these are modelled (see "Not modelled" for the rest):
- the bit array they use, and the BSON encoder it serializes with;
- the async queuer's `read_loop`, which reads qemu's stream of block writes from
  a pipe and hands each write to the queue;
- the disk crawler's `main`, which writes the index (MBR, partitions, file
  systems, bitmap) to a socket;
- the inference engine's `read_loop`, which dequeues writes, inspects them and
  frees their buffers.

## Modules

### `NbdServer.tla`: the NBD engine

**State**

| Variable | Code |
|---|---|
| `conn[c]` | `client->state`, plus `NONE` (not accepted) and `FREED` |
| `stream[c]` | the client's messages not yet drained |
| `avail[c]` | units already in the input evbuffer |
| `out[c]` | replies written |
| `buf[c]` | `client->buf != NULL` |
| `active` | the connection whose read callback runs |
| `disk`, `fsize` | the backing file |
| `fault` | the process stopped: `hang`, `abort` or `use_after_free` |
| `peer[c]` | the client's end of the socket: `open`, `closed` or `reset` (the event not yet reported), `eof` or `error` (reported) |

Ghost variables record history:
- `history`: what each client sent;
- `phase`: the client's own protocol position;
- `applied`: every mutation of the file, in order.

**How messages and bytes are represented.** A message is a record, and its
wire size is `Size(m)`: a header of `HdrLen` units plus the option or write
payload. Fragmentation is modelled by `Arrive`, which hands 1..`MaxChunk`
units to the callback. So every way TCP can split and merge the stream is a
different sequence of steps. Each iteration of the drain loop is one step,
and all of these are disjuncts of `Handler(c)`:
- `CheckZeroHandshake`;
- `CheckOptHeader`;
- `FreeDisconnected`;
- `UseAfterFree`: the loop runs again on a freed client;
- `RequestWaits`;
- `HandleRead`, `HandleWrite`, `HandleDisc`, `HandleFlush`, `HandleTrim`, `HandleUnknown`;
- `LoopExit`.

**Branches that model specific code paths:**
- `HandleRead` and `HandleWrite` carry `realloc(client->buf, len)`. With glibc, `realloc(p, 0)` returns NULL, which either trips the assert or leaves the buffer NULL under NDEBUG.
- `lseek64` fails (`SeekFails`) for offsets of 2^63 or more, which are negative as `off64_t`. `OffLimit` stands for 2^63.
- `HandleRead` hangs (`fault = "hang"`) at end of file, because `read()` returns 0 and `while (len)` never ends.
- I/O errors are optional (`IoErrors`).
- Short writes are optional (`ShortWrites`, a file system that fills up). The `write()` loop asks for `len` bytes at `&buf[pos]` on every call. After a short first call, it ends in one of two ways:
  - a failing call: `ENOSPC`, with the range torn (`TornEnds`);
  - a succeeding call: the call also writes the bytes past `buf`, beyond the range, and the reply is OK (`WriteEnds`).

  `applied` records these as `torn` and `spill` mutations.
- `HandleWrite` reallocs before checking that the payload is complete, as the code does.
- `HandleTrim` fails with EINVAL for a zero length or a negative offset, as `fallocate` does.
- A zero-length read at an offset past the end of file is answered OK with no data: `while (len)` never runs.

**The client.** It is an environment action, `ClientSend`. It sends any
message of the configured sets. It pipelines: it does not wait for
replies. A client in `ClosingConns` may also close its socket at any point
(`ClientCloses`), or, with `SocketErrors`, have it reset.

**Socket events.** `nbd_ev_handler` runs on libevent's event callback:
- `EvEof`: once every byte the client sent has been read (and each read ran the read callback), EOF frees the bufferevent, `client->buf` and the client;
- `EvError`: ERROR makes the handler return at its first test; libevent reads nothing more, and the client is never freed.

### `BlockDevice.tla`: what the engine promises

An abstract block device, written from spec sections 3 and 8:
- `store` (unit to value), shared by every connection;
- `pending[c]`, the requests connection `c` sent and has no answer for;
- `answered[c]`, its answers (handle, error, payload).

`Submit` appends a request. `Succeed` answers the oldest one and applies it in the same step: a read returns the store, a write or trim overwrites its range, a flush does nothing. `Fail` answers it with an error and any payload, and leaves the store alone.

`NbdServer` maps onto it (`BD == INSTANCE BlockDevice WITH ...`):
- `store` is `disk`;
- `pending[c]` is the well-formed read, write, flush and trim requests of `history[c]` beyond the ones answered;
- `answered[c]` is the command replies of `out[c]` without their `seen` field.

`ImplementsBlockDevice` states `BD!BDSpec`. Steps that send nothing the abstraction sees (partial reads, handshake, waiting) are stutters. A fault stops every later step, so a run that faults is a finished behaviour of the device.

### `RedisPublisher.tla`: the write-queue publisher

**State**

| Variable | Meaning |
|---|---|
| `rpending` | commands of the current context whose callbacks are outstanding |
| `rexec` | how many of them Redis executed |
| `rdb` | the session's database |
| `wq[d]` | the list in each database |
| `pfault` | the publisher stopped the process |

Ghost variables: `published` and `drops`.

**Actions:**
- `Publish`: the LPUSH pair of `__handle_write`.
- `RedisExecute`: the Redis server.
- `ReplyCallback`: `redis_async_callback`.
- `RedisCloses`: the EOF branch of `redis_disconnect_callback`. The outstanding callbacks first get NULL replies (`NullRepliesAbort`), then the code reconnects and reselects. A failed reconnect gives the new select a NULL reply, which aborts.
- `RedisFails`: any other error; `assert(false)`.

`AssertsEnabled = FALSE` models an NDEBUG build, where every
`redisAsyncCommand` (always written inside `assert`) disappears. Then nothing
reads `handle->redis_c`, so whether it still points at a live context does not
matter, and the model does not keep it. No build file of the repository sets
NDEBUG, and the runs use the default build.

### `NbdSystem.tla`: the process

This module instantiates both modules (`S`, `P`).
- `WriteAndPublish` is `HandleWrite`, plus `Publish` exactly when the write loop completed (the success reply).
- hiredis callbacks run only when no NBD callback runs.
- A fault of either part stops everything.

`QueueFollowsFile` compares the Redis queue with the engine's history of
file mutations. `Unexecuted` is the LPUSH items hiredis has sent that Redis
has not yet run.

### `BitSet.tla` and `BitArray.tla`: the bit array

`BitSet` states what callers rely on: a set of the indices `0 .. size-1`,
where `size` is the length they asked for. Out-of-range indices are ignored.
A serialized copy holds the members at the time it was taken.

`BitArray` translates `bitarray.c`:
- `len` and `array` are `bits->len` and `bits->array`.
- A byte is the set of its bit positions that are 1. So `|= 1 << (bit & 7)` is a union, and `&= 0xff ^ mask` is a set difference.
- Malloc'ed bytes that nothing writes hold one of `JunkBytes`. Reading them is undefined behaviour, so they are a nondeterministic choice.
- Actions: `BitarrayInit`, `BitarrayInitData`, `SetBit`, `UnsetBit`, `SetAll`, `UnsetAll`, `Serialize` and `Destroy`.
  - `BitarrayInit` rounds the length down with `highest_set_bit64` and clears `len/8` bytes.
  - `BitarrayInitData` copies `len/8` bytes of the requested length. It sets `fault = "overflow"` when they do not fit the rounded array.
  - `Serialize` is the whole of `bitarray_serialize`: it runs the `Bson` operators (init, a string element `type`, a binary element `bitarray` of `len/8` bytes, finalize) and either appends the written document to `images`, or, when `fwrite` fails (`WriteErrors`), ends in `fault = "double_free"`. The never-assigned `value.subtype` is any of `SubtypeBytes`.
- `requested` keeps the argument of the init call.

`RefinesBitSet` instantiates `BitSet` with a refinement mapping:
- `size <- requested`;
- `members <-` the indices below `requested` for which `bitarray_get_bit` is true;
- `emitted <-` the bits of each written document's bitarray bytes.

`SerializedDocumentsWellFormed` reads every written document the way a BSON
reader does, following the length fields (the total, the string's size
counting its NUL, the binary's byte count), and requires it to find the two
elements, end where the document ends, and carry the bytes the refinement
decodes.

### `Bson.tla`: the BSON encoder

A `struct bson_info` is a record: `buffer` (offset -> byte 0..255), `size`,
`position`, and two flags, `freed` (after a failed `bson_writef`) and `hang`.
Each serializer is an operator from one record to the next:
- `BsonInit`; `NewSize` and `NewSizeHangs` (the int32 doubling of `new_size`, which never ends past 2^30); `Resize`; `CheckSize`;
- `SerializeCstring`, `SerializeString`, `SerializeDouble`, `SerializeBinary`, and `SerializeElement` for those tags;
- `BsonFinalize` (room for 5 bytes, the elements moved up by 4, the total in front, a NUL after);
- `Written` (the bytes `bson_writef` hands to `fwrite`), `WritefFails` and `CleanupDoubleFrees`.

Strings are the byte sequences of their characters; ints are their 4
little-endian bytes.

### `AsyncQueuer.tla`: the async queuer's read loop

`read_loop` (`async_queuer.c` 27-122) is one blocking loop with no shared
state. Its outcome is fixed by three inputs:
- the bytes qemu wrote;
- what each `read()` returns;
- what each enqueue returns.

So it is modelled as operators, not actions. A sector is one unit, and a header is
`HeaderSize` units. Each unit records its write and its position in it. A
header unit also records the fields it encodes: `ParseHeader` takes the sector
from the first header unit and the count from the last. So a header put
together from the wrong bytes decodes to the wrong write.
- `ReadCall`: one `read()`. It returns -1 when the chosen result is an error,
  0 at the end of the stream, and otherwise up to the chunk the pipe hands over.
- `Fill`: the two read loops (48-55 and 85-94). The first read into `&x[0]` is
  their first iteration; `Put` stores each piece at `&x[total]`.
- `Resized`: the `realloc`. With glibc, `realloc(p, 0)` returns NULL, which the
  loop takes for out of memory.
- `ReadLoop`: one iteration of `while (1)` per recursive call, with the
  EOF, error, realloc and payload exits, then the enqueue. A failed enqueue
  drops the write and goes on.
- `RunReadLoop`: the initial buffers, which are `Junk`.

`Wire` (qemu's side, not in the repository) lays out the writes; `Writes` and
`WholeWrites` are the reference the loop is checked against.

### `GrayCrawler.tla`: the disk crawler's main

`main` is also sequential, and every call it makes that could fail is to a
library outside the repository (MBR parsing, the ext4 and NTFS probes and
serializers). Every failure returns at once, so an input is:
- each partition's contents: whether it is used, and which crawlers recognise it;
- the first call that fails.

`Main(in)` is the calls `main` makes, as a trace, and its exit status.
- `Cleanup` is `cleanup()`: both files, and the bitmap once allocated.
- `KeepProbing` is the loop condition `crawler->fs_name && !present`.
- `ProbeLoop` is the `while` loop (162-203); `FailInProbe` is its two early
  returns.
- `PartitionLoop` is the `for` loop (154-205).
- `Main` is the rest, from the MBR parse to the final `bitarray_serialize`,
  `fflush` and `cleanup`.

`Index` is the reference for what the index should hold.

### `InferenceEngine.tla`: the inference engine's read loop

`read_loop` is sequential too. Its inputs:
- whether the boot-file and partition-offset lookups succeed;
- what each `redis_async_write_dequeue` does: succeed with a fresh buffer, fail
  after allocating one, or fail and leave `write.data` as it was.

Buffers are numbered by the dequeue that allocated them.
`NtfsReadLoop(bootf, ptoff, rs)` is the calls the function makes (infer,
inspect with `write_counter`, free) and what it returns.
- `LoopTop` is the reset `write.data = NULL` at the top of `while (1)` (49).
- `Loop` is the loop: the dequeue, the free and `EXIT_SUCCESS` on failure, and
  the free after the inspection.

### MC modules

`MCNbdServer`, `MCRedisPublisher`, `MCNbdSystem` and `MCBitArray` give the constants:
- model values for connections, handles, data and names;
- the client's message sets;
- `OutBound`, a bound on replies per connection. It only binds in the unsupported-option run, where replies grow forever.

`Symm` permutes connections in the safety runs. The liveness runs do not use
it.

## Runs

| Run | Checks | Result |
|---|---|---|
| `server_cmds` | `TypeOK`, `RepliesAnswerRequestsInOrder`, `ReadsSeeLatestWrites`, `EveryRequestAnswered`, `ImplementsBlockDevice`: two old-style clients, one of which may close its socket at any point; clean traffic, chunks of up to 3 units | pass |
| `server_negotiate` | `RepliesAnswerRequestsInOrder`, `ReadsSeeLatestWrites`, `OnlyExactNameOpensExport`, `ClosedClientsFreed`: one new-style client of up to 4 messages. It tries a right name, a wrong name of equal length, a longer name, list, abort and a bad option magic. After the handshake, the clean and edge requests follow: I/O errors, short writes, negative offsets, file growth, zero lengths, trims, unknown command, bad magic. The client may close its socket, or the connection may be reset, at any point. 113k states, under a minute | pass |
| `publisher` | `PushesLandInConfiguredDb`, `QueuedInPublishOrder`, `QueuedPairsIntact`, `MCEveryPublishQueued`: up to 3 publishes, Redis closing twice, reconnects that may fail | pass |
| `system` | `QueueFollowsFile`: engine and publisher together, two clients (one write has length zero, one a negative offset), Redis closing or failing once, a reconnect that may fail | pass |
| `bitarray` | `TypeOK`, `SerializedDocumentsWellFormed`, `RefinesBitSet`: lengths 8 and 16; bits inside and past either; init, init_data, set, unset, set_all, unset_all, serialize (two buffer resizes, both subtype bytes, a failed write), destroy and re-init. Deadlock is not checked: a double free aborts the process. Also `MCReadLoopHandsOverWholeWrites`, a constant: every stream of up to two writes of 0 to 2 sectors, cut at every unit, under 112 ways the pipe returns reads (one failing or none) and a queue that blocks or not. And `MCCrawlerWritesEachPartitionOnce` and `MCCrawlerReleasesEverything`, two constants over all 8125 crawler inputs. And `MCEachBufferFreedOnce`, a constant over up to three dequeue results | pass |
| `v_opt_list_spins` | `LoopIterationsConsume` | violation |
| `v_disc_use_after_free` | `NoUseAfterFree` | violation |
| `v_bad_magic_stuck` | `BadMagicDisconnects` | violation |
| `v_read_past_eof_spins` | `ReadsNeverSpin` | violation |
| `v_zero_length_abort` | `ZeroLengthNoAbort` | violation |
| `v_error_reply_payload` | `ErrorRepliesCarryNoData` | violation |
| `v_timeout_disconnect_aborts` | `TimeoutDisconnectRecovers` | violation |

### What the passing runs show

- **Reply order.** On each connection, the i-th command reply carries the handle of the i-th well-formed read, write, flush or trim. This holds for:
  - every fragmentation;
  - every interleaving with the other connection;
  - writes whose payload arrives later than their header.
- **Read-after-write.** A successful read returns, unit by unit, what the last write or trim before it left there. The reference `Contents` computes this from the history of mutations, independently of `disk`.
- **The server is a block device.** With two connections interleaved, every step is a step of `BlockDevice`. The backing file changes only in the step that answers a write or trim with success, by that request's range, and each reply answers the oldest unanswered request of its connection. This ties `disk` to the replies directly; `ReadsSeeLatestWrites` checks reads against the mutation history instead.
- **Only the exact name opens the export.** In the new style, reaching `DATA_PUSHING` or getting any command reply requires the exact export-name option in the client's history.
- **Every request is answered.** The drain loop processes all complete messages of one read event. Since a client sends at most `MaxMsgs` messages, this is stated as "eventually, for good, every request sent is answered".
- **A client that closes is freed.** In `server_negotiate`, the client may close in any state: before its acknowledgement, after a wrong name or a bad option magic, or with a request of wrong magic stuck at the head of its buffer. In each case, libevent's EOF reaches `nbd_ev_handler` once the callbacks have consumed what they can, and it frees the client. The one exception is a callback that never returns, the unsupported-option spin (finding 1). The property excludes that state by name. Making EOF return without freeing breaks the property.
- **The Redis queue follows the file.** While the process runs, the write queue followed by the pushes still in flight is exactly the sector and payload items of the writes that reached the file, in the order they reached it. Across Redis closing the connection, no item is lost, duplicated or pushed into database 0. This holds because a close with any command outstanding gives it a NULL reply, and the assert stops the process. Publishing on a failed write (here a negative offset) breaks the property.
- **A short write spills past its range.** In `server_negotiate`, TLC reaches a 2-unit write that replies OK after writing `Garbage` to the unit after its range (`nbd.c` 490). With `ShortWrites` TRUE, TLC finds `ImplementsBlockDevice` violated by this trace: the block device lets a write change only its own range. `server_cmds` checks the refinement with whole writes only. The spill is listed as a hazard.
- **A reset client leaks.** In `server_negotiate`, TLC reaches states where a reset client has `peer = "error"` and stays allocated for good (`nbd.c` 202). This is listed as a hazard; no run asserts its absence.
- **Publisher correctness across reconnects:**
  - the re-issued select puts every LPUSH in the configured database;
  - the queue is a subsequence of the published items in order;
  - while the process runs, the queue is whole sector/payload pairs of one write each, plus at most a sector whose payload LPUSH Redis executes next. A reconnect never drops the second LPUSH: its NULL reply stops the process first;
  - every publish is queued unless the process stopped.
- **The bit array is a set of the requested length** when that length is a power of two of at least 8 (see the hazards for the other lengths).
- **The serialized filter is well-formed BSON** whatever the buffer growth and the junk subtype byte, and it carries exactly the set's members.
- **The queuer hands over whole writes, in order.** Whatever the stream, however
  the pipe splits it, and whether a read fails or the queue drops a write,
  `read_loop` hands the queue only whole writes: in qemu's order, each with its
  own sector and data. It returns success only after every write wholly in the
  stream has been handed over. A stream of whole writes with data, read without
  a read error, ends in success with all of them handed over. Storing each
  piece at the buffer's start instead of `&buf[total]` breaks this.
- **The crawler writes each partition once, in order.** For every combination of partition contents (unused, recognised by no crawler, by one, or by both) and every first failing call:
  - on success, the writes are the MBR, then each recognised partition's entry and file system by the first crawler that recognises it, then the bitmap;
  - on failure or abort, the writes are a prefix of that.

  Dropping `!present` from the probe loop breaks this.
- **The crawler releases everything once.** On every path from the MBR parse on that returns:
  - the disk and the socket are closed exactly once;
  - the bitmap is destroyed exactly once if it was allocated;
  - nothing is called after the releases;
  - each probe is followed by its crawler's `cleanup` before the next probe, on the early returns too (and on the abort path).

  A failed write in the final `bitarray_serialize` does not return. `bson_writef` frees the buffer and `bson_cleanup` frees it again, and glibc aborts before `cleanup` runs. `Main` ends in `"abort"` there.
- **The inference engine frees each buffer once.** For every sequence of up to three dequeue results, and whether the two lookups succeed or not:
  - every buffer a dequeue allocated is freed exactly once, after its write was inspected;
  - nothing else is freed.

  A failed dequeue that leaves `write.data` alone would make the final free hit the buffer just inspected and already freed. Only the reset at line 49 prevents that. Dropping the reset breaks this property.
- **A failed write frees the BSON buffer twice.** TLC reaches `fault = "double_free"` in the `bitarray` run whenever `fwrite` fails: `bson_writef` frees the buffer (480) and leaves the pointer, and `bson_cleanup` frees it again (500). This is listed as a hazard; the run does not assert its absence.
- **Composition.** `published` equals the successful writes of all connections, in file order. Trims and failed writes are not published.

Each property has a mutant in `PROJECT.json`: a plausible bug in the code it
is about, under which TLC finds the property violated. Examples:
- a forgotten drain;
- an off-by-one region;
- a missing strncmp;
- a reconnect without select;
- swapped LPUSH order;
- a callback returning after one message;
- an EOF handled like an error;
- a bit position not masked to its byte;
- an unset with the mask instead of its complement;
- a document total that leaves out the trailing NUL;
- a write that also overwrites the unit after its range.

### What the violation runs show (findings)

1. **Unsupported options spin.** `NBD_OPT_LIST` or an unknown option is answered but never drained (407). The loop answers it forever and the whole server stops serving. A real client sends LIST.
2. **Use after free after `NBD_CMD_DISC`.** The client is freed (553), then the loop switches on `client->state` if bytes follow.
3. **Bad magic.** A request with a wrong magic number is left in the buffer, and the connection never progresses or closes (518). Spec 8 requires disconnection.
4. **Reads past the end of file hang the loop (440).** The export size is a startup parameter, so this can happen to any read of the export. The test main defaults it to 1 TiB.
5. **Zero-length requests abort the process.** A zero-length read or write after an earlier request calls `realloc(p, 0)`, which returns NULL (432).
6. **Error replies carry a payload.** A failed read still sends `length` bytes of the buffer (533), and the client loses framing.
7. **Timeouts abort the process.** A Redis timeout while any callback is outstanding delivers NULL replies, and `assert(reply != NULL)` fires (216). Spec 4.5 says to reconnect transparently.

## Bounds and why they are enough

- `HdrLen = 2`: a header can be split.
- BSON: `StartSize = 16` instead of 4096, so the 47- and 48-byte documents make `check_size` grow the buffer to 32 and then 64, as documents past 4 KiB do. The `new_size` hang needs a document over 1 GiB and is out of reach.
- Bit array: lengths 8 and 16 (one and two bytes). Bits 3 and 12 are in range. Bit 9 is in range only for 16, and bit 16 is out of range for both. That gives every case of the `bit < len` guard and of the byte index.
- `ClosingConns = {c1}`: one closing client next to one that stays, which is enough for an EOF to arrive between the other connection's callbacks. Letting both close makes `server_cmds` twice as large for no new interleaving of the handler.
- `MaxChunk`: 2 in most runs, 3 in `server_cmds`. With 3, one read can carry the end of a message and a whole next message, which is what the drain loop is for.
- `MaxMsgs`: 2 with two clients, 3 or 4 with one. That is enough for a write then a read, pipelined requests, and a message after DISC. In `server_negotiate`, 4 covers the acknowledgement, an option, and two requests. With 5, the run grows to 2M states and takes almost five minutes, with no new handler path.
- One data unit per write, except one two-unit write that grows the file. With `ShortWrites`, that write can be short by one unit, which gives both a torn range and a one-unit spill; longer writes add only longer spills. `Units` runs to `OffLimit + 2 * MaxLen`, so the farthest spill stays on the modelled file. `FileSize0 = 1` and `OffLimit = 3` give:
  - an in-file offset;
  - a past-EOF offset;
  - a negative offset.
- Two payload values, so a stale read is distinguishable.
- Crawler: the code's own four partitions and two crawlers, with every content and every failing call (8125 inputs). Nothing is cut down.
- Inference engine: up to three dequeues, with each of the three results. Two
  are enough for a failure right after a success; the third covers a success
  after a success.
- Async queuer: a 2-unit header, and writes of 0, 1 or 2 sectors. Two sectors
  can arrive split, and zero takes the realloc exit. Up to two writes are
  enough for a write after a dropped one. Reads return 1 or 2 units, with the
  first five results chosen, so both a header and a payload can be split at
  every unit, and a failing read can be any of the first five.
- Redis:
  - `MaxDrops` of 1 or 2: enough for a reconnect and a second drop on the new context;
  - `Dbs = {0, 1}`, `Db = 1`: a missing select is visible;
  - three publishes.

Every action and every disjunct of the next-state relations fires in some
passing run.

## Fairness

`NbdServer` assumes weak fairness of `Handler(c)`, `Arrive(c)`, `EvEof(c)`
and `EvError(c)`:
- the event loop is a single thread that runs each callback to its end;
- the kernel eventually delivers the bytes a client wrote, and its EOF or error.

The client and the listener get no fairness: a client may stop at any time.

`MCRedisPublisher` assumes weak fairness of `RedisExecute` (the Redis server
works through its input) and `ReplyCallback` (the loop delivers replies).

## Not modelled

- **Short reads of a regular file.** In the code, the read loop refills the start of the buffer. A regular file reads short only at end of file, where the loop spins (finding 4), so each read moves its whole range in one step.
- **The byte encodings.** This covers big-endian header fields and the host-endian 8-byte sector (`offset / 512`). Units stand for sectors, so the sector is the offset.
- **`nbd_init_file` and `nbd_init_redis`, the signal handler, and startup failures.**
- **Before the crawler's MBR parse, the inference engine's `main`, and `async_queuer`'s `main`.** Each is a sequential main around external libraries that are not in the repository:
  - qemu disk probing;
  - the hiredis queue;
  - the NTFS inference of the gammaray library.

  What they do to repository state goes through the bit array, which is modelled. The inference engine's `main` only parses arguments, opens the index, connects to Redis and calls `read_loop`, which is modelled. Their defects are listed as hazards:
  - `async_queuer` rounds its fallback filter of 5242880 bits down to a power of two;
  - the crawler reports success when the end of its index never reached the socket. `GrayCrawler` reproduces this: `Main` ends in success whatever `fflush` does.
- **What a cut stream should return.** The queuer's `read_loop` treats EOF inside a write's header as a clean end, and it stops on a zero-sector write. `AsyncQueuer` reproduces both: `ReadLoop` ends in `"eof"` and `"fail"` respectively. No code comment or test says what should happen, so they are hazards, not checked properties.
- **BSON element types nothing serializes:** documents, arrays, ObjectIds, booleans, dates, regexes and the rest, and `bson_reset`. Only `bitarray_serialize` uses the encoder.
  Two of them disagree with the grammar comment in the same file (and with BSON 1.0, which the header claims):
  - the regex arm (352-363) writes the pattern and the options as int32-prefixed strings instead of cstrings;
  - the JavaScript-with-scope arm (392-400) omits the leading int32 total.

  Nothing in the repository serializes either type.
- **`bson_writef`'s resume after a short `fwrite`.** It resumes at the last call's count, not the running total. stdio returns a short count only on an error, which takes the free branch, so that path is not reachable and is not modelled.
- **Non-power-of-two bit-array lengths in a checked run.** `RefinesBitSet` fails for them:
  - with `MCLengths = {12}`, `set_all` leaves bits 8..11 clear;
  - with `{4}`, `unset_all` clears nothing and `serialize` writes an empty bitmap.

  They are recorded as hazards, with the configuration that shows each. The checked run keeps to the lengths where the code is correct.

## Plan for later work

1. (done) BSON encoder.
2. (done) libevent's EOF and ERROR events.
3. (done) The abstract block device and `ImplementsBlockDevice`.
4. Add `nbd_init_file` (no Redis context: the first write asserts).
5. (done) The async queuer's `read_loop` and the crawler's `main`.
6. (done) The inference engine's `read_loop`.
7. A violation run for a cut queuer stream or an ignored crawler bitmap write, if a run can be freed for it.

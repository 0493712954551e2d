# TeleGofer in TLA+

TeleGofer is a Telegram MTProto 2.0 client library in Go. This directory holds
TLA+ modules that model its core, TLC configurations that check them on small
instances, and proofs, checked by TLAPS, that some of what TLC finds holds for
every instance. Paths below are relative to `src/`. The repository has no tests;
what the code is meant to do is taken from its comments and its README.

## 1. Inventory

| Part | State | Operations | Hard behaviour |
| --- | --- | --- | --- |
| RPC engine (`mtproto/rpc/engine.go`) | map of pending calls with a channel of capacity one each, queue of acknowledgements, closed flag | `Register`, `Await`, `Cancel`, `Dispatch` (containers, gzip, results), `PopAcks`, `Close` | callers, reader and closer race for the map and the channels; repeated, late and broken answers; timeouts |
| Connection (`mtproto/connection/connection.go`) | engine, transport, closed channel, `closeOnce`, wait group, server salt | `Invoke`, `readLoop`, `keepaliveLoop`, `Close` | two goroutines that close what they run on; an Invoke that overlaps Close; lost acknowledgements |
| Numbering (`mtproto/protocol/message_id.go`, `sequence.go`) | last ID, time offset, count of content messages | `Next` of both, `SetServerTimeOffset` | two locks for two numbers of one message; clocks that stand still, go back or wrap |
| Transport (`mtproto/transport/`) | mutexes, closed channel, sequence numbers of the full codec | `Send`, `Recv`, `Close`, four codecs | several Writes for one frame, broken off in the middle; length limits |
| Key exchange (`mtproto/auth/`, `mtproto/crypto/factor.go`) | local variables of `CreateAuthKey` | three round trips, `ParsePQ`, `FactorPQ` | values of three steps and two sides must fit together; a loop that need not end |
| Client (`client/client.go`) | `conn` | `Start`, `Invoke`, `Close` | repeated and overlapping calls, clean-up after a failure |
| Uploader (`transfer/uploader.go`, `chunker.go`) | producer, workers, channels of jobs and of errors | `Upload` | workers that fail one after the other, cancellation, bounded memory |
| Downloader (`transfer/downloader.go`) | offset, request, fallback flag | `Download` | end of file at a multiple of the chunk size, redirects, reuse of a request |
| AES-IGE (`mtproto/crypto/aes.go`) | two slices into memory | `Encrypt`, `Decrypt` | source and destination that are the same memory |
| Message packing (`mtproto/protocol/message.go`), key derivation (`mtproto/crypto/kdf.go`) | none | `PackEncrypted`, `UnpackEncrypted`, `KDF`, `ComputeMsgKey` | damaged, cut, mixed and reflected packets; the padding; encryption in place |
| Session storage (`mtproto/session/`) | a slice under a mutex, a file | `Load`, `Save` of `Memory` and `File` | a crash, a full disk or a second call inside `Save`; slices that their owners write into later |
| RPC errors (`mtproto/rpc/errors.go`) | none | `ParseError` | messages that nearly match |
| TL encoder and decoder (`tl/encoder`, `tl/decoder`), generated types (`tl/generated/core.go`) | a buffer and its cursor | `Encode` and `Decode` of 47 types and 10 classes | lengths at their borders, padding, counts that are believed, messages that end early |
| Parser, generator (`tl/parser`, `tl/generator`, `scripts/`) | none | parse a schema, write Go | none at run time; what the generated methods do is modelled |
| Configuration, errors, logging (`client/`) | none | defaults, output | none |

The repository's README also names a package `dc/`; there is no source for it.

How they work together: `Client.Start` dials a transport, runs the key exchange
on it and builds a connection from transport, key and salt. `Connection.Invoke`
numbers a request, registers it with the engine, packs it (AES-IGE) and sends it
over the transport; `readLoop` receives, unpacks and dispatches into the engine,
which wakes the caller. `keepaliveLoop` sends acknowledgements and pings.
Uploader and downloader are clients of `Invoke`.

## 2. Modules

| Module | Models | Used by |
| --- | --- | --- |
| `RpcPromise` | what the engine promises, with no map, channel or reader | `RpcEngine` (refinement) |
| `RpcErrors` | `errors.go` | `RpcEngine` |
| `RpcEngine` | `engine.go` | `MCRpcEngine`, `Connection` |
| `Connection` | `connection.go`, extending `RpcEngine` | `MCConnection` |
| `Numbering` | `message_id.go`, `sequence.go` and the order of their use | `MCNumbering` |
| `Transport` | `transport.go` and the four codecs | `MCTransport` |
| `Factor`, `Client` | `ParsePQ`, `FactorPQ`; `client.go` with `dh.go` | `MCClient` |
| `Upload`, `Download` | `transfer/` | `MCTransfer` |
| `Ige` | `aes.go` | `Packet` |
| `Packet` | `message.go` over `Ige`, `kdf.go` | `MCPacket` |
| `Schema`, `Codec` | the types of `core.go`; `tl/encoder`, `tl/decoder` under the generated methods | `MCCodec` |
| `Session` | `mtproto/session/` | `MCSession` |
| `ConnectionProofs`, `TransportProofs`, `TransferProofs`, `ClientProofs`, `SessionProofs`, `PacketProofs`, `CodecProofs` | theorems about the module of that name; the first also about `RpcEngine` and `Numbering`, the third about `Upload` and `Download`, `PacketProofs` also about `Ige` (section 4) | |
| `NumberLemmas` | division, sums and digits, and least elements in place of induction | `TransportProofs`, `PacketProofs`, `CodecProofs` |

Operators whose comment begins with "Mutant" are not part of the specifications.
Each is a faulty variant of the operator that follows it and shows that a
property notices the fault; `PROJECT.json` says which.

### RpcEngine

One action is one critical section or one channel operation, so that everything
Go's scheduler can interleave is interleaved. `pending` is the map,
`done[c]` the channel of a call. The reader's `Dispatch` is a work list `work`:
`handleContainer` puts the messages of a container in front, and an error empties
the list, as the nested early returns do. Taking a call out of the map
(`TakePending`, with the lock) and sending the result (`Deliver`, without it) are
separate steps; `Close` answers all registered calls in one, since it holds the
lock throughout. What the server sends is any sequence of payloads from `Bodies`,
repetitions and answers to unknown requests included. `MaxAcks` bounds the queue
of acknowledgements, which in the code only the keepalive goroutine empties.
An `rpc_error` becomes one of the four error types of `RpcErrors` on its way to the
caller: `ParseError` searches the words of the message as `strings.Index` and
`LastIndexByte` do. The number that comes with a wait or a migration is not kept,
since no property tells numbers apart.

### Connection

Extends the engine with where every Invoke is before it registers (`inv`), the
three closed flags (`shut`, `closed`, `down`), the owner of `closeOnce`, the
stations of each caller of `Close`, and the stations of both loops. The reader is
one of the callers of `Close`: `readLoop` closes the connection when `Recv` fails,
and the wait group counts it. Every action changes the engine by one of the
engine's own actions or not at all, so that what is proved of the engine holds in
a connection (lemma `ConnectionUsesEngine`). Packing and unpacking succeed or fail.

### Numbering

Each sender takes an ID, then a sequence number, then sends, and other senders may
do the same in between. IDs are computed as in the code, from seconds weighing
2^32 and nanoseconds rounded down to a multiple of four, and wrap like an int64.
A message keeps the unbounded count (`seq`), and `SeqNo` is the int32 that the code
computes from it, with `SeqTop` for 2^31.
The comment above the generator (`message_id.go:11`) gives
`(unixtime * 2^32) | (nano * 4)`; the code uses the nanoseconds themselves.

### Transport

A byte is a value below a small radix, and the codecs write and read their
headers byte by byte; only the CRC is ideal, represented by the bytes it is taken
of. One `Write` of a codec is one step and may fail after any part of its bytes.
The two ends of the stream use the same codec; the tag that a handshake
sends first has been read. The receiver stops at the first error, as `readLoop`
does.

### Client and Factor

Each `Start` has a transport of its own; the variables of `CreateAuthKey` and of
the server are kept for each. Encryption is represented by the keys that a text was
made with, hashes are ideal, the random nonces of a Start are represented by its name,
the 2048-bit group by one of order ten. The messages are records named after their TL
types, with the fields that some branch or computation uses, and with those that the
protocol wants compared and the code does not look at: the nonces and the hash of
`server_DH_params_ok`, the nonces and the hash of `dh_gen_ok`. The server follows the
protocol, refuses, answers with something else or not at all; only the pq it sends
need not be a product of two primes. On the way an answer may be damaged (`Damage`)
wherever the code checks nothing: nonces and hashes, which make no difference, what
makes the inner data unreadable, and g_a. Of the inner data only g_a and the time
behind it can change alone, since IGE garbles everything behind a changed byte; a
changed g_a reads as one of `Garbled`. `FactorPQ` is taken one round at a time because its loop
need not end. The end of a
context is one of the reasons for which a step may fail, and adds none of its own.

### Upload and Download

`Upload` has the producer loop with its `break` that leaves only the `select`,
the bounded channel of jobs, the channel of one error, the workers with their
separate steps for saving, counting and reporting, and the context. The server
answers with boolTrue (`PartSaved`) or boolFalse (`PartRefused`); the worker goes on
alike. `reports` is the sequence of the calls of progress. `Download` has
the loop, its request with the `Flags` word that `Encode` sets and nothing
clears, and the CDN fallback. The server of both is external.

### Ige

The loops over blocks read through `cPrev` and `mPrev`, which name places in
memory, as the slices of the code do; source and destination are the same place
or not. The block cipher and exclusive or are constants, with the laws they must
satisfy as assumptions.

### Packet

`PackEncrypted` and `UnpackEncrypted` are taken check by check and, between the
checks, block by block through the loops of `Ige`: unpacking decrypts between two
slices, packing encrypts in place, and the key exchange encrypts between two slices.
The unit is the four-byte word, since every TL payload is a sequence of them. The hash
is ideal: `msg_key` is the pair of role and plaintext, so that what is checked is
which fields are hashed and compared, in which order, and not SHA-256. The cipher of
the model is that of the key `UnpackEncrypted` derives; what was made under another
key is ciphertext with other initialisation vectors. Packets arrive whole, with a
block changed or two exchanged, cut, with the `msg_key` of another, or reflected.

### Schema and Codec

`Schema` gives for each type of `core.go` its fields in the order of its `Encode` and
`Decode` methods, and for each class the constructors its `Decode` function knows.
`Codec` walks these fields: what is still to be coded is a stack of fields, which
stands for the nested calls, and one step codes one field. A byte has four values
(`Radix`), the short form of a length ends at one (`ShortMax`), and constructor
numbers are small; all widths, paddings and the minimum size of an element are those
of the code. The bits of `flags` that stand for fields without a value are in
`Download`.

### Session

A file is a sequence of pages. `os.WriteFile` and `os.ReadFile` are external: they
open, truncating, and go on page by page at an offset of their own. `Memory` has its
mutex, and slices are places, so that an aliased slice is one place with two names.
`Restart` may come anywhere and keeps the file only. What is written is taken
to be on the disk: the loss of the machine's own buffers, against which only `fsync`
would help, is not modelled.

## 3. Runs

All passing runs end with a complete search. The type invariants describe the state;
they are part of the inductive invariants where there is a proof.

| Run | Instance | Shows |
| --- | --- | --- |
| `engine` | two calls, 20 payloads, one message ID | no send on a channel blocks; no wake-up is lost; the map does not leak; answers reach their own callers, errors with their type; the engine implements `RpcPromise`; callers return after Close and after an answer without their timers |
| `connection` | one Invoke, two users that close, a reader that fails | whoever returns from Close finds everything closed and both loops ended, and nothing moves afterwards; Invokes end; acknowledgements are flushed; a failed read shuts everything down, and a user's Close returns unless the reader closed first |
| `connection_close` (violated) | as above | Close does not always return: see finding 1 |
| `numbering` | two callers and the keepalive goroutine, two clock readings, an offset that sets the clock back, IDs of 7 bits, sequence numbers of 3 | IDs unique, increasing and multiples of four; odd sequence numbers without gap until they wrap; order in time |
| `transfer` | an upload by two workers of five parts, with failing Invokes, answers of boolFalse, failing source and context; or a download of a file of 0, 1, 3, 8, 9 bytes in pieces of 3 | success of Upload means that every part was answered, in place and as announced, and is stored unless it was refused or dropped; errors are not lost; memory bounded; progress tells each total once; Upload returns unless all workers have failed. The writer gets a prefix, and after success all, of the file; Download returns |
| `wire` | two senders, two packets, five lengths around every boundary, all codecs | frames of concurrent senders do not mix; frames within the limits are accepted; CRC finds what a broken Write leaves, and frame numbers follow the wire; Sends return |
| `client` | two Starts, six products of two primes and a prime, two exponents, damaged answers | the salt is that of the server, and so is the key unless both hashes that are not compared are wrong; the factors are found; a failed Start leaves nothing open, and after Close nothing is; Start returns unless pq cannot be factored |
| `client_hash` (violated) | as above | the hash of the inner data is not checked: see finding 3 |
| `packet` | 40 plaintexts of two or three blocks in two sessions, every damage to them; payloads of up to two words | UnpackEncrypted returns what the server sent, field by field, or an error; it refuses no whole packet; the loops compute IGE between two slices |
| `packet_server` (violated) | as above | what PackEncrypted makes cannot be read: see finding 2 |
| `codec` | all types and classes of the schema, lengths on both sides of the short form, vectors of up to two elements, every cut and every change of one byte of the shorter messages | Decode inverts Encode and stops at the end; nothing that was cut decodes; cursor and allocations stay within the buffer |
| `session` | two goroutines, three Saves of values of zero to two pages, two Loads, one restart; a File and a Memory | Load returns what was saved, after a restart too; what is stored does not change between Saves; calls return |

Uploads and downloads share no state; `MCTransfer` chooses one of them at the start, and
its properties `UploadReturns` and `DownloadReturns` are `UploadEnds` and `DownloadEnds`
of the one that was chosen.

The bounds are chosen so that the cases happen. Two calls are what a race between
callers needs, since calls share nothing but the map, the lock and the reader, and
one reader serves both. Five parts with two workers and two places in the channel
let the producer run ahead, block, and meet an error with chunks behind it. Packet
lengths cover zero, a broken unit, both sides of the short abridged header, and the
limit. The products are an even one, one that needs a second constant c, one with
four rounds, and two whose bytes look like hexadecimal text; a prime stands for what
FactorPQ never finishes. A damaged g_a reads as a member of the group that no exponent
of the run gives, so that it always makes another key. One part in five that is refused
leaves four that are not. Clock readings fall
before and after the wrap, and an offset sets them back. A file of two pages is the
smallest that can be half written. Blocks of four words with a header of eight give a
packet with a block for the payload, in which the padding is three to six words.

Deadlock checking is off where the system may stop: a closed connection, a
finished transfer, a closed transport, a message that has been decoded, a bound that is
used up.

### Fairness

A goroutine that can move moves (weak fairness of each goroutine's steps); this is
what the Go scheduler gives. `Recv`, `Send` and `Invoke` return because of the
deadlines of 60 s and 30 s and the timeout of 60 s the code sets. Strong fairness
is assumed in three places: a `select` that is reached again and again does not
overlook a closed channel forever (Go chooses at random), and `sync.Mutex` starves
nobody, neither senders of the transport nor callers of the storage. Nothing is assumed of the server, of contexts, of users, and, in the engine,
of timers: callers come back without them whenever an answer is owed.

### Findings

1. `connection.go:129`: after a failed read `readLoop` calls `Close`, which waits for
   `readLoop`. It never returns, and no later Close does. Engine and transport are
   closed all the same, and Invokes end (`ShutdownEnds`, `InvokesEnd`).
2. `aes.go:78`: in-place encryption, which the comment allows and `PackEncrypted`
   uses, is not IGE from the second block on. Every packet has at least three blocks,
   so a server that follows the documented formula refuses each of them.
3. `dh.go:167`: the hash before the inner data and the one computed of them are
   assigned to the blank identifier, under the comment "Validated per protocol". Inner
   data that changed on the way are used if they decode, and the key is then not that
   of the server. `new_nonce_hash1` of `dh_gen_ok` would tell as well and is not
   compared either (`KeysAgree`).

### Exceptions the properties make

These are behaviours of the code that a property names rather than hides.

* `UploadEnds` (`UploadReturns` of the run): if every worker has failed, nobody empties the channel of jobs,
  and Upload hangs until its context is cancelled.
* `OkMeansStored`: if the context is cancelled after the last chunk was queued,
  workers drop their jobs without an error, and Upload reports success.
* `OkMeansStored`: `upload.saveFilePart` and `saveBigFilePart` return a `Bool`
  (`scripts/generate.go:68`), which the worker discards (`uploader.go:79`, `86`): a part
  refused with boolFalse is counted, reported, and part of a success.
* `KeysAgree`: if g_a was damaged, Start succeeds with a key the server does not
  have; both hashes it received then differ from what it has computed or could.
* `OkMeansStored` also excepts the empty file in the number of announced parts:
  `CalculateParts` says one part, Upload none.
* `OkMeansWhole`: a second redirect is taken for the end of the file. It can happen
  because `Encode` sets bits of the request's own `Flags` and clears none
  (`core.go:1942`): the request repeated without `CdnSupported` still has its bit.
* `FramesIntact`: `ReadPacket` of the padded codec returns the padding with the
  packet (`padded.go:84`), and such a packet is no multiple of 16 for
  `UnpackEncrypted`.
* `SequenceNumbers`, `RealTimeOrder` hold for the numbers until the int32 has wrapped;
  the parity of a number is right for ever.
* `LoadReturnsSaved`, `StoredIsSaved`: a `File` whose Save failed, was killed or
  overlapped with another holds anything, and Load returns it without an error.
* `RoundTrip`: a string of 2^24 bytes or more loses the upper bits of its length.
* `FactorsFound`, `StartEnds`: if the bytes of pq are all hexadecimal digits,
  `ParsePQ` reads them as text, and `FactorPQ` gets the wrong number.
* `StartEnds`: for a prime, made of such a text or sent by the server, `FactorPQ` does
  not return, and no deadline ends it.
* `NothingLeftOpen`: a second Start replaces the connection of the first, which
  nobody can close any more; a Close during a Start closes nothing of it.
* `FramesIntact` and `NoFrameRefused` are about lengths that fit into their headers:
  below 2^24 units of four bytes for the abridged codec, which `WritePacket` does not
  check (`HeadersAssumption`).
* `FramesIntact` holds until a Write fails. The connection is not closed then, and
  without a CRC the other end takes what follows for the rest of the broken frame.

## 4. Proofs

The theorems hold for every value of the constants that satisfies the assumptions
in the modules; TLC evaluates these in every run. Each inductive invariant was checked
by TLC on the instance of its run before it was proved. A proof has one step per
action, and under it one per conjunct the action can disturb.

### The engine, the connection and the transport

* `ConnectionProofs`, first part. `TypeOK`, `SendsNeverBlock`, `NoLostWakeup`, `NoLeak` and
  `OwnAnswer` are inductive only together (`IInv`): that a send finds its channel
  empty rests on the map holding unanswered calls only; that the map does so rests
  on an entry being removed before its answer is sent; that a channel is typed
  rests on the reader sending only to calls it found. This holds for any
  set of calls, any payloads closed under unpacking, nested to any depth. That an
  error has the type its message announces rests on `ParsedType`: finding the first
  `_MIGRATE_` and requiring a number behind it is the same as the word standing once,
  before a number at the end.
* `EngineKeepsPromise`, in the same module: the engine implements `RpcPromise`. A call
  of the promise is answered where the code has taken it out of the map, not where its
  caller wakes up: the answer is in the channel or in the reader's hand (`AnswerOf`).
  So `TakePending`, `Close` and a late `Register` are the steps of the promise,
  `Deliver` is a stutter, and every other step of the reader is one too. `RetInv` says
  that a channel holds replies or the error of Close, and that a caller has no result
  while it waits and its own reason while it cancels.
* Second part. `ConnectionUsesEngine`: every connection is a behaviour of
  `RpcEngine`, so the engine's theorems hold in it; `ConnectionKeepsPromise` and
  `ConnectionIsSafe` carry the refinement and the invariants over. `OnceInv` says who
  may be where inside `Close` (one owner of `closeOnce` between its two calls,
  everything done behind it); from it and `NoLeak` follow `ShutdownOrder`,
  `CloseIsComplete` and the action property `QuietAfterClose`.
* Third part, about `Numbering`. `NumInv` ties the histories to the state (`HistoryInv`) and states
  the order of the messages by their unbounded counts (`Counted`, `CountedInTime`,
  `CountedOnWire`), which no wrapping disturbs; `SeqNoCuts` and `BelowTop` carry it
  over to the int32 as long as none has wrapped. `Stamp` is a multiple of four also
  after wrapping around, `Fresh` is above the last ID; so `MessageIDs`,
  `SequenceNumbers`, `RealTimeOrder` and `SenderOrder` hold for any clock and any
  number of senders.

* `TransportProofs`, for any number of senders, each of the four codecs and any lengths
  that fit into their headers. `WireSafe` says, until a Write fails, what stands on the
  wire: the frames of the packets written and not yet read, one behind the other
  (`Laid`), and behind them as much as there is of the frame that the one holder of
  `writeMu` is writing, whose remaining Writes are known (`Begun`). The lemmas follow a
  frame through this: `BeginIs` and `PieceWritten` for the Writes of a codec,
  `ReadFrame` for a reader that finds a frame (it takes exactly this one, or refuses its
  length) and `ReadBegun` for one that finds a part of it (it waits, or refuses its
  length), `LaidDrop` for what is left. A packet that was read is the one written
  (`ReadIsWritten`); a refusal has a packet beyond the limits for a reason
  (`RefusedForLength`). `FramesIntact` and `NoFrameRefused` follow. That a length is
  read as it was written (`GetPut`) is proved from the recursion of `GetUint`: the sums
  of the first i digits are the remainders of the number, the least i for which they
  are not being contradictory (`Digits` in `NumberLemmas`). `PowerAssumption` states the law of arithmetic this needs,
  since the prover knows no exponentiation, and `HeadersAssumption` the bounds: lengths
  and frame numbers below 2^32, and for the abridged codec lengths below 2^24 units. The
  code checks neither in `WritePacket`, and nothing it sends comes near (a part of an
  upload has at most 512 KiB).
* `ChecksumsHold`, in the same module: with the full codec the reader is safe also after
  Writes that failed. `FullSafe` says what stands on the wire then: whole frames and,
  from the first broken one on, bytes of which nobody takes any (`DeadAt`). The checksum
  is ideal: its bytes name the bytes they were taken of. A frame that was cut off after n
  bytes lacks some of its own checksum, and every checksum that comes later covers only
  bytes behind these n (`Grounded`); so wherever a reader that starts at the broken frame
  expects a checksum of all it has passed over, there is none (`DeadRefused`), and more
  bytes never mend this (`DeadLonger`). That the frames are numbered without a gap needs
  the number to fit into its word: it is at most the number of Sends begun, less those
  that still wait for `writeMu` (`Counted`).

### Transfers

* `TransferProofs`, first part: Upload, for any finite set of workers, any configured chunk size and any
  source. `UploadInv` follows a chunk from the source to the server: the producer has
  read the chunks below `pos` and numbered those below `partIdx` (`ProducerInv`); the
  channel holds consecutive numbers (`QueueInv`); every number below `Taken` has been
  handed out once (`HeldInv`) and is stored, refused, in a worker's hands, or one that a
  worker gave up on (`CoverInv`); what is stored or refused was handed out before
  (`SettledInv`); a worker that failed left an error that the producer has
  seen or will see (`ErrorInv`). A chunk goes by its own number only until the producer
  has seen an error, so `Good` speaks of that number under this condition, and
  `OkMeansStored` needs all parts: success means no error was seen, so nothing failed,
  so what was taken is stored or refused. `BoundedMemory` follows from `QueueInv` and the types.
  `ProgressAddsUp` needs `ProgressInv` in addition: the counter is the number of
  counted parts times the chunk size, less what the last part lacks (`CountInv`), and the
  totals that workers have been given are as many different values of it, one of them
  the latest (`TotalsInv`), since every part has at least one byte.
* Second part: Download, for any file and any limit. Until Download returns, the writer has
  exactly the bytes below `offset` (`LoopInv`); a redirect repeats a request without
  moving it. `WrittenIsPrefix` and `OkMeansWhole` follow.

### Client and storage

* `ClientProofs`, for any number of overlapping Starts. `LifeInv`: as long as no Start
  has replaced the connection of another, the only Start that is connected is the one
  `Close` will find, and while `quiet` lasts none is on its way; hence
  `NothingLeftOpen`. `ExchangeInv`: one message is in flight at a time (`WireInv`), each
  side has taken over the other's nonce when it uses it (`NonceInv`), the hash that comes
  with the inner data is that of the data as the server encrypted them, and if they are
  these data there is an exponent b for which the client's g_b and key are what they
  should be (`KeyInv`). So a key that is not the server's was made of other data, and
  with an ideal hash both comparisons the code leaves out would have failed; hence
  `KeysAgree`. An answer may be damaged in every way of `Damage` (`DamageStep`). That both ways of raising g to two powers agree is the named
  assumption `PowersAssumption`: a law of arithmetic, true of all numbers, that is
  assumed because the prover knows no exponentiation.
* `SessionProofs`, for any number of goroutines, values of any size and any number of
  calls and restarts. A Save of a File that no other one has disturbed (`alone`) is the
  only writer, and the file is the beginning of its slice (`WriterInv`); a Load that no
  Save has disturbed has read the beginning of the file (`ReaderInv`); the mutex covers
  the slice that a Memory owns between its allocation and its copy (`MemoryInv`).
  `LoadReturnsSaved` is part of the invariant, `StoredIsSaved` follows. The marks for
  "nobody" and "nil" are no goroutines (`UsersAssumption`).
* `PacketProofs`. `IgeInv` says which blocks `cPrev` and `mPrev` name. For any permutation,
  any exclusive or that cancels itself, and any number of blocks, Encrypt and Decrypt
  between two slices compute IGE and its inverse (`ApartIsRight`), also where packing and
  unpacking use them (`PacketsAreIge`). From there to `AcceptedIsSent`: IGE is determined
  block by block in both directions, so two messages or two ciphertexts that agree up to
  a block have agreeing counterparts (`SameCipher`, `SameMessage`; by the least block at
  which they differ). `msg_key` is an ideal hash, so a packet whose key is that of its
  decrypted words is one that the server made, and all of its data are (`OnlyWhole`);
  its fields are then the ones that were packed (`WordsAre`). `PacketInv` carries
  this through the steps of UnpackEncrypted (`Unpacking`, `Decided`); `SentIsAccepted`
  follows from the same facts. Assumed are `CipherAssumption` (E and D are inverse to each
  other), `XorAssumption`, and `KeysAssumption`, the independence of keys as an ideal
  cipher has it: what was encrypted under another key does not decrypt to a message of
  the server. Of some permutations this is false; of AES under keys derived by a hash it
  is what the protocol relies on.

### TL codec

* `CodecProofs`, for any base above one, any border between short and long lengths, any
  set of roots, vectors of any count that an int32 holds and strings of any length that
  three bytes hold. Nothing is assumed of the schema but `SchemaAssumption` (fields are of
  the kinds there are, classes consist of types) and `NumbersAssumption` (no two types have
  one number, and numbers have four bytes); TLC evaluates both for the whole of `core.go`.
  The encoder's run is a sequence of stacks of fields, with the number of bytes and of
  values written at each (`Run`); a decoder of the same bytes goes through the same stacks.
  The lemma for each kind of field (`FixedFollows` to `TypeFollows`) says that where the
  bytes of a field stand, as far as the buffer reaches, the decoder either reads the field
  and is behind it, or fails because the buffer is too short for it and for four bytes of
  each field that follows in it (`Follows`); for a class it is the number of the
  constructor the encoder chose that stands next (`ClassFollowsRun`). That every field
  takes four bytes (`WritesIs`) makes the bytes written and four for each field to come
  grow along the run (`LinkGrows`), so they fit into the whole value (`RunFits`); the
  check of `VectorHeader` against the rest of the buffer therefore refuses no vector that
  was written. A failure so needs a buffer that was cut, and success needs all of it:
  `RoundTrip` and `CutIsRefused`. The content of a string is the same byte throughout in
  `EncodeBytes`; the lemmas hold for any (`Writes`).
* `CursorInside` needs none of this: whatever is in the buffer, each step of the decoder
  is over bytes that are there (`CursorStep`).

### Only model-checked

* All liveness, since the prover does not treat fairness.
* `FactorsFound`: that a divisor found by Pollard's method is one of the two primes is
  number theory; and for a pq whose bytes are hexadecimal text it holds for the products
  of the run only, since the text may stand for any number.
* `DecoderBounded` of Codec counts the elements of the stack that are still to be
  allocated with `SelectSeq`, a recursive operator, and its bound depends on how deep the
  types of this schema nest. Its other half, the cursor, is proved (`CursorInside`).

## 5. Not modelled

* RSA and the identifier of a key: straight-line computations on 2048 bits, represented
  in `Client` by who can read what. SHA-1 there, as SHA-256 in `Packet`, is ideal.
* A server that breaks the protocol on purpose, beyond refusing, sending something else
  or a pq that has no two prime factors.
* The parser of the schema and the naming and formatting of the generator: they run at
  build time, on one file of the repository.
* Configuration, client errors and logging: defaults and output.
* `Double`, `Bool`, `Raw`, `RawBorrow` and `Grow` of the TL codec, which no type of the
  schema uses; the MD5 of an upload; `SequenceGenerator.Reset`, which nothing calls.
* Retries after a flood wait, a migration or `bad_server_salt`: the code has none.

## 6. Plan

In order of importance; all six are done.

1. Engine, promise, connection and numbering, with proofs; uploads and downloads;
   IGE with proof.
2. Transport with its codecs; client with the key exchange.
3. Message packing over IGE, session storage with crashes, the wrapping of sequence
   numbers.
4. TL types and their codec; the types of RPC errors.
5. Proofs: the engine implements `RpcPromise`; Upload, Download, Session; what Client
   leaves open and which key it has; the frames of Transport.
6. Proofs: the broken frames of Transport; what UnpackEncrypted accepts and refuses; the
   TL codec.

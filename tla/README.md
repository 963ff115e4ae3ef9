# TLA+ models of rpm-signing

Specifications of the RPM signing client and server in `src/`, checked with TLC
on small instances. Every safety property that a run shows to hold is also proved with
TLAPS, for any number of edits, signatures, requests and clients and for any sizes.

`PROJECT.json` lists the components, the runs, the definition-to-source map, the
hazards, the findings and the theorems.

## The system

An RPM package is a *lead*, a *signature header*, a *main header* and a
compressed *payload*. A header is an index table (one entry per tag) and a data
store with the payloads of the entries. Signing hashes the main header, makes an
OpenPGP signature of it, and stores that in the signature header; the signature
header is therefore edited in memory and written again in front of the unchanged
rest of the package. The client does this locally, or sends the headers to a
server that has the key and puts the returned headers in front of the payload.

| Component | State | Operations | What has to be right |
|---|---|---|---|
| Signature header (`rpmparser.go`, type `RpmHeader`) | `IndexEntries` (a slice with a capacity), `indexEntryCount`, `storeSizeInBytes`, the region trailer | `FindIndexEntry`, `SetOrAddIndexEntry`, `DeleteIndexEntryIfExists`; internally allocation from reserved space, insertion in tag order, layout | After any sequence of edits rpm and the parser accept the table and the store; a caller finds what it stored |
| Parser and writer (`rpmparser.go`) | none that lasts; running digests while reading | `ParseRPM`, `parseHeader`, `validateDigests`, `RpmFile.Write` | What is written can be read again; damaged files are not signed |
| Signing and verification (`signing.go`, `openpgp.go`) | the running SHA-256 of the main header | `SignRpm`, `SignRpmAndWrite`, `SignGeneric`, `VerifyV3/V4/V6Signature` | A signed file verifies with its key and only with it; nothing but signatures changes |
| `DynamicArray`, `Bitmap` | the bytes and the bits written so far | `Write`, `GetData`, `Set` | Overlapping writes, and only they, are refused |
| Output files (`signing.go`, `utils.go`, `remotesign.go`, `client.go`) | the file system | `CreateDestinationFile`, `SignRpmAndWriteToFile`, `signRpmRemotely`, `WriteFileAtomically` | Success means a complete file; no clobbering without `-f`; a failure removes the partial file, if it can be removed and if it was not the final `Close` that failed |
| Access log (`server.go`) | package variables `accessLog`, `attemptedAccessLogOpen`, the log file | `writeAccessLog`, `AccessLogMiddleware` | Lines are logged or their loss is reported |
| Request handling and shutdown (`server.go`) | the configuration (read once), requests in flight | the five endpoints, `startHttpServer` | No signature without the token; the key on the disk is used; requests end, and the process after a signal |
| Tag registries (`signatureheadertags.go`, `mainheadertags.go`) | two package maps | look-up, registration of unknown tags | No concurrent map write |
| Stream readers and serializer (`serializer.go`, `utils.go`) | position, captured bytes, running digests | `readAhead`, `FillBuffer`, `SeekRelativeToStart`, capture | The result does not depend on how the stream is cut into reads |
| Client command line (`client.go`) | what the option loop has collected | the loop, the checks behind it, late checks | Combinations that make no sense are refused; success means that what was asked for was done |
| Server configuration (`server.go`) | `AppConfig` | `loadAppConfig`, `loadAppConfigFromReader` | The server does not start without usable keys and a token |
| Dumping, logging, version | none | formatting | - |

Interactions: client and server call parser, signer and writer in sequence on one
goroutine, so a parsed file is never shared. Header editing uses the writer's
`DynamicArray` only through `Write`. Concurrency exists in three places: the
server's request goroutines share the access log variables and the tag
registries; processes share the file system; the client talks to the server over
HTTP. Failures exist wherever a file or the network is used, and a network
delivers in pieces of any size.

## Modules

| Module | Models |
|---|---|
| `RpmHeader` | The header record and its editing operations, as operators from header to header |
| `HeaderEditing` | A parsed header under any sequence of edits |
| `HeaderMap` | The abstract specification of the same: a map from tags to payloads |
| `RpmFile` | Parsing, validation, signing, writing and verification of a whole file, as operators |
| `RpmSigning` | A file that is parsed, signed and written again and again, by several keys |
| `DynamicArray` | `dynamicArrayImpl` and `BitmapImpl` |
| `StreamReading` | `FillBuffer`, `readAhead` and the stack of readers over a source that delivers in pieces |
| `RpmParser` | `ParseRPM` over `StreamReading`: order of the reads, walk over the entries, 32-bit sizes, digests |
| `ClientOptions` | The client's command line, as operators |
| `OutputFile` | Client processes, from `ClientOptions` to the output, and a file system |
| `LineLog` | The abstract specification of the access log |
| `AccessLog` | Request goroutines in `writeAccessLog`; implements `LineLog` |
| `ServerConfig` | Command line and configuration file of the server, as operators |
| `SignServer` | The server: `ServerConfig` at its start, request goroutines over `LineLog`, tag registries, shutdown |
| `SampleHeaders`, `MCHeaderEditing`, `MCRpmSigning`, `MCRpmParser`, `MCOutputFile`, `MCAccessLog`, `MCSignServer` | Instances for TLC |
| `RpmHeaderProofs`, `HeaderEditingProofs`, `RpmSigningProofs`, `DynamicArrayProofs`, `RpmParserProofs`, `OutputFileProofs`, `AccessLogProofs`, `SignServerProofs` | Proofs about the module of the same name |

Definitions whose comment starts with `Mutant:` are deliberately wrong variants of
the definition that follows them. They are used to check that each property really
depends on the code it is about, and no specification refers to them.

### RpmHeader, HeaderEditing, HeaderMap

An index entry keeps its tag, format, offset, item count, length and an opaque
content; bytes are never looked at. `cap` is the capacity of Go's slice, because
`SetOrAddIndexEntry` holds a pointer into the backing array across a call that
may replace the array: `ReplacePayload` writes the new payload only if
`Len(entries) <= cap` still held after the allocation. `GrownCapacity` and
`ParsedCapacity` model `slices.Insert` and `append`. Both double the capacity and round
up to a size class of Go's allocator. An `IndexEntry` has 48 bytes and holds pointers;
up to 8 entries are a size class by themselves, and above 512 bytes Go (since 1.22) adds
a malloc header of 8 bytes, so that the capacities are 1, 2, 4, 8, 18, 37, 85, 170, 341
and 682. Above 682 entries, more than there are tags, all that `ParsedCapacity` says is
that the entries fit.
The region trailer's count and `SignedRegion.IndexEntryCount` are one field,
since the code only ever sets both. `updateSignedRegionTrailer` panics when the
trailer's payload is not 16 bytes long (`TrailerFits`). The parser accepts longer ones;
`HeaderEditing` is about headers whose trailer fits, and `RpmSigning` has the panic.

`syncDataStoreLayout` is a loop with the running variable `nextOffset`; the model
has it as the recursive function `NextOffset` over the turns of the loop, with the
region trailer taking the last turn (`PlaceOf`, `PlacedAt`). Every editing
operation ends with the calls the code ends with
(`updateSignedRegionTrailer`, `syncDataStoreLayout`), inside the same action.
`allocateSpaceInDatastore` calls itself after making room; the model unfolds this
once, and `RecursionEnds` is the statement that once is enough.

`SetOrAddIndexEntry` panics if the format of an existing entry differs; callers
only pass BINARY for tags that are BINARY in every file, so the model leaves this
out.

### RpmFile, RpmSigning

Cryptography is symbolic: a digest is the data it was made from, a signature is a
key and the data that was hashed. The hash object of a parsed main header is the
sequence of what was written into it, since signing writes into it. `ParseOutcome`
distinguishes success, a returned error and a panic. One behaviour step is one of
the calls `ParseRPMFromReader`, `SignRpm`, `RpmFile.Write`; the reader's position is
the variable `unread`. The files to start from are any that the parser accepts or
rejects: a trailer of less than 16 bytes makes the parser panic (`TrailerReadable`),
a longer one is accepted, and the first edit of `SignRpm` panics (`SignPanics`),
with the file on the disk as it was. The index tables, however, are sorted by tag,
as rpm writes them (`FilesAssumption`): the parser does not check this, and
insertion relies on it.

### StreamReading, RpmParser

A byte is its position in the stream, so that what a digest was fed, and what was
captured for the server, are sequences of positions. A call of `FillBuffer` or
`readAhead` is the variable `job`; every `Read` is a step that returns one of the
results `io.Reader` permits (`Reads`), with `io.EOF` in the same call or in the
next, and goes through all readers of the stack (`Deliver`). `RpmParser` issues
these calls in the order of `ParseRPM`. Of the lead's fields, the magic (an error if
it is wrong) and the package type (a panic if it is unknown) are modelled. A header
in the stream is a record of its entries; `Walk` is the loop that reads their data
from the store, with the errors and panics it ends in; an entry of an unknown type
is an error. Arithmetic is modulo `Word`. What the region trailer says is left to
`RpmFile`.

The reference is `Acceptable`, a statement about the layout of a package that
does not mention reading.

### ClientOptions, OutputFile

A client process starts with a command line, a sequence of arguments. The option
loop is described by what it looks at (`Turns`: not at the value of the option
before) and what the last, first or only use of an option means. `--version` ends a
run with exit code 0 where the loop meets it, unless the loop has ended with an
error before (`PrintsVersion`). Then each system call is a step, and a step may fail
or the process may crash before it. Several clients share the output path. A file is
a sequence of cells; the signed header is written and the payload copied cell by
cell, so that two processes, or a process and its own input, can meet in the middle
of a file. A package whose name is in `Urls` is downloaded and does not change with
the files. Detached signing hashes its input, whatever that is; the other modes need
a package that parses. A failure while the output is written removes the output, but
`os.Remove` may fail, too, which nobody is told (`RemoveFails`), and after a failed
final `Close` nothing is removed (`CloseFails`). Both end the run with an ordinary
error; `uncleaned` remembers which runs these were. The verdict of `--verify` is
only logged by the code, and changes neither what follows nor the exit code.

### LineLog, AccessLog

Each read and write of the two package variables is a step, as are the system
calls between them. A data race on a word-sized pointer and a boolean yields, on
the platforms Go builds this for, one of the values written, which is what
interleaving gives.

`LineLog` says what this amounts to for the handlers: a line ends in the file, in
the default log or in an error message, and only a second opening of the file
loses lines. `AccessLog` implements it (`ImplementsLineLog`); the mapping takes
the place of a line (`LineOf`) from the content of the file and from how the
request ended.

### ServerConfig, SignServer

`Start` evaluates one of the launches (environment, arguments, configuration
files): it refuses it with exit code 1, prints the version and exits with 0, or serves with
its settings. As in the code, `gpg_public_key` may name a private key block, since the reader
of key rings accepts both. A connection that was accepted (`Connect`) may send its
request at any time, or never; `Shutdown` waits for such connections, so that a
request may still arrive after the signal (`Arrive`, `Drop`). The listener may fail
at the start or later, with requests running (`ListenFails`). A request goes through the
stages of its handler (`Stages`), each of which may answer with an error. Parsing
a header is a sequence of tag look-ups; an unknown tag is written to the map in
two steps, and a map operation that meets a write *may* be the runtime's fatal
error, since the runtime detects this only by chance. The parser itself is
abstracted to its outcomes (`ParseDone`, `Reject`, `Panic`), which `RpmParser`
and `RpmFile` are about. The access log behind the handlers is `LineLog`, not
`AccessLog`: the refinement justifies the composition, and the state space stays
small. `status` is what the response wrapper notes and `sent` what is on the wire.

### DynamicArray

The bitmap is the set of its bits, but `Set` works word by word as the code does;
the word size is a parameter.

## Runs

| Run | Result | What it shows |
|---|---|---|
| `edit_any` | passes | Any sequence of edits, on headers with and without reserved space, with the reserved space deleted at will: `IndexTableOK`, `DataStoreOK`, `DeclaredSizeIsWritten`, `NoEmptyEntry`, `RecursionEnds` |
| `edit_reserved` | passes | With reserved space present, `HeaderEditing` implements `HeaderMap` |
| `edit_unreserved` | violated | Without reserved space it does not: a longer payload for an existing tag is lost when the slice is full (`rpmparser.go:889`) |
| `sign` | passes | Rounds of parse, sign, write by RSA and DSA keys: what was signed can be written (`WriteGoesThrough`), the file still parses, verifies with exactly the last key, and only signatures changed. Files the parser rejects are never signed, nor are those with a region trailer `SignRpm` panics at. Packages with a V6 signature are left out, since `VerifyV6Signature` is not implemented and fails for all of them. Signed packages without reserved space are left out: there the lost payload of `edit_unreserved` means that `SignRpm` reports success and the file keeps the old signature |
| `sign_twice` | violated | Two `SignRpm` calls on one parsed file: the second signature is invalid (`signing.go:410`) |
| `dynamicarray` | passes | The bitmap refuses exactly overlapping writes; the array returns exactly what was written |
| `parse` | passes | Streams of every length, every value of the size, entries of every type at every offset, damaged packages, wrong leads, delivered in all possible pieces: the outcome is that of `Acceptable`; the reader stands at the payload and exactly the headers were captured; a short read of `readAhead` harms nothing but the validation of the payload; parsing ends |
| `output` | passes | Two clients with any of fifteen command lines, failures and crashes: success means the complete output that was asked for, signed where it was asked; it stays there unless a failing run that shares the path removes it; old files are kept; no partial file after an orderly end, but for failures of `os.Remove` and `Close`; detached signatures are replaced atomically; every run ends or waits for a server |
| `output_inplace` | violated | Input as output with `-f`: the payload is gone and success is reported (`signing.go:364`) |
| `output_race` | violated | Two processes without `-f`: the check and the creation are two steps, one truncates the other's file |
| `accesslog` | passes | Three requests at once: the log implements `LineLog`; lines are only lost silently when the file was opened twice; nothing is written after "no more access log will be written!" unless two requests opened the file; and once opening is over the log is append-only or given up for good |
| `server` | passes | The server in all launches, two requests at once on all routes, replaced keys, signals, requests that arrive after the signal, clients that never send their request or body or never take the response: `GracefulStop`, `TokenRequired`, `SignsWithCurrentKey`, `LogShowsStatusSent`, `AbortNeedsNewTag`, `StopsAfterSignal`, `EveryRequestEnds` |

Each violated property is a statement of a comment, a test or a message in the
repository; `findings` quotes it.

Properties of passing runs that have an exception in them, because the code does not
promise more:

| Property | Exception |
|---|---|
| `SuccessIsComplete` | two runs write to the same file |
| `SignedWhereAsked` | a run that only prints its version |
| `OldFilesKept` | without `-f` a run may destroy the output of a run it races with |
| `NoPartialFileAtTheEnd` | two runs wrote to the same file; or the run that wrote it reported an error and `os.Remove` failed (`signing.go:385`, `remotesign.go:115`) or the final `Close` did (`signing.go:389`, `remotesign.go:118`). It speaks about runs that ended by themselves: a crash while a package is written does leave a partial file |
| `OutputIsThere` | a package-signing run that shares the path failed after it had opened its output, and removed whatever was there |
| `OutputIsAtomic` | holds as long as only detached signatures are written |
| `LinesAccountedFor`, `NoLineAfterGivingUp` | two requests opened the access log; for the former also requests whose handler panicked |
| `GracefulStop` | a handler that panicked has sent nothing and written no line; a line that was in the file is gone without a word if the file was opened twice, and the exit code is 0 nevertheless |
| `LogShowsStatusSent` | `/publicKey` to a client that goes away: 200 on the wire, 400 in the log |
| `AbortNeedsNewTag` | says when the fatal error cannot happen; with a tag that is new it can |
| `EveryRunEnds` | a run that waits for the sign server or for a download |
| `EveryRequestEnds` | a request that waits for its client, for its body or to take the response |

Divergences between documentation and code that were met on the way and are not
stated as properties, because nothing but the text depends on them:

* `README.md` lists `--sign-rpm`; the code knows `--sign`. It calls `--sign-generic`
  possible with `--sign-server`, as does the message at `client.go:192`, but
  `client.go:179` and `:194` together refuse every such command line.
* `README.md` says `--pub-key` may be a directory; `LoadPublicKeys` opens files only.
* `README.md` says `--help` is checked before all other options; the options in
  front of it are looked at first, and a value is never taken for it.
* The comment of `createSigningUrl` says that the path is appended only if none is
  present; it is appended always.
* A second `-c` of the server is ignored with a message that blames
  `RPM_SIGN_CONFIG` (`server.go:256`), and `idx++` at `server.go:258` does not skip
  the value, which is looked at as an option.
* `populatePayload` reads one byte for an entry of type CHAR whatever its count.

### Bounds

* `ReservedAlloc = 9` instead of 4096, with payloads of 2 to 6 bytes and initial
  reserves of 1 to 12. What matters is whether the reserve is ample, exactly used
  up, too small, absent, or not at the end of the store; all five occur, and 9 is
  odd so that alignment padding occurs too. The set of reachable headers is
  finite because the number of visible tags is and reserves are cut off below a
  bound by the operations themselves; the runs explore all of it. The proofs cover
  every value from 8 on.
* The headers have 3 to 8 entries: slices that are full (4 and 8) and not full.
* `sign`: two RSA keys with signatures of different length, one DSA key and one
  key of an unsupported type; the number of rounds is not bounded.
* `dynamicarray`: words of 3 bits, offsets to 6, lengths to 7, three writes: a
  write can lie in one word, touch two, or span a whole one in between, with its
  ends at every position.
* `parse`: words of 4 bits, so that counts of 9 and sizes from 8 on overflow or are
  taken for negative; `Chunk = 4` lets payloads be shorter and longer than
  `readAhead`'s buffer, and the longest makes the sum of header and payload wrap; the
  alignment of 4 makes padding occur; sections of 1 or 2 bytes are the shortest that
  can be delivered in pieces. `MCRpmParser` also evaluates `WalkIsRight`, which a
  theorem relies on, for every header of these packages.
* `server`: two requests are needed for a fatal error and for the races of the log;
  every pair of `Pairs` has a reason, and every route occurs. `MaxKey = 2`: one
  replacement of the key, at any time. Of the launches three are accepted (with and
  without an access log, and with a private key block as `gpg_public_key`), one prints
  the version, and each of the others breaks one rule.
* `output*`: header and payload of two cells each, one cell of growth; with two
  clients this allows every relative position of two writers. `DiskSize = 7` is
  room for one package and some more, so that "disk full" happens when a file
  feeds on itself.
* `accesslog`: three requests, one to open the file, one that comes too early and
  one that comes late; requests are symmetric.

`HeaderEditing` and `RpmSigning` have no final state; `ParseFails`, and the last
disjunct of `Next` in the others, stands for a system that has nothing left to do,
so deadlock is checked in every run.

### Fairness

* `RpmParser`: weak fairness of `Proceed`. A file delivers its bytes, and the parser
  is a loop on one goroutine. A read error need never happen. For a connection this
  is an assumption: nobody limits the time.
* `OutputFile`: weak fairness of a process's own steps, and of the failures that
  are certain (a package that does not parse, a full disk), where it does not wait for a
  peer (`WaitsForPeer`): for the status or the body of the sign server's answer, or for a
  package that is downloaded, to be parsed, verified, or copied from. `http.DefaultClient` and
  `http.Get` have no timeout, so none of this is assumed to go on. `EveryRunEnds` therefore
  allows for a run that waits there; it says that nothing else holds a run up.
* `SignServer`: weak fairness of what a handler does by itself (Go's scheduler runs every
  goroutine) and of the end of `Shutdown`, which is bounded by a timer. That a client
  sends its request or its body or takes the response, or somebody a signal, is not
  assumed: `http.Server` is used without read and write timeouts. `EveryRequestEnds`
  allows for a request that waits for its client (`WaitsForClient`), `StopsAfterSignal`
  does not.

The other specifications state safety only.

## Proofs

The theorems hold for every value of the constants that the assumptions of the
modules allow. Each invariant is proved from an inductive invariant `IInv` of its
component, the conjunction of named parts; the proof has one lemma per part and in
it one step per action that can disturb the part.

| Component | Theorems | Properties of the runs |
|---|---|---|
| `HeaderEditing` | `TypeCorrect`, `IndexTableCorrect`, `DataStoreCorrect`, `NeverEmpty`, `AllocationEnds`, `DeclaredSizeCorrect`, `Refinement` | all of `edit_any` and `edit_reserved` |
| `RpmSigning` | `WriteNeverFails`, `PackageStays`, `SignedFilesRoundTrip`, `SignedFilesVerify` | all of `sign` |
| `DynamicArray` | `BitmapIsExact`, `ArrayHoldsWhatWasWritten` | all of `dynamicarray` |
| `RpmParser` | `ParserStopsAtPayload`, `ShortReadsAreHarmless`, `OutcomeIsInTheBytes` | the invariants of `parse` |
| `OutputFile` | `OldFilesAreKept`, `DetachedOutputIsAtomic`, `SigningIsWhereAsked`, `SuccessMeansComplete`, `NothingPartialIsLeft`, `OutputStays` | the invariants of `output` |
| `AccessLog` | `TypeCorrect`, `EveryLineAccountedFor`, `GivingUpIsFinal`, `SettlesForGood`, `Refinement` | all of `accesslog` |
| `SignServer` | `TokenIsRequired`, `SignatureKeyIsCurrent`, `LoggedStatusIsSent`, `StopIsGraceful`, `FatalErrorNeedsNewTag` | the safety properties of `server` |

Some theorems have a hypothesis besides the assumptions of the modules,
since without it they are false or out of reach:

* `HeaderEditing`'s `Refinement` assumes `Reserving`: every file has reserved space,
  and no caller deletes it. `edit_unreserved` is the counterexample otherwise.
* `SignedFilesRoundTrip` assumes `IntactPayloads`: a package that the parser accepts
  without looking at the payload has the payload its MD5 digest is for. The callers do
  not validate the payload, so a damaged one is copied as it is. All files of `sign`
  are like this.
* `SignedFilesVerify` assumes `SignaturesPerParse = 1`, which is what client and server
  do (`sign_twice` is the counterexample for 2), and `SignableFiles`: an accepted package
  has reserved space or no V4 signature to replace (otherwise the payload is lost as in
  `edit_unreserved`), and no V6 signature, which no verifier accepts. The run `sign` has
  the same setting. `WriteNeverFails` and `PackageStays` need none of this.
* `SuccessMeansComplete` and `NothingPartialIsLeft` assume that the output path is
  not the input. `output_inplace` is the counterexample otherwise. (The `output`
  run has the same setting.)
* `OutcomeIsInTheBytes` assumes `WalkIsRight`: the walk over the entries of a header
  accepts exactly the sound ones. The walk sorts and folds, so this is an induction
  over data; TLC evaluates it for the headers of `MCRpmParser`.

### Header editing

For every set of parsed headers, every set of tags, every length and every number of
edits. The assumptions: `FilesAssumption` (parsing yields headers that rpm accepts,
without empty entries and with a trailer of 16 bytes), `ArgumentsAssumption`
(callers do not set the region trailer or the reserved space, nor an empty payload),
and `ReservedAllocAssumption` (at least 8, the largest alignment).

The inductive invariant is `IInv == Table(Contents, hdr) /\ DataStore(hdr)`.
`Table` joins the types, the index table and `NoEmptyEntry`. It is inductive by
itself; `DataStore` is not, as it is broken and re-established inside every edit.
The argument:

1. `Table` is preserved by each piece: insertion at `InsertPosition`
   (`InsertKeepsTable`), deletion (`DeleteKeepsTable`), taking from and making
   reserved space (`TakeKeepsTable`, `MakeRoomMakesRoom`). In between, offsets are
   arbitrary; `DataStore` does not hold there and is not needed.
2. `syncDataStoreLayout` turns *any* table into a data store that rpm accepts
   (`SyncLaysOut`), and every edit ends with it. The proof follows the running
   offset through the turns of the loop (`NextOffsetStep`, `NextOffsetGrows`).
3. Together, `SetOrAddKeepsTable`: both parts hold after `SetOrAddIndexEntry`,
   whether or not the slice moved and the payload was lost.
4. For the refinement, `SameBut(es, fs, T)` says that two tables have the same
   entries, but for their offsets and for the tags in `T`. Each piece of an edit
   keeps the table `SameBut` the tag and the reserved space, and this is transitive.
   Allocation from present reserved space inserts no entry, so the slice does not
   move and the payload arrives: `SetOrAddStores`. Read as maps
   (`SetInMap`, `DeleteInMap`) these are the steps of `HeaderMap`; that there still
   is reserved space after each edit (`HasReserve`) is part of the induction.

### RpmSigning

For every set of packages, with headers of any number of entries, every set of keys,
signatures of any length and any number of rounds. Assumptions: `KeysAssumption`,
`FilesAssumption` and `ReservedAllocAssumption`. `IInv` has three parts: `Disk` (the
file is a package, and one that was signed is accepted by the parser), `Memory` (what is
in memory is the accepted file, with a `Table` that is `SameBut` the signatures and the
reserved space) and `Laid` (what was signed has a `DataStore`). The argument:

1. Parsing yields a `Table` (`ParsedTable`): the parser's own checks are those that
   `Table` consists of, except for the order of the tags.
2. `SignRpm` is four deletions and a `SetOrAddIndexEntry`. Each keeps the `Table` and the
   entries of all other tags, and the last one lays the store out (`SignKeeps`). This
   holds without reserved space, too: the reserved space that is then inserted has a
   larger tag than the signatures, so that the place `SetOrAddIndexEntry` found before
   is still that of the signature afterwards (`SetOrAddSame`). For a tag behind the
   reserved space it would be another entry's.
3. A `Table` with a `DataStore` passes the parser's checks of the layout, and those of
   the writer (`LaidIsWellFormed`); digests and sizes are found as before, since their tags are
   none that change (`SameDigests`); the region trailer keeps its length, which was
   16 or `SignRpm` would have panicked (`SameTrailer`). Hence what is written is accepted
   (`WrittenParses`).
4. For verification a second invariant, `SInv`, follows the hash object: it has been fed
   the main header before the only `SignRpm` call, and after that the file in memory is
   `SignedBy` the key, with no other signature. With room for the signature this is
   what `SetOrAddStores` says (`SignStores`); there is room in the next round, too.

### DynamicArray

For every word size, all offsets and lengths and any number of writes
(`SizesAssumption`). `SegmentsCover` shows that the pieces in which `Set` works - the
rest of the first word, whole words, the start of the last - make up the range, from
the properties of integer division (`WordOf`, `OneWord`); `SetEffect`, and with it
`BitmapIsExact`, follows in every state. `DataIsWhatWasWritten` is not inductive: `IInv`
adds that the bytes of every accepted write are marked in the bitmap (`Recorded`), so that a
later write that is accepted does not touch them, and that the slice is long enough.

### RpmParser

For packages of any size, any width of a word and every way in which a source may
deliver the bytes. Assumptions: `ParserAssumption`, `InputsAssumption` (the sizes
are natural numbers, those that are read are words) and `ChunkAssumption`. `IInv`
states for each stage where it is to end (`Target`): `Aim`, that the position and
what the current call still wants add up to it, is what makes the bytes captured and
hashed those of the sections. `Checked` remembers what earlier stages have found
out, the magic of the lead included, `Faults` why a call failed. The 32-bit
arithmetic of the payload size is in the proof that the payload asked for is the one
the size names.

### OutputFile

For any number of clients, every set of command lines and all sizes. Assumptions:
`SizesAssumption` and `CommandLinesAssumption` (a disk with room for one package;
clients have names of their own). `IInv` relates each run to the plan made of its
command line (`Planned`) and to its inode (`Opened`, `AtPath`); `Present` says that
the output path is empty after somebody has put a file there only if a run has
`Removed` it. The invariants about content are not inductive, as another client may
write into the same inode at any time: `Contents` says what is in an inode with a
single writer, cell by cell, and `Detaching` what holds as long as only detached
signatures are written.

### AccessLog

For any finite number of requests (`RequestsAssumption`). Two requests may open the
file and truncate each other's lines, and what is claimed is conditional on that not
having happened. The induction needs the reverse: `OneOpener`, that with one opener
nobody is about to open the file once somebody has got past it, and that the log is
forgotten only after it was closed. `Positions` counts the requests that went
through a descriptor to bound where it writes. The refinement maps each step to a
step of `LineLog` for the one line that moves (`OneMoves`).

### SignServer

For any number of requests, any mix of routes, every set of launches, and any number
of key replacements (`LoadsAssumption`, `KeysAssumption`). `TokenRequired` speaks
about the answer; `TokenInv` says it of every stage behind the check, for which
`RouteInv` ties the stages to the routes and `ConfigInv` says that a server that is
up has a token. `KeyInv` does the same for the key. `GracefulStop` follows from
`StoppedInv` and from `LineInv`, which follows the line of a request through
`LineLog`; `StopIsGraceful` has the two exceptions of `GracefulStop`, the panic and
the file that was opened twice. `FatalErrorNeedsNewTag` is an induction of its own,
on "no tag is new".

### Common lemmas

Induction over numbers is done by the least counterexample:
`LeastNat` of `RpmHeaderProofs` derives the least element of a set of numbers from the
well-foundedness of `<` in the library, and `IntervalInduction` states the induction
with a set in place of a predicate.

### Checked by TLC only

* Liveness: `ParsingEnds`, `EveryRunEnds`, `StopsAfterSignal`, `EveryRequestEnds`.
  Fairness is out of reach of the prover that is used.
* `WalkIsRight`, as said above.
* The violated properties are shown by their counterexamples and need no proof.

## Not modelled

* The text of things: `Dump...` and `String` methods, log messages and levels, the
  lines of the access log, HTTP headers, the JSON of `/info`; `version.go`.
* Byte formats: the other fields of the lead, big-endian numbers, the writing half of the
  serializer.
* OpenPGP itself; loading a key succeeds or fails.
* Memory: the parser allocates what a header asks for before it has read it.
* The second opening of the package for V3 signatures, and `SeekRelativeToStart`
  with it: the verdict decides nothing.
* The main header is never edited, so the `IsMainHeader` branches of the editing
  operations are left out.
* `createSigningUrl`: a string function without cases.

## What is left

* A proof of `WalkIsRight`, an induction over the entries of a header in the order of
  their offsets, would remove the hypothesis of `OutcomeIsInTheBytes`.
* The two models of the parser, the function `ParseOutcome` of `RpmFile` and the steps of
  `RpmParser`, are each checked against the code's conditions and not against each other.
* The writing half of the serializer, as a counterpart of `StreamReading`.

# A TLA+ model of oneio

oneio is a Rust library and command-line tool that reads and writes files,
local or remote (HTTP, FTP, S3), with any compression. Most of it is thin: it
chooses a protocol and a codec and hands bytes on. This directory models the
parts that are not thin, where several actors, retries, failures and changing
data meet: the resumable HTTP reader, the S3 upload, the other S3 functions
against a bucket that changes, the copies into local files (downloads and
cache), what the first calls of a process share, and the chunked text
statistics. Paths below are those of the repository, under `src/`.

## 1. Inventory

| Component | Source | State it keeps | Operations | What is hard | What makes it correct |
|---|---|---|---|---|---|
| Resumable HTTP reader | `src/resumable_http.rs`, `client.rs` 307-339 | the response being read, `offset`, the length and validators of the first response; inside a call `stalled_retries` and `attempt` | `new`, `read`, `resume`, `accept_resumed_response` | drops at any byte; the resource replaced between requests; servers that ignore, misplace or refuse ranges; two nested retry loops | bytes in place, of one version, end of file only at the end, bounded requests |
| S3 upload | `src/s3/mod.rs` 300-595 | upload id, part number, file position, ETags; on the store: open uploads, parts, the object | `s3_upload`, `calculate_chunk_size`, PUT or create / part... / complete / abort | lost, late and repeated requests; answers that fail after the effect; the file changing meanwhile; several uploaders of one key; the store's limits on parts | the object is always the whole of one caller's file; Ok means stored; failures abort; no request outside the limits |
| Local copies | `client.rs` 126-157 and 341-390, `s3/mod.rs` 293-298, `lib.rs` 326-333, `remote.rs`, `async_reader.rs` 66-108, `bin/oneio.rs` 137-181 | the file and its existence; each copy's handle position and buffer | `download`, `download_with_retry`, `s3_download`, `get_cache_reader`, `download_async`, `download_with_progress` | copies that truncate and write one file at once; kills and retries over leftovers; existence taken for completeness; writers dropped without flush; transfers cut in silence; servers that fall silent | a settled file is what was received of one version; no text of an error in it; a cached read returns a whole version |
| Text statistics | `src/bin/oneio.rs` 201-347, `client.rs` 19-37 | counters, carried bytes, "previous was CR" | `compute_text_stats` | characters and CR LF cut by chunk ends | the counts of `lossy_lines`, wherever chunks end |
| S3 object operations | `s3/mod.rs` 282-298, 610-930 | of a call: continuation token, names so far; the bucket, which others change | list, copy, stats, exists, delete, get | pages of different states of the bucket; pages without names; answers whose effect was taken; 200 answers with an error in the body | a list has each name that stayed once; an answer was true during the call; the call returns |
| S3 signing | `s3/mod.rs` 75-190, 733-800 | the loop variables of the calendar | URL repair, SigV4, calendar | keys with a leading slash in two URL styles; leap years | the request names the caller's object (a virtual-hosted bucket loses the slash), signed for its own method, URL and date |
| S3 configuration | `s3/config.rs`, `s3/mod.rs` 190-225, 354-366 | the process environment, three `OnceLock`s | `from_env`, `ensure_dotenv`, `get_s3_client`, `s3_retry_config` | a `.env` file half loaded by another thread | every setting read is that of the process, else of the file |
| Default client, provider | `builder.rs`, `crypto.rs` | a `OnceLock`, the process-wide provider | `default_oneio`, `new`, `build`, `ensure_default_provider` | check-then-install races; a cached error; a closure that panics | a client has a provider, and all share it; to lose the race is no error; nobody waits for good |
| Progress reader | `progress.rs`, `client.rs` 268-288, `bin/oneio.rs` 137-181 | `bytes_read` | `read` | unknown totals; raw against decompressed bytes | the copy below it is whole; reported bytes are the raw bytes delivered |
| Async reader | `async_reader.rs` | none | readers, `download_async` | missing status check | as the sync reader |
| Compression, digest | `compression.rs`, `digest.rs` | none | choice of codec, SHA-256 | (third-party codecs) | the codec of the extension |
| Command line | `bin/oneio.rs` | none | `main` | choice of operation | (dispatch) |

How they interact: the command line and the free functions call one `OneIo`
(the default one is created once). Readers stack: a raw reader (file, HTTP
response, FTP stream, S3 response, or the resumable reader) under an optional
progress reader under a decompressor. A copy pulls a reader into a
`BufWriter<File>`. There are no background threads in the library; concurrency
comes from the calling threads and processes, which share the local file
system, the remote resource and the bucket, from requests that outlive the
call of `send()` that gave up on them, and, in one process, from first calls
that initialise its `OnceLock`s, environment and crypto provider at once.

`PROJECT.json` lists the hazards of this code, each at its line, with the
properties that would notice it going wrong.

## 2. Modules

    ByteStream          what a consumer of a remote file may rely on
      ^ implemented by
    ResumableHttpReader the reader and its server        MCResumableHttpReader
      ^ proved about
    ResumableHttpReaderProofs

    AtomicPut           what concurrent uploaders of a key may rely on
      ^ implemented by
    S3Upload            callers, network, store          MCS3Upload
      ^ proved about
    S3UploadProofs

    Calendar            the lengths of years and months
      ^ proved about            ^ used by
    CalendarProofs      S3Objects   one call, its bucket MCS3Objects
                          ^ proved about
                        S3ObjectsProofs

    LocalCopy           copies into one local file       MCLocalCopy
      ^ proved about
    LocalCopyProofs

    Startup             the first calls of a process     MCStartup
      ^ proved about
    StartupProofs

    TextStats           chunked counting                 MCTextStats
      ^ proved about
    TextStatsProofs
      ^ used by
    TextCharsProofs     the characters

In every module a few definitions are marked "Slip". They are not part of the
model: each is the definition below it with a plausible mistake, and a property
has to fail when it is put in its place. CONSTANT `Traits` switches on what an
environment may do beyond the plain case, so that a run states its assumptions
in its .cfg and a theorem in its hypotheses.

### ResumableHttpReader

A byte of the stream is the pair of the resource version it came from and its
position there; a resource version is a number, its length `Length[v]`, its
validators `Etag[v]` and `LastModified[v]` (which may coincide between
versions: the constants decide). `response`, `offset` and `original` are the
fields of the struct (`original.ver` is history); `pc`, `stalled_retries` and
`attempt` are the control state of `read` and `resume`; `requests`, `stream`,
`outcome` and `failed` are history.

| Action | Code |
|---|---|
| `CallRead` | the consumer calls `read` |
| `ReadData`, `ReadZero`, `ReadError` | the three arms of `match self.response.read(buf)`, 321-342 |
| `SendFails` | `send()` fails, back-off, next attempt or `Resume::Failed`, 200-207 and 248 |
| `ServerAnswers` | `send()` succeeds and the `match resp.status()` of 209-245, with the match of `read` on its result, 334-341: `RestartFromZero`, `PartialContent`, `RangeNotSatisfiable`, `RangeIgnored` |
| `ResourceReplaced` | the environment |

A whole answer is one step: nothing can interleave with the decisions made on
it. Each response carries any of `HeaderSets`. A body that failed is over: a
later read of it gives 0 or another error. `unframed` bodies (no
Content-Length, delimited by the close of the connection) may end anywhere.

### S3Upload

A request is a record; `network` is the set of those under way. The caller
waits at `pc` \in `Kinds` for the answer to its latest request; the store
handles any request under way at any time (`Handle`), takes its effect or
refuses it, and the sender, if it still waits, hears success, failure or
nothing. Giving up (`Resend`, `ResendPart`, `GiveUp`) either loses the request
or leaves it under way, at most `MaxLate` of them. An ETag is the segment
(version, from, to) it stands for. `ChunkSize` is `calculate_chunk_size`:
parts of the size asked for (`Requested`), unless the store would have too many
of them (`MaxParts`) or too small ones (`MinPartSize`); the store's own view
of these limits is `WithinLimits`. `ONEIO_S3_MAX_RETRIES` is `MaxRetries`;
time and back-off are left out. The body of a PUT is read at once (the code
streams it: under the trait `edits` a PUT could mix versions; no property of the
`s3_edits` run speaks of versions).

| Action | Code |
|---|---|
| `Stat` | existence, metadata, threshold, 301-320, chunk size |
| `OpenForPut` | `upload_single` |
| `OpenForParts`, `ReadPart`, `ReadFails`, `Complete` | `upload_multipart` 495, 498-531, 501, 544-557 |
| `Resend` / `ResendPart` | another round of `send_with_retry` / `upload_part_with_retry`, with the re-read of 431-452 |
| `GiveUp` | the error return of either, then the abort paths 539-566 |
| `Abort` | `abort_multipart_upload` |
| `Handle` | the store (external) and what the call does with the answer (`HearSuccess`, `HearFailure`) |

### S3Objects

One call and one bucket: the calls keep nothing between them, so other callers
are only seen as changes of the bucket (`Edit`). Names are numbers in the order
of the store, so that "after the continuation token" is `>`; `Folder[k]` is the
common prefix of a key. A name on the wire is percent-encoded, `<<k>>`, and has
to be decoded; a body is the sequence of its quick_xml events. `past` is
history: the states of the bucket during the call.

| Action | Code |
|---|---|
| `Begin` | the configuration (`S3Config::from_env`, `rusty_bucket`), and in `s3_copy` the clock |
| `YearLoop`, `MonthLoop` | the two loops of `epoch_days_to_ymd`, 755-781 |
| `Send` | the request: `s3_list` 895-905 with its delimiter and token; `s3_copy` 636-715 with `s3_object_url`, `format_timestamp`; the others through `repair_leading_slash_action_url` 92-174 |
| `Lost` | `send()` fails; the request may have taken effect |
| `Hear` | the answer: `HearPage` 906-928, `HearCopy` 717-730 with `parse_s3_error_xml` 1010-1061, `HearObject` 808-864, `HearExists` 866-874 |
| `Serve`, `Edit` | the store and its other clients (external) |

`Signed` stands for a SigV4 signature by what it was computed from; the store
admits a request only if that is the request it got. Keys with a leading slash
(`Slashed`) go through `Url::join` in rusty-s3, which drops the bucket of a
path-style URL, or the slash in a virtual-hosted one (`RustyAction`). The repair
is for path-style URLs only, and nothing in the repository promises more
(`s3/mod.rs` 92-97, `CHANGELOG.md` 32): in a virtual-hosted bucket the request
for such a key is signed for, and reaches, the key without the slash.
`RequestNamesObject` and `AnswersTrue` compare with the key the caller gave and
leave that one case out by name (`KeyKept`). `Edit` is possible while the call
waits or is about to send: while it computes a date nobody looks at the bucket.

`Calendar` holds `is_leap_year`, `days_in_year` and `month_lengths` of the
code, and beside them the closed form of the Gregorian calendar (`NewYear`,
`FirstDay`) that `DateSigned` measures the loops with.

### LocalCopy

The file is a sequence whose bytes are resource versions, `Hole` below a byte
written beyond the end. Each call has its own position (`written`) and buffer
(`received - written`). A call is of one of nine kinds:

| Kind | Code | Creates the file | Writer | Retries | Timeout |
|---|---|---|---|---|---|
| `cache`, `force` | `get_cache_reader` of an HTTP or S3 URL, without and with `force_cache` | after the request | flushed | no | yes |
| `ftp-cache`, `ftp-force` | the same of an FTP URL | after the request | flushed | no | no |
| `http` | `download`, `download_with_retry` of an HTTP URL | before | dropped | yes | yes |
| `ftp` | the same of an FTP URL | before | dropped | yes | no |
| `s3` | `s3_download` | after | dropped | yes | yes |
| `async` | `download_async`; does not look at the status | after | flushed | no | no |
| `progress` | `download_with_progress` of the command line | after | none | no | yes |

With the trait `cuts` a transfer of any kind may end early without an error:
the data connection of FTP is closed, by whichever function it is read
(`remote.rs` 34), or an HTTP body that nothing delimits but the close.

`Create` truncates for everybody. `Request` and `Refused` are the answer:
`Pages` are the versions that are the text of an error. `Spill` is the
BufWriter passing bytes on at any moment, `Close` the last flush. `Fault` is a
failing step, `Killed` the end of the process, `Failed` the retry loop.
`Waits` is where a call of an FTP URL or of `reqwest::get` (`Untimed`) may stay
for ever.

### Startup

Threads that make their first calls at once. `env` says where the value of
each variable comes from, `provider` is the process-wide provider of rustls,
`cell` the state of each `OnceLock`: `Claim` enters `get_or_init`, `Fill`
leaves it, `Vacate` is a panic in the closure; a thread that finds a cell busy
waits. The slot of rustls is a `OnceLock` too, set by `install_default`.

| Action | Code |
|---|---|
| `EnsureDotenv`, `LoadLine`, `Loaded` | `ensure_dotenv`, `s3/config.rs` 7-14; `dotenvy::dotenv` sets one variable at a time |
| `Check`, `TryAwsLc`, `CheckAgain`, `TryRing`, `LastCheck` | `ensure_default_provider`, `crypto.rs` 22-55 |
| `DefaultOneIo`, `NewBuilder`, `BuilderReads`, `BuildClient` | `default_oneio`, `OneIoBuilder::new` and `build`, `builder.rs` |
| `ReadConfig` | `S3Config::from_env`; then on to `s3_retry_config` if the request is one of `send_with_retry`, else to the client |
| `RetryConfig` | `s3_retry_config`, `s3/mod.rs` 354-366, called at 381 before the client is asked for |
| `GetS3Client`, `S3ClientReads`, `BuildS3Client` | `get_s3_client`, `s3/mod.rs` 190-225 |
| `AppInstalls` | an application that installs a provider itself (external) |

### TextStats

A byte is its class. One step of the model consumes one character or one
ill-formed sequence; the code consumes a run of characters between two of
those, which `count_eols` counts one by one. `Sequence` is `str::from_utf8` at
a place (any continuation byte is acceptable after a first byte: the ranges
that depend on the first byte are not distinguished); `ValidUtf8` says that a
text can be cut into characters. `LineEnds`, `LineStart` and `LineStop` are
`lossy_lines`; `LineCharacters` is the set of the characters of its lines, each
with the line it is in and its place there, so that counting is `Cardinality`.

## 3. Runs

| Run | Bounds | Question | Result |
|---|---|---|---|
| `reader_restarts` | 3 versions of 2, 3, 4 bytes; chunks of 1-2; 3 retries; every subset of headers on every response | all properties, against replacing, restarting, misplacing, unframed servers | holds |
| `reader_promise` | versions of 3 and 2 bytes, 5 retries as in the code | implements `ByteStream` when the resource may shrink and roll back, without 200 restarts | holds |
| `reader_rollback` | as above with restarts | `NoSplice` after a 200 restart and a roll-back | violated |
| `s3_race` | 2 callers; files of 1 byte (PUT) and 3 bytes (two parts); at most 2 parts; 1 retry; 1 late request | implements `AtomicPut`; `AbortedBeforeReturn`; `LimitsKept` | holds |
| `s3_edits` | 1 caller, files of 1, 3, 7 bytes edited at any time, failing opens; at most 3 parts of at least 2 bytes | `PartsInPlace`, `OkMeansStored`, `CallsReturn` | holds |
| `s3_open_fails` | 1 caller | `AbortedBeforeReturn` when `File::open` fails | violated |
| `s3_body_lost` | 1 caller | `OkMeansStored` when the body of the answer to Complete is lost | violated |
| `s3_objects` | 3 keys, two of them prefixed, one in a folder, one with a leading slash; 2 entries to a page; 2 changes by others; 4 times of signing | lists, answers, requests and dates are right; `CallsReturn` | holds |
| `copies` | 2 calls, each of `cache`, `ftp-force`, `ftp`, `s3`, `async` or `progress`; versions of 2 and 1 bytes, an error page of 1; 1 retry; faults, kills, cuts | `SettledWhole`, `StoresResource`, `CallsReturn` | holds |
| `cache_hit` | 2 cached reads | `CacheServesWhole` | violated |
| `startup` | 3 threads, each of any of five calls; 3 variables, all in `.env`, one preset; refused providers, failing builds | settings, provider and clients; `CallsReturn` | holds |
| `text_stats` | every file of at most 5 bytes of 7 classes, every chunking, both modes | `LinesMatch`, `CharsMatch`, `StrictRejectsInvalid` | holds |

Why the bounds are enough to be interesting. Reader: two bytes delivered
before a drop and one after make every comparison of offsets with starts and
lengths go both ways; three versions allow a restart on one and a resume on
another; the reader's decisions depend on MAX_RETRIES only by comparison, and
the theorems hold for every value. Upload: parts of one byte are asked for, so
three bytes in at most two parts force a part of two and a short one, and seven
bytes in at most three force parts of three, above the store's minimum of two,
while three bytes are raised to that minimum; one retry and one late request
give a request repeated while its first copy is still to come. Objects: three
keys, two of them with the prefix, and pages of one or two entries give lists of
one and two pages, pages without names of the kind asked for, and a key deleted
or put between two pages on either side of the token; the clocks are the epoch,
a 29 February, the last day of a year and 1 March of a year that is no leap year although 4 divides it,
the last found by more than a hundred rounds of the loop. Copies: a two-byte
resource lets a buffer be written in two goes with a truncation in between, and
the one-byte version is the shorter retry over a longer leftover; of the nine
kinds, `http` (which is `ftp` with a timeout), `force` (`ftp-force` with one)
and `ftp-cache` (`cache` without one) are left out for time: what they do to
the file, the others do. Startup: three threads are a holder, one
that waits and one that installs the provider meanwhile; with one line of
`.env` already preset, the loading thread stops in front of and behind each
kind of variable. Text: five bytes hold the longest character with CR or LF
around it, cut anywhere.

Deadlock is checked for the reader, which can always be called again. It is
off where calls end: after all callers returned nothing is left to do.

What the violations show (details and quotations in `PROJECT.json`):

* `reader_rollback`: a 200 restart replaces the response but not the headers
  kept from the first one. If the resource (or the replica behind the URL)
  then goes back to the first version, its 206 matches the stale validators
  and is spliced behind bytes of the second. The documentation promises that a
  mismatch fails the read. The stale length is the same defect.
* `s3_open_fails`: the second `File::open` is outside the guarded closure; its
  failure leaves the upload open on the store.
* `s3_body_lost`: `text().unwrap_or_default()` makes an unreadable body look
  like one without an error.
* `cache_hit`: a cache file exists from the moment it is created, and counts
  as complete from then on.

Two more weaknesses are in the models but have no run of their own; the
theorems exclude them by a hypothesis. `Ok(0)` is end of file for any body, so
a 206 that ends early truncates silently, and the kept Content-Length is only
consulted for a 416 (`FullRanges`; trait `shortRange`). Downloads drop their
`BufWriter` without `flush`, so a failing last write is not reported
(`ClosesReport`; trait `closeFails` of `LocalCopy`); copies that flush, or do
not buffer, are not concerned.

Three limits of the code are excluded by the properties themselves, by name. A
transfer that is cut in silence leaves a short file and is Ok: `SettledWhole`
speaks of what was received. `download_async` stores the text of an error
answer as the file, which a cached read then serves: `StoresResource` is about
files it has not written to. A key with a leading slash in a virtual-hosted
bucket is taken for another key (`KeyKept`). No doc, comment or test promises
otherwise, so they are no findings.

## 4. Fairness

`WF(ReadStep)` for the reader, `WF(CallStep(c))` for each upload,
`WF(CallStep)` for the one call of `S3Objects` and `WF(ThreadStep(t))` for each
thread of `Startup`: a thread in a call goes on. The code justifies it because
every blocking operation in those steps ends: reqwest's blocking client has a
default timeout of 30 s for every wait, uploads set one of 300 s
(`S3_UPLOAD_REQUEST_TIMEOUT`), and sleeps are bounded. In particular a waiting
call can always give up, so the weak fairness of its steps does not need the
store to answer.

Copies are different: `suppaftp` (`remote.rs` 30-34) and `reqwest::get`
(`async_reader.rs` 81) have no timeout, and a silent server holds a call of
them for ever. So the fairness of `LocalCopy` is that of
`~Waits(c) /\ (CallStep(c) \/ Fault(c))`: it forces nothing while such a call
waits for the server, and for the others a timeout is a fault. `CallsReturn`
there says that a call returns or from some time on waits for a silent server.

Nothing is assumed of the server, the store, the network or the other
processes: `ResourceReplaced`, `FileEdited`, `Handle`, `Serve`, `Edit`,
`Killed` are never forced. The consumer of the reader need not call `read`
again.

Fairness says that a call which can go on does. That it cannot go on for ever
is proved (section 5, `ReadsRunOut` and `...RunOut`), without any fairness.

In `LocalCopy` a call that has received everything still has enabled steps, so
`CallsReturn` says that retries are bounded and no state of the file stops a
call. A copy from a source that never ends is outside the model (lengths are
finite). In `S3Objects` the loop over the pages ends because the store's tokens
ascend; a store that repeats
a token is outside the model. In `Startup` a
thread that waits for a cell has no enabled step, and is not forced: that the
cell is filled or vacated in the end follows from the steps of its holder,
which waits for nobody (`NobodyHoldsAndWaits`).

## 5. Proofs

`ResumableHttpReaderProofs` proves, for all versions, lengths, header sets,
traits, chunk sizes and MAX_RETRIES that satisfy the assumptions named in
`ResumableHttpReader`:

| Theorem | States | Beyond the module's assumptions |
|---|---|---|
| `Typing` | `Spec => []TypeOK` | |
| `Contiguity` | `Spec => []Contiguous` | |
| `BoundedRequests` | `Spec => []RequestsBounded` | |
| `ReadsRunOut` | every step of a call of `read` lowers a rank | |
| `NoSplicing` | `Spec => []NoSplice` | `ValidatorsIdentify`: equal validators mean the same version; `ForwardRestarts`: a server that answers 200 does not also go back to versions it has replaced |
| `EofIsComplete` | `Spec => []EofComplete` | and `FullRanges`: a 206 reaches the end; `GrowingRestarts`: where a 200 may restart the read, replacements are never shorter |
| `KeepsPromise` | `Spec => ImplementsByteStream` | and `Validated`: every response has a validator; `AllFramed`: no body is delimited by the close of the connection |

`reader_rollback` shows that `ForwardRestarts` cannot be dropped, and with the
trait `shortRange` TLC finds `EofComplete` violated; `GrowingRestarts` has the
same cause as the first (the length kept over a restart). Each hypothesis is a
definition of the proof module.

The argument, bottom up; each part is inductive together with the ones before:

* `TypeOK` is inductive alone. `ReplyFacts` and `AnswerFacts` say once what an
  answer of the server may be, `AnswerCases` splits the match on its status;
  every later proof uses them.
* `Contiguous` is not inductive: a body that stands elsewhere than the stream
  would break it at the next byte. `Placed` adds that the body stands at
  `offset` and not behind its end. It holds through a resume because a 200 is
  only taken at offset 0 and a 206 only at its own start (`ResumedPlace`).
* `RequestsBounded` speaks of two nested loops; `Spent` says how many requests
  the call may have sent by where it is: at most MAX_RETRIES for each finished
  reconnection, and `attempt` for the current one. `Products` holds the
  non-linear arithmetic.
* `ReadsRunOut` is about the same two loops: `Rank` is the reconnections left,
  each with all its attempts, and the attempts left in this one. A read that
  gives data ends the call, so the reset of `stalled_retries` adds nothing.
* `NoSplice` needs `OneVersion`: the kept headers describe the first response
  (`Kept`), what was given is of the version being read, without restarts that
  is the first version, and without roll-backs versions only go up.
  `AcceptedVersion` is the work of `compare_validators`: a 206 it passes is of
  the version the kept headers describe.
* `EofComplete` needs `Whole`: the body ends where its version does, and one
  that has failed is over only when nothing is missing or a call has reported
  the failure. `CompleteMeansAll` is the case of the 416.
* `KeepsPromise` adds `Sound` (validators and framing are there) and maps
  `source <- response.ver, count <- offset, asked <- (pc # "idle")`: initial
  states to initial states, and every step to one of `ByteStream` or a stutter
  (`PromisedStep`).

`LocalCopyProofs` proves, for any number of calls of any kinds, all versions,
lengths and bounds:

| Theorem | States | Beyond the module's assumptions |
|---|---|---|
| `Typing` | `Spec => []TypeOK` | |
| `SettledIsWhole` | `Spec => []SettledWhole`, and the file is the whole version if every writer received the whole (`AllReceivedWhole`) | `ClosesReport`: no failing write is lost in silence, or no call is of a kind that could lose one; with a download and the trait `closeFails` TLC finds the property violated |
| `OkIsResource` | `Spec => []StoresResource` | |
| `CopiesRunOut` | every step of a call lowers a rank | `AreLengths(longest)`: `longest` bounds the lengths of the versions |
| `CacheServesWholeAlone` | `CacheServesWhole` in every behaviour where no call steps while another is under way (`OneAtATime`) | no faults or kills, no transfer cut in silence, only cached reads |

`TypeOK` is not inductive alone: that a buffer has a version and its file
exists depends on where the call is (`Placed`). `SettledWhole` speaks of the
end only; `Fresh` says why it comes out right. As long as no attempt that
created the file has failed since (`AllSound`), every byte is one that a writer
has received (`Owned`), and there is a writer whose bytes are all still there
(`Intact`): the one that emptied the file last, for the others may have written
before. A failed attempt leaves old bytes behind, and nothing is claimed until
its call creates, that is empties, the file again; a call that gives up is
never sound again. `EndsWritten` excludes a tail of holes. `OneStep` reduces
the eleven kinds of steps to three effects on the file (emptied, left alone,
buffer written out), and `FreshStep` argues about those.

`StoresResource` is about the bytes of the file and those a cached read has
returned. It needs `Checked`: a call that looks at the status is never past its
request with the text of an error. What a step then adds to the file is of the
call's version, and what it adds to a read is of the file (`StepKeeps`,
`CleanStep`), as long as no writer is a `download_async`.

`CopiesRunOut`: an attempt receives, writes and (cached) reads each byte once;
`Attempt` is its number of steps at most, and `Rank` adds that number for each
attempt the call has left. The buffer, the file and what was read from it never
get longer than a version (`Bounded`), also with other calls writing.

`cache_hit` shows that `CacheServesWhole` is false. `CacheServesWholeAlone`
says of what use the cache still is: reads one after the other, by whichever
call and with or without `force_cache`, serve whole versions, however the
resource changes. `Alone` is inductive: at most one call is under way, what it
has written so far is a prefix of its version, and between calls an existing
file is whole. Each hypothesis is needed (TLC finds the property violated
without it): an overlap, a fault in a download, a transfer that is cut in
silence (of an FTP URL, say), or a download of another kind, which empties the
file before it asks, leave a part of a file behind, and the next read takes it
for the whole.

`S3UploadProofs` proves, for any number of callers, all files, part sizes,
limits, retries and bounds:

| Theorem | States | Beyond the module's assumptions |
|---|---|---|
| `Typing` | `Spec => []TypeOK` | |
| `PartsStayInPlace` | `Spec => []PartsInPlace` | |
| `OkIsStored` | `Spec => []OkMeansStored` | `BodiesArrive`: the body of the answer to Complete can be read |
| `UploadsAreAborted` | `Spec => AbortedBeforeReturn` | `BodiesArrive`, and `OpensSucceed`: `File::open` does not fail after `metadata()` |
| `LimitsAreKept` | `Spec => []LimitsKept` | `FilesStay`: no file is edited during its upload |
| `PartsAreFew` | no request for a part has a number above `MaxParts` | |
| `CallsRunOut`, `RanksAreNatural` | every step of a call lowers a rank, a natural number | |
| `PutsAtomically` | `Spec => ImplementsAtomicPut` | `FilesStay`, `BodiesArrive` |

`s3_body_lost` and `s3_open_fails` show that the first two hypotheses cannot be
dropped. Four invariants carry the proofs. `Typed` says by its place what a
call holds (`Well`) and what a request may ask for (`Sane`): `TypeOK` alone
does not say that a part under way belongs to an upload that exists. `Owned`
says that an upload is one caller's, without which the abort of one could undo
the other, and that a completed one is stored. `Precise` says that, while files
stay as they are, the k-th part of a call, of a request and of an upload is the
k-th part of the caller's file (`Nth`), so that the parts of a completion put
together are the file, no part outside the store's limits is needed, and the
limits follow from the arithmetic of `ChunkSize`. `Once` is for the refinement:
a request that was given up may take effect when its caller has long sent
another, and `AtomicPut` lets a caller store once only; it says that what is
still under way cannot store a second time, for a repeated completion finds
its upload completed and a PUT is never repeated. `Moves` and `Hears` say once
what a step of a call and an answer assign, and the proofs go over them.

`PartsAreFew` and `CallsRunOut` do without `FilesStay`: the number of parts is
planned from the size that `metadata()` gave, and `Planned` says that no call
goes past it, however the file grows. `Rank` is the parts left, each with all
its retries and steps; before the size is known there is no rank, and
`Descends` lets that first step set it.

`S3ObjectsProofs` proves, for all keys, folders, clocks, page sizes and changes
by others, without further assumptions (but for a bound on the
clocks, see below):

| Theorem | States |
|---|---|
| `Typing` | `Spec => []TypeOK` |
| `DateIsSigned` | `Spec => []DateSigned` |
| `RequestsNameObjects` | `Spec => []RequestNamesObject` |
| `AnswersAreTrue` | `Spec => []AnswersTrue` |
| `ListingsAreSound` | `Spec => []ListSound` |
| `ListingsAreComplete` | `Spec => []ListComplete` |
| `CallsRunOut` | every step of the call lowers a rank, no other step changes it |

A key with a leading slash in a virtual-hosted bucket is outside
`RequestNamesObject` and `AnswersTrue` (`KeyKept`). The proofs go over
`Reached`, the key the requests reach, which is the caller's in all other
cases.

`Inv` is the common part: types, where a call of each kind can be (`Placed`),
and that the request under way is the one made of the present state (`Asked`).
Its conjunct `Dated` is the loop invariant of `epoch_days_to_ymd`: the days
left are counted from the first day of the year or month reached, and after the
years that day is in the year. `CalendarProofs` has what a round of the loops
needs, `YearLength` and `MonthLength`: the days of a year and of a month are
the distance of two first days. `AnswersTrue` speaks of returned calls;
`Answered` says it of the answer on its way, of which `past` still knows the
bucket it was true of. Lists are the hard case, because the pages are taken
from different states of the bucket: `Covers(s, from, to, listings)` says of an
interval of names that s holds, in order, names of some of those states and all
names of every one of them. A page covers the names between its token and the
next (`Paged`), the result those up to the token (`Collected`), and two
neighbouring intervals make one.

`CallsRunOut` counts, for a list, the keys behind the token, of which every
further page leaves fewer; for a copy, the days and months the loops may still
count off, for which `IsLatest(latest)` bounds the days of the clocks.

`CalendarProofs` also has `OneDate`: a day has one year, month and day in the
reference (`DateOf`), so `DateSigned` does not accept a second answer.

`StartupProofs` proves, for any number of threads and any `.env` file, without
further assumptions:

| Theorem | States |
|---|---|
| `Typing` | `Spec => []TypeOK` |
| `SettingsAreSeen` | `Spec => []SettingsSeen` |
| `ClientsHaveProvider` | `Spec => []BuiltWithProvider` |
| `ClientIsShared` | `Spec => []OneClient` |
| `LosersGoOn` | `Spec => RaceIsNoError` |
| `SharedStays` | `Spec => NothingTakenBack` |
| `NobodyHoldsAndWaits` | `Spec => []HoldersGoOn` |
| `CallsRunOut` | every step of a call lowers a rank |

The invariant has a global part (a variable has its setting or is yet to be
loaded; a full cell keeps what its holder found) and one for each thread:
`Informed`, a thread that is past its load finds the whole file in the
environment, whoever loaded it; `Provided`, one that builds has a provider, and
one whose installation was refused goes on because there is one or rustls
fails; `Holds`, a cell is busy exactly while its holder is in the closure;
`Shares`, the client in use is the one in the cell. Steps of one thread only add
variables, a provider and full cells (`Grows`, `CellSteps`), which keeps the
parts of the others; `SharedStays` states that for itself. `HoldersGoOn` follows
from where a holder can be (`Inside`): the closures of the three `OnceLock`s do
not use one another. `LosersGoOn` is about every place of
`ensure_default_provider` (`InEnsure`): an error there means that no provider is
installed and that rustls has refused one although it had none. Deadlock
freedom rests on `HoldersGoOn` and `CallsRunOut`.

`TextStatsProofs` proves, for every file of any length, every chunking and both
modes, without further assumptions:

| Theorem | States |
|---|---|
| `Typing` | `Spec => []TypeOK` |
| `StrictnessIsExact` | `Spec => []StrictRejectsInvalid` |
| `LinesAreCounted` | `Spec => []LinesMatch` |

What a place of the buffer says of the file is `SequenceMoves`: the same bytes
with more behind them begin with the same sequence, unless it was incomplete.
`Aligned` says that the buffers are the stretch of the file before
`file_offset`, so that nothing is lost or read twice where a chunk ends.
`Judged` is strictness without an induction over the file: some set of cuts
makes characters of everything consumed, and every set of cuts that makes
characters of the whole file cuts where the counters stand; at a sequence that
is no character there can then be none. `Counted` says that the newlines are
those of the bytes consumed, and `last_byte` the last of them.

`StatsRunOut`: a byte carried over comes back with the next chunk, at most
three of them, so an unread byte counts for five bytes still to be consumed.

`TextCharsProofs` has the hardest of the counts, in the same generality:

| Theorem | States |
|---|---|
| `CharactersAreCounted` | `Spec => []CharsMatch` |
| `Tallying` | `Spec => []Tallied` |
| `NothingSaturates` | the line ends subtracted at the end are never more than the characters |

The code counts over the whole file and subtracts; `lossy_lines` decodes every
line alone. `Tallied` says that the counters are those of the bytes consumed,
and that these end at a `Boundary`, behind which no sequence reaches: so the
next one found in a chunk is the next of the file. At the end the counts are
those of `Characters(text)`. That these are as many as `LineCharacters` takes no
induction over the file but a bijection: every character of the file that is no
LF and no CR before LF begins in one line (`LineEnds` has a least end behind
it), is a character of that line decoded alone, for no sequence reaches over an
LF or a CR, and the other way round.

Only model-checked: liveness (`ReadReturns` and the four `CallsReturn`), which
the prover does not reach, with the `ENABLED` in its fairness. Of each the half
that is no matter of scheduling is proved: no call takes infinitely many steps
(the `...RunOut` theorems). The other half, that a call which has not returned
has a step to take or waits for one that has, stays with TLC. `CacheServesWhole`
is violated, and is proved only where `CacheServesWholeAlone` says.

## 6. Not modelled

* Codecs, TLS, DNS, redirects, proxies: third-party code behind calls. The
  choice of a codec and of a protocol is a `match` on the name, without state;
  `digest.rs` feeds a reader to SHA-256.
* The canonical strings and the HMAC of SigV4: a signature is what it was
  computed from. Percent-encoding and XML are modelled by what they do to a
  name and to a body, not by their characters.
* Strings of the configuration: `normalize_endpoint`, the parsing of numbers
  and their defaults. A builder's setters change an owned value before `build`.
* Time: back-off delays and TTLs only matter as "later".
* Argument parsing, printing and the choice of an operation in `bin/oneio.rs`.
* What `ProgressReader` adds up for its callback; the copy below it is the kind
  `progress` of `LocalCopy`.
* The readers of the async module are wrappers. Its doc says that it supports
  what the sync one does; `async_reader.rs` 123-150 knows neither FTP nor S3,
  nor tgz, LZMA, LZ4, XZ. `http_file_exists` (`remote.rs` 124-134) says
  `Ok(false)` for any answer that is no success: one step, nothing to check.
* Integer overflow and allocation of configured part sizes near 2^64
  (`s3/mod.rs` 345, 496): the numbers of `S3Upload` are unbounded.
* That `past` in `S3Objects` keeps every state of the bucket bounds the run,
  not the theorems.

## 7. Plan

Done: the reader, its promise and its proofs; the S3 upload, its promise and
its proofs; the other S3 functions with signing, dates and lists, and their
proofs; local copies of every kind and their proofs; the first calls of a
process and their proofs; text statistics and their proofs. Every safety
invariant and action property of a passing run is a theorem, and so is, for
every component, that its calls do not go on for ever.

Left, most worthwhile first:

1. The composition of the resumable reader with a copy into a file: that
   `ByteStream` is what `LocalCopy` assumes of its source.
2. `calculate_chunk_size` with the width of `u64`.
3. More of what the hypotheses of the theorems cost: what still holds of an
   object when a file is edited during its upload, and of the bytes read when a
   206 is short.

# TLA+ verification of honcho-rust-sdk

This directory holds TLA+ models of the client library in `src/src`, the TLC
configurations that check them on small instances, and TLAPS proofs of the
properties that matter most for every value of the constants. Paths below are
relative to `src/src` unless they start with `src/`. `PROJECT.json` lists, for
every definition, the lines it translates; for every property, a plausible bug
in those lines that breaks it; and every hazard of the code with the properties
aimed at it.

## 1. The system

The library is the client of a REST server. It has little state of its own, but
what it has is shared: handles are `Clone`, their futures run concurrently on a
tokio runtime, any future can be dropped at any `await`, every request can time
out before or after the server applied it, and other clients change the same
objects. That, and the code that cuts long things into pieces (batches, pages,
chunks of a byte stream, a pipe), is where the behaviour is hard.

| Component | State | Operations | Hard part | What makes it correct |
|---|---|---|---|---|
| HTTP transport (`http/client.rs`) | attempt counter of a call | `request`, `request_multipart`, `request_streaming` | retries of a request whose fate is unknown; `Retry-After` | bounded attempts; a POST is applied at most once; every call ends |
| Errors (`error.rs`) | none | `from_response`, `is_retryable`, `parse_retry_after` | two tables that must agree | an error that says "retry" really may be |
| Workspace client (`client.rs`) | a `Mutex<Arc<OnceCell>>`: "the workspace exists" | `ensure_workspace`, `force_ensure`, `get_or_create_workspace`, `delete_workspace`, everything that needs the workspace | single flight with cancellation; resets racing fills | one create at a time; the cell never claims a deleted workspace |
| Session handle (`session.rs`) | cached metadata, configuration, active flag in one lock | `refresh`, getters, setters, `delete`, `add_messages`, `peers`, uploads | answers out of order; partial failure | the cache is one real state; a read is fresh; the report of what was stored is true |
| Peer handle (`peer.rs`) | cached metadata and configuration in one lock | as above, chat, representation | parts stored by different answers | a read is fresh; the cache regresses only when calls overlap |
| SSE parser (`http/sse.rs`) and `DialecticStream` (`dialectic_stream.rs`) | undecoded bytes, unterminated line, done flag; final response | `feed`, `finalize`, `parse_sse_stream`, `poll_next` | chunks cut anywhere, broken connections, a size guard | what comes out is what the whole body says, as early as possible |
| Pagination (`types/pagination.rs`, `blocking/iter.rs`, `Session::peers`) and the list operations of client, peer, session and conclusion scope | the current page, the body it was asked with | `next_page`, `into_stream`, `collect_all_pages`, `*_with_filters`, `*_with_options`, `list` | the list changes meanwhile; a server that misreports pages; filters placed by each operation in its own way | walks end; what is missed or repeated is bounded by the changes; a list keeps to its filters and its scope |
| Conclusions (`conclusion.rs`) | none | `create` in batches, `list`, `query`, `representation`, `delete` within a scope | partial failure; observer and observed look alike | the server holds a prefix; answers are about the scope |
| Blocking facade (`blocking/`) | global runtime; reader thread, pipe and error slot of an upload; fuse of the chat iterator | `block_on`, `upload_file_streamed`, `send`, iterators | two threads, a bounded pipe and an error channel beside it | only whole files go out; nobody waits for ever |
| Single requests, routes, validation, wire types (the builders of all handles and their blocking mirrors, `http/routes.rs`, `types/`) | none | about forty calls, each with its setters | the same few rules written down many times; ids in paths; bounds shared with the server's schema | what a caller sets reaches the endpoint it is meant for; a refused call sends nothing |

Interactions: handles call the workspace client's `ensure_workspace` before
their first request, and every request goes through the transport; the chat
stream is a transport response fed to the parser; pages and batches are
sequences of transport requests; the blocking facade drives the async methods
to completion on one global runtime.

## 2. The modules

| Module | Models | Composes |
|---|---|---|
| `WorkspaceEnsure` | the ensure cell and every call that reads, fills or resets it | the retry of DELETE |
| `HttpRequest` | one call of the transport's three loops | refines `RequestContract` |
| `RequestContract` | abstract: what a caller may rely on for one request | |
| `HandleCache` | the cache of a session or peer handle under concurrent calls | the retry of PUT and DELETE |
| `MessageBatch` | `Session::add_messages` and `ConclusionScope::create` | refines `AppendContract` |
| `AppendContract` | abstract: what a caller may rely on for a batched create | |
| `SseStream` | parser, `parse_sse_stream` and `DialecticStream` stacked as in a chat stream | |
| `Pagination` | the three walks over numbered pages, and the four list operations a stream starts from | |
| `UploadPipe` | reader thread, duplex pipe, error slot, `send()` | |
| `BlockingFacade` | threads in the blocking facade: the global runtime, `block_on`, `ChatStreamIterator` | the iterator over a stream |
| `Routes` | the path templates, the check and the encoding of ids, and how a URL parser and the server read the result | |
| `Operations` | every call that is one request: its setters, checks, path, query and body, on both facades, against the endpoints of the server's schema | `Routes`; the ensure as one action |
| `MC*` | symmetry sets and enumerated constants for TLC | |
| `StreamProofs` | theorems about `SseStream` | |
| other `*Proofs` | theorems about the module of that name; `BlockingFacadeProofs` also has those about `UploadPipe`, whose names for its specification begin with `UP` so that both can be extended | |

Every module keeps the code's control and abstracts its data. In all of them:

- an action is the code between two `await`s (or two visible operations of a
  thread), with the guards, early returns and assignments of that code;
- the server is a few external actions: serve, refuse, lose the answer (before
  or after the effect), apply a copy late, and whatever another client does;
- dropping a future is an action `Cancel`, enabled at every `await`;
- a definition whose comment begins with "Mutant:" is the operator it precedes
  with one plausible bug. It is used by no specification; substituting it must
  break the property named with it in `PROJECT.json`.

### WorkspaceEnsure (`client.rs:50-81, 233-345, 474-708`)
`cells` is the sequence of all `OnceCell`s the client ever had: `reset_ensure`
swaps the `Arc`, and a call that took its snapshot earlier keeps working on the
old one. A cell is `empty`, `busy` (the permit of `get_or_try_init` is out) or
`set`. A call is `use`, `get`, `force` or `delete`; its program counter follows
`ensure_workspace` (snapshot, acquire, POST) and then its own request.
`remover`, `excused`, `fresh` and `base` are history for the properties.

### HttpRequest and RequestContract (`http/client.rs`, `error.rs:174-211, 390-434`)
`req` chooses the loop (json, multipart, stream), the method and the type to
decode. `top`, `sending`, `reading`, `sleeping`, `done` are the places of the
loop. The server answers any status of the chosen set with any `Retry-After`;
a send may fail before, after or long before the request takes effect
(`applied`, `late`). Times are milliseconds, jitter is represented by the ends
of its range. `RequestContract` knows only copies sent, acceptance and outcome;
`ImplementsContract` is the refinement.

### HandleCache (`session.rs:22-67, 511-746, 1111-1125`, `peer.rs:37-345`)
`server` is the history of the object's states, so "older" and "fresh" are
comparisons of indices; an answer is the index of the state it shows. A call
waits for its answer, stores it (which part depends on the operation and on
whether the handle is a session's or a peer's), and returns. `at` is where the
cached parts come from, `floor` is `at` when the handle last had no call running.

### Routes and Operations (`http/routes.rs`, `types/`, and the calls of `client.rs`, `peer.rs`, `session.rs`, `conclusion.rs`, `blocking/`)
A call is begun (`Begin`), gets arguments one setter at a time (`Set`, where a
second call of a setter replaces the first), and is sent (`Send`, perhaps after
`EnsureAnswered`); `Answered` ends it. Each operation is an operator of the
source's name from the arguments, a function from the names of those that are
set, to a request or `Refusal`. What an async builder takes is written down once
(`ChatOptions`, `ContextSetters`, ...) and what the facade forwards a second time
(`BlockingContext`, ...), as in the code. The endpoints (`Api`) are those of
`src/tests/schemas/openapi.json`: method, path, the keys read from query and body,
and defaults. `Serves`, `PathIds` and `Reads` say what the server makes of a
request, `MeantFor`, `AsksAbout` what the caller wants. A body is an object of named
members or a value by itself (`Bare`: the map of peers, the list of ids, a peer's
configuration), and messages and conclusions come in a list inside of it; an
endpoint finds nothing in a body of another form than the schema's (`Found`).

An id is a sequence of characters, in which `%2e` and `%2F` are what a caller
typed as three; a text is a class around its bounds; a distance counts hundredths
and may be `NaN`. A parser reads a segment once: dot segments, `/` and `?` first,
then one decoding. Handles hold non-empty ids of harmless characters, because the
client or the server accepted them (`HandleAssumption`); ids given to a call are
not restricted. Of the other values of an argument only what its Rust type says is
assumed (`ValuesAssumption`): ids are strings, a page is a number, `reverse` and
`stream` are Booleans, peers are a list. Left to other modules: the pages after the first and
`messages_with_options` (`Pagination`), the batches (`MessageBatch`), metadata and
configuration of handles (`HandleCache`).

### MessageBatch (`session.rs:939-988`, `conclusion.rs:386-436`)
An item is its position in the input and `log` is what the server stored, so a
duplicate, a gap and a wrong order are all visible in one sequence. In
`AppendContract` there are no requests and no batches: a log that grows by at most
`Batch` items at a time, a report that is at most that much behind, and perhaps one
late batch after an error; `ImplementsContract` is the refinement, and
`reports` tells `add_messages` from `create`, whose error names nothing.

### SseStream (`http/sse.rs`, `dialectic_stream.rs`)
A byte is one of six kinds, enough to cut a character or a CRLF in two, and to
tell content, ignored lines and the done event apart. The reference reads the
whole body from its start: `Decoding` gives its characters, `Contents` the texts of
its lines up to the done event, `Meaning` both in a row, and an `"end"` after the
body stands for its end. They are recursive functions that take one character, or
one line, at a time and know no chunks, no buffer and no flags; the incremental
parser is compared with them after every chunk and at the end.

### Pagination (`types/pagination.rs`, `blocking/iter.rs:105-141`, `session.rs:843-874, 1003-1051`, `client.rs:712-880`, `peer.rs:630-682`, `conclusion.rs:691-881`)
Items are numbered by age and the collection is a set of them; others add and
remove items between the requests. The rank of an item is the number of listed
items before it; `Beyond` is what has at least a given rank, and a page is what lies
beyond its first rank and not beyond the first of the next, in the order of the list.
A list operation checks its arguments (`Clash`, `ValidPagination`) and builds the
first body; the fetcher captures it for the later pages. Two filters stand for
all: one the caller may pass, and the scope of a conclusion list. A body keeps
apart the filters under its member `filters`, which is where the server's schema
has them, and those outside of it.
A server that is not `honest` reports page 1 for ever, or one page too many. A
stream compares the page it would ask for with the one it asked for (`NoProgress`)
only after a page it fetched itself, not after the first: a stream that was started
at page 2 and is told that it has page 1 asks for page 2 a second time and gives its
items again, and then ends.

### UploadPipe (`blocking/session.rs:22-57, 486-546, 611-645`, `session.rs:331-455`)
A unit of the file is its position. The thread reads some units, writes them as
the pipe has room, publishes an error in the slot *before* it drops its end, or
panics; `send()` reads the pipe to its end, looks at the slot there, POSTs once,
and joins.

### BlockingFacade (`blocking/runtime.rs`, `blocking/iter.rs`, `blocking/peer.rs:246-368`, and the wrappers of `blocking/*.rs`)
A thread is `idle`, waits for the `runtime` (which one thread may `build`),
`drive`s its future or `wait`s for an answer; `nested` are the threads inside
an async context. The wrapped methods differ only in what they drive, so a call
is one of a few kinds; `upload` is `handle()`, which has no guard. `out` is what
`next()` gave, across threads: the iterator is `Send`, so one thread may be
refused where another one could go on.

## 3. What TLC checks

`tlc -workers 2 -config <cfg> <module>`; every run finishes within two minutes
or so. Deadlock checking is off, but for `Operations`, because every model really
stops: all calls end, a walk or a stream is over. In `Operations` a call that is
over makes room for the next. What the theorems of section 5 establish anyway is
not run a second time: the type invariants of `HandleCache`, `MessageBatch` and
`UploadPipe`, `PrefixStored`, `PipeInOrder` and `JoinedOnReturn`.

| Run | Bounds | Shows |
|---|---|---|
| `WorkspaceEnsure` | 2 calls of any kind, 1 retry, another client, fairness | single flight exactly; the cell claims a workspace whose deletion was reset only after a late fill; a 404 is explained; `force_ensure` recovers; every call ends although others fail or are dropped |
| `EnsureStaleFill` | 3 calls of use/get/delete | **violation**, see 6.1 |
| `HttpRequest` | 2 retries (the default), one status of every class and both sides of every table, `Retry-After` around the limit | contract, at most once, retries and pauses as both sides asked, termination |
| `HandleCache` | 2 calls of any kind, session or peer, 1 retry, 1 foreign change; symmetric calls | a session's cache is one real state; it goes back only while calls overlap; reads are fresh |
| `PeerTorn` | 2 calls on a peer | **violation**, see 6.3 |
| `MessageBatch` | batches of 3, inputs of 0 to 10 items | the contract of a batched create, accurate report (all stored on Ok), ends |
| `SseStream` | bodies of 6 bytes, chunks of up to 4, line limit 3 | prompt, nothing lost, guard justified, completes |
| `Pagination` | pages of 2, up to 5 items, 2 removals, cap 2, first page 0 to 2, sizes around the limits, two filters | order, filters on every page, bounded repeats and misses, cap, termination |
| `MessagesUnfiltered` | `messages_with_options` over 3 items | **violation**, see 6.2 |
| `UploadPipe` | files of up to 8 units, pipe of 3 | no truncated upload, honest result, no deadlock |
| `BlockingFacade` | 2 threads, streams of up to 3 contents, lists of up to 2 pages, 5 calls of `next()` | one runtime, nothing driven in an async context, an honest iteration, every call returns |
| `Operations` | 40 calls, async and blocking, at most 3 arguments each, values on both sides of every bound, 13 awkward ids | one endpoint per request and the right ids; every argument arrives; the scope is kept; agreement with the schema; a refused call is silent |

Why the bounds are enough. In `WorkspaceEnsure` two calls, each of any
kind, meet in every pair of operations, and the other client and the late copies
act besides; a call runs one operation. The history that needs three calls (one
resets, one fills late, one trusts the cell) is the run `EnsureStaleFill`. Three
calls of every kind take TLC more than the minutes a run has; the safety theorems
hold for any number of calls. A second retry adds no new order.
Two calls suffice for a torn or stale cache (one stores over another), and one
foreign change makes a third version. Batches of three show sizes below, at and
above a boundary and a middle batch between the first and the last. Six bytes
hold a character and a CRLF, each cut, between two lines; limit 3 is passed by a
line of 4 and by many lines in one chunk. Three pages have a first, a middle and
a last, and the cap lies one below. `Levelled` and `Scoped` leave out different
items, so that each filter alone and both together give different lists. Three units of pipe and eight of file
make the writer wait, write in parts and wrap around twice. Two threads race
for the runtime and hand over the iterator; five calls of `next()` go past three
contents, the end and one call more.
Checks and encodings of a call look at one argument at a time or, in a context, at
two; three arguments show every pair beside one that must be set. A path has at
most two ids that a call is given, and one awkward id in each place is enough,
since segments are encoded one by one (`FilledPathsArrive` is the general fact).
The only variables without a natural bound are bounded by these constants:
`MaxSet`, `MaxRetries`, `MaxForeign`, `MaxItems`, `MaxRemoved`, `MaxBody`, `MaxFile`,
`MaxPages`, `MaxNexts` and the number of calls, each of which runs one operation.

## 4. Fairness

- A task that was woken is polled again and the OS runs a thread that is ready:
  weak fairness of the client's own steps.
- Every request has a timeout (`HttpClientParams::timeout`), which covers the
  body: weak fairness of "the request is answered or fails", never of "it
  succeeds".
- In `BlockingFacade` the same timeout ends a stream too, as it covers the body
  (`http/client.rs:523-532`): weak fairness of what arrives.
- Nothing is assumed about starting or dropping calls, about other clients, or
  about late copies.
- `SseStream` and `Pagination` assume that the caller polls to the end.
- `UploadPipe` assumes that the caller's `Read::read` returns. The code depends
  on it: neither the reading of the pipe nor the join has a timeout, so a
  reader that blocks for ever blocks `send()` for ever.

## 5. What is proved

`tlapm <module>` proves these for all values of the constants, from the
`ConstantsAssumption` (in `UploadPipe`, `UPAssumption`) of each module and the assumptions named here.

| Module | Theorems | Argument |
|---|---|---|
| `WorkspaceEnsureProofs` | `TypeCorrect`, `SingleFlightHolds` | `FlightInv`: a cell is busy exactly while one call posts for it, and calls only hold cells that exist; a reset only appends, so older cells keep their owners |
| | `StaleOnlyByLateFillHolds`, `MissingExplainedHolds` | `CacheInv` relates the cell a call holds to `base`, the cell that was current when it began, and to `remover`: until a `get` fills a cell made after it began (`late`), whoever removed the workspace has not reset yet, or every cell set since was set by a create served since |
| | `ForceEnsureFreshHolds` | `FreshInv`: any cell younger than the one a force reset was filled by a create that began after it, or late |
| `HttpRequestProofs` | `TypeCorrect`, `AppliedAtMostOnceHolds` | `OnceInv`: a non-idempotent request is sent only with `attempt = 0`, and each copy is applied, late or gone |
| | `RetriesAsAskedHolds` | with `LoopInv`: an error of a request nobody accepted leaves the loop with a retry left only past one of the two tables or the limit on `Retry-After` |
| | `ImplementsContractHolds` | `LoopInv` and a step-by-step mapping of the loop to `RequestContract`, most steps being stutters |
| `HandleCacheProofs` | `TypeCorrect`, `CacheCoherentHolds`, `QuietNoRegressHolds`, `ReadsFreshHolds` | `Inv`: answers lie between the call's start and now (`Answered`), so does the floor of every running call (`Floors`), and the cached parts are those of the states in `at` (`Cached`) |
| `MessageBatchProofs` | `TypeCorrect`, `PrefixStoredHolds`, `ReportAccurateHolds` | `Inv`: the log is the acknowledged items or one batch more, and a late batch can only be the next one |
| | `ImplementsContractHolds` | from the same `Inv`: serving a batch, now or late, is `Store`; the ends of the loop are `Succeed`, `Fail` and `Drop`; all else stutters |
| `BlockingFacadeProofs` | `TypeCorrect`, `RuntimeKept` | `CallInv`: a call has a kind and asks only while it is driven; one thread at a time is in `build`, and only while the runtime is unset |
| | `IterationHonestHolds` | `UseInv`: one call polls the stream, and only until it is complete; `IterInv`: what was given is the contents, and once the iterator is complete the next thing says why |
| | `UploadTypeCorrect`, `PipeInOrderHolds`, `NoTruncatedUploadHolds`, `ResultHonestHolds`, `JoinedOnReturnHolds`: of `UploadPipe` | `ReaderInv` and `PipeInv`: body, pipe and buffer concatenate to what was read; the thread leaves its loop only at the end of the file, with the slot set on an error, or because rx is gone |
| `PaginationProofs` | `TypeCorrect`, `CapRespectedHolds` | `WalkInv`: nothing is handed out before the first answer, only numbered pages from the first on are asked for, and a stream asks once its page is used up; `CapInv` adds which walk can be capped |
| | `ListedOnlyWhatWasAskedHolds` | `FilterInv`: the body of the first request is the body of all, and whatever was served passes it |
| | `InOrderHolds` | `OrderInv`, over `Total` (what was given and what is queued, in order) and `Rest` (what lies beyond the page): oldest first, all that was served is older than the rest; newest first, an addition moves at most one served item back into the rest, so the repeats there have been and those to come are together at most the additions |
| | `MissedBoundedHolds` | `MissInv`: an item of the first page or after it that is still listed was served or is still to come, but for one per removal, which moves the rest forward by at most one; `page >= pages` at the end leaves nothing to come |
| `StreamProofs` | `TypeCorrect`, `GuardJustifiedHolds` | `IInv`, with `PlaceInv`, which says what is settled at each place: before a read no line can be taken and the guard has passed; and `ReadInv` |
| | `PromptHolds`, `NothingLostHolds` | `ReadInv`: whatever is still to arrive, what the body and it will mean is what was handed on and queued, then what the parser's characters and bytes and it will mean; `FlushInv` is the same once the body has ended. See below |
| `OperationsProofs` | `EncodedIdsArrive`, `FilledPathsArrive` | character by character: what `encode` leaves alone is a dot only where the id had one, and decoding is its inverse; ids of any length |
| | `TypeCorrect` | `SettersForwarded`: each facade builder forwards a subset of the setters of the async one |
| | `RefusedIsSilentHolds` | `SilentInv`, and `RefusedAfterEnsure`: of the calls that ensure first, only lists can still be refused afterwards, since the client's routes hold no id but its own |
| | `ReachesItsEndpointHolds` | the table `Shape` has what tells the endpoints apart: of one method and one length, any two differ in a segment that is a word in both (`EndpointsApart`), and words arrive as they are, so exactly one endpoint serves a filled path; `CallInv`: what is under way is the request of the call |
| | `ArgumentsReachHolds` | `CallsKept`, operation by operation: a key that is set is `Kept` in the query or the body, and the endpoint reads that key from there (`KeyRead`); keys that travel in the path come with `CallReaches` |
| | `ScopeKeptHolds` | observer, observed and session are read from the same place and with the same default as the caller meant them: the view of a peer through its path and target (`PeerViewRead`), the others through body, query or filters (`BodyViewsRead`, `OtherViewsRead`), and a reserved filter cannot be the caller's |
| | `AgreesWithSchemaHolds` | `CallNeeds`: a request is made exactly when the `Guard` of its call and the checks of its route pass; `SentIsAllowed`: a value that passes is one the schema allows; `RefusedInv`, `RefusalJustified`, `IdsJustified`: a value that does not is one the schema refuses or one of the documented exceptions |

The three theorems on the ensure cell speak of histories without a late fill
(`late = {}`); with one they are false (6.1). `MaxSet`, `Values` and the ids of
`Operations` are arbitrary.

What `SseStream` needs more of. `Prompt` at the next read follows from `Prompt` at
this one only if it is known what the bytes kept between the two will become, for
every way the body may go on: hence the quantifier over `t` in `ReadInv`, which is
why it is a theorem about sequences of every length, and which TLC cannot evaluate.
It compares the parser with the reference, so it needs the equations of the latter.
A theorem of the library would give them, but it takes an operator as a parameter,
so `StreamProofs` proves them from the one fact that a nonempty set of numbers has a
least one (`LeastOf`): two functions that agree wherever they agree on what is
shorter are the same (`UnfoldedAlike`), and values built from typed values are typed
(`UnfoldedType`), since a shortest counterexample would have a shorter one;
`UnfoldedIs` concludes that the function the definition chooses satisfies it. Then
each step of the parser is one equation of the reference: `DecodingOfConcat` (a
character that is complete stays as it is whatever follows), `FirstLineOfConcat`
and `PoppedLine` (so does a line, unless it ends in a CR that is the last character),
`FlushedLine` (the end of the body ends the last line), `OpenLineAfter` (a line taken
leaves the open one alone, which `GuardJustified` measures).

Only model-checked is liveness (`CallsComplete`, `Terminates`, `Ends`, `Completes`,
`Settles`, `CallsEnd`), because TLAPS does not reason about fairness here. Every
safety property that a run checks and the code has is also a theorem.

## 6. Where the code and its text disagree

1. `client.rs:328` fills the cell that is current *after* the POST of
   `get_or_create_workspace`. If `delete_workspace` runs between the answer and
   the fill, the cell claims a workspace this client has just deleted, and later
   `peer()`/`session()` calls get the 404 that `client.rs:701-703` promises to
   avoid (run `EnsureStaleFill`).
2. `session.rs:1032`: `messages_with_options` serialises the caller's map of
   filters as the body itself, where every other list operation wraps it in a
   member `filters`. The server's schema (`src/tests/schemas/openapi.json`,
   `MessageGet`) has no other member, so the filters that `src/API.md:359`
   promises have no effect; the test in `src/tests/session_messages.rs:386`
   expects the bare body (run `MessagesUnfiltered`).
3. `peer.rs:37-38` promises that new metadata is never paired with a stale
   configuration, or vice versa. The getters and `refresh` store both parts of one
   answer (`peer.rs:312-323`), but the setters store one part each (`peer.rs:240, 293,
   343`), in the order of the answers: two that overlap leave a new configuration
   with old metadata (run `PeerTorn`). The lock only makes each store atomic.

Also met while modelling, without a run:

- `blocking/peer.rs:114-117` says that in an async context the chat iterator yields
  the same error "as its first (and subsequent) item". The code yields it once and
  then ends (`blocking/peer.rs:355-365`); so say the doc of `next()` (332-338) and the
  test in `src/tests/blocking_smoke.rs:1483-1487`. `IterationHonest` states what the
  code does, so that it passes says nothing for the doc of `chat_stream()`.
- `client.rs:700`: the `?` skips the reset of the ensure cell when the DELETE
  took effect but its answer was lost, or its retry was answered 404. The cell
  still claims a workspace this client removed, although the caller was told of
  an error (`DeleteErr`).
- `src/README.md:213` tells the user that timeouts, connection errors, 429 and
  5xx are retried; a POST, which most operations are, is retried on none of
  them (`is_idempotent` in both branches of the loop, `MayRetry`).
- `client.rs:252-256` says that `force_ensure` always issues a POST; two
  concurrent calls share one. What callers need of it, `ForceEnsureFresh`, holds.
- A 408 is retried by the transport (`http/client.rs:33-38`) and is not
  "retryable" for the caller (`error.rs:196-211`).
- `http/sse.rs:45-48` says the guard looks only at an unterminated line. After
  the done event finished lines are no longer drained, so a long tail in the same
  chunk trips it, and the contents parsed from that chunk are lost with it.
- `blocking/session.rs:470-472` says a streamed upload does not buffer the file;
  `session.rs:387-401` reads it to the end before the request (`body` in
  `UploadPipe`).
- If the reader thread panics, the truncated body is uploaded all the same;
  `send()` then reports the panic (`ResultHonest`), but the server has the file.
- `src/API.md:680` and `src/CHANGELOG.md:240` say that `page` and `size` are
  validated before any request. The two lists of the async client create the
  workspace first (`client.rs:725`); the blocking ones do validate first
  (`RefusedIsSilent` names the exception).
- `summary` and `limit_to_session` of a peer's context builder are sent
  (`peer.rs:1241-1255, 1318-1319`) to an endpoint that has no such parameters.
- Creating a session with the same peer twice keeps the last one
  (`client.rs:526`), where `add_peers` and `set_peers` refuse the list.
- `src/API.md:377-385` speaks of a file re-opened or replayed on retry; the upload is
  a POST and is never retried.
- `stream(true)` of the options of `chat_with_options` is sent although the answer is
  read as JSON; `types/dialectic.rs:73-80` calls it a known rough edge.
- A base URL with a query or a fragment passes `normalize_base_url`, and
  `build_url` (`http/client.rs:153-158`) then appends the path to that. The models
  assume a base URL without either.
- `types/pagination.rs:319-342` does not compare page numbers after the first page,
  as the loop does after every other (352-358): under a server that misreports them
  one page may be fetched and given twice (`NoProgress`).
- A list of a single batch that times out returns `Timeout`, which
  `is_retryable` accepts, although the batch may have been stored.

## 7. Not modelled

- The text of JSON, URLs and multipart forms, response structures and their
  decoding (but for empty and invalid bodies in `HttpRequest`), `Display` and
  `Debug`, logging, headers and authentication: data no property speaks of.
- Lengths of ids and texts beyond the classes of `Operations`: a length is on one
  side of its bound or the other.
- The building of a client (`from_params`, environment variables) and the getters of
  handles: configuration, and reads of one field under its lock, which `HandleCache`
  has as states between its actions.
- What happens to a request of `Operations` under way is `HttpRequest`; the two are
  not composed, because the operations add nothing to it but its inputs.
- Real time: only the order of pauses and answers, and their bounds.

## 8. Plan

Done: ensure cell, transport and its contract, handle caches, batches, chat
stream, pagination, streamed upload, blocking facade, the single requests and
their routes, with the proofs of section 5. What would add most next:

1. Abstract specifications: a byte queue for `UploadPipe`, a single-copy register
   for the calls of `HandleCache` that do not overlap; each shown to be implemented.
2. A session created by `clone_session` or `session()` together with the ensure
   cell and the cache of the handle it returns: a composition of `WorkspaceEnsure`
   and `HandleCache`.

# LinguaMesh core: TLA+ specifications and proofs

This directory models the stateful core of LinguaMesh: what happens on an engine
handle of the C ABI when several host threads use it at once, what a translation
stream promises whatever the server does, how secrets and files are handed over
by the host, how document jobs and the other tables of the local database survive
crashes and several connections, how a provider is chosen, how a text is protected
on its way through a model, and how documents are taken apart and put together.
`PROJECT.json` maps every definition to the lines it models, and lists the runs,
the mutants that show each property can fail, the hazards of the code and the
theorems. Paths below are relative to the repository (`src/` here).

- [1. Inventory](#1-inventory)
- [2. Modules and their correspondence to the code](#2-modules-and-their-correspondence-to-the-code)
- [3. Runs](#3-runs)
- [4. Bounds](#4-bounds)
- [5. Fairness](#5-fairness)
- [6. Proofs](#6-proofs)
- [7. Findings](#7-findings)
- [8. What is not modelled](#8-what-is-not-modelled)
- [9. Plan](#9-plan)

Running: `tlc -config <run>.cfg <MC module>` and `tlapm <module>Proofs.tla`.

## 1. Inventory

| Part | State it keeps | Operations | What makes it hard |
| --- | --- | --- | --- |
| C ABI engine, `crates/linguamesh-ffi` | registry of handles, shutdown flag, operation slot with its token, pending secret requests, event queue | submit, cancel, poll, send host response, shutdown, destroy; tasks `request_task`, `run_host_secret_translation`, `forward_events` | host threads and Tokio tasks interleave between every lock; a token is replaced while it may be cancelled; an operation ends while the next begins |
| Event queue and buffers, `crates/linguamesh-ffi` | bounded queue, semaphore of outstanding buffers, allocation table and counter | poll with a timeout, buffer free | a timeout races an arrival; permits must be conserved on every path; the counter wraps |
| File leases, `crates/linguamesh-domain/src/file_lease.rs` and the ABI | registry, atomic state of each lease, host descriptors | create, expire, revoke, destroy, consume from bytes or from a descriptor | a consumption takes and drops the lock several times around a slow parse |
| Translation engine and adapters, `crates/linguamesh-engine`, `crates/linguamesh-provider-{openai,anthropic,gemini,ollama}` | worker, token, event channel; session, credential, buffer of the stream | translate, cancel, drop, close session | partial streams, silence, a session closed between look and use, several requests per operation, five stream formats with different ends |
| Protected text and glossaries, `crates/linguamesh-domain/src/lib.rs` | rules; spans with their markers; pending characters, markers seen | import and export rules, protect, cut into chunks, push, finish | overlapping spans, markers the source already has, a limit inside a marker, markers cut at any place by the delta boundaries |
| Stream decoders of the adapters | buffer of what has not been decoded | push, finish | chunks cut anywhere, two kinds of separators, five ways to say the end and the usage |
| Provider manager and secret broker, `crates/linguamesh-application` | active session, bounded channel of secret requests | connect, disconnect, resolve, receive, respond | cancelled, dropped and late attempts; a switch that fails half way |
| Routing, `crates/linguamesh-domain/src/routing.rs` | none (a pure function of profile and context) | select | thirteen rejection rules in order, saturation, ties, fallback |
| Local database, `crates/linguamesh-storage` | SQLite tables: jobs, segments, options; profiles, history, usage, memory, libraries | save, update, set state, delete, clear, open and migrate | several connections, deferred transactions, crash between statements, reads outside the transaction that uses them |
| Documents, `crates/linguamesh-document` | segments with their translations, the original package | read, select, apply translation, rebuild | a translation that brings structure along, several scanners of one format, segments assigned to places by counting, shared strings and shared streams |
| Catalog, protocol, CLI, bindings, test kit | see section 8 | | |

How they interact. The ABI engine owns a Tokio runtime. `lm_engine_submit` decodes
an envelope, takes the slot and starts a task that drives `TranslationEngine`,
whose worker calls the adapter and puts events into a channel of 32;
`forward_events` copies them into the ABI queue of 64, from which the host polls
them into owned buffers. A command that names a secret first runs the broker: the
request goes through a channel to `request_task`, out as an event, and comes back
through `lm_engine_send_host_response`. The same broker serves
`ProviderManager::connect`. The adapter passes the model's text through the
restorer of protected text. A leased file becomes a document job, whose segments
the host translates one by one and stores in the local database.

What makes each part correct, in one line each: the slot has one owner and is
given back; a stop reaches whatever runs; each operation's events are
`started, text_delta*, one terminal` in order; no event and no permit is lost; a
lease is used once and with its own bytes; `completed` means the whole text; no
marker reaches the user and no wrong answer is taken; one open session, built
from granted secrets, and a failed switch changes nothing; a routing decision
satisfies every constraint; a document read and written is the same document with
its translations in their places; an exported glossary is the glossary; what a
server sent is what is decoded, however it is cut; a stored job is whole and keeps its translations; the
active provider, the active model and every usage record refer to a row that is
there; a database that was opened holds no legacy secret.

## 2. Modules and their correspondence to the code

`EventStream` is the abstract specification of what an operation promises its
consumer: one `started` event, any number of text deltas, exactly one terminal
event, numbered without a gap from an offset, and `cancelled` only after a stop
was requested. `FfiEngine` and `TranslationEngine` both implement it, through
`INSTANCE EventStream WITH` the events that a submission has put into the ABI
queue (its n-th event is the one with n of its events at or before it), and the events a worker has put into its channel (`StreamsImplemented`,
which moves the quantifier over the operations inside the temporal formula).

`FfiEngine` is one handle. `call[o]`, `req[o]`, `run[o]`, `worker[o]` are the
program counters of the four threads of control a submission goes through; a
critical section of a mutex, an atomic access and a channel operation are one
step each. The pending map of secret requests is modelled by where the response
sender of an operation is (`lease`). The two cancellation tokens an operation
with a secret has, the one in the slot while the secret is awaited and the one
the engine makes, are pairs in `cancelled`; `install_operation_token` is the swap.
A full queue blocks `forward_events`. Destruction removes the handle; the value,
with its runtime and its tasks, goes when no call holds it (`drop_engine`).

`FfiBuffers` is the other side of that queue: any number of polling threads, each
with its timeout, the Tokio mutex around the receiver, the permits, and the
allocation counter with its width as a constant.

`FileLease` has one step for each operation that holds the registry's lock
throughout, and a consumption of up to nine steps: borrow the descriptor and read
it, clone the lease, compare, parse, check again, revoke, remove. A host may close
a descriptor, and the number may be reused for a foreign file, at any time
(`host_close`, external). `OneShotLease` is the abstract specification of one lease:
granted once, inactive once and for the first reason given, consumed at most once
and by a call that had seen it active. `FileLease` implements it for every lease
(`LeasesImplemented`, through `INSTANCE OneShotLease WITH` the lease's state, whether it is
registered, the calls behind their last look at it and those that have succeeded).

`TranslationEngine` is the worker and the adapter below it: OpenAI's chat and
responses protocols, Anthropic, Gemini or Ollama, chosen in `Init`. A read yields
any short list of the server's events, an error, silence or the end of the body.
What an event becomes is the adapter's parser (`ChatParse`, `ResponsesParse`,
`AnthropicParse`, `GeminiParse`, `OllamaMessage`), with the precedence the code has:
a chat event with usage is read as usage whatever text it has, and Anthropic's
usage hides a stop. Ollama reads the last line without a line end
(`ollama_body_end`) and does not look at the session again behind the credential
lock (`ollama_request_locked`). Requests follow one another for the chunks of the source; `close_session` is two steps (the flag,
then the credential) and so is the use of the credential. A source that is only
white space (`blank`) ends before any request.

`ProtectedText` follows one source text: `import_glossary` reads the rules
(`GlossaryText`: the CSV records with their quoting, the event loop over a TBX
file, the limits and conflicts of rules), `protect_source_text` finds the spans and
makes the markers (`ProtectedSource`: the five collectors, the glossary matches
with their locales and word boundaries, the order among overlapping candidates, the
token that grows while the source contains it, and the chunking), and the model
answers. The answer's letters reach `ProtectedTextRestorer` in deltas of any
length, straight or as the body of a response in chunks of any length through the
decoder of its protocol (`StreamDecoder`: chat, Responses, Anthropic, Gemini and
Ollama's lines, each with its separators, usage, end and errors). A marker keeps its
shape (two underscores, a letter, an underscore, the index, two underscores),
because the code's behaviour depends on how far a cut marker overlaps itself and
others. The restorer is a module of its own, `Restorer`, whose actions are the steps of
the loops in `push` and `finish`; `RestorerSpec` lets any text arrive in any deltas, and
`ProtectedText` conjoins its actions with the arrival of the provider's answer
(`receive`, `end_of_answer`, `Restoring`). `Matching` holds the marker's prefix and
suffix and what it means that a text has a part, for both and for the codecs.

`Documents` is a `DocumentJob`: it is read (`from_utf8` and its variants), a
spreadsheet range may be selected, each prose segment is translated, and the
document is rebuilt. What reading and writing mean is the codec of the format.
`LineFormats` has plain text, Markdown and subtitles with their three scanners;
`CsvText` the detection of the delimiter, the records and the fields; `HtmlText` the
tokens and the stack of open tags; `JsonText` the recursive descent with the path
of every string; `Ooxml` and `Epub` the members of a package, their text nodes,
and the spreadsheet selection; `Pdf` the objects, content streams and literals.
`Texts` and `Xml` are what they share. A text is a sequence of symbols: one for each
character, or word, that some codec treats on its own (a quote, a line end, `<`,
`-->`, an entity, a time stamp) and one or two for all others. A package is a
sequence of members, a member a sequence of tags and texts; the ZIP container,
compression and quick_xml's tokenizer are external; an element for text always has a
text, which may be empty. Reading a subtitle file also
computes `subtitle_warnings`, writing a PDF also its HTML alternative. The codec
modules use RECURSIVE operators and are for TLC only.

`ProviderManager` has `connect` attempts, each with up to `MaxRefs` secrets to
resolve, the channel with its leases, and the host. `connect` takes `&mut self`,
so attempts follow one another; a dropped attempt leaves its request in the
channel and the late answer to it.

`Routing` is `select` over profiles and contexts: the rejection rules as a list in
the code's order, the score with its saturation, the eligible candidates, each at
the place the stable sort gives it (as many stand before it as compare less), and
the choice.

`DocumentJobs` has the tables as SQLite commits them (`db`), the tables as the one
writer sees them (`work`), and the connections whose snapshot is outdated
(`stale`). `rusqlite` transactions are deferred: the snapshot is taken by the
first read (`save_begin`), the write lock by the first write (`save_write`), which
fails with SQLITE_BUSY when another has the lock or has committed since.
`update_document_segment` reads outside the transaction, in two statements. A
crash is possible at every step. `kept` is a history variable for the properties
only.

`LocalStore` is the rest of the database: `finish_open` with its migration in one
transaction and the checkpoint of the write-ahead log behind it, provider profiles
with health, recent model and active selection, manual models, history with usage,
translation memory, routing profiles and glossaries. A single statement and a
transaction that begins with a write are one step; a call that reads first is two,
and inside a transaction its write fails on an outdated snapshot (`stale`). What
is read outside a transaction (the policies, a listed model) may be outdated when
it is used. `remains` says whether the file still holds the pages with legacy
secrets, which only a completed checkpoint changes. The clock may go back. No
statement touches tables of two areas, so a behaviour uses the tables of one
workload (`used`), chosen in `Init`.

The `MC*` modules only give constants their values.

## 3. Runs

| Run | Shows |
| --- | --- |
| `FfiEngine_handle` | a plain operation and one with a secret under the same identifier: `SlotExclusion`, `StoppedIsCancelled`, `HostDecides` (a wait ends as the host, a cancel or the end of the engine decides), `StreamsDoNotMix`, `CancelledWaitNeverStarts`, refinement of `EventStream`, `SlotIsReleased` |
| `FfiEngine_lost_cancel`, `FfiEngine_foreign_sweep` | two violations, section 7 |
| `FfiBuffers_polling` | `SlotsConserved`, `NothingLost`, `EveryEventDelivered` |
| `FileLease_registry` | refinement of `OneShotLease` for each lease (one-shot, inactive when gone, first reason stays), `GrantedBytes` |
| `TranslationEngine_session` | `CompletedMeansWhole`, `NoRequestAfterClose`, refinement of `EventStream`, `EveryOperationEnds` |
| `ProtectedText_restore` | `ShownIsRestored` (what is shown of a faithful answer is always right, success means a faithful answer wholly restored, and with one span no faithful answer is refused), `DeltasDoNotMatter` (at any time the emitted text is the beginning of what the text received so far becomes when it is read at once, on success all of it), `RefusalsAreRight` (an answer is refused only for a marker that stands in it twice or is not met, or for a prefix without a marker; before the end, and with one span, only where none can still come), `ChunksAreWhole`, `GlossaryRoundTrip`, `DecodedIsSent` |
| `Documents_roundtrip` | `IdentityRoundTrip` (nothing is lost while reading, and a document whose texts are given back is written as it was), `TranslationsLand` (read again, the result has each translation in its place and all else unchanged), `PackageKept` (the other members and the cells outside a range), `JsonSelection`, `ScannersAgree` |
| `ProviderManager_switch` | `OneOpenSession`, `ActiveIsGranted`, `FailedSwitchKeepsActive`, `CancelledAttemptEnds` (a cancel ends an attempt at any of its awaits, also behind a full channel that no host empties), `EveryAttemptEnds` (under a host that keeps serving) |
| `Routing_select` | `FailClosed`, `OrderIndependent`, `LowerEstimateFirst` |
| `DocumentJobs_recovery` | `WholeDocument` (with the limit on stored jobs), `TranslationsKept`, `UpdatesAreAtomic` (the commit of an update that reads outside its transaction is one atomic update of what is stored) |
| `LocalStore_tables` | `OpenIsErased`, `ReferencesResolve` (with the limits on history, memory, routing profiles and glossaries) |

The type invariants carry the bounds the code promises (queue lengths, permits,
jobs) and are conjuncts of a safety invariant of their module, or, for `FfiEngine`
and `FileLease`, proved. Every property has a mutant: a definition with a
plausible bug, kept next to the one it mutates (`SelectedShared_all` beside
`SelectedShared`), under which TLC finds the property violated.

Deadlock is checked except in `ProtectedText`, `Documents` and `Routing`, whose
behaviours end with a result. The engine, the manager and the worker have an explicit final
step, so a deadlock before the end would be reported.

## 4. Bounds

- `FfiEngine`: two submissions, because every hazard is between one operation and
  the next; one plain and one with a secret, with one identifier reused, so that
  identifiers cannot tell them apart. Queues of one event and one delta make
  every send block. The two violation runs use two operations with a secret.
- `FfiBuffers`: two pollers, two permits, four identities for five events: the
  counter wraps onto 0 and onto identities still in use.
- `FileLease`: two consumptions of two leases in a registry for one, so that two
  calls race for one lease, and a lease is destroyed and another takes its place
  while a call still holds the first; the calls are symmetric.
- `TranslationEngine`: one operation (operations share only the session, which
  `close_session` changes in any case), two chunks, two reads per response, every
  adapter, and every list of up to two decoded messages, which covers messages
  before and after the marker.
- `ProtectedText`: all sources of up to two of fourteen pieces (delimiters of the
  collectors, marker-like texts, a character of three bytes) and ten longer ones;
  for three of them every answer of up to three pieces with every cut, which
  includes missing, repeated, swapped and invented markers, and the echo in each
  of fifteen framings of the five protocols with every cut of the body; every chunk
  limit up to 10, where markers have seven bytes; some 1600 glossary files,
  well-formed and not.
- `Documents`: for plain text, CSV and JSON every text of up to four (three) symbols
  of the format's alphabet, which has all ways to leave a quote, a line end or a
  bracket open; for subtitles every file of up to four lines (five with the
  header), which is a cue with identifier and text and a second block; for CSV,
  HTML and JSON also longer ones from whole fields, tags and members. Packages and PDFs are chosen: each refused
  for each reason, shared strings inside and outside a range on two sheets with
  straight, crossed and missing relationships, streams on two pages. Translations
  are the segment's own text and a wording made of the format's delimiters.
- `ProviderManager`: two attempts, up to two secrets each, a channel for one.
- `Routing`: lists of up to three of five candidates that differ in every field
  a rule or a score reads; up to two restrictions at once, five preferences.
- `DocumentJobs`: two connections, three jobs for two places, documents with two,
  one and no translatable segments. The constant `Access` says which connection
  works on which job with which document: each connection has a job of its own, one
  of them with two documents, and both work on the third; every connection may clear
  all jobs. Two connections that translate the same job can overwrite each other's
  segment, because the job is read before the transaction, and two that save
  different documents under one identifier can leave a mixture of both; TLC shows
  either when the condition in the property is dropped. `TranslationsKept` and
  `UpdatesAreAtomic` therefore speak of jobs that one connection works on
  (`OneConnection`), `WholeDocument` of jobs whose connections save one document
  (`Settled`), beside others that are shared.
- `LocalStore`: two connections, two profiles, two models, three keys for two
  entries and three libraries for two places, so that trimming and refusal both
  happen; a clock of two seconds, so that entries tie and time goes back; schema
  versions 0 to 2 with the erasing migration as one of them.

## 5. Fairness

Safety properties need none; the runs use the fair specification where they also
check liveness.

- `FfiEngine`: weak fairness of the tasks of the runtime (Tokio polls ready tasks),
  of a host thread inside a call, of a host that polls, and of a host that
  answers a secret request it received. The code has no timeout for a secret
  (`crates/linguamesh-application/src/lib.rs:149`): without an answering host
  `SlotIsReleased` does not hold, and the hazard list says so. No fairness is
  assumed of submit, cancel, shutdown and destroy.
- `FfiBuffers`: strong fairness of polling, taking the mutex (Tokio's is FIFO) and
  receiving, because a poll may time out forever if it is never given an event
  that is there; weak fairness of freeing buffers.
- `TranslationEngine`: weak fairness of the worker, whose reads time out
  (`timeout` around every read), and of a consumer that receives or drops.
- `ProviderManager`: weak fairness of the attempt alone (Tokio polls it, the request
  timeout ends the listing). The host may stop at any point: `CancelledAttemptEnds` holds
  without it. Neither wait of `HostSecretBroker::resolve` has a timeout
  (`crates/linguamesh-application/src/lib.rs:144` and 149), so an attempt that is not
  cancelled needs a host that receives requests and answers or drops them;
  `HostKeepsServing` says so, as the antecedent of `EveryAttemptEnds`.

## 6. Proofs

TLAPS proves, for every value of the constants that satisfies the named
assumptions, every invariant and action property of the runs except those of
`Documents` and, but for `DeltasDoNotMatter` and `RefusalsAreRight`, of `ProtectedText`. One inductive invariant per module carries the
proofs; the lemmas take one action at a time.

`FfiEngineProofs` (from `FfiAssumption`)
- `TypeCorrect`: `Spec => []TypeOK`, action by action in one lemma per thread.
- `SlotIsExclusive`: `SlotExclusion` is inductive with `TypeOK`: an operation in
  flight with a secret is the owner of the slot until its own task clears it.
- `StopCancelsPlainOperations`: `StoppedIsCancelled` is not inductive. `StoppedInv`
  adds the two windows of the code: a shutdown that has set the flag and not yet
  taken the slot's lock, and a submission that holds the slot but has not started
  its worker; `SecretPath` says which program counters an operation without a
  secret never visits.
- `CancelledWaitIsFinal`: the action property `CancelledWaitNeverStarts`. `Stages`
  relates the program counters of the four threads of an operation, `Stranded` says
  that one which was told to stop while it waited stays out of the worker for good.
- `OnlyClearingOverrulesTheHost` says for any mix of submissions when a wait may end
  without the host's word: exactly the sweep of section 7. `HostDecidesAlone` is its
  consequence for an engine with at most one operation that needs a secret, the
  hypothesis under which `HostDecides` holds and the one `FfiEngine_handle` has
  (`FfiEngine_foreign_sweep` shows the violation with two).
- `QueueDoesNotMix`: `Ranked`, `Endings` and `Flows` say where the events of an
  operation are (channel, forwarder, queue), that a terminal event is its last, and
  that a second operation begins behind it.
- `EngineImplementsStreams`: the refinement of `EventStream`. The initial state
  maps to its initial state; a step that puts an event of `o` into the queue maps
  to the action of that event, one that stops `o` to its stop, all others stutter.

`FfiBuffersProofs` (from `BufferAssumption`)
- `PermitsAreConserved`, `EventsAreNeverLost` from `BuffersInv`: the permits counted
  over free, running and stored, an event in hand only while a poll writes, and a
  queue without repetition. The identifier of an allocation is chosen free of the
  table, so a wrap of the counter cannot overwrite a buffer.

`FileLeaseProofs` (from `LeaseAssumption`)
- `LeaseTypeCorrect`, including `Cardinality(file_leases) <= MAX_FILE_LEASES`.
- `LeaseIsOneShot`, `RemovedLeaseIsInactive`, `ConsumptionUsesGrantedBytes` from one
  inductive invariant `LeaseInv`: identifiers not yet given out are unused; a
  lease leaves the registry once; what is past the second check was granted or is
  revoked; a call with bytes of a foreign file has an inactive lease; at most one
  call is past the removal.
- `LeaseFirstReasonStays`: an action property, from the same invariant.
- `LeasesAreImplemented`: the refinement of `OneShotLease`. Each step of the registry
  (`RegistryImplements`) and of a consumption (`ConsumeImplements`) is, for the lease it is
  about, `Grant`, `Invalidate`, `Destroy`, `Admit`, `Win`, `Lose` or a stutter, and a stutter for
  every other lease (`OtherLease`).

`TranslationEngineProofs` (from `EngineAssumption`)
- `CompletedIsWhole`, `ClosedSessionBuildsNothing` from `EngineInv`: the chunk in
  progress is the one behind the last that was marked complete (`Marks`), output seen
  is in the channel (`Output`), nothing follows a terminal event (`Ended`), and what
  each of the two steps of `close_session` leaves behind (`Closed`).
- `WorkerImplementsStream`: the refinement of `EventStream` by the worker.

`ProviderManagerProofs` (from `ManagerAssumption`)
- `OnlyOneSessionOpen`, `ActiveSessionIsGranted`, `FailedSwitchChangesNothing` from
  `ManagerInv`: one attempt runs at a time, the active session is the one it began
  with, the secrets before the current stage are granted, and so is the one a
  waiting attempt has been given as its answer.

`DocumentJobsProofs` (from `DocumentAssumption`; which connections share a job is left open)
- `StoredDocumentsAreWhole`, `CommittedTranslationsStay` from `JobsInv`: besides the
  committed tables it describes the tables of the one writer (`WriterInv`) and,
  for every connection in a call, what it has read and whether that may still be
  used (`ConnInv`): a snapshot that is not `stale` is the committed one.
- `UpdatesActAtOnce`: the action property `UpdatesAreAtomic`. What the update has read of a
  job of its own in two statements is still what is stored when it commits, so the
  commit is `apply_translation` of the stored segments. When another connection has
  cleared the jobs between the read and the transaction, the update brings the job back
  as it was read; the property says nothing about it, `WholeDocument` says that it is whole.

`LocalStoreProofs` (from `StoreAssumption`)
- `OpenDatabaseIsErased`, `ReferencesAlwaysResolve` from `StoreInv`: the tables are
  sound, and a call between its read and its write, unless its snapshot is
  outdated, still has what it read (an enabled profile, a free place).

`DomainProofs`, routing (from `RoutingAssumption`, which types candidates, constraints and
contexts as the code does and says, as `validate_candidates` checks, that no two
candidates share provider and model)
- `FilterFailsClosed`: the first of the reasons is none exactly when no reason
  refuses, and no reason refuses exactly the admissible candidates.
- `LowerEstimateIsFirst`, `DecisionIgnoresTheOrder`: the comparison is a strict total
  order (`RanksTotally`), so counting those before a candidate is a bijection from
  the kept places to those of the eligible list (`PlacesAreFilled`), and the count
  is the same for every order of the profile (`PlaceByCandidate`).

`DomainProofs`, restorer (from no assumption: for every list of spans whose markers are
well formed, every answer and every cut into deltas; `WellMarked` is the hypothesis in
`RestorerInit`, and `ChunksAreWhole` checks it of every source of the run)
- `CuttingDoesNotMatter`: `RestorerSpec => []DeltasDoNotMatter`. The property compares with
  `Scan`, which reads the whole text at once; nothing in the restorer's state is
  `Scan` of anything, so the invariant `RestorerInv` says instead that a reader who replaces
  markers and copies other symbols can get from the start of the answer to a place
  `at`, having written `output` and met `seen`, where `pending` is the rest (`HasReadTo`).
  - *Reading.* `Reads` is stated without recursion, as membership in every set that is
    closed under the two reading steps; `ReadsSymbols` takes many of them, and `ReadsScan`
    shows that whoever has read the whole text has written what `Scan` gives.
  - *More text may come.* What the reader did must stay right when the answer grows: a place he has
    passed by copying must not become a marker later. `Barred` says so: every marker
    differs there from the text within its present length. `ReadsOn` moves a
    reading to the longer text, `ReadsWhole` drops the caution at the end.
  - *Holding back enough.* `BarredByHolding`: before the suffix that is held back every place is
    barred, though the code takes the overlap of the first span that has one and not the
    longest. Were a marker begun earlier, the text would end with two beginnings of
    markers; by their shape (`NoShift`, `TwoBeginnings`) either the longer one is a beginning
    of the first span's marker too, which would have been held back, or its whole
    prefix is in what is passed on, which is refused.
  - `PushKeeps`, `FinishKeeps`, `UnprotectedKeeps`, `ReplaceKeeps`, `HoldKeeps`, `TailKeeps`: one lemma for each action.
- `RefusalsAreDeserved`: `RestorerSpec => RefusalsAreRight`, from the same invariant, one lemma for
  each action that can refuse (`ReplaceRefuses`, `HoldRefuses`, `TailRefuses`).
  - *Duplicate.* Another set closed under the reading steps: every span met has its marker
    before the place reached (`MetStand`), so the marker now found is a second one.
  - *Missing.* At the end everything is read, and `seen` is what `Scan` meets (`AllIsRead`).
  - *Invalid.* A prefix in what was to be passed on is one in the answer (`PrefixInFront`,
    `RefusedPrefix`). Before a complete marker it is barred for any number of spans
    (`BarredBefore`); elsewhere, with one span, the overlap held back is the longest of all,
    so it is barred as well (`HeldIsAll`). With two spans it need not be, and the run
    refutes the property without the bound: that is the finding on
    `longest_marker_prefix_suffix` in section 7.
- `Scan` is a recursive function. That it exists (`ScanExists`), and every induction above,
  goes through the least element of a set of numbers (`LeastNatural`, from `WFMin`), which needs no
  theorem with an operator parameter.

Model-checked only:
- liveness (`SlotIsReleased`, `EveryEventDelivered`, `EveryOperationEnds`,
  `CancelledAttemptEnds`, `EveryAttemptEnds`), which needs fairness and ENABLED;
- `Documents`, and of `ProtectedText` all but the restorer: their codecs, decoders, the
  scanners of `ProtectedSource` and `GlossaryText` are RECURSIVE operators, which the prover
  cannot use, and their properties say what these compute for every input.
  `DeltasDoNotMatter` and `RefusalsAreRight` are proved of `RestorerSpec`; that `ProtectedText` takes only steps of it is
  plain from its actions, which conjoin those of `Restorer`, and checked by the run.

## 7. Findings

Two runs end with a violation, of a sentence in the repository by its code:

1. `FfiEngine_lost_cancel` / `CancelSticks`: a cancel that arrives between the
   resolved secret and the swap of the slot's token returns Ok and stops nothing.
2. `FfiEngine_foreign_sweep` / `HostDecides`: the sweep of pending requests at the
   end of an operation runs after the slot was released and removes the request
   of the next operation.
Seen while modelling, without a run of their own:

- `docs/native-sdk.md:25` promises a monotonic sequence; `secret_required` always
  has sequence 0 and a failed secret operation sequence 1
  (`crates/linguamesh-ffi/src/lib.rs:924`).
- A submit with a secret reads the shutdown flag once, before it takes the slot
  (`crates/linguamesh-ffi/src/lib.rs:940`), so it may start after a shutdown;
  `StoppedIsCancelled` therefore speaks of operations without a secret.
- A lease that expires between the second check and the revocation is consumed
  (`crates/linguamesh-ffi/src/lib.rs:500`), where `docs/native-sdk.md:74` says it
  is rejected.
- Manual mode takes the first candidate that is eligible
  (`crates/linguamesh-domain/src/routing.rs:351`), where the comment at line 15 says
  only the first; without a preference local candidates rank first (line 485),
  where the comment at line 28 says the key alone decides. The comment at line 79
  describes `privacy_sensitive` as whether sensitive requests may use remote
  candidates; set, it forbids them (line 407), as the test at line 761 and
  `docs/architecture.md:155` say and `FailClosed` states.
- A late `update_document_segment` moves a paused or cancelled job back to running
  (`crates/linguamesh-storage/src/lib.rs:553`), and `set_document_job_state` stores
  `completed` for a job that `save_document_job` would refuse (line 563).
- History and memory are trimmed by a clock of whole seconds and then by identifier
  (`crates/linguamesh-storage/src/lib.rs:988`): the entry just written may be the one
  that goes.
- The history and memory policies are read before the transaction that obeys them
  (line 942); a glossary is loaded by two statements (line 1430).
- Ollama without a credential builds a request after `close_session`
  (`crates/linguamesh-provider-ollama/src/lib.rs:286`); `NoRequestAfterClose` excepts it.
- A chat event with both text and usage loses its text
  (`crates/linguamesh-provider-openai/src/lib.rs:1478`); Gemini drops usage beside text
  that does not finish. With mixed separators the SSE decoders may join two events
  and fail (line 1439); `DecodedIsSent` shows that no text is lost or changed.
- `longest_marker_prefix_suffix` takes the overlap with the first marker that has
  one, not the longest (`crates/linguamesh-domain/src/lib.rs:2268`): with two spans a
  faithful answer cut inside the second marker is refused, where
  `docs/architecture.md:163` says the restorer works across split deltas. Checking
  `FaithfulIsRestored` in the configuration of `ProtectedText_restore` shows it;
  the last part of `ShownIsRestored` and of `RefusalsAreRight` is what holds.
- The refusal of a marker the model made up may depend on the cuts: `append_plain_text`
  looks for the prefix in one piece of plain text
  (`crates/linguamesh-domain/src/lib.rs:2252`). Of a marker without an index
  (`__LINGUAMESH_PROTECTED__`) at the end of a delta the last two underscores are held back
  as the possible beginning of another one, so neither piece holds the prefix and
  it is shown; within one delta it is refused. `DeltasDoNotMatter` is about the text
  that is shown and about success, not about the error a call ends with.
- A source with a marker of its own right before a span
  (`__LINGUAMESH_PROTECTED_0__` and then a URL) makes the span's token grow by an
  underscore; that plain text with the first underscore of the token reads as the
  token, and even an exact echo is restored wrongly, with success (line 2157).
  `ShownIsRestored` excepts it (`Touching`).
- A character wider than the chunk limit is reported as a split span (line 2053).
- A TBX entry with two target terms of one language is refused as a conflict, and
  of several notes the last one counts (lines 1389 and 1560), where the repository's
  `README.md:35` speaks of one rule for each target term and of the first note.
- WebVTT header lines from the third on are translated; metadata words inside a
  cue make the rest of it verbatim; and some files with a late header word
  validate but have no warnings computed
  (`crates/linguamesh-document/src/lib.rs:1552` and 1638). `OrdinaryVtt` says where the
  scanners agree. A translation with a blank line and a time stamp adds a cue.
- HTML text goes to the model with its entities and comes back escaped again
  (line 889), so a text with an entity does not survive the way unchanged.
- A last CSV record without a line end whose only field becomes empty is gone
  after the next import.
- A PDF stream that two pages share makes `rewrite_stream` slice backwards and
  panic (`crates/linguamesh-document/src/pdf.rs:616`); behind a literal one byte is
  skipped (line 387), so that the second of two adjacent literals is not seen.
- A self-closing `<c t="s"/>` makes `scan_xlsx_cells` take the value of the next cell
  (`crates/linguamesh-document/src/docx.rs:407`), so a string outside the range may be
  translated; `Closed` excepts such sheets.

## 8. What is not modelled

- Request bodies, headers and the configuration and model lists of the adapters;
  HTTP itself. `TranslationEngine`'s server yields decoded messages, `StreamDecoder`
  says how they are decoded.
- Below the codecs: ZIP, deflate, XML tokens, serde_json, PDF byte offsets and number
  formats. The caps on segments, tokens and operators are left out; that on the size of
  a document is a constant.
- The queries of the database, and what the migrations do besides erasing secrets.
- The validation of provider profiles, the retry policy (a formula that nothing in
  the repository calls in a loop), protobuf encoding, provider catalog, CLI, language
  bindings, test kit.

## 9. Plan

Order, by what a defect would cost:

1. done: `EventStream`, `FfiEngine`, `FileLease`, `FfiBuffers`, `TranslationEngine`
   with every adapter, `ProviderManager`, `Routing`, `DocumentJobs`, `LocalStore`;
   `ProtectedText` with `ProtectedSource`, `GlossaryText` and `StreamDecoder`; `Documents`
   with the codecs of all formats.
2. done: the proofs of section 6.
3. Proofs: that the restorer of one span refuses no faithful answer (the last part of
   `ShownIsRestored`), from `RefusalsAreDeserved` and a reading of the answer's pieces; the
   general form of `StoppedIsCancelled` for operations with a secret.
4. Models: the composition of `Documents` with `ProtectedText` and `DocumentJobs` (a job
   translated segment by segment through a provider and stored after each),
   `retry.rs`, provider profiles, and the handle lifetimes of the bindings.

# A verification of drama-mcp-service

`drama-mcp-service` is a thin MCP host over the Drama Plugin: it lists the
Plugin's tools, calls them, and mirrors what happens, together with the
originals of the Plugin's production Ledger, into an optional archive service.
Nothing of the mirror may change what a caller of a tool sees. The hard part of
the program is that mirror: an encrypted SQLite outbox that several threads and
processes write and drain at once, in front of a service that may be down, slow
or silent.

The modules here model that code, TLC checks them on small instances, and TLAPS
proves the central facts for every instance. Source paths below are relative to
`src/src/drama_mcp_service/`, those of scripts to `src/`.

## Inventory

| Part | State | Operations | Talks to |
| --- | --- | --- | --- |
| `archive_sync.ArchiveOutbox` | SQLite table `archive_outbox(id, sealed, acknowledged)`, the AES key | `enqueue`, `pending`, `drain` | the archive service (`client.ingest`), other processes through the file |
| `archive_sync` exports | none; reads the Ledger database, receipt files and creative objects | `ledger_records`, `ledger_work_ids`, `unscoped_creative_records`, `_creative_sources`, `_read_attempts`, `tool_event`, `record`, `canonical` | the Plugin writes what they read, at the same time |
| `archive_adapter.ArchiveMemoryAdapter` | `memory_tools`, `discovered`, `pending_error` | `discover`, `list_tools`, `call_tool`, `synchronize` | the Plugin adapter, the archive client, the outbox; worker threads |
| `adapter.PluginToolAdapter` | none | `list_tools`, `call_tool`, `_validate`, `_coerce`, `to_json_value`, error projection | the Plugin registry |
| `server` | `runtime` (`status`, `identity`, `archive`), the worker task | `plugin_lifespan`, `list_tools`, `call_tool`, `health`, `create_server`, `create_app` | all of the above |
| `runtime_identity` | the source files on disk, the modules of the process | `capture_identity` | the lifespan, which shows what it returns in `/health` |
| `settings` | none | `Settings.from_environment`, `resolve_project_path` | environment |
| `integration/verify_live_archive.py` | the proof file; the outbox, the service and its checkpoints | `sync`, `verify`, `items`, `write_checkpoints`, `write_proof` | the outbox of the running Host, the archive service, the Host itself |
| other `integration/*.py` | none that outlives a run | replay, end-to-end and storage tests | each builds its own outbox and service |

Behaviours that are hard, and what correctness means for each part:

* **Outbox.** The event loop, the synchronizer's worker thread and the
  operator's `verify_live_archive.py sync` enqueue and drain the same file. A
  check (`SELECT 1`) precedes each insert outside of any transaction; a batch is
  read, sent and marked in three separate steps; the answer to a request may be
  lost after the service took the batch over; the process may stop anywhere; the
  operator may change the key. Correct means: a record is stored once, counted
  at most once, never forgotten after `enqueue` returned, never marked before the
  service has it, marked oldest first, and delivered at last.
* **Ledger exports.** The Plugin writes runs, operations, artifacts and receipt
  files while they are read in one transaction, two more, and file by file.
  Ownership of creative originals is a closure over fingerprints that form any
  graph, and it is computed anew for each export while originals and pins appear.
  Correct means: no lookup fails because of what was written in between, an
  export holds all that was there when it began, no receipt or original goes to a
  scope it does not belong to, and the walk ends.
* **ArchiveMemoryAdapter.** Calls and the synchronizer interleave wherever they
  await; every capture, export and drain may fail or be cut off. Correct means:
  callers see the Plugin and nothing else; a call that missed nothing is
  mirrored with its effects; a cycle that ends clean has delivered all that was
  in the Ledger when it began, and every original that stayed where it was; and
  everything is delivered at last.
* **PluginToolAdapter.** Whatever a tool raises becomes an answer by the order of
  thirteen `except` clauses, and the answer tells the caller whether it may try
  again. Correct means: nothing is paid for twice, and nobody is blamed for what
  is not their fault. The code falls short of both for results that are not JSON
  (see the findings).
* **server.** Start-up, cancellation of the worker and closing of the client,
  with a status that `/health` shows, in a process that may be killed anywhere.
  Correct means: no archive trouble keeps the service from serving, the client
  outlives the worker, and what is shown is what there is.
* **runtime_identity.** Modules are imported first and their files are hashed
  later. Correct means: the identity is that of the code that runs.
* **sync and verify.** They work on the outbox of a running Host, whose mirror
  fills and drains it meanwhile, in front of a service that may have lost what it
  acknowledged; they are killed or fail anywhere. Correct means: a proof, and a
  checkpoint of `sync`, say nothing the outbox and the service do not bear out,
  and whatever the service lost comes back.
* **settings, other scripts.** Read once, or run in a process of their own; no
  behaviour over time.

## Modules

| Module | What it is |
| --- | --- |
| `DeliveryLog` | abstract: an append-only log whose acknowledged records are delivered and are its oldest part |
| `ArchiveOutbox` | `ArchiveOutbox.enqueue`, `pending` and `drain`, statement by statement; implements `DeliveryLog` |
| `ArchiveOutboxProofs` | its theorems |
| `LedgerExport`, `LedgerExportProofs` | `ledger_records` against a Plugin that goes on writing, and its theorems |
| `CreativeOwnership`, `CreativeOwnershipProofs` | `_creative_sources` and `unscoped_creative_records`, and their theorems |
| `PluginCalls` | abstract: what the caller of a Plugin tool is promised |
| `ArchiveMemoryAdapter` | `discover`, `call_tool`, `synchronize` over a Ledger and an outbox; implements `PluginCalls` for callers and `DeliveryLog` for the archive service |
| `ArchiveMemoryAdapterProofs`, `ArchiveMirrorProofs` | its theorems: what callers see, and what is mirrored |
| `PluginToolAdapter`, `PluginToolAdapterProofs` | `PluginToolAdapter.call_tool` with callers that try again, and its theorems |
| `PluginLifespan`, `PluginLifespanProofs` | `plugin_lifespan`, `health` and `capture_identity`, and their theorems |
| `OperatorSync`, `OperatorSyncProofs` | `sync` and `verify` of `verify_live_archive.py` next to a running Host, and their theorems |
| `MC...` | symmetry sets for TLC, one module for each of the above that needs one |

`ArchiveMemoryAdapter` composes the others at their interfaces. Its `log`, and
the parts of it that `taken` and `cursor` delimit, are the log, the delivered and
the acknowledged records of a `DeliveryLog`: `ArchiveOutbox` implements one in
detail for its own callers, and `ArchiveMemoryAdapter` as a whole still is one
with everything it lets happen at once. `DeliveryLog` and `PluginCalls` each end
with a `Promise`, what a user may rely on. An export of a Work is one step, which
`LedgerExport` justifies: an export that ends lies between the Ledger at its
start and at its end. A Plugin call is one step to start and one to end, which
stands for `PluginToolAdapter`. `PluginLifespan` knows of `synchronize` only its
awaits, and `OperatorSync` of the mirror only what it does to the outbox; what
lies between is in `ArchiveMemoryAdapter` and `ArchiveOutbox`.

Operators named in a comment as "A slip" are never used by a specification. Each
is a variant of the definition after it with a mistake the code could have had;
putting it in the place of that definition breaks a property, which shows that
the property speaks about the code.

### ArchiveOutbox

`rows`, `seals` and `acked` are the table: rows in rowid order, the key each was
sealed with, and the `acknowledged` column. A record is its identity, the
SHA-256 of its canonical JSON. `lock` is SQLite's write lock; `staged` are the
rows of a connection that has not committed.

| Code (`archive_sync.py`) | Action |
| --- | --- |
| `enqueue` entered, connection opened | `BeginEnqueue` |
| `SELECT 1 ...` finds the row / does not | `SkipKnown` / `FindMissing` |
| `INSERT OR IGNORE`, `added += rowcount` | `InsertRow` (takes the lock) |
| end of the `with` block | `Commit` |
| `return added` | `Return` |
| serialization, lock timeout, crash | `AbortEnqueue` (rolls back what is not committed) |
| `SELECT ... ORDER BY rowid LIMIT` and decryption | `DrainEmpty`, `ReadBatch`, `ReadUnreadable` |
| `client.ingest` | `IngestAccepted`, `IngestUnavailable` (accepted, lost or still under way), `LateAccept` |
| `UPDATE ... acknowledged=1` | `Acknowledge` |
| exception or crash in `drain` | `AbortDrain` |
| the drain is over, in success or not | `LeaveDrain`, `FailDrain` (parts of the others) |
| restart with another key | `Rekey` |

A crash is the abort of all the actors of the process: nothing they held is
durable but what they had committed. One that comes between the commit and the
return of `enqueue` leaves rows that no caller has counted; `uncounted` holds
them, and those of calls that have yet to return, and `CountsAddUp` says that no
other rows are missing from the counts. `pending()` changes nothing and appears as
`PendingRows`. What the service does with a repeated record (nothing: it is
idempotent by design of the protocol) is a set here, `accepted`.

### LedgerExport

One Work. `runs`, `operations`, `artifacts` and `receipts` are what the Plugin
has written, `snapshot` is what the open transaction sees, `out` is what the
generator has yielded, `base` is the Ledger at the first SELECT. The steps are
the statements of `ledger_records` in order: `ReadRuns`, `ReadArtifacts`,
`ReadOperations` on the snapshot, `ReadAttempts` and `ReadOrigins` on the live
database, `ListReceipts`, and `ReadReceipt` for each file. A receipt may be seen
half-written. `Fail` is any exception: `list(...)` then gives its caller nothing.
A receipt is filed under the scope of its attempt if that is known, else under
that of the operation it comes from (`Filed`); `out.attempted` are those filed the
first way. The attempts are read once, so that an export must file by every
attempt recorded before it began, and by none that is not recorded when it ends.
Rows of `ledger_index` behave as artifacts do and are not told apart. That the
Plugin never deletes rows or receipts, and that an operation refers to a run, is
assumed of the Plugin, as the code does.

### CreativeOwnership

Each file names at most one Work in a field of its own (`topOwner`), one in its
scope (`scopeOwner`), and pins any others; the Ledger rows of each Work pin files
too (`rooted`). `StartWork` selects the files that name the Work, `Visit` follows
the pins of one pending value, in any order, `FinishWork` yields; `ExportUnscoped`
takes the rest. All of these are chosen freely in the initial state, so a run
checks every graph of its size. `Ahead` is what a walk may still follow. The
files stay as they are during one export. Only `scope.workId` keeps a file from
being claimed through a pin (`MayClaim`): a file that names a Work at its top is
that Work's, and is shared with the Works that pin it. The docstring of
`_creative_sources` allows that ("an explicit scope or exact inbound reference").

### ArchiveMemoryAdapter

The Ledger is a counter of writes for each Work, each write replacing the run
snapshot and adding an artifact. `owner` says whose each creative original is:
that of a Work, nobody's (`Unscoped`), or not written yet (`None`). `Own` writes
one, or lets a Work come to pin one that was nobody's; owners never change
otherwise. `unscoped_creative_records` asks twice, as the code does: `WalkOwned`
computes what the Works with rows own, `GlobUnowned` then lists the directory and
takes the rest. An original may so slip between the export of its Work and the
unscoped one, or be in both, for one cycle; the properties say exactly that much.
`log` is the outbox in rowid order, without the seals; the archive service has
taken over the records in `taken`, and the first `cursor` rows are acknowledged. `Stored`
is `enqueue` as one transaction: it appends the `News` of a list, the positions
whose record is neither in the outbox nor earlier in the list. `sent` is the last
row of the batch that was read (`BatchEnd`), `UnderWay` its records while it is sent. `pendingError` tells only whether there is one.
`LoopFree` says that no call is between the Plugin's return and its answer, which
the code does without an `await`; the synchronizer's threads are not bound by it.
A call may write any Work, several times (`PluginWrites`); the adapter looks at one,
its `scope`, the Work its arguments name or else one its result names (`Resolved`),
if any. `WalkOwned` takes the ownership of all Works in one step where the code walks
one after the other; which Work an original goes to is decided at one moment in
either case, and no property relates two originals.

| Code (`archive_adapter.py`) | Action |
| --- | --- |
| memory tool | `AskArchive` |
| REQUEST stored / not | `Capture` / `CaptureFails` |
| `await self.plugin.call_tool` | `CallPlugin`, `PluginWrites`, then `Respond` or `RespondFails`, or `Cancel` |
| Ledger read and stored after the call | `ReadLedger`, `StoreView`, `LedgerCaptureFails` |
| `return result` | `Answer` |
| `synchronize` | `StartCycle`, `Discover`, `DiscoverFails`, `ListWorks`, `Export`, `WalkOwned`, `GlobUnowned`, `StoreExport`, `DrainRead`, `Ingest`, `DrainAcknowledge`, `EndCycle`, `CycleFails` |
| lifespan ends / begins | `Stop` / `Start` |
| other writers of the Ledger and of originals | `DirectWrite`, `Own` |

`missed` marks the calls of which some capture failed or was cut off; the code
promises nothing about those. The first `discover`, which the lifespan awaits,
is part of the first cycle. The answer to a batch may be lost: a cycle that fails
or stops while it is sending may leave any part of the batch in `taken`. That the
service takes something over later still, and two drainers at once, are in
`ArchiveOutbox` alone.

### PluginToolAdapter

An exception is the set of the classes it belongs to, `Clauses` the list of
`except` clauses, and `Clause(e)` the first that takes it. The classes of
`drama_plugin.exceptions` are not in this repository: whether an error is also a
`ProviderError` is left open, and it is assumed that none belongs to the class of
another clause besides. `Retry` is a careful caller. `Truthful` are the calls
of tools that raise `ProviderResultUnknown` when they fail after work was
submitted. For other tools `PaidOnce` does not hold, and the adapter could not
make it hold. Any tool may return what is not JSON. The adapter then answers as if
the arguments had been wrong, a careful caller sends the call again, and the work is
paid for twice: `spoiled` remembers these calls, and `PaidOnce` excepts them by name.
The run `adapter_blame` shows the answer such a call gets.

### PluginLifespan

`step` is where `plugin_lifespan` is, `runtime` the dictionary `/health` reads,
`plugin`, `archive` and `worker` what it holds. `cause` remembers why it ended.

| Code (`server.py`, `runtime_identity.py`) | Action |
| --- | --- |
| `DramaPlugin.load` | `LoadPlugin`, `LoadFails` |
| imports; the loop over module files; the returned identity | `Import`, `ReadSource`, `CaptureIdentity`, `CaptureFails` |
| `DRAMA_MCP_ARCHIVE_ENABLED`, imports of the archive's modules | `Begin`, `ImportFails` |
| `from_environment`, outbox, key, source directory | `NoClient`, `MakeClient`, `SetupFails`, `Configure` |
| `await discover`, `create_task` | `StartWorker`, `CancelledAtDiscover` |
| the worker's awaits, its thread, its end | `WorkerGoesOn`, `ThreadEnds`, `WorkerEnds` |
| `finally`: cancel, await, `aclose`, status | `Leave`, `CancelWorker`, `AwaitWorker`, `CloseClient`, `CloseFails`, `StopServing` |
| a kill or an end, and a new start | `NewProcess` |
| someone installs new code | `Deploy` |

A module is imported at some version of the files (`loaded`) and hashed at some
later one (`hashed`); the identity can only be right if nothing was installed in
between, which the history variable `still` records. That is as much as
`capture_identity` claims (`runtime_identity.py:52`). A Host whose client fails
to close leaves the status `ready`: `HealthIsHonest` allows that and nothing else.

### OperatorSync

A record is what `items()` finds: a companion file of a trial (`Companion`) or
any other original, so that there are two sources to post checkpoints for.
`queued` and `acked` are the outbox, `stored` and `claimed` the service and what
its checkpoints count.

| Code (`verify_live_archive.py`) | Action |
| --- | --- |
| `sync`: listing, the expected count | `BeginSync` |
| `outbox.enqueue`, manifest | `Enqueue` |
| `drain` until nothing is pending | `DrainBatch`, `DrainEnds` |
| all records once more, `inserted == 0` | `ReplayBatch`, `ReplayInserts`, `ReplayEnds` |
| `write_checkpoints`, `write_proof` | `PostCheckpoint`, `WriteProof` |
| `verify`: proof read, records counted | `BeginVerify`, `PostCheckpoint` |
| `/health`, the memory tools, a second session, `write_proof` | `CheckHealth`, `ReadBack`, `Reconnect`, `WriteVerified` |
| an error of the service; an assertion, an exception or a kill | `RequestFails`, `Die` |

The mirror of the Host adds and drains rows (`MirrorEnqueues`, `MirrorDrains`),
the Host comes and goes, records come to be retained, and the service loses
any of what it holds (`Lose`), up to `MaxLosses` times. `firm` remembers whether
something was lost since the last replay began, and a proof carries that along:
no command can notice a loss that comes after it looked. `SyncClaimsOnlyHeld` too
speaks of runs of `sync` with nothing lost since their replay began: after a loss, a
checkpoint may count what the service no longer has. One operator runs one
command at a time; `sync` ends at once unless exactly the expected number of
records is found, so that this is part of the premise of `Completes`.

## Runs

| Run | Question | Bounds |
| --- | --- | --- |
| `outbox_writers` | Can concurrent enqueues store twice, miscount or confirm what is not durable? | two writers with lists of up to three, three records, no drainer |
| `outbox_drainers` | Can two drainers and a silent service lose or reorder records? Is the outbox a `DeliveryLog`? Does the invariant of the proofs hold? | two drainers, a writer, three records, batches of two |
| `outbox_delivery` | Is a row delivered at last, with others before or behind it that cannot be read? | two keys, two drainers, two records, batches of one |
| `ledger_export` | Can the Plugin's writes during an export break it, make it pass over something or file a receipt in the wrong place? | a run with two revisions, an attempt, an origin, two receipts naming any of them |
| `ownership_works` | Is the walk the closure, does it respect scopes, does every step leave less to do, does it end? | two files and two Works, every graph; a chain from the Ledger over both files is the longest |
| `mirror_cycle` | Does a clean cycle cover what was there when it began? Is every write and every original mirrored at last? | two Works, two writes in all, an original that may find an owner at any time, batches of one; no calls, whose writes are those of `DirectWrite` (the theorem has calls, too) |
| `mirror_batches` | Does the service have a response before its request, with batches taken over in part? Is the outbox a `DeliveryLog` all the while? | one call that may write two Works, two writes in all, batches of two |
| `mirror_calls` | Is an answered call mirrored with its effects on its Work? Do callers see the Plugin and nothing else? | two calls of any scope, one Work with one write, one result, batches of one; no step depends on which result it is |
| `adapter_retries` | Is anything paid for twice, but for results that are not JSON? | two calls sent up to twice, one of a truthful tool, one of any tool |
| `adapter_blame` | Violated: see the findings | the same |
| `plugin_lifespan` | Does the Host serve whatever the archive does? Does the client outlive the worker? Are status and identity true? | two modules, new code once, restarts without end |
| `operator_sync` | Are proofs and checkpoints backed? Does repeating `sync` make up for what the service lost? | three records of two sources, two of them expected, batches of two, two losses |

The exact constants are in the `.cfg` files. They are small because the hazards
are between two actors, one batch boundary or one overwritten revision: two of
each show them, and every mutant of `PROJECT.json` is caught at these sizes.
Deadlock is checked except where the modelled activity ends: an export that is
done, and a call that is over. In particular, `mirror_cycle` has both a Work
written twice, so that its snapshot is replaced, and two Works written once, so
that a failing export has one after it; two modules in `plugin_lifespan` let new
code arrive between the hashes of one and the other; and two losses in
`operator_sync` let the service lose again what the replay has restored.

## Fairness

* `ArchiveOutbox.FairSpec`: each step of a `drain` that has begun is taken or
  aborted. SQLite gives the lock or raises after 30 s (`archive_sync.py:181`), and
  the archive client has timeouts. Nothing is assumed of `enqueue`.
  Nothing is assumed of drains that have not begun. The service drains only when
  every export of a cycle has succeeded (`archive_adapter.py:90-95`), and the
  operator's `sync` drains once (`verify_live_archive.py:102`). `EveryRowAcked`
  therefore supposes, as premises of the property, that some drainer is never idle
  for good and stops seeing faults, and that what is read with or before the row
  can be decrypted; without any of these it need not be delivered.
* `ArchiveMemoryAdapter.FairSpec`: the event loop serves the synchronizer, and a
  call that has its result goes on without waiting. `EventuallyMirrored`
  supposes that the process stays up and that from some time on no cycle fails.
  Nothing is assumed of callers, of the Plugin or of other writers of the Ledger.
  A Work whose export fails for good is excluded by the premise, and calls that fill
  the outbox faster than it is drained by the bounds: the code promises nothing then.
* `CreativeOwnership.FairSpec`: the walk is a loop in a thread and goes on.
* `PluginLifespan.FairSpec`: setting up and taking down go on, since all they
  await has a timeout, and a task that was cancelled is scheduled. Nobody needs to
  end the Host, and nothing is assumed of what the worker is waiting for: a
  thread that never ends does not keep the lifespan from ending.
* `OperatorSync.FairSpec`: a command that was started goes on. `Completes`
  supposes, as premises, that an operator starts `sync` again and again and that
  at some time the trouble is over: requests are answered, commands are not
  killed, the service loses nothing more. Before that it may have lost anything.

## Proofs

All theorems hold for any values of the constants that satisfy
`ConstantsAssumption` of their module. TLC evaluates these assumptions too. They
say that the values standing for nobody and nothing are none of the things they
are told apart from, that bounds are numbers, batches are not empty and subsets
are subsets, and that there are finitely many records or originals where the code
counts or lists them.

* **ArchiveOutbox.** `IInv` is the type invariant, `WriterInv` and `DrainerInv`.
  The properties are not inductive alone. For the writers one must know that the
  rows a connection has staged are in no committed row (the write lock
  guarantees it), that every item it is past is visible to it, and that what is
  committed and not returned yet is `uncounted`, by one call only; for the
  drainers that a batch is the continuation of the acknowledged prefix or
  already part of it, and was accepted once `ingest` returned. From `IInv`
  follow `NothingIsStoredTwice`, `CountsAreExact`, `EnqueueIsDurable`,
  `NothingIsLost`, `AcknowledgedInOrder`, `DrainReportIsTrue`, and, step by step,
  `OutboxImplementsDeliveryLog`.
* **LedgerExport.** `IInv` says that the Ledger only grows past `base`, that the
  first transaction yields exactly `base`, that what was read later to decide
  about receipts is no older than `base`, and that each receipt to be taken is
  taken or still listed. `NoOperationWithoutRun` and `ExportsAreBetween` follow.
* **CreativeOwnership.** What a walk has selected lies in every closed set, and
  all it is done with was followed, so that with nothing pending it is the least
  closed set: `ExportOwnsClosure`. The files that name no other Work in their
  scope alone are such a closed set, hence `ScopeDecides`. Nothing found is selected
  yet, and all that is pending is, so that a visit takes exactly one file out of
  `Ahead`: `NothingIsFollowedTwice`. With finitely many files that is why
  `ExportEnds`; the step from one to the other is induction and stays with TLC.
* **ArchiveMemoryAdapter, its callers** (`ArchiveMemoryAdapterProofs`). Where a
  call is determines how often the Plugin was asked and what it produced
  (`CallsInv`); every other step leaves all of that alone. Hence
  `AdapterImplementsPluginCalls`: the archive is invisible to the callers of
  Plugin tools. `AdapterKeepsThePromise` says it without the abstract steps.
* **ArchiveMemoryAdapter, the mirror** (`ArchiveMirrorProofs`).
  * All of it rests on what `Stored` does. `News` is a finite set of positions,
    and `AscendingLists` shows that `Ascending` lists a set of numbers in order:
    the rank of a number, how many of the set are below it, grows with the number
    (`RankGrows`). Hence `StoredAdds`: what was in the outbox stays in its place,
    what was in the list is in the outbox, nothing else is, and nothing is there
    twice. `StepExtends` carries this to every step: each stores some list,
    possibly an empty one.
  * `Typed` is the type invariant and `ReadersHaveWorks`: only calls with a Work
    read the Ledger, without which the type of `view` is not inductive.
  * `OutboxInv` orders the marks: acknowledged rows were taken over, so was a
    batch that is about to be acknowledged, and nothing behind the batch at the
    cursor was ever sent.
    It gives `MirrorImplementsDeliveryLog`, for which `OneAtATime` shows that no
    step stores, delivers and acknowledges together.
    `LogKeepsItsPromise` is about the abstract log alone;
    `MirrorKeepsThePromise` is the two together.
  * `CleanCycleCovers` speaks of the end of a cycle; `CycleInv` says what every
    point on the way owes it. What a cycle found at its start is still in the
    Ledger (`StillThere`); a Work no longer in `todo` is exported, into the outbox or
    the list about to be stored (`Exported`, `InHand`); after the last listing, so are
    the originals that had no Work at the start and have none now. Calls and other
    writers only add to the Ledger and the outbox (`SourceGrows`,
    `MirroredGrows`), a newer snapshot serves for an older one, and `EndCycle` is
    only taken with every row acknowledged: `CleanCyclesCover`.
  * `CaptureInv` follows the records of one call: what was read after the
    Plugin returned contains what the call wrote to the Work that was read, and a
    capture that failed puts the call into `missed`. Other calls may write to the
    same Work meanwhile and replace its snapshot, which is why `Mirrored` asks for
    the n-th revision or a later one. `CallsAreMirrored` follows.
  * `OrderInv` says that no row of the outbox is the response of a call that is
    not past the Plugin, and that a response has its request before it if that
    is stored at all. It needs `ReadsInv`, that exports hold Ledger records only, so
    that nobody but the call stores its request. With `OutboxInv`, batches cut
    anywhere, and taken over in any part, keep the order: `QuestionsGoFirst`.
* **PluginToolAdapter.** `PaidOnce` speaks of calls, `PaidInv` of each point on
  the way, for calls of truthful tools that returned nothing but JSON:
  nothing is paid for before the tool runs, and once it is, what is
  raised is a `ProviderResultUnknown` or nothing is. The lemmas on `Clauses` say
  that the first clause that takes such an exception is its own, whichever other
  classes the exception has, so that `WorkIsPaidOnce`.
* **PluginLifespan.** Where the lifespan is determines what it shows
  (`ShownInv`), holds (`HeldInv`) and what its worker is at (`TaskInv`). None of
  `ClientOutlivesWorker`, `HealthIsHonest` and `MirrorIsAsShown` is inductive:
  that the client is still open when the worker is cancelled follows only from
  `step` being before `close`. `CodeInv` says that as long as nothing was
  installed, each module that was read is at the version on disk; hence
  `IdentityOfThisProcess`.
* **OperatorSync.** `RunInv` follows the list of a run of `sync`: in the
  outbox after `enqueue`, acknowledged after the drain, and, if nothing was lost
  since, held by the service as far as it was replayed. All the mirror does only
  adds to these sets, and a loss only withdraws what is said of the service. A
  proof that was read by `verify` must be `Backed` too, since it is written back;
  hence `ProofsAreBacked`. A checkpoint that is posted counts records of the list
  only, and the list is held if nothing was lost since the replay began; hence
  `ClaimsAreHeld`.

Only model-checked: liveness under fairness, which is beyond the prover
(`EveryRowAcked`, `ExportEnds`, `EventuallyMirrored`, `ServesWithoutArchive`,
`Completes`). Every other property of a run that passes is a theorem.

## Findings

* `adapter_blame` (`adapter.py:88`). A result that cannot be rendered raises
  TypeError after the tool has run, which the clause for bad arguments catches:
  the caller hears that its arguments do not match the contract, although what went
  wrong is what `to_json_value` says (line 47). A caller that takes the answer at
  its word, and sends the call again, pays for the work again; `PaidOnce` holds only
  with these calls excepted.

## Not modelled

* Texts, formats and redaction; which scope fields a record carries; the
  encryption itself beyond which key opens a row. `record`, `canonical` and
  `tool_event` build such data; a record is its identity here.
* `work_scope` and `fingerprints`: walks over the nested values of a call or of
  an original. Their results, the scope of a call and the pins of a file, are
  free in the models.
* `settings`: two conversions, read once.
* Of `capture_identity`, the versions and paths it lists beside the hashes.
* Of `verify`, the comparison with the frozen baseline and the downloads of
  media: they read, and end the command when they disagree, which `Die` covers.
  The checkpoints `verify` posts are of the records it finds, not of those that
  were proved; nothing in the repository says what they may count, so that
  `SyncClaimsOnlyHeld` speaks of `sync` alone.
* `integration/run_archive_replay.py`, `run_mcp_e2e.py`,
  `run_storage_boundary_e2e.py` and `verify_runtime_config.py`: straight-line
  acceptance tests with a process, an outbox and data of their own. They hold no
  state others use; the outage and the lost answer the first of them stages are
  steps of `ArchiveOutbox`.

`PROJECT.json` names each part, and the hazards no property covers with the
reason.

## Plan

1. `WorkScope`: `work_scope` and `fingerprints` as functions on small trees,
   against reference definitions.
2. The answers a caller gets from `PluginToolAdapter` as an abstract specification
   of its own, with the order of its clauses as the refinement.

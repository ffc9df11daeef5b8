# duckdb-bun: TLA+ models, model checking and proofs

duckdb-bun runs DuckDB inside Bun. It offers two clients over `libduckdb`'s C API:
the *drop-in layer* (the official `@duckdb/node-api` classes, in `vendor/node-api/src`,
over a re-implementation of their native bindings, in `src/bindings`), and a small
*Bun-native client* (`src/*.ts`). JavaScript is single threaded; all concurrency is
between asynchronous calls, which give way at each `await`. Native objects are known by
their addresses, plain numbers. Most of what is hard to test here follows from these two
facts, and it is what the models are about.

Source paths below are relative to the repository root. `PROJECT.json` names, for each
definition that models code, the lines it stands for; the hazards each property is aimed
at; and a mutation of the code that each property catches.

## 1. Inventory

| Part | State it keeps | Operations | Talks to | What is hard | What makes it correct |
|---|---|---|---|---|---|
| Drop-in handle layer (`src/bindings/handles.ts`, `impl/core.ts`, `impl/prepared.ts`, `impl/statements.ts`; `DuckDBInstance`, `DuckDBConnection`, `DuckDBPreparedStatement`, `DuckDBPreparedStatementWeakRefCollection`, `DuckDBExtractedStatements`) | two global sets of live addresses; a readonly address per wrapper; weak references per connection | open, connect, prepare (directly or from extracted statements), register, destroy, disconnect, close, prune | `libduckdb`'s allocator; the garbage collector | stale addresses, address reuse, close between `prepare` and its registration, double destroy | every native object freed at most once, guarded calls never meet freed memory, closing one object never ends another's |
| Asynchronous execution (`DuckDBConnection.run/stream/start`, `runUntilLast`) | where each call is suspended; the statement it holds | extract, prepare, register, execute, destroy in `finally` | handle layer; `libduckdb` | interleaving at every `await`, `closeSync` in the middle, errors half-way through a script | nothing left behind on any path, scripts run in order and stop at the first error, every promise settles |
| Result and reader (`DuckDBResult`, `DuckDBResultReader`, `impl/results.ts`) | chunks, chunk-size runs, row count, done | `readAll`, `readUntil`, `value`, `done` | `duckdb_fetch_chunk` | overlapping reads; arithmetic on runs; errors in a stream | chunks complete and in order, every row found, each read gets what it asked for |
| Bun-native client (`src/connection.ts`, `database.ts`, `statement.ts`, `reader.ts`, `decode.ts`) | address and `#closed` per wrapper; a result and a chunk during a call | create, connect, prepare, run, readAll, close | `libduckdb` | exceptions between allocation and free; calls after close; close in any order | all that a call allocates it frees; a close frees its own object, once, whatever addresses are reused; only calls after the program's own close meet freed memory or another's object |
| Pending results (`DuckDBPendingResult`, `impl/pending.ts`) | native pending result | `start`, `startStream`, `runTask`, `runAllTasks` (poll and sleep), `getResult`, chunks of a stream | connection, `libduckdb`'s task queue and workers | polling that must end; another statement or `interrupt` between two polls ends the query; a stream goes on after its result is handed out | ready is reached or an error raised, and the result is whole unless a stream was cut |
| Instance cache (`DuckDBInstanceCache`) | native cache | `getOrCreateInstance` | `libduckdb` | sharing of databases between owners | a shared database lives until its last owner closes it |
| Data chunks and vectors (`DuckDBDataChunk`, `DuckDBVector`, `impl/chunk.ts`, `impl/vector.ts`) | staged copies of data and validity, item caches, cached column vectors | get/set item, set rows, slice, flush, reset, row count | native vectors | a cached vector older than the row count, slices that share part of a buffer, masks made late, word boundaries | what was set is what is read and flushed; a slice is an alias or a snapshot |
| Scalar functions (`DuckDBScalarFunction`, `impl/scalar.ts`) | callbacks kept alive, object registry and its next number | set, register (which also runs `SET threads=1`), bind and main callbacks | query execution, `libduckdb`'s workers | exceptions across the native boundary; callbacks on other threads; objects known by number | callback errors become query errors; a callback finds its own objects, on the caller's thread |
| Appender and binds (`DuckDBAppender`, `impl/appender.ts`, `DuckDBPreparedStatement`, `impl/prepared.ts`, the client's `bind`) | native appender with its buffer; bound parameters | append, endRow, flush, close; bind, execute | `libduckdb` | a call that throws in the middle of a row; a flush that fails; a parameter left over from the row before | rows mix only after a throw; acknowledged rows reach the table or an exception says they did not |
| Native loader (`library.ts`, the two `ffi.ts`, `native/shim.c`) | memo of the paths; the opened libraries | `loadNative`, dlopen, compile and initialise the shim | file system | two concurrent first calls across the copies of a compiled binary; a torn or old library | the paths given out lead to complete files, and every import settles |
| Marshaling and conversions (`marshal.ts`, `impl/conversions.ts`, `impl/valuecreate.ts`, `decode.ts`, `vendor/node-api/src/conversion`) | none | pure functions | — | signs, word boundaries, ranges, doubles and Dates | what is written is what is read, but for the losses named |
| Types and logical types (`DuckDBType`, `DuckDBLogicalType`, `impl/logicaltype.ts`) | none | pure functions | native logical types | nesting | a type survives the round trip |
| Workspace example (`examples/workspace.ts`) | map of workspaces by user and company, time of last access, table records | ensure, evict, append, list, query, drop, clear | drop-in layer, file system | look-up, six awaits, store; eviction under a running call; limits tested awaits before or after the fact | no workspace closed or lost but for the races named; no row disappears; limits are reported |
| Provisioning (`scripts/fetch-lib.ts`, `gen-bindings-scaffold.ts`, `check-version.ts`, `build-neo-compile.ts`; the contract and the generated `bindings/functions.ts`) | files: pins, library, header, generated stubs | fetch, generate, check, build; edits by hand | native loader | interruption between two writes; files of different versions; a stub that hides an implementation | after a script has ended its files agree; a call reaches its implementation |
| Value classes, result shaping, entry points and tests | none | — | — | — | — |

The hazards, at their lines, are listed in `PROJECT.json` with the properties aimed at them. Two have
no property: two scripts of one connection whose transactions enclose each other's statements, and a `prepare` whose statement a `closeSync`
misses because it is registered only after the await. Where the code does go wrong on a hazard, its property
excludes the rows, keys or queries that are hit and says that nothing else is; the hazard's note says so.

## 2. Modules

| Module | Models | Kind |
|---|---|---|
| `NeoLifecycle` | what the drop-in layer promises about native objects, without addresses | abstract specification |
| `NeoHandles` | the drop-in handle layer over addresses | detailed specification; implements `NeoLifecycle` when addresses are fresh |
| `NeoExecution` | the asynchronous methods of one connection | specification with fairness |
| `ResultReader` | one result, its reader and overlapping reads | specification with fairness, pure look-up `Value` |
| `NativeClient` | the Bun-native client | specification |
| `ListVector` | a list column: copies, cache, slices and flush | specification |
| `DataChunk` | a chunk, its cached column vector over typed array, DataView or strings, and a slice | specification |
| `ScalarFunctions` | functions in JavaScript, the object registry, the queries that call them and their pending results | specification with fairness |
| `ValueCodecs` | encoders and decoders of values, word widths as parameters | operators |
| `BulkWrites` | rows written by appender or binds and read back, over `ValueCodecs` | specification |
| `NativeLoader` | the two FFI modules of a starting program | actions, composed into `Provisioning` |
| `Provisioning` | the scripts and edits that produce the files, then the program that loads them | specification with fairness |
| `Workspace` | the workspace example | specification |
| `MC...` | the instances for TLC that need a symmetry set or larger constants | |
| `...Proofs` | the theorems about each; `ChunkProofs` those of `ResultReader` and `DataChunk`, `ProvisioningProofs` those of `Provisioning` and `NativeClient` | proofs |

`NeoExecution` uses what `NeoHandles` shows: while addresses are fresh, a statement is live from its
prepare to its destroy and a second destroy does nothing, so it keeps the set of live
statements and no addresses.

The definitions of `DataChunk` and `NativeClient` that would share a name with the other specification their proofs extend begin with
`Chunk` and `Client`.

### NeoHandles
An action is the code between two awaits. `heap` is the allocator's; `addr[w]` is the readonly
field of wrapper `w`; `liveConnections` and `livePreparedStatements` are the sets of
`handles.ts`; `preparedStatements[c]` is the connection's collection of weak references. A
statement is made by `Prepare` or `PrepareExtracted` (the native call happens before the
`await`) and joins the collection in `RegisterStatement` (the code after it), which also prunes
references whose wrapper has been collected. `DestroyStatement`, `DisconnectSync` (collection first, then
the connection, each under its liveness test) and `CloseInstance` free. `CollectGarbage` takes wrappers the
program no longer uses. `DanglingCall` is any native call whose handle is dead and that the code does
not guard; it sets `fault` and the model stops, since nothing can be said after undefined behaviour.
`AddressReuse` says whether the allocator may hand out a freed address again: `FALSE` isolates what the
code's logic guarantees, `TRUE` is a real allocator. `CloseInstance` is called once per instance by a
correct program; a second call frees the database twice and is not modelled.

### NeoExecution
A *task* is one call of `run`, `stream` or `start` (and the forms that call them). `pc[t]` is the
await where it is suspended. `RunQuery` is `run(sql)` without values, a single native call.
Otherwise `Extract` splits the text; `PrepareFirst`, `Register`, `Execute`, `AfterExecute` and
`AfterFailure` are the stretches of `runUntilLast` and of the method's own `try/finally`;
`BindThrows` is a value that cannot be bound; `StartPending` is the synchronous end of `start`. `CloseSync` may run
between any two of them. SQL is abstracted to the number of statements and to which of them fail.

### ResultReader
`source` is the sequence of chunk sizes libduckdb will deliver. A read fetches synchronously, then
awaits; `fetches` is the queue of fetches under way. The continuations run in the order of the fetches because every
fetch goes through the same number of promise turns (`fetchChunk` is an async function around a
synchronous binding). `Value` is the look-up through `chunkSizeRuns`, run by run. `StreamFails` is any error
of a streaming result, after which `duckdb_fetch_chunk` returns NULL.

### NativeClient
No method awaits, so a call is not interleaved with another; its steps matter because an exception may
leave it half-way. `results` and `chunks` count native objects; `step` is the place in the
call. `memory` is the allocator's, which may give out a freed address again; `slot[w]` is the buffer that libduckdb wrote the pointer to, `number[w]`
the number the constructor copied from it. `Close` tests `#closed`, frees what the slot holds and is the only method that tests it; it may be called on any wrapper, in any
order and repeatedly. The other methods pass `number[w]`, so after a close they run on whatever of their kind is there
now (`astray`), or meet freed memory (`DanglingCall`, which sets `fault` and stops the model). That a connection shares its database, and a statement its connection, so that freeing one leaves the
others usable, is libduckdb's reference counting and an assumption of the model. What the decoder computes is in `ValueCodecs`.

### ListVector
The native vector is `nativeEntry`, `nativeChild`, `nativeValid`; the JavaScript copies have the names of the source. A
flush is a synchronous call, but its two loops are modelled one iteration at a time (`FlushLength`,
`FlushItems`) with nothing else enabled in between, because the order inside an iteration is where it
goes wrong and because an invariant of the loops is what the proofs need. `want`, `staged` and `misread` are history:
the list each row should have, the rows set since the last flush, the rows whose items were read at an offset already
replaced; a slice's `outdated` and `wrote` are history as well. Items are integers (a typed array, whose `slice` stops at the end);
items of a type held in a DataView would make the misread throw a RangeError instead. The chunk is one a query has filled: in a chunk
made by `create` every row is set before it is read.

### DataChunk
`kind` is how a column keeps its data, which decides what happens at the edges: a typed array drops a write outside it and its `slice`
copies; a DataView throws and its slice is a view of the same bytes; a string column caches items and writes them cell by cell in `flush`.
`vectors["column"]` is what `getColumnVector` cached, with the row count of that moment, and `vectors["slice"]` a slice of it. `items` and
`bits` are the staged data and mask, `shares` says whether the mask is the column's (a mask that exists is shared, one made later is not).
`SetRows` runs the whole loop of `setRows`, up to the row that throws, and leaves the rows before it set and unflushed; `SetColumnsRefused` is
`setColumns` on a cached vector of another row count, which throws when the row count is already changed. `FlushVector` writes the data of
the slice to the first rows of the native vector, as the code does.

### ScalarFunctions
A query record has its place (`at`), whether it is a stream and has rows `buffered`, the tasks `queued` and in the workers' hands (`held`), the number kept as its bind data, whether a
callback threw, and whether libduckdb has ended it with an error the program has not seen yet (`failing`). `Prepare` plans the statement, which runs the bind callback (`Plan`); the plan may be made again by `Start`. `Poll` is one turn of the loop
in `runAllTasks` and `RunOneTask` a `runTask` of the program's own; `WorkerTakes` and `WorkerRuns` are libduckdb's threads. `Register` stores the function and runs
`SET threads=1`, whose failure the code ignores; `SetThreads` is the program or the example setting it back. A connection has one active
query: whatever else runs on the connection makes it fail (`Closed`), as do `TaskFails`, an error of libduckdb's own, and `Interrupt`. `GetResult` of a query from `start`
runs all tasks; of one from `startStream` it runs tasks until there are rows, and `FetchChunk` runs the others. An error in `FetchChunk` ends the rows like their
last chunk does (`impl/results.ts:67`): the query is then *cut*, not *failed*. The worker's call into JavaScript is what the code tries to exclude, and the model keeps it to say when it happens.

### ValueCodecs, BulkWrites
A 64-bit word has `2 * Half` values, a byte `Byte`, a mask word `MaskBits` rows; so TLC takes small words with all
their boundaries and the proofs any width. `Nearest` is the double nearest to a quotient, ties to even, with `Safe` (2^53) and `Scales` (the powers of two its exponent reaches) as
parameters: DECIMAL and TIMESTAMP are divided as doubles, and a Date is invalid past `JsMillis`. Arguments of i64 and i32 wrap at their width. `Promised(type, v, read)` says what
the documentation has the client make of a value, without the decoder: a DECIMAL's number is the double nearest to it, a TIMESTAMP's Date is less than a millisecond away. `Encode` is the route's way to hand a value to DuckDB: typed appends, `appendValue`,
typed binds, `bindValue`, or the client's dispatch on the JavaScript type. `DecodeColumn` follows `decode.ts`. `BulkWrites` writes rows of the value
and the row's number by one route; `AppendCell`, `EndRow`, `FlushSync`, `CloseSync`, `BindCell`, `Execute` may
throw, and the program goes on as it likes.

### NativeLoader, Provisioning
`Load` takes one FFI module from one await to the next; `cached` is the memo of `library.ts`, set only after the copies. In `Provisioning` a script's writes are separate steps, and
`Interrupt` may come between any two. `FetchLib(t)` fetches for the host's target or another; only the library of `linux-x64` is ever loaded, but the header is written by all. Edits by hand (`BumpPin`, `Revendor`, `Implement`) make the versions differ. Files are not edited while a program runs.
`CallOf` is what a call through `bindings/index.ts` reaches.

### Workspace
An action is the code between two awaits. `entry` and `db` are the workspaces ever made, `workspaces` the map; `call[c].pc` is where call `c` is suspended and the
other fields are its local variables. A call is *making* a workspace before it has stored it and *holding* one afterwards. `Ensure` includes `evictStale`.
A suspended call may resume in any order relative to the others. `troubled`, `overlapped`, `conflicts`, `refused` and `stored` are history: keys whose workspace was
made twice or whose making failed, keys with overlapping calls, keys where a statement failed on what it found, tables refused for the cap, the rows a key should have.

## 3. Runs

| Run | Question | Answer |
|---|---|---|
| `neo_handles_fresh` | With fresh addresses, do all orders of prepare, await, register, destroy, close, collection and prune keep the live sets exact, the guarded calls safe, every live statement registered, and the promises of `NeoLifecycle`? | yes |
| `neo_second_destroy` | Is a second destroy a no-op, as `handles.ts:88-90` says? | no, once the allocator has given the address to another statement; and the second destroy happens without the program asking for it, through the collection |
| `neo_execution` | Two calls of up to three statements and closes at any await: is anything left behind, out of order, or freed under a call that the program did not close? Does every call settle? | no; yes |
| `result_reader` | Three overlapping reads over every sequence of up to four chunks of two sizes: chunks complete and in order, every row found where it is, done final, every read settled? | yes, while the stream does not fail |
| `native_client_safety` | Is everything freed on every path but a decode error? With wrappers closed in any order and more than once while addresses are reused, does each keep its object, and who meets freed memory or another's object? | yes; it does; only calls on a wrapper the program has closed |
| `list_vector` | Two rows and a slice taken at any moment, read, set and flushed in any order: do the entries cover the child, is every list published as set, do writes through the slice reach the right row, when is it stale? | yes, but for lists read at a replaced offset; stale in exactly the rows set since it was made |
| `data_chunk` | Three rows set through the chunk, the cached vector or a slice, resized, reset and flushed in any order: is what was set read back and published? What does a slice show? | yes, inside the cached vector's own count; an alias or a snapshot, as the property says |
| `scalar_functions` | Two queries on two connections, started or streamed, planned, polled and fetched in any order while functions are registered, threads set and tasks fail or are interrupted: does a callback find its objects, on which thread does it run, what becomes of a throw, does polling end? | its own; the caller's while `SET threads=1` holds; a failed query or a stream cut short; yes |
| `bulk_writes` | The edges of sixteen types by five routes with calls that throw: when do rows mix, are acknowledged rows kept, which values are not read as promised? | only after a throw; yes, or an exception said so; those `OnlyKnownLosses` lists |
| `bulk_writes_time_tz` | Does the client read a TIME WITH TIME ZONE as its time? | no: it takes time and packed offset for one number |
| `provisioning` | Scripts interrupted and rerun, versions that differ, then two FFI modules loading at once: complete paths, agreeing files, calls that reach their function, imports that settle? | yes, but for the library of a host after a fetch for another target, and for functions of the shim an old library lacks |
| `workspace` | Three calls on two keys, with eviction, failures and limits: is a workspace closed or lost, do rows disappear, are limits reported, do statements fail that would succeed alone? | only in the races and overlaps the properties name |

The two runs that expect a violation are the findings of `PROJECT.json`, with the sentences they refute.

Behaviours that the properties name as exceptions, and that a reader of the code may not expect:

* the address reuse of `neo_second_destroy` also lets a second `disconnectSync` disconnect a newcomer;
* a stream that fails reads as the end: `done` is true, rows are missing, no error is raised (`DoneMeansComplete` excludes failed streams);
* a call on a closed wrapper of the Bun-native client meets freed memory, or runs on the object that has its address now (`ObjectsFollowWrappers`);
* `readAllFromResult` leaks a result and a chunk when decoding throws (`OnlyDecodeErrorsLeak`);
* flushing a list column loses an unread list behind one that changed its length, and reserves no memory in the child (`PublishedUnlessMisread`, `WellLaidOut`);
* `setRows` past the count of the cached vector silently loses those rows of a typed-array column, and throws half-way for others; a flush of a slice writes
  to the first rows of the native vector (`ColumnKeepsWhatWasSet`); a mask that a slice makes itself has no bits for rows past its own count (`SlicesAliasOrSnapshot`);
* a callback that throws, a task that fails and an interrupt, once a stream has been handed out, end its rows without an error, although `impl/scalar.ts:3-6` has errors
  surface as query failures (`ThrownIsNotDelivered` says no more of streams than that their rows are not all delivered);
* `SET threads=1` is best effort, and a later `SET threads` by anyone undoes it (`CallbacksOnTheCallersThread`);
* after a call that throws, an appender's row stays half-written and takes the next row's values; a flush that fails drops the buffer (`RowsAreWhole`, `AckedRowsAreKept`);
* strings with a NUL, NaN, integers past 64 bits and BLOBs lose something by some routes; DECIMAL and TIMESTAMP past 2^53 are rounded and dates past the years 0 to 9999 lose their day when read (`LostWritten`, `LostRead`);
* `check-version` finds a library present and does not look at its version: after a pin is bumped, a fetch for another target replaces the header and leaves the host's library as it was; a library older than the shim gives null functions (`FetchedFilesAgree`, `CallsReachTheirFunction`);
* two first calls for one key make two workspaces and lose one; a failed `SET` while making one leaves it open; rows refused for the cap stay in the table (`OrphansNeedARace`, `OverCapIsReported`).

**Bounds.** `NeoHandles`: one instance, two connections, two statements. Two of each is what the properties need: one
object and the one it may be mistaken for. Six addresses let every wrapper have a fresh one; four
with reuse force it. `NeoExecution`: two calls of up to three statements (first, middle, last), so that one can
be suspended at any await while the other runs or the connection closes; what the theorems say they say of any number of calls. `MaxStatements` bounds the length of a text. `ResultReader`: `Sizes = {1, 2}` and up to four
chunks give every pattern of runs up to `1 2 1 2`, `2 2 1 1` and so on, with the boundary between and inside
runs; three reads so that two wait while one is served; targets 0 to 4, below, at and above the rows available. `NativeClient`:
two connections and two statements; four addresses for five wrappers, so that an address must be used again; `MaxErrors` bounds the number of decode errors of a behaviour and `MaxChunks` the chunks of a result.
`ListVector`: lists of at most one
item already change length, shift what follows and differ in content; two rows give a list that is set and one behind it, and a slice of one or
both rows every overlap of vector and slice. `DataChunk`: three rows and words of two bits give a second mask word and padding in it; `MaxCalls = 3`
bounds the calls that set rows or counts, slice or reset, while flushes and reads are free. `ScalarFunctions`: two queries on two connections, so that one can disturb the
other, on the same connection or through the setting; `MaxObjects = 2` and `MaxTasks = 2`. `BulkWrites`: three rows need two mask words of `MaskBits = 2`; one call throws (`MaxThrows`), DuckDB flushes by itself at `FlushAt` rows; words of four
bits, so that 128-bit numbers have 256 values, of which the edges are taken; int32 has four bits too; doubles are exact to `Safe = 4` and a DECIMAL has the base `Ten = 3`
and scales 0 to 2, so that scaled values fall between two doubles, on a tie and past `Safe`; the days of a `Date` and of a four-digit year, and its milliseconds, are short intervals around 0.
`Provisioning`: the host's target and another; two versions, of which the second adds a function bound by dlopen and one of the shim; two temporary directories, one per FFI module.
`Workspace`: two calls at once, three in all (`MaxCalls`), two keys, two tables with a limit of one, a cap of one row and appends of no or one row, two workspaces ever made (`MaxEntries`), three
moments (`MaxTime`) with a time to live of one. Symmetry is used only in runs without a liveness property. `CHECK_DEADLOCK FALSE` because a program may close everything and stop.

**Fairness.** `WF(Resume(t))` in `NeoExecution` and `WF(ResumeRead(r))` in `ResultReader`: the bindings are
synchronous, so every awaited promise is already settled and its continuation is in the microtask queue, which
the event loop drains before it does anything else. `WF(Poll(q))` in `ScalarFunctions`: the loop of `runAllTasks` sleeps on a timer, which the event loop serves;
`WF(WorkerRuns(q))`: a worker thread that has taken a task finishes it, on libduckdb's side. `WF(Load(i))` in `Provisioning`: the awaits of `loadNative` are on file
writes, which end or fail. Nothing else is assumed fair: the program need not close anything,
libduckdb need not fail, a worker need not take a task, an interrupted script need not be run again, and no call need be made. Calls that meet freed memory are excluded from
`EveryCallSettles` explicitly, and programs that end from `ImportsSettle`. `Workspace` states no fairness: nothing in it waits for another call.

## 4. Proofs

TLAPS proves the following for every value of the constants, from the named assumptions of the modules
(kinds of wrappers are disjoint, `Null` and `None` are none of them and `None` is no mask, bounds and widths are natural numbers, a word has at least two values,
the program writes values of the column's type). A type invariant that is a theorem is not also the property of a run.

* **NeoHandles.** `TypeCorrect`; `LiveSetsCorrect`: the live sets are exactly the addresses of live connections and
  statements, whatever the allocator does; from it `GuardedSafe`. `RegisteredCorrect`: no statement the
  program can name is missing from its connection's collection. With `AddressReuse = FALSE`:
  `OwnershipCorrect`, from the invariant `OwnershipInv` (an address on the heap points back to its wrapper, every
  address ever given was used, no two wrappers share one), and `LifecycleRefinement`, `NeoHandles` implements
  `NeoLifecycle`. The hypothesis is needed: `neo_second_destroy` is the counterexample without it.
* **NeoExecution.** The invariant is `IInv == TypeOK /\ LiveInv /\ ProgressInv`: a live statement is the one its task is
  working on, and how many statements a task has executed follows from where it is suspended. It gives `TypeCorrect`,
  `NothingLeftBehind` and `ScriptCorrect`. `FaultsExplained` needs `CloseInv` as well: a task whose statement or
  connection is gone was running at a close. Neither property is inductive: each speaks of settled tasks or of a
  fault, and says nothing of the tasks on their way there.
* **ResultReader.** `IInv`: the chunks read are 1, 2, …, the queue of fetches continues them, the end is seen only when
  everything has been read. Gives `TypeCorrect`, `OrderCorrect`, `ReadsCorrect`, `DoneCorrect`, and the action property `DoneFinal`. `ValueCorrect`, the look-up by
  runs finds every row, needs the layout of the reader's data (`LaidOut`): where each chunk begins among the rows, where each run begins among the chunks, and that the
  chunks of a run have one size. A chunk more keeps it (`LayoutGrows`), and both folds, that of `value` over runs and that of the definition over chunks, find in it the same chunk and row.
* **NativeClient.** `ClientInv` adds `SlotsInv`, the slot of an open wrapper holds the number it remembers, and every object belongs to an open wrapper: so a close frees its own object and a number kept after it leads to
  no object or to another's. Gives `ClientTypeCorrect`, `LeaksExplained`, `ObjectsKept`, for any number of wrappers and addresses.
* **DataChunk.** `ChunkInv`: nothing has a vector yet (`Unused`), or (`VectorsInv`) the column's mask, cache and items hold what was set (`Keeps`), the native vector holds
  what has been flushed and not been overwritten since (`Publishes`), and a slice agrees with the column in the rows not changed since it was made (`Agree`). `Publishes` says of a column
  without a mask that the native bits are valid, whatever was set: that is why a mask made late may start with every bit set. `Keeps` excludes a row set through a slice, unless the slice is a view of the
  same bytes. Gives `ChunkTypeCorrect`, `ColumnCorrect`, `SliceCorrect`, for any number of rows, any width of the mask's words and each kind of column. The loop of
  `setRows` is a recursive function over rows, and the lemma `SettingKeeps` is its loop invariant.
* **ListVector.** `IInv` says what each loop of a flush has achieved after `k` rows: the first, that `k` entries follow one another and
  their rows are read from the cache from now on (`Measured`); the second, that the child ends where entry `k` ends and holds what the
  rows show (`Filled`). Gives `LaidOut`, `Published`, `ReadsBack`, for lists of any length and any number of rows; the lemmas
  `AppendKeeps` and `AppendReads` carry the argument through the growing child. `SlicesCorrect` needs `SliceInv` besides: between flushes
  the copies agree with the native vector (`CopiesAgree`), and a slice shows what it should not only now but after a flush through it has emptied its
  cache, when only its own copies of the entries and the child are left (`Uncached`). With it, `TypeCorrect`. The constants are as the
  module assumes: `Null` is neither a list nor the record of a slice.
* **ScalarFunctions.** `IInv` adds to the types that every number in use leads to the object stored under it and is below the next number (`BindDataKept`, `ExtraInfoKept`),
  what the place of a query says of its record (`RecordInv`: among others, that a query one of whose callbacks threw is failing, failed or cut), and that workers hold
  tasks only while `SET threads=1` is not in force (the conjuncts on `held` and `unpinned`). The properties follow, none being inductive alone: `ObjectsCorrect`,
  `ThreadCorrect`, `ThrowsReported`, of started and streamed queries alike.
* **ValueCodecs and BulkWrites.** `HugeintsRoundTrip`, `UhugeintsRoundTrip`, `UuidsRoundTrip`: joining what was split gives the number back, for words of any width; they rest on
  lemmas on quotient and remainder. `RowsStayWhole` is `RowsAreWhole` for any number of rows and throws: the cells that a row in the making, the buffer, the bound parameters and the table hold belong to one
  program row unless a call threw during one of theirs. `AcceptedRowsAreKept` adds (`KeptInv`) that the row being written has a cell in DuckDB's row or in the parameters as soon as the program has begun it,
  and that only an open appender buffers. `LossesAreKnown` is `OnlyKnownLosses`: every stored cell is a row number or what the program's value became by its route (`CellsInv`: nothing refused or uncastable
  gets into the table), nothing is written after reading back (`ReadInv`), a bit of the mask is found for every row (`ColumnDecoded`), and one lemma per type says what the client reads of its cell
  (`ValueReads`). For bignums that is the recursion of `LittleEndian` against the fold of `BignumOf` (`BytesOfNumber`).
  For DECIMAL and TIMESTAMP it is what rounding does: whole numbers to `Safe` are their own doubles (`ExactUpToSafe`), and dividing one by `Unit` in floating point and dropping the fraction gives the quotient (`QuotientKept`, from `HalfEvenBounds` and
  `RoundingKeepsQuotient`), for any `Safe`, `Unit` and set of exponents that the assumptions `LimitAssumption` and `ScaleAssumption` allow. `TypeCorrect` includes that the words of cells fit their words.
* **Workspace.** `EvictionCorrect` and `OrphansExplained` follow from: the map leads to open entries of its key (`MapInv`); a workspace being made is open, in no map and
  nobody else's, and two of one key are troubled (`MakingInv`); one in use was touched when the call obtained it or later (`HoldingInv`). The last is what makes
  eviction safe, and it depends on `ensureWorkspace` touching the entry after `evictStale` and in the same step. `TmpFilesCorrect`: the NDJSON file of an append does not outlive the call.
  `JInv` is the invariant for tables: a call's workspace belongs to its key (`HoldsInv`); a database has no table before its workspace is published, and no rows without a table (`EmptyInv`); and of a call
  that overlaps no other on its key, what its place says it knows of the tables is so (`AloneInv`: `Knows` says for each place which tables `tableMeta` lists, `Tracked`, and which local copies are still true).
  It gives `RowsKept`, `OverCapCorrect`, `MetaCorrect`, `ConflictsExplained`. Without `AloneInv` nothing follows: the code reads the tables, awaits, and acts on what it read.
* **Provisioning.** `PInv`: scripts and programs never run at once (`OneAtATime`); a module that writes has a directory of its program, and what it was given stays while the program runs (`PlacesInv`);
  a fetch that has ended left files of the pin, for its target, and its writes are in order (`FetchInv`); a barrel that is fresh lists what the sources implement (`BarrelInv`). Gives `ProvisioningTypeCorrect`, `GivenPathsAreComplete`,
  `FinishedFetchAgrees`, `CallsResolve`, for any set of functions, versions and contracts.

Induction. The provers take no induction theorem with an operator parameter. What needs induction over rows, runs, chunks, bytes or cells is proved by the least number at which it would be wrong (`LeastNumber`, from the
well-foundedness of the numbers): the look-up of `ResultReader`, the loop of `setRows` and the bytes of a bignum. A recursive function or fold is first shown to exist, as the one function that
satisfies its equation.

Only model-checked: the liveness properties (`EveryCallSettles`, `EveryReadSettles`, `RunAllTasksEnds`, `ImportsSettle`), which TLAPS does not prove under fairness, and the two properties that do not hold. Every safety
property of a passing run is a theorem. A comment in the reader says there are never more than
two runs; the code does not depend on it (it would only be slower), and neither do the models.

## 5. Not modelled, and why

* Handle layer: metadata getters and the dispatch of parameter binders (they read or fill one live handle); the second `closeSync` of an
  instance; native objects the code never frees (results, chunks, extracted statements, pending results), which it says it does not; the garbage collection of the 48-byte
  result buffer of the Bun-native client.
* Execution: the SQL of a script, and with it transactions that two interleaved scripts open and close around each other's statements.
* Instance cache: two native calls without state of their own; what is shared is decided inside libduckdb.
* Vectors: arrays, structs, maps and unions hand set and flush on to their children; lists of lists; slices of slices; a chunk of several columns of which some
  are set when a throw comes; the heap of strings after a reset; the blob vector, whose `getItem` (`DuckDBVector.ts:1908-1911`) decodes the native bytes and never looks at the items set.
* Scalar functions: a callback that throws `null` (counted as one that returns), parameter and return types, growth of the registry, which is never emptied.
* Binds: the state `bind_*` returns is ignored by the code; it is an error only for an index out of range, which the modelled program does not use.
* Values: the textual forms under `conversion/`, the value classes and converters, logical types. They are immutable and have no order of events; duplicate column
  names in row objects overwrite each other, as JavaScript objects do.
* Workspace: what `assertReadOnlySql` accepts, `sanitizeValue` and `normalizeRow`. Statements resume in any order, which allows more interleavings than today's synchronous bindings and
  exactly those of the official asynchronous client the example was written for.
* Scripts: `vendor-rewrite-bindings` (a text replacement), the comparison with the latest release, the spike. Temporary directories of compiled binaries are never removed.
* Entry points, declarations and tests have no behaviour of their own. The C shim forwards calls; its table of pointers is in `NativeLoader`.

## 6. What could follow

1. Nested lists over `ListVector`: a flush of the outer list replaces the inner vector under its slices.
2. What `NeoExecution` and `NeoHandles` promise together: the execution layer's set of live statements as an abstraction of the handle layer's, while addresses are fresh.
3. A transaction state for `NeoExecution`, and a script's statements as BEGIN, COMMIT and others.
4. Collection of unreferenced buffers for `NativeClient`; the second close of an instance and the instance cache for `NeoHandles`.
5. Struct, array, map and union vectors as compositions of `DataChunk`'s column.

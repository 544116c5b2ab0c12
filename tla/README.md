# Faster File Copy: formal models

Faster File Copy is two native game plugins, an SKSE plugin for Skyrim
(`Skyrim/`) and an F4SE plugin for Fallout 4 (`Fallout4/`). They hook the
game's archive streams: uncompressed entries are copied from memory-mapped
archives, compressed ones are learned once, written decompressed to a
persistent cache, and served from the mapped cache afterwards.

This directory models the parts of both plugins in which several threads,
files and failures meet, checks them with TLC on small instances, and proves
the central invariants of each state machine with TLAPS for every instance.

Every definition is translated from the source; `map` in `PROJECT.json` gives
the lines of each. Definitions marked `external` there stand for the game
engine or Windows, which the source only uses. Definitions whose comment says
"Faulty variant" or "A slip" are not part of any specification: substituting one for the
definition after it shows that a property notices that mistake.

## 1. Inventory

| Component | State | Operations | Interacts with |
|---|---|---|---|
| Byte budget, admission, eviction (`DecompCache.cpp`, `CacheLimitPolicy.h`) | `m_totalCacheBytes`, `m_pendingBytes`, `m_committedReservations`, `m_requiredHeadroom`, queues, capture markers, cache folder | `RecordDecompressed`, `FlushToDisk`, `ReconcileDiskAccounting`, `EnforceSizeLimit`, `RemoveUnownedFiles`, invalidation | readers (shared lock), worker (flush), load gate |
| Cache file (`DecompCache.cpp`, `CacheFormat.h`) | header count, index, payloads, mapping and its verdicts | `AppendFile`, `WriteFreshFile`, `LoadCacheFile`, validation | flush; Windows page cache and medium |
| Background worker (`DecompCache.cpp`) | request flags, completion flag, epoch, condition variable | `RequestFlush`, `RequestWarmup`, `WarmMappedCaches`, worker loop, destructor | readers, load gate, flush |
| Lookup and lazy verification (`DecompCache.cpp`) | per-entry verify state | `Lookup`, `ReportMappingIoFailure` | hooks, worker |
| Compressed streams (`Hooks.cpp`) | side state per stream: cursors, cached view, capture buffer, mutex, retired flag | open, close, destructor, clone, seek, read | cache lookup and recording, game decompressor |
| Uncompressed streams (`Hooks.cpp`, `StreamCursor.h`) | source table (sequence lock), overflow map, stream cursor | `SourceLookup`, `ResolveSource`, `SourceInsert`, `HookedDoRead`, `ClaimRange` | archive maps, game reads |
| Capture budget (`AtomicByteBudget.h`) | bytes in use | reserve, release | compressed streams |
| Load gate, benchmark driver, gameplay statistics (`main.cpp`) | producer mask and two flags derived from it, menu and save state, loader thread, scheduler thread | `SetLoadProducer`, SKSE messages, `LoadMenuSink`, `BenchmarkAutoLoader`, `GameplaySnapshotScheduler` | hooks, worker, engine |
| Read, layout, limit and warm policies (`CompressedReadPolicy.h`, `CompressedEntryLayout.h`, `CacheLimitPolicy.h`, `CacheWarmPolicy.h`, `CacheFormat.h`) | none | pure arithmetic | all of the above |
| BSA memory map, settings, metadata | read-only after start-up | parsing | hooks |
| Fallout 4 cache (`Fallout4/src/DecompCache.cpp`) | per archive a view, an index and a queue; the flags ready, building and stable; a running total | `Lookup`, `LookupViewBacked`, `RecordDecompressed`, `FlushToDisk`, `EnforceSizeLimit`, `BuildTextureCache`, page walkers | hooks, background thread, F4SE messages |
| Fallout 4 hooks (`Fallout4/src/Hooks.cpp`) | source and stream tables without a lock, replaced vtables with their entries, per-thread bridge to inflate, accumulators, fingerprint sidecar | creation hooks, `HookedDoRead`, overridden reads and destructor, `HookedInflate`, texture streamer hooks | cache, archive maps, engine |
| Fallout 4 archives, settings, plugin entry | read-only after start-up | parsing, F4SE messages | the two above |
| Measurement tools | none at run time | start the game, parse its log | - |

What is hard in it:

* **Interleaving.** Readers, the worker, the engine thread, the auto-loader and
  the statistics thread run concurrently. Every lock of the cache is given up
  during file I/O, so what was decided before is stale afterwards.
* **Cancellation.** A loading screen can stop a writer, a scan, an eviction or
  a warm pass at any check; each exit must leave accounts, files and requests
  in a state that a later attempt repairs.
* **Crashes.** Cache files are appended in place under live mappings while the
  system may write pages back in any order.
* **Partial failure.** Allocation, truncation, mapping, native reads and their
  rollbacks fail one by one.
* **Ordering.** Two request flags, two condition variables, three gate flags
  and several engine messages have no common lock.
* **Reuse of addresses.** The hooks know streams and sources by address; the
  engine frees them without telling, and allocates others in their place.
* **Lock-free fast paths.** Counts, flags and table slots of the Fallout 4 plugin
  are read without the lock their writers hold, and a "stable" cache hands out
  pointers that keep nothing alive.

Correctness per component is stated in section 3 with the modules.

## 2. Modules

| Module | Models | Kind |
|---|---|---|
| `CacheBudget` | byte budget, queues, flush, eviction | state machine |
| `CacheBudgetProofs` | its proofs | TLAPS |
| `CacheFile` | the file protocol with crashes | state machine |
| `CacheFileProofs` | what is served is right, mappings keep their file, `CacheFile` implements `AtomicStore` | TLAPS |
| `AtomicStore` | what a cache file promises across crashes | abstract specification, implemented by `CacheFile` |
| `WarmWorker` | worker, requests, warm pass | state machine with fairness |
| `WarmWorkerProofs` | its proofs | TLAPS |
| `CompressedStream` | side state of compressed streams | state machine |
| `CompressedStreamProofs` | its proofs | TLAPS |
| `PlainRead` | source table, cursor claims | state machine |
| `PlainReadProofs` | its proofs | TLAPS |
| `LoadGate` | gate, messages, auto-loader, scheduler | state machine with fairness |
| `LoadGateProofs` | its proofs | TLAPS |
| `FalloutCache` | the Fallout 4 cache and its background thread | state machine with fairness |
| `FalloutCacheProofs` | its proofs | TLAPS |
| `FalloutStreams` | the Fallout 4 stream tables, replaced vtables, reads and capture | state machine |
| `FalloutStreamsProofs` | its proofs | TLAPS |
| `MC*` | constants and symmetry for TLC | |

The modules meet at `m_loadActive`: `LoadGate` shows when the flag is set;
in `CacheBudget`, `CacheFile` and `WarmWorker` it may change at any moment, and
in `CompressedStream` and `PlainRead` any call may find acceleration suppressed.
Each of them therefore covers every behaviour of the gate. In the same way
`CompressedStream` may be given or refused a cache entry at any lookup, which
covers all behaviours of the cache as the hooks see them, and `WarmWorker`'s
commits may fail or succeed, which covers those of `CacheFile`. For Fallout 4,
`FalloutStreams` asks the cache for an entry and records one, in one step each;
`FalloutCache` refines what lies between, with readers that look up, record and
use any entry at any time.

## 3. What is modelled and shown

### CacheBudget

*State.* Sizes are attached to *slots*: an archive's own name is the slot of its
header and index, an entry is the slot of its payload, an orphan is a foreign
cache file. `disk`, `view`, `pending` and `work` are sets of slots, so a byte
count is always the sum over a set. `pc` is where the holder of `m_flushMtx` is.

*Actions.* `RecordAccept` and `RecordReject` are the branches of
`RecordDecompressed` under its locks. `FlushBegin`, `RetireInvalid`,
`SnapshotWork`, `AppendFile`, `InstallCommitted`, `RequeueFailed`, `DropFailed`,
`CommitsDone` are the stretches of `FlushToDisk` between which other threads
run. The `Enforce*` and `Evict*` actions are those of `EnforceSizeLimit`.
Loading screens, invalidations and failed checksums may come between any two.

*Properties.*
* `ChargeExact`: `m_pendingBytes` is exactly the queued and in-flight bytes plus
  what is committed but not yet seen by a scan.
* `MarkersExact`: an entry is marked as captured exactly while one owner holds
  its payload.
* `HeaderReserved`: an archive with queued payloads and no usable file has its
  header and index paid for, whatever was dropped on the way.
* `ActiveFileKept`: no deletion hits the file of a published mapping.
* `DemandCovered`, `CapStep`: the two counters admission adds up never
  undercount what the files will occupy, so no step raises the demand above the
  cap (`Skyrim/README.md:17-18`).
* `AcceptedNeverLost`: an accepted payload leaves the queues only into a
  published mapping.
* `HeadroomKept`: a request for headroom is forgotten only when there is room.

*Run.* `budget`: one archive, payloads of 1 and 2 bytes, a header of 1, a foreign
file of 1, at a cap of 3, so that not all of it fits and eviction, refusal and
foreign files all happen; in one initial state nothing fails, in others any
allocation of a flush or the start-up scans may. All of it is checked against
the full `AccountingInv`.

*Proved* (`CacheBudgetProofs`, any archives, sizes and cap): `AccountingInv` is
inductive (`AccountingCorrect`). `ChargeExact` alone is not: the rollback
transfers a header charge to a surviving payload, which needs `CarrierPresent`
(a charged header always travels with a payload), and the installation needs
`InstallSound` (what the file writer hands over lies in the item). From it follow
`ChargeCorrect`; under the named assumption `NoFaults` (neither the start-up
scan nor an allocation fails) `DemandAlwaysCovered` and `HardCap`; and, while
allocations succeed, `AcceptedKept`. `HeadroomKept` (`RequestsKept`) needs `RequestTaken`:
only an enforcement in progress holds a request it has taken. The assumptions are needed: a failed
start-up scan leaves the total at 0 (`DecompCache.cpp:2537`), and the rollback
without memory drops payloads (`DecompCache.cpp:1803`).

### CacheFile and AtomicStore

*State.* Two images of the file: `os`, what the program sees, and `dur`, what
is on the medium. Block i of the payload region belongs to index slot i.
`WriteBack` moves one block, one index slot, the count or the length from `os` to
`dur`, in any order and at any time; a flush moves all of it; `Crash` makes `os`
equal to `dur` (a block that was never written back holds `None`) and restarts at
`LoadCacheFile`.

*Actions.* One per step of `AppendFile` (open, truncate, payload, flush, index,
flush, header, flush, and the rollback: restore header, cut tail, flush), of
`WriteFreshFile` (write, flush, rename) and of the mapping and installation.
`Cancelled(a_work)` is checked where the code checks it.

*Properties.* `ServedIntact` (an entry served without a checksum has the right
payload), `MappedPrefixKept` (the file under a mapping never loses what the
mapping indexes, also in the middle of a rollback), `ServedFileValid` (the file
that serves would be accepted at the next start), and the refinement `StoreSpec`:
mapped by "what a restart would accept with all payloads intact", the file
implements `AtomicStore`, which changes its content only by whole batches.
`unsafe` in `AtomicStore` is true after the code itself has given up the
protection (the unflushed rename below, or a rollback whose own flush failed).

*Runs.* `file_faults`: three payloads, an index of two, so that appends,
replacement of a full file and retries of half-committed batches all occur.
`file_unflushed` (violation): `Skyrim/AUDIT.md:91-92` says that payload and index are
flushed before the count is advanced; a loading screen between the last write
and the flush of a fresh file skips the flush and still renames.

*Proved* (`CacheFileProofs`, any payloads, any index capacity): `FileInv` is inductive.
An append leaves the committed prefix alone (`PrefixKept`) and writes in its order
(`InOrder`); a mapping is a prefix of the file, or maps a replaced one
(`MappedIsPrefix`, `ReplacedIntact`); and what the writer hands over as verified it has
verified, found intact or written itself (`Vouched`; that an entry of an earlier
generation is meant rests on the index having no duplicates). From it follow
`ServedRightly` and `MappingKept`. None of this needs the medium.
The refinement adds it: `SyncInv` says that the medium holds the committed prefix at
any moment, and before the header is written all of the append, so that `WriteBack` in
any order can only store the whole batch (`Behind`), or that the file is one a restart
rejects and nothing writes to (`Rejected`). With `NewInv` (an append adds each missing
payload once) every step is a step of `AtomicStore` or a stutter (`FileIsStore`), and
the serving file stays valid (`ServedStaysValid`). Like `AtomicStore` these promise nothing
while `atRisk`; the two ways there are in the code, not in the proof.

### WarmWorker

*State.* Request and completion flags, per archive the touched chunks, the
verified and the invalidated mappings, the worker's place `pc`, and per
requester what it still has to store and notify. `MutexHeld` is derived from the
places that hold `m_workerMtx`.

*Actions.* `RequestFlush`, `RequestWarmup`, `Notify` are separate steps of any
requester. The worker's wait is split into lock, predicate, sleep, wakeup,
timeout (`Timer`). A flush is seen as the worker sees it (retire, append,
install or requeue per archive), a warm pass with every check of its loops.

*Properties.* `CompleteMeansTouched` and `AnnouncedWhenCalm` (the completion flag
is never a lie outside the commit loop), `LoadGate` (at most one chunk after a
loading screen opens), `EventuallyCommitted`, `EventuallyWarm` (no lost wakeup),
`StopEndsWorker`.

*Fairness.* `WF(Worker)`: the thread is scheduled. `SF(Timeout)`: the interval
of 60 s ends while the worker sleeps; strong, because spurious wakeups make it
sleep again. `SF(LoadCloses)`: loading screens end; strong because
the mutex they need is taken in between. `SF(Serve(t))`: a requester obtains a
mutex that is free again and again. Where the condition says that the
timer is off, the liveness rests on notifications alone.

*Runs.* `worker`, from two kinds of initial states: failures with the timer, and
shutdown without it. `worker_generation` (violation): `Skyrim/README.md:136-137`
promises generation-specific completion, but the flag is cleared only at the end
of the flush that installs the new, cold mapping. One archive in two chunks lets
a pass be interrupted inside and between its phases; three events bound the
readers and failures of a behaviour. `CHECK_DEADLOCK FALSE`: after shutdown
nothing runs.

*Proved* (`WarmWorkerProofs`, any archives, chunks, events): `WorkerInv` is
inductive (`WorkerCorrect`), and from it `CompletionTrue`, `LoadGateHolds`,
`AnnouncedCalmly`. `Passing` (a pass still has every untouched mapping in its
list) and `Gated` (a chunk is begun only with the gate open) are what the
visible properties lack to be inductive.

### CompressedStream

*State.* `native` is the cursor of the game's decompressor, `caller` where the
engine believes the stream to be, `side` the published `CompressedStreamState`.
Byte i of the payload is the number i, so a wrong position shows in the bytes.
`call` is each thread's place and its local copies.

*Actions.* The six hooks: open, close, destructor, clone, seek and read. A call
reads its identity before the mutex and keeps the stale copy, as the code does;
`RetireCompressedState` with its wait is separate from the lifecycle call.

*Properties.* `BytesInOrder` (a read delivers the bytes from where the engine
is), `LearnsWhole` (only complete payloads are recorded), `CursorsAgree` (the side
cursor is the decompressor's, or the engine's while the cache serves), `CloseWaits`, and
`StreamInv`, the invariant they follow from. All but the last two are promised until
`parted`: the decompressor was moved, or left behind, without its side state knowing.
There are three ways to that, each a step of the code: a replacement state cannot be
allocated (`UpgradeFails`, the finding below); a native call without a mutex, beside a
retired state or for want of any, ends while another call or state relies on the cursor
it found (`Unguarded`); a clone that was to be read from the cache, because its
decompressor could not be moved, cannot be given its state (`Bereft`,
`Hooks.cpp:1415-1445`). `CursorsAgree` says that they need a failed allocation or a close
that overlaps the calls it ends; a session without either never parts.

*Engine.* A stream is not used while it is opened or made by a clone (`Usable`); a close
may overlap reads and seeks that have looked their state up (`overlapping`), and no clone.

*Runs.* `streams`, under four kinds of conditions: one thread on one stream with
every failure, one thread on a stream and its clone, and two threads on one stream with
closes that overlap, which capture what they read or run out of memory.
`stream_suffix_learned` (violation): with the replacement state refused
(`Hooks.cpp:1628`) the read is native and the side cursor stands still; a later
capture learns a payload of the right length and wrong bytes, against
`Skyrim/AUDIT.md:79-81`. An entry of two bytes has a beginning, a middle and an end;
`MaxCursor`, the largest 32-bit cursor, is one past it.

*Proved* (`CompressedStreamProofs`, any streams, threads, entry size, cursor width and
failures): `StreamInv` with the other four properties is inductive (`StreamCorrect`), and so
all five hold (`ServedInOrder`, `LearntWhole`, `CursorsCorrect`, `CloseWaitsForCalls`).
What makes them inductive: no two streams share a state object, and whoever is in a native
call under a mutex holds the mutex of the object it will store to (`OwnIds`); no call meets
an open, or the clone another thread is making (`OwnStreams`); a state that a call is about
to store agrees with the decompressor although the object may have been retired since
(`InFlight`); and a capture holds the first bytes of the entry (`Sound`). Every step but
the first of a call changes that call and one stream (`Turn`). Each part of the invariant
has a lemma that says what such a step must keep to, for the other threads and streams to
keep theirs: a published object is replaced only while its mutex is free (`Renewed`), a
decompressor moves only in a native call (`Held`). `Turned` combines them, so the lemma of an
action (`FindKeeps` to `PublishKeeps`) only shows that it keeps to these.

### PlainRead

*State.* One source with its slot, its overflow answer, the sequence number, the
holder of the insert mutex and each thread's half-read copy. `room` is how many
slots the sources not modelled have left, so both the table and the overflow map
are reached. The clock is discrete.

*Actions.* Each load and store of the sequence lock is a step of its own; the
probe, which calls the game, is one step; a claim is a load and an exchange. The
engine frees a source or its backing stream only when no read is in it.

*Properties.* `ServedRight` (the archive copied from is the one the source belongs
to, in spite of address reuse), `PositiveKept` (a slower negative never replaces
a positive, `Hooks.cpp:353-354`), `SingleFlight` (until the answer of a refresh is
published, no other reader starts one before the backoff is over),
`ClaimsInOrder` (ranges do not overlap and leave no gap) and `ReadInv`, the
invariant the others follow from: who relies on the insert mutex, what a copy made
under an unchanged even sequence number is worth, that no pair of a backing stream
and a wrong archive is ever stored, that ranges stay in the entry.

*Run.* `plain_read`: two threads, one source over two backing streams and two
archives, an entry of three bytes read in twos, seeks to the start and out of
the entry, times up to one expiry and one retry. Symmetry of threads and of
archives is used; there is no liveness property in it.

*Proved* (`PlainReadProofs`, any number of sources, threads, slots and bytes):
`ReadInv` is inductive (`ReadCorrect`). `ServedRight` needs it: while a sequence
number has not moved the copies are those of the slot (`Seen`); an odd number means a
writer, who holds the mutex (`OddWhileWritten`, `Placed`); a slot under an even
number, an overflow answer and an answer on its way pair a backing stream with no
other archive than its own (`Stored`, `Found`), which stays true because a stream in
use is not freed and one with a name keeps it. `Full` says that the overflow map is
used only once no slot can become free, without which a key published later would
hide a positive answer. From it follow `ServedCorrectly`, `ClaimedInOrder`,
`FlightsSingle` and `PositivesKept`.

### LoadGate

*State.* The mask and the two flags, the mutex, the menus, the place of the
engine thread in our handlers, of the auto-loader and of the scheduler.

*Actions.* `SetLoadProducer` is split into mask, hooks and cache, since the flags
are read without its mutex. The handlers of `kDataLoaded`, `kPreLoadGame` and
`kPostLoadGame`, the menu sink, the auto-loader's phases with each of its exits,
and the scheduler with its deadline.

*Properties.* `GateInv` (the three stores of a change agree once it is over),
`Gated` (closed while a load runs and while a loading menu is up), `GapClosed` (no
ungated window between the checkpoint of the auto-loader and its load, unless a
load of the player's comes between), `QuietDuringLoad`, `Reopens`.

*Fairness.* Weak for the auto-loader and the engine's handlers; strong for the
closing of a loading menu, the end of a load, the queued task and the lock in
`SetLoadProducer`, each of which other engine events can make wait: the
engine finishes loads, closes its menus and runs tasks between other work.
`Reopens` excludes the two cases the code leaves to the next load (`leaked`): an
exception in the statistics of `kPostLoadGame` and a load the engine refuses
without a message.

*Run.* `load_gate`: five engine events, enough for a player's load within each
interval of the auto-loader, with the menus around it. `CHECK_DEADLOCK FALSE`:
once the events are spent nothing need happen.

*Proved* (`LoadGateProofs`, any number of events): `GateInv` is part of an inductive
invariant (`GateCorrect`). What it lacks is the discipline of the mutex (whoever is in the
middle of a change holds it, one at a time, `MutexInv`), what the menus and the dispatched
load have asked for (`MenuInv`, `DispatchInv`), what a save in progress excludes (`SaveInv`)
and the auto-loader's account of its own producer (`TimedInv`). From it follow `GateCovers`,
`NoGap` and `LoadUndisturbed`.

### FalloutCache

*State.* Per archive the file on disk, the mapped view (an identity, so that a
pointer into an old one is told from one into its successor), the copies of each
entry in the index, the queue, and the two counts that are read without a lock.
`flush` is the one thread that flushes: the main thread when the game data is ready,
then the background thread. `reader` is what each engine thread is in the middle
of, `walk` the views a page walker holds, `substitute` a stream that reads from one.
A view is mapped while anybody holds a reference to it.

*Actions.* `Lookup` by its paths: the stable one without lock or reference, the two
counts, the index under the shared lock, the queue. `RecordDecompressed` checks the
index and pushes in two critical sections. A flush takes a queue, compares the
projected size, writes the new file aside, clears the cache, replaces the file and
maps it; create, write, rename, map and remove may each fail. `StopCaching`,
eviction, the mode 0 ending and the texture build are as in the code.

*Properties.* `CacheInv` (the counts are those of the data, the running total never
undercounts, a stable cache is not written, every result owns its view or was found in
stable mode), `ServedAlive` (nothing is read through a view that is unmapped),
`CapStep` (no step takes the files past the limit), `MissExplained` (a lookup never
misses an entry that stays where it is while it looks), `NothingForgotten` (while nothing
fails and the limit is not reached, what was learned is kept), `EventuallyWritten`.
Two of them exclude the texture build, off by default: `ServedAlive` from the moment on
that it has met a cache that is already stable, which it unmaps, and `NothingForgotten`
sessions with the build altogether, as it discards what the cache files held.

*Fairness.* Weak on the thread that flushes: it is scheduled, and sleeps for bounded
times. Readers and the engine owe nothing.

*Run.* `fallout_cache`: two archives, two entries, a file of an archive that is gone,
one reader beside the two threads of the cache, one failure per behaviour, a limit
of 4 units where the files of both archives need more. Six kinds of session spread
the modes, the substituted streams, the walkers, the texture build and the failures.
`CHECK_DEADLOCK FALSE`: a session with nothing to do stops.

*Proved* (`FalloutCacheProofs`, any archives, entries, readers, limit and session): all the
safety properties. `ServedAlive` (`ViewsOutliveUsers`) rests on `FlowInv` (where a flush
returns to, and that only the texture build leaves the stable mode) and `UserInv` (a
pointer without a reference is one into the view in force). The others follow from
`AllInv`, which adds, one part for each property:
* `CacheInv` (`CacheCorrect`): `DiskInv`, `IndexInv`, `QueueInv`, `FlushKinds`; a file the
  flush replaces is a part of the total it is subtracted from.
* `CapStep` (`LimitKept`): `CapInv`. The check of the limit is three steps before the file
  grows, so the total the flush works with must still cover the disk when it is
  used, and the temporary file must still fit. It is lost when a file has been
  replaced and not mapped, which is the exception `CapStep` makes.
* `MissExplained` (`MissesExplained`): `LookInv`, what a lookup at each stage has concluded
  from a count about where its entry has not been.
* `NothingForgotten` (`NothingLost`): `CarryInv`, that the temporary file holds what was
  queued and, until the index is dropped, what is indexed.

Bytes are summed by counting units (`Units`), so that the lemmas `UnitsSplit` and
`UnitsReplace` need no recursion. `EventuallyWritten` stays with TLC.

### FalloutStreams

*State.* The stream at each address, with the cursor field and the position the game
is at; the source table and the stream table with their separately written words;
the map of replaced vtables, its entries (never freed) and each thread's note of
the last one; what the cache holds and the accumulators. A byte is a triple of
archive, entry and index, so a wrong archive, entry or position shows.

*Actions.* Every load of `StreamArchiveLookup` and every store of
`StreamArchiveInsert` is a step, as are the key and the archive of the source table.
`Open` stands for both creation hooks (`LeftAlone` says which streams each of them
passes over), `InstallStreamOverride` and `OverrideDtor` change map, entry and
vtable together: the stream is not yet or no longer shared then. `HookedDoRead`
serves from the map (`ServeMapped`), from the cache (`ServeCached`), or sets the bridge and
calls the engine (`Native`), and then captures: it trims the accumulators without their
mutex (`Capture`), then appends under it (`AppendBytes`), and other threads interleave
between the two. Trimming itself is one step; what it may do to the container while
another thread changes it is left out. `conditions` chooses the hook, mode,
asynchronous streams, save loads, seeks, failures, and whether the streams share a
slot of the stream table.

*Properties.* `StreamsInv`: a vtable is replaced exactly while the map has an entry for
the address, the entry is that stream's and stands where the game has read to, no
entry of a freed stream passes for that of a living one, and a slot names the archive
of the source it names; and what every thread holds agrees with its stream. `ServedRight`:
a read delivers the bytes of its stream's
entry from where the game is, whoever serves it. Two cases are excluded by name:
`raced`, a lookup that an insertion into the same slot overlaps, and an entry of which
the cache has recorded something else; both are code bugs, described below.

*Runs.* `fallout_streams`: two threads, two addresses, two archives, a plain and a packed
entry of two bytes, up to three streams one after another at an address, seven kinds of
conditions; symmetry of threads, addresses and archives, no liveness property.
`fallout_capture` (violation of `RecordedWhole`): one thread, no seek, no failure. A
stream is freed after one of two bytes; the next stream of the entry gets the address
and its first byte completes the accumulator (`Hooks.cpp:2983`).
`CHECK_DEADLOCK FALSE` in both: once its streams are used up a behaviour ends.

*Proved* (`FalloutStreamsProofs`, any threads, addresses, archives, entries, sizes and
conditions): `StreamsInv` is inductive (`StreamsCorrect`) and gives `ServedRight`
(`ServedRightly`). `ServedRight` needs all of it. `WritersMatch` says what a thread knows
of a slot it writes or reads alone, so `SlotsMatch` survives the stores of an insertion;
with it an undisturbed lookup ends with the archive of its stream. `OverridesMatch` ties
the entry's position to the game's. `ReadersMatch` carries both to the read, and says
that what the bridge holds is still what the cache holds when `HookedInflate` takes it:
what the cache has recorded is never replaced. The proof treats the steps of a reader
that touch no shared slot through one lemma (`Turned`).

## 4. What rests on what

*Proved for all instances:* the safety properties of every module (but for the ones that
are violated), named above, with the refinement `StoreSpec` of `CacheFile`, from the
`ASSUME`s of those modules (finite sets, natural sizes).

*Model-checked only:* all liveness. Liveness under fairness, `ENABLED`, and results by
induction over data are outside of the proof system and stay with TLC.

*Bounds.* `MaxEvents` bounds outside events (worker, gate, source table),
`MaxTime` the clock, `Chunks`, `Capacity` and `Size` the data, `MaxFailures` the
failures of a Fallout 4 session, `room` and `opens` the streams of one. They only remove
behaviours after the bound; every run is exhaustive up to it.

*Assumptions made in the models.*
* Atomics are sequentially consistent and a compare-exchange does not fail
  spuriously. On the only target, x86-64, the acquire and release operations
  used give what the models need; the relaxed loads of the sequence lock rely on
  the compiler keeping their order.
* The game's decompressor, its own reads and its cursor query are single steps.
* Backing streams of mapped archives live as long as the process
  (`Hooks.cpp:203-205`).
* Deleting a file is durable at once; several game processes on one cache folder
  are excluded by the file lock.
* An exception does not kill the worker thread.
* Fallout 4: sources live as long as the game and each archive has one; a stream is
  used by one thread at a time; an overridden stream is not sought (the comment at
  `Fallout4/src/Hooks.cpp:3254-3255` says so of the chunk factory's callers); thread
  ids do not share a bridge slot; the settings are the defaults, except those that
  the sessions and conditions name.

*Disagreements seen that no run states.*
* A failed start-up scan leaves `m_totalCacheBytes` at 0, so files can grow past
  the documented cap until a scan succeeds (`Skyrim/README.md:17-18`,
  `DecompCache.cpp:2537`). `NoFaults` excludes it from `HardCap`.
* A rollback after a failed header flush (`DecompCache.cpp:719-722`) can lose
  entries committed earlier if power fails inside it (`atRisk`).
* The comment at `Hooks.cpp:1595-1597` covers a reader that found the state in
  service; one that found a retired state is not waited for (`CloseWaits` says
  exactly what holds).
* When an identity is resolved late, the first chunk already delivered is not
  captured (`Skyrim/AUDIT.md:84-86`, `Hooks.cpp:1610-1616`).
* A clone whose state cannot be published (`Hooks.cpp:1417-1440`) is still handed
  out.
* "Single-flight the refresh" (`Hooks.cpp:291-292`) holds up to the publication of
  the answer: a reader that probed long before may publish an earlier deadline
  after it, and the next refresh then comes sooner than the backoff.
* A load of the player's between arming and task makes the dispatched load begin
  ungated (`main.cpp:593`).
* A clone whose native seek and whose state both fail is handed out with a cursor that
  is not the one it was cloned at (`Hooks.cpp:1434-1447`).

Of Fallout 4 (paths under `Fallout4/src/`):
* "A concurrent lookup that sees key==k must already see archive+source"
  (`Hooks.cpp:183`) is not so when two streams share a slot: the archive of the one is
  stored while key and source are still those of the other. Without `raced` TLC finds
  a read of `ServedRight` delivering a byte of the wrong archive in 24 steps. Addresses
  64 KB apart share a slot.
* A cache that is stable at start-up is unmapped by the texture build
  (`DecompCache.cpp:404-408`) though "every ArchiveCache::view is permanent"
  (`DecompCache.cpp:655`); `ServedAlive` excludes it.
* The running total of a flush is not refreshed when a replaced file cannot be mapped
  (`DecompCache.cpp:843-849`), so the limit may be passed; `CapStep` excludes it.
* Eviction and a failed rename never lower `m_totalCacheBytes`.
* An entry recorded while its own flush is under way is written twice.
* Results of `WriteFile` are ignored, and the checksum covers 64 bytes only
  (`DecompCache.cpp:76-86`), so a short write may be served after a restart.
* A failed rename loses the entries of the archive for the session, although the
  old file may still be there.
* Accumulators are trimmed before their mutex is taken (`Hooks.cpp:2955-2969`), though
  any thread may be appending to one.
* `m_ready` is set at start-up only: the first session records, but serves nothing.
* `bridge->sequence` cannot detect a collision: the reader takes its expected value
  just before it compares (`Hooks.cpp:2123`).

## 5. Not modelled

Settings, BSA parsing, PE section selection, statistics formatting, plugin
metadata and the measurement scripts are sequential start-up or output code.
Process exit with its static destructors is outside: which threads still run
then is decided by the loader. The per-entry busy state of lazy checksums, the
arithmetic of the policies and the capture budget are planned.

Of the Fallout 4 plugin: the texture streamer hooks, the inner reads of sources and the
fingerprint index of `HookedInflate` with its sidecar file, and the scans that find the
engine's functions; what they must preserve depends on engine objects that only the
binary shows. `BuildAllCache` and the shutdown request of the cache are never called.

## 6. Plan

Done, in order of importance: `CacheBudget` with proofs, `CacheFile` with
`AtomicStore` and proofs, `WarmWorker` with proofs, `CompressedStream` with proofs, `LoadGate` with proofs,
`PlainRead` with proofs, `FalloutCache` with proofs, `FalloutStreams` with proofs.

Next:

1. `EntryVerification`: unknown, busy and valid entries, and readers that wait for the
   verdict of the one that computes the checksum.
2. `CaptureBudget`: the compare-exchange loop, with a proof for any number of
   threads.
3. `Policies`: limit, admission, layout, cursor and format arithmetic at their
   word widths against reference definitions.
4. The bridge between `HookedDoRead` and `HookedInflate` with thread ids that share a
   slot, once the stream table of `FalloutStreams` can be left out of it.

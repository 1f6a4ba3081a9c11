# Formal verification of grpc-file-server

A gRPC server that receives files over a bidirectional stream, keeps them on
disk under an LRU index with a time to live, and serves them over another
stream, with the help of a cache in RAM. One Node process; what makes it hard is
not threads but everything that happens between two awaits: file-system calls of
the libuv pool, timers, intervals, RxJS subscriptions, other clients, and the
death of the process between any two of these.

Paths below are relative to `src/` of the repository copy (`src/app/...` stands
for `src/src/app/...` in `PROJECT.json`).

## 1. Inventory

| Component | State | Operations | Status |
|---|---|---|---|
| `Cache` (`src/helpers/cache.ts`) | `data` (lru-cache: order, sizes), `timers` | set, get, has, delete, clear, a timer per key, event `remove` | `Cache`, `LruCache` |
| `DiskStorage` (`src/storages/disk.storage.ts`) | `files` (a Cache), `totalMemorySize`, files on disk, a write stream per `save()` | save, commitStream, load, loadChunks, delete, removeFile, garbageCollection, indexHddFiles; event `new_item` | `DiskStorage` (implements `FileStore`) |
| `AppService`, upload half (`src/app/app.service.ts`) | `uploadStreams`, a Subject and a timer per upload | register, chunk, complete, timeout, garbageCollection | `UploadService` |
| `AppService`, download half | `getStreams`, a timer per read | getFileData, emitFileChunks, garbageCollection, listener of `new_item` | `ReadThrough` |
| `MemoryStorage` (`src/storages/memory.storage.ts`) | `files` (a Cache), `memory_size` | load, loadChunks, save, delete, removeItem | `ReadThrough` |
| `AppController` | a response Subject per call | Upload, GetFile, half-close | `UploadService`, `UploadClient`, `DownloadClient` |
| Client helpers (`src/helpers/uploadFile.ts`, `downloadFile.ts`, `examples/`) | messages received, half-closed or not | write, listen, end, resolve | `UploadClient`, `DownloadClient` |
| Start-up and health (`main.ts`, `InitTrackerService`, `healthz`) | modules in initialisation, shutdown signal | onModuleInit, check, shutdown | `Startup` |
| `StorageAbstract` | - | getReadChunkSize, convertToInt, fileNoExistsResponse (pure) | the chunk size in `ReadThrough` |
| Configuration (`config.ts`, `parseSize`, `yn`) | - | pure conversions | its limits, as constants |
| Metrics, gRPC options, tests | - | - | not modelled: no behaviour of the server's own |

How they interact. `AppController` hands every message of a call to `AppService`.
An upload becomes a Subject that is piped through a timer into
`DiskStorage.save()`; its emissions are the acknowledgements, its completion is
`saved`. `save()` writes `NAME.bin.tmp` and `NAME.metadata.tmp`, renames both, puts
the name in its index and emits `new_item`, on which `AppService` deletes the copy
in `MemoryStorage`. A `remove` event of the index (timer, eviction, delete) unlinks
the two files. A download asks RAM, then the disk, for the data of the file and in
a second message for its chunks; a read from the disk also feeds
`MemoryStorage.save()`. Three intervals run the garbage collections. A probe asks
the health service, which asks the tracker whether `DiskStorage` has finished; a
signal makes the process wait 30 s, answering NOT_SERVING, before it stops.

What is hard, and what makes each component correct:

- **Cache**: the timer of an overwritten or rejected value, and what `setTimeout` makes
  of a ttl it cannot wait; which keys leave when room is made; for which keys `remove`
  is emitted, because files are unlinked on it. Correct means: a value lives exactly as
  long as its ttl unless something else takes it.
- **DiskStorage**: two uploads of one name share one temporary path, and so does a retry
  with what is left of the upload that failed; a write may fail, and the commit goes on;
  the two renames and the two unlinks are not atomic, with each other, with the index, or against a
  crash; unlinks started for an old version run after a new one is in place; the
  index is rebuilt while requests are served. Correct means: what is visible is one
  whole upload (or, after a failed write, the part the disk took of it), success means visible, index and disk agree, nothing is forgotten.
- **AppService, uploads**: timer, completion, collection and disk race to end an
  upload; request ids may be used twice; chunks arrive while the stream is being
  opened. Correct means: one outcome, what is saved is what was sent, every upload
  settles, no young entry leaks.
- **AppService, downloads, and MemoryStorage**: the data and the chunks of one
  download come from two looks at a cache and a disk that change in between, the data
  themselves from a `stat` and a `readFile` of two files that are renamed one by one; a
  slow read saves an old version in RAM after the invalidation. Correct means: the bytes
  belong to the announced data, RAM is not stale, every download ends, wherever no commit
  of the name overlaps and none was cut short.
- **Start-up and health**: requests and probes are served from the moment the port is
  open, which is before the index is built; the process may die or be stopped at any
  point, and the next one finds what it left. Correct means: SERVING implies indexed,
  and is reached.
- **Client helpers**: answers, half-close, timers and collections cross on the wire.
  Correct means: the helper resolves, and what it was told is what happened.

`PROJECT.json` lists the hazards one by one with their lines, and which property
watches each. Several of them are what the code does: a property that forbids them would
be false, so they are listed without one, and their note says which property makes an
exception for them.

## 2. Modules

| Module | Models | Extends |
|---|---|---|
| `Cache` | the value of a Cache and its operations as operators; lru-cache itself from the options `cache.ts` gives it | - |
| `LruCache` | the Cache class under arbitrary callers, with its timeouts in real time | `Cache` |
| `FileStore` | what a storage of files promises: a name shows nothing or one upload, in one step, whole unless the disk took no more of it, and what was replaced never comes back | - |
| `DiskStorage` | `disk.storage.ts` at the level of file-system calls, with crashes | `Cache`; `FileStore` by `INSTANCE ... WITH` |
| `Startup` | one process after the other: port, onModuleInit, tracker, health check, shutdown | `DiskStorage` |
| `UploadService` | the upload half of `AppService` and `AppController.upload`, with `save()` seen from outside | - |
| `UploadClient` | calls of `uploadFile` with messages under way, beside arbitrary sessions | `UploadService` |
| `ReadThrough` | the download half of `AppService` with `MemoryStorage`, over the renames, unlinks, reads and deaths of the disk, by version | `Cache` |
| `DownloadClient` | calls of `downloadFile` with messages under way, beside arbitrary downloads | `ReadThrough` |
| `DiskStorageProofs` | theorem: what is visible is whole | `DiskStorage`, `TLAPS` |
| `DiskReaderProofs` | theorems: what the callers of the storage are given | `DiskStorageProofs` |
| `DiskStoreProofs` | theorem: the refinement of `FileStore` | `DiskReaderProofs` |
| `DiskIndexProofs` | theorems: index and disk agree, in a server process as well | `Startup`, `DiskStoreProofs`, `CacheProofs` |
| `CacheProofs` | lemmas on sums and on the operators of `Cache` | `Cache`, `TLAPS` |
| `LruCacheProofs` | theorems: capacity, order, timeouts | `LruCache`, `CacheProofs` |
| `UploadServiceProofs` | theorems: uploads, and what `uploadFile` is told | `UploadClient`, `TLAPS` |
| `ReadThroughProofs` | theorems: downloads, RAM, and what `downloadFile` resolves to | `DownloadClient`, `CacheProofs` |
| `MC...` | model values and symmetry for TLC | their component |

A composed module keeps the variables and actions of the module it extends and adds its
own: a step is a step of the one, with the other's reaction to it in the same step
(`Relay` puts the answers of a server step on the wire, `Death /\ NewProcess` loses the
tracker with the process), or a step of its own with the other's variables unchanged.

### Cache and LruCache

A cache value is `[lru, size, timers]`. `CacheSet` follows `set`: the timer is
replaced first, whatever lru-cache does next; a size of 0 makes lru-cache throw, a
size above the maximum removes the old value of the key, anything else evicts from
the least recently used end until it fits. `SetRemoves` and `DeleteRemoves` are the
keys `remove` is emitted for.

`LruCache` adds time. `timeouts` are all timeouts Node has armed, `deadline` is when the
one in `this.timers` is due, `Delay` is what `setTimeout` makes of
`Math.min(ttl, maxTtl) * 1000` (nothing below 1, nor above 2^31 - 1 ms), `Cleared` is
`clearTimeout`. Time stands still while a timeout is due, but calls may come before it
runs. `usedAt` and `promised` are ghosts: the last use of a key, and how long its value
may live.

### DiskStorage

The disk is `file` and `tmp` (inode under the final and the temporary path, by name and
part), and `content` (bytes of an inode). A byte is the `save()` call that wrote it, an
inode is named after the call that created it. An action is what runs between two
awaits, or one file-system call; the members of a `Promise.all` are separate actions.

| Action | Code |
|---|---|
| `Begin`, `WriteMetadata`, `OpenTmp`, `Chunk`, `Flush` | `initStream`, `saveMetadata`, `createWriteStream`, `next`, the stream's own write |
| `InitFails` | `initStream` rejects (`fileDir`, the write of the metadata): the chunks end in an error |
| `Abort` | the `error` handler: the error is answered first, `close()` still opens and flushes, so `OpenTmp` and `Flush` go on |
| `Complete`, `Rename(s, p)`, `Publish` | `stream.end`, the two renames of `commitStream`, `files.set` with `new_item` and the answer |
| `Expire`, `Delete`, `Unlink(k, p)` | the timer of an entry, `delete`, the unlinks of `removeFile` |
| `TmpExpires`, `GcList`, `GcStat`, `GcUnlink` | `garbageCollection`: age, readdir, the stat of one file (which gives up the traversal when the file is gone), the unlinks it waits for |
| `LoadStart/Stat/Metadata/Crash`, `ReadStart/Open/Chunk` | `load`, `loadChunks`; `LoadCrash` is the unhandled rejection of `readFile` |
| `WriteFails`, `Exit` | a write of the stream fails (the disk is full): what is buffered is dropped (`torn`), the callback of `stream.end` runs with an error that it ignores, and the `error` event, for which nobody listens, ends the process later (`exiting`, then `Exit`) |
| `OpenFails` | the open fails: its `error` event comes before anything is committed, the process exits |
| `Crash`, `IndexStat`, `IndexFile` | death and restart; `indexHddFiles`, while requests are served |

Ghosts: `completed` (uploads whose chunks all arrived), `disturbed` (names whose commit
was cut short or overtaken by an unlink or by indexing: for these the index is
allowed to be wrong until the next commit), the reply `"lost"` (the process died).

**A write that fails.** Between `WriteFails` and `Exit` everything goes on. `Flushed` is true
of a torn stream, because `stream.end(cb)` calls back on an error as well (Node 22, the
version of the Dockerfile): so `Complete`, both renames, `Publish` and even the answer
`saved` may come before the process dies, and the next process indexes a file that ends
where the write did. `Whole` says so: the bytes of an upload are all that were sent, or all
that were written of one that is torn. `FileStore` has the same exception (`CutShort`), and
nothing weaker: a torn file is a prefix of one upload, never a mixture, and an upload that
has been visible whole is never cut.

**When clients begin an upload** is no rule of the storage; `Overlap` says what is assumed:

- `"any"`: nothing.
- `"answered"`: a client begins an upload of a name when all earlier ones of that name have
  been answered, with `saved` or with an error. That is all a client can see to. It is not
  enough: an error is answered before the stream is closed, and the retry opens the
  inode that the old stream still opens or writes. Run `disk_overlap` shows `WholeFiles`
  violated under this assumption.
- `"never"`: an upload of a name begins when no file-system call of an earlier one is left
  to run (`Busy`, `Quiet`). This is an assumption about timing (a client that waits a
  while after an error, on a disk that answers meanwhile), not something the server
  enforces or a client can be sure of. The passing runs and the proofs about the disk make
  it, and what they show holds only under it.

The write of the metadata and the opening of the data follow each other as in
`initStream`; a buffered chunk may be written at any time until the flush of `end`.

`Next` is `Requests`, `Work`, `Indexing` and `Death`, so that `Startup` can guard each.

### Startup

A process begins with its port open and nothing tracked. `ModuleInit` is
`trackModuleInit`, `ModuleFinished` is `trackModuleFinished` after `await indexHddFiles()`,
between them the `Indexing` of `DiskStorage` runs, and `Requests` and `Work` at any
time. `Signal` sets `shutdownSignal`; `Close` is the end of the 30 seconds and a
`Restart`; `Death` of `DiskStorage` also forgets what was tracked. `Serving` is what
`check` answers. Between the opening of the port and `trackModuleInit` it is true of an
empty tracker, with an empty index: the property is about what comes after.

### UploadService

Handlers run to their end without an await, so each is one action. `piped` is the set
of uploads whose `takeUntil(timer)` pipe is alive, `subject` the state of the Subject,
`save` the phase of `DiskStorage.save()` as its caller sees it. `Accept` is `concatMap`:
the first chunk starts `initStream`, later ones are held back until `InitStream`
passes them all on. The timer answers twice (`ABORTED` from `catchError`, `INTERNAL`
from the save). `GarbageCollection` has the comparison of the code: it completes the
uploads that are *younger* than `upload_register_max_time`.

### UploadClient

`uploadFile` writes the registration, all chunks and the completion at once; `plan` is
the number of its chunks, and `Handle` is the server taking the next message of the
call, at any time. `messages` are outcomes under way, `told` those received: "saved", or
an error, one of which says "register first". At the first the helper half-closes
(`Ends`, `HelperHalfCloses`), and it resolves when the server has closed its side and all
has arrived. Acknowledgements are left out, the helper does not look at them. Sessions
outside `Helper` are as in `UploadService`, and may use the helper's id.

### ReadThrough

A version is one upload, numbered by its commit. `visible` holds the version of either file
of a name, and every file-system call is a step of its own: the two renames of a commit
(`Rename`, each of which may fail), the two unlinks of a removal (`DiskUnlink`), the `stat` and
the `readFile` of a load (`LoadStat`, `LoadMetadata`), the open of a read (`Open`). When both
renames are done `Announce` enters the name in the index and emits `new_item`, or `Refuse`
ends the commit of an empty file, which `files.set` rejects after it is in place. `Restart`
is the death of the process at any time, between the two renames as well, with the next
process after it; `LoadCrash` is the death by the unhandled rejection of `readFile`. So a name
may show the data of one version beside the metadata of another (`Mixed`), and be served so,
until it is uploaded again.

`copy` says of which version the content and the metadata in RAM are. Two ghosts say where
the code promises nothing. `cut` are the names whose last commit did not succeed: a rename
failed, the index refused the file, or the process died and left two versions. `late` are
the downloads that a commit of their name overlapped, that began while the name was being
committed or was cut, or that were given a copy made by such a download. For all others data
and metadata are of one version, wherever the two came from.

What `ReadThrough` assumes of the disk: the commits of a name follow each other, a version
that is open can be read to its end (`ReadersGetWhole`), and data and metadata are each of a
committed upload (`LoadsAnswerCommitted`). The bytes of a version are its length, cut short by
a failed write or not.

`ReadChunkSize` is `getReadChunkSize`: up to 16 bytes (`Minimum`) the configured size is
taken.

### DownloadClient

`downloadFile` asks for the data, and when `completed_data` has come after a `file` that
exists, for the chunks with a size of 1024 (`HelperChunk`); it half-closes at
`completed_chunks` or when the file does not exist. `Responses` are the messages of one
server step, none once the response subject has completed. An error is logged and
leaves the call open, as in the code. When the server dies, what it has sent still arrives;
the broken call stands as an error message after it, since nobody listens to the call's own
`error` event and the helper never resolves either. The helper of `examples/upload-download.js` looks
for `exists` in `completed_data`, which has no such field, and takes every file for
missing: that is the mutant `EndsAtData`.

## 3. Runs

Passing runs (states are distinct states; two workers need between half a minute and
three and a half minutes for each):

| Run | Bounds | States | Shows |
|---|---|---|---|
| `lru_cache` | 3 keys, capacity 4, sizes 0, 1, 3, 5, ttls -1, 1 and one beyond the longest delay, five calls, 3 s | 232,433 | capacity, a value lives its ttl and no longer, recency order, exact `remove` events, minimal eviction |
| `disk_crash` | 1 name, 2 uploads of up to 2 bytes, 1 load, 1 failing write, open or crash | 2,625,022 | visible files are whole, or cut where a write failed, and committed; index and disk agree; success means visible; `FileStore` is implemented |
| `disk_eviction` | 2 names, 3 uploads, capacity 3, 1 read | 3,184,578 | settled files of the index fit; a download is one whole upload |
| `startup` | 1 name, 2 uploads of up to 1 byte, one failing write, death or signal, fairness | 436,123 | SERVING means indexed and is reached; every upload is answered, temporary data are collected, indexed files leave the disk |
| `upload` | 2 sessions, 2 ids, 2 chunks | 314,182 | no handler meets a closed subject, one outcome, saved is what was sent, acknowledgements precede `saved` |
| `upload_client` | a helper and a session, 2 ids, 1 chunk, fairness | 214,303 | the helper resolves and is told the truth; every upload settles, entries leave the Map |
| `read` | a helper and a download, 1 name, 2 versions, any number of deaths | 4,334,094 | old copies come from late downloads only, chunks match the announced data, `memory_size` covers RAM, a helper that resolves has its file |
| `download_client` | the same with 1 version, empty or not, fairness | 58,600 | downloads end, registrations leave, the helper resolves or is told an error |

Runs that refute what the repository says (`findings` in `PROJECT.json`):

| Run | Claim | What happens |
|---|---|---|
| `disk_overlap` | commit renames a file whose chunks are all saved | a retry after an error: the aborted upload still opens the shared inode and truncates it, then the commit of the retry makes it visible |
| `disk_orphan` | "Auto remove old files" | the index refuses a file after it got its final name (here: the first chunk is counted twice), nothing ever removes it |
| `upload_collected` | the downloaded file is all chunks uploaded | the collection completes a running upload, which is committed and answered as saved |
| `read_truncated` | the second download is the whole file | RAM holds the first chunk only |

**Why the bounds are enough.** Two uploads of one name are what every race of the
storage needs: the one that left something behind and the one that meets it; a third
upload and a second name are there for eviction. Two bytes distinguish a partial file
from a whole one and two chunks the first from the rest. One crash reaches every
pair of steps, and a second start only repeats the first; a failing write takes the place
of the crash, as it ends in one; in `startup` the second
process is the one whose start-up is watched, and its clients may upload while it
indexes. Two sessions and two ids give all ways of sharing an id, of a helper as well.
Two versions are the old and the new one; the second is needed only by the safety claims
of `read`. Sizes include 0 (lru-cache throws), one that fits, one that evicts, one that
never fits. Three seconds pass in `lru_cache`: a timeout and one that was armed later
both come due, maxTtl being 2 and the longest delay 3. Symmetry is used in the runs
without liveness only, over keys, uploads, sessions and ids, none of which the
specifications order or name.

`CHECK_DEADLOCK FALSE` stands in all runs: calls, uploads, chunks, versions, downloads and
time are bounded, so the models do come to rest.

**Fairness.** Weak fairness of what runs on its own: file-system calls return
(`FileStep`, `Removal`, `LoadStat`, `LoadMetadata`, ...; the calls of one upload follow each other, and
so do the two unlinks of a removal, so fairness of each group is fairness of each call in
it), armed timers fire (`Expire`, `RamExpire`, `Abort` and `Timeout` as the upload timer,
`ReadFails` as the download timer), intervals come by (`GarbageCollection`, `GcList` and
the steps of its traversal), start-up goes on (`ModuleInit`, `IndexStat`, `IndexFile`,
`ModuleFinished`), a process that was told to stop stops (`Close`), an error that nobody catches ends the process (`Exit`,
`LoadCrash`), and the messages of a
helper are handled and delivered (`Handle`, `Deliver`, `HalfClose`). No client owes a
call or a message that it has not written, nothing else obliges the process to die, and no
upload to grow old. In `EntriesLeave` and `StreamsLeave` the exception for old entries is
the inverted comparison: an entry that outlives the maximum before the interval comes by
is never collected.

## 4. Proofs

Every invariant and every action property that a passing run checks is also a theorem,
for every value of the constants: any number of names, uploads, sessions, downloads,
chunks, versions, calls and deaths. They rest on the named assumptions of the modules and on nothing
else: the names are finitely many (`KeyAssumption`), limits are numbers, `Null` is no
upload (`DiskAssumption`, `UploadAssumption`, `ReadAssumption`), the configured maximum
ttl is one that `setTimeout` can wait (`LruAssumption`), helpers are sessions
(`HelperAssumption`). The theorems about `DiskStorage` and `Startup` also assume
`Overlap = "never"`, without which the code does not have these properties (run
`disk_overlap`); `ProcessesUseDisk`, that a server is a `DiskStorage`, does not need it.

| Module | Theorems | Of the runs |
|---|---|---|
| `DiskStorageProofs` | `FilesAreWhole` | `disk_crash` |
| `DiskReaderProofs` | `SuccessIsVisible`, `LoadsAnswerCommitted`, `ReadersGetWhole` | `disk_crash`, `disk_eviction` |
| `DiskStoreProofs` | `StoreImplemented` | `disk_crash` |
| `DiskIndexProofs` | `TypesKept`, `EntriesHaveFiles`, `FilesHaveEntries`, `FilesFit`; `ServingKnowsFiles`, `ProcessesUseDisk` | `disk_crash`, `disk_eviction`, `startup` |
| `LruCacheProofs` | `TypesKept`, `CapacityKept`, `NothingOutlivesItsTtl`, `NothingExpiresEarly`, `LeastRecentFirst`, `RemovesAreExact`, `EvictionIsMinimal` | `lru_cache` |
| `UploadServiceProofs` | `TypeCorrect`, `EntriesAreOpen`, `SingleOutcome`, `AcksPrecedeSaved`, `SavedAsSent`, `RegisteredStaysKnown`; `HelpersToldTruth`, `HelpersAreClients` | `upload`, `upload_client` |
| `ReadThroughProofs` | `TypesKept`, `CopiesAreFresh`, `ChunksAreOfData`, `MemorySizeSuffices`; `ResolvedIsWhole`, `HelpersAreClients` | `read` |

`CacheProofs` holds the lemmas about the operators of `Cache` that three of these need.

**The disk** (`DiskStorageProofs`). `WholeFiles` is not inductive: a rename makes visible
whatever inode the temporary path leads to. `IInv` adds who may write what: an inode
belongs to one name (`Inodes`), a name has one upload with work left (`Exclusion`), and
while that one writes, its inode is hidden and holds exactly the bytes it has written
(`WritersHidden`), all that were sent when its commit begins unless it is torn. Aborted uploads are the reason for the form of `Exclusion`: they keep
flushing, and their inode is reused. Any number of crashes is covered, since a crash
only ends all writers.

**Readers** (`DiskReaderProofs`). A reader holds an inode while its name is replaced,
removed and uploaded again. An inode that has once been visible is `Sealed`: nobody
writes it and no temporary path leads to it, so what a download has read of it is a
prefix of one upload for ever. Of a running commit `CommitInv` says that the upload
is complete, that the metadata it has still to rename are its own, and that what it has
renamed is in place or was removed. That both files are this upload's at the moment of
success, and that `load` answers what was committed, follow from it.

**The refinement** (`DiskStoreProofs`). The mapping names the upload that a reader of a
name finds. Several completed uploads may have written one inode, because what a crash
or an abort left behind is opened again; of those that have renamed their data
(`Retired`) each has its own, so the upload shown is determined and stays the same for
as long as the file does. Each file-system call is then an upload becoming visible, a
file disappearing, or a stutter.

**The index** (`DiskIndexProofs`). Index and disk agree only outside four windows: a
commit with work left, the two tasks between a removal and its unlinks, the measuring of
a file at start-up before it is entered, and a name whose commit was cut short. The
invariant says what holds inside each: what a commit has renamed is still there
(`Standing`), two files of a name are a pair (`Pairs`), an entry covers its files
(`Entries`), the file that was measured is the one that will be entered (`Scanned`), and
data without metadata or without an entry were refused for their size or are about to be
unlinked (`Halves`, `Left`). That the settled files fit is a sum: the capacity of the
cache and an entry that is never smaller than its file. In `Startup` one more conjunct is
enough: a module that is tracked as finished has indexed every name (`FinishedInv`).

**Sums** (`CacheProofs`). `MapThenSumSet` and `SumFunctionOnSet` are folds, functions that are
recursive on the subsets of a set. That such a function exists, agrees with that of any
set around it and does not depend on the order is shown by a smallest subset for which it
would fail, which needs no induction theorem. On this rest what the sizes of a
cache add up to after a set, an eviction or a deletion, and the bytes of a download.

**The cache** (`LruCacheProofs`). `LivesItsTtl` speaks of what a timeout finds when it
fires. The invariant says which timeouts are armed: one for each key in `this.timers`, due
when the last value of the key was promised to live until (`Timeouts`); and what is in
the map has one that is not overdue (`Awaited`). The list of the map has every key once
and in the order of `usedAt`, and taking keys out of a list keeps its order.

**Uploads** (`UploadServiceProofs`). The invariant says that an entry of the Map is under
its own session's id (`OwnEntries`), that an upload whose pipe is alive is registered,
open and not yet ended (`Alive`), that it is answered when it is settled and not before
(`SettledAnswers`), and that a session alone with its id owns its entry while the pipe is
alive (`Sole`). `EntriesAreOpen` needs no such assumption about ids: with a shared id, the
later registration replaces the entry and the timer of the earlier one may delete it, but
neither leaves a closed subject in the Map. For `uploadFile` the invariant adds that what
was received or is under way is the outcome (`Heard`) and that completion is asked for
after all chunks (`Follows`).

**Downloads** (`ReadThroughProofs`). A name is settled when it is not being committed and its
last commit was not cut (`~Unsettled`). Both files of a settled name, where they are there,
are of the version that was announced last; of a running commit, what has been renamed is of
the version being committed, or was removed (`Disk`). A death in the middle either leaves two
versions, and the name is cut, or leaves one, which the next process serves. A commit makes
the downloads of its name late, so the name of one that is not late stays settled until it is
over, and each of its looks at RAM and disk finds the announced version (`Faithful`); what
such a download has saved in RAM is of that version (`Copies`), and `new_item` deletes it
before the next one is announced. For
`downloadFile` the claim is proved of the log of a call, what was answered so far whether
received or not: while the call is open its bytes are those sent, a file is announced
first or never, and the chunks are complete only when the download is done
(`Consistent`); once it is closed nothing is added (`Finished`), and a helper closes only
after the end of the chunks or after a first answer that there is no file.

**Compositions.** `HelpersAreClients` and `ProcessesUseDisk` say that the steps of a
composition are steps of the component or leave it alone, so that its theorems hold with
the helpers and across processes; run `read` checks the claims of `ReadThrough` under
`ClientSpec`, to which they carry over this way.

The index invariant, the largest one, was also checked by TLC, in `disk_crash` and
`disk_eviction`, and so were those of `DiskStorageProofs` and `UploadServiceProofs`.

**Only model-checked.** The liveness properties (`startup`, `upload_client`,
`download_client`), since the prover knows neither fairness nor ENABLED; and the four
claims that the code refutes, whose counterexamples TLC finds.

## 5. What the models leave out

- Contents, metadata and file paths: a file is who wrote it. A `fileDir` that rejects is
  `InitFails`, `createDir` at start-up is assumed to succeed; a failing `rename`, `stat` or
  `unlink` means the path is gone. A read of the disk that fails is in `ReadThrough`
  (`ReadFails`), not in `DiskStorage`.
- Delays, except in `LruCache`: elsewhere a timer may fire at any time. The age limit of a
  temporary file is another exception, it needs the upload timer (60 s) to be shorter than
  the limit (120 s). That `MemoryStorage` takes its maximum ttl from the disk's configuration
  (`memory.storage.ts:40`) and that a restart gives every file its whole ttl again
  (`disk.storage.ts:499`) therefore do not show.
- One traversal of the garbage collection runs at a time; the interval of 60 s would have
  to pass during one for two to overlap.
- Metrics and logs. `totalMemorySize` is kept, as the code computes it, and drifts: the first
  chunk is added once and subtracted twice, aborted and overwritten uploads are never
  subtracted. It feeds a gauge only, whatever its comment ("Sum of all files in bytes",
  `disk.storage.ts:33`) says. `DiskStorage.exists` looks for a path without `.bin` and
  is never called.
- One call carries one upload or one download, and a download asks for its chunks once.
- In `ReadThrough` the next process has indexed its directory at once, all of it or a part;
  indexing while requests are served is in `DiskStorage` and `Startup`. The death of the
  process is not in `UploadService`: with it go its variables and all its clients' calls. There
  `saved` speaks of the chunks that were handed to the stream; that a failed write may cut the
  file, and `saved` be answered before the process dies, is in `DiskStorage`.
- After an error `response.next(err)` also sends the raw error (`app.service.ts:322`), which
  has none of the fields of a response; the message with the error before it is modelled.
- In `Startup` a signal is counted as one of the deaths of the bound, and the metrics
  server, which opens after `app.init`, is left out.
- Conversions of the environment (`parseSize`, `yn`, `parseInt`): pure, run once, and about
  the spelling of strings; the constants range over what they return.
- Known and not claimed: after a failed write a truncated file gets its final name and is
  served by the next process; after a commit that was cut the metadata of one upload stay
  beside the data of another; a `.metadata.tmp` without its `.bin.tmp` is never collected;
  `load` answers an error where its comment promises "not exists"; after a race of a read
  with an upload the old chunk stays in RAM until its timer (`FreshUnlessLate` says exactly
  when); the unlink of the garbage collection can take a temporary file that a new upload
  has just opened, whose commit then fails and is answered with an error; `downloadFile`
  never resolves after an error (`DownloadResolves` counts the error as an answer); until
  `trackModuleInit` the health check answers SERVING (`ServingIsIndexed` begins there).

## 6. Plan

1. Done: the components above, their composition with start-up and with the client
   helpers, liveness under fairness.
2. Done: every invariant and action property of the passing runs proved, with the
   refinement of `FileStore`.
3. Open: that the disk `ReadThrough` assumes is implemented by `DiskStorage`, as a second
   refinement, which needs the versions of a name beside its uploads; an abstract
   read-through store that `ReadThrough` implements for downloads that are not late;
   theorems about the storage under `Overlap = "any"`, for the names that nobody uploads
   twice at a time; two names under garbage collection with fairness, so that a
   traversal that is given up has something left to look at; repeated requests for chunks in
   one call.

# TLA+ specifications of nzbget

nzbget downloads articles from news servers, joins them to files, and repairs
and unpacks the result. This directory models its concurrent core: how
download threads share the connections of the news servers; how the download
queue is edited while its files are being downloaded; how articles are kept in
memory and written to disk; how queue and history survive a crash; how a
download gets through post-processing; how feeds and URLs bring new downloads
in; and how duplicates replace each other.

    tlc -workers 2 -config PoolEdits.cfg MCArticleDownloader   # a run
    tlapm ArticleCacheProofs.tla                               # a module of proofs

`PROJECT.json` lists components, runs, mutants, hazards and theorems, and maps
every definition to the source lines it stands for.

## 1. Inventory

All paths are relative to `src/daemon/`.

| Component | State | Operations | Interacts with |
|---|---|---|---|
| Server pool (`nntp/ServerPool.cpp`) | servers with level, group, optional flag and block time; connections with in-use flag; free count per level; generation | `InitConnections`, `GetConnection`, `FreeConnection`, `BlockServer`, `CloseUnusedConnections`, `Changed` | called by downloaders, the coordinator, remote control, scheduler |
| Article downloader (`nntp/ArticleDownloader.cpp`) | one thread per article: its connection, level, failed servers, retries, status | `Run`, `Download`, `Stop` | pool; observed by the queue coordinator |
| Queue coordinator (`queue/QueueCoordinator.cpp`) | active downloads; the queue's mutex protects the download queue | `GetNextArticle`, `StartArticleDownload`, `ArticleCompleted`, `CheckHealth`, `DeleteQueueEntry`, `MergeQueueEntries`, `SplitQueueEntries`, `ResetHangingDownloads` | pool, downloaders, disk state, post-processor |
| Download queue (`queue/DownloadInfo.cpp`, `queue/NzbFile.cpp`) | groups, files, articles; more than twenty counters per group, kept incrementally | pausing, booking of completed and deleted files, recount, health | everything |
| Queue editor (`queue/QueueEditor.cpp`) | none | pause, delete, park, move, priority, merge, split, sort, ... | queue coordinator |
| Article writer and cache (`nntp/ArticleWriter.cpp`) | cached segments, allocated bytes, flush state, `FileBusy` | write, flush, join parts | downloaders, coordinator |
| Disk state (`queue/DiskState.cpp`) | queue, history, progress, file states and the cache flag on disk | saving through a new file, loading, repair after a crash | coordinator, cache, feeds |
| Pre-/post-processor (`postprocess/PrePostProcessor.cpp`) | active jobs and their stages, count of queued jobs | reaction to queue events, starting and ending of jobs | queue, history, controllers |
| Stages (`postprocess/Repair.cpp`, `ParChecker.cpp`, `Rename.cpp`, `Unpack.cpp`, `Cleanup.cpp`, `extension/PostScript.cpp`) | a thread per job, requests for more par-files | work on the files of a download, report a status | post-processor, queue |
| Direct unpack (`postprocess/DirectUnpack.cpp`) | a thread per group, waiting for volumes | unpack while downloading | queue events, post-processor |
| Queue scripts (`extension/QueueScript.cpp`) | queue of script events, the running script | enqueue, start, check | queue events, post-processor |
| History (`queue/HistoryCoordinator.cpp`) | history list | add, return, redownload, hide, delete, clean up | queue, post-processor |
| Duplicates (`queue/DupeCoordinator.cpp`) | none of its own; statuses and marks of queue and history | choice between duplicates, marks, return of backups | queue, history |
| URL coordinator (`queue/UrlCoordinator.cpp`) | active URL downloads, `m_hasMoreJobs` | fetch, retry, complete, delete | queue, scanner |
| Scanner (`queue/Scanner.cpp`) | files seen before, externally added files, scan requests | scan, add, answer | queue, URL coordinator |
| Feed coordinator (`feed/FeedCoordinator.cpp`) | feeds, downloads of feeds, feed history | scheduled and forced fetch, preview, saving | URL queue |
| Scheduler, work state, quotas (`main/Scheduler.cpp`, `main/WorkState.h`, `nntp/StatMeter.cpp`) | time-table, pause flags, counters per day | scheduled tasks, quota check | pool, queue |
| Decoder, connections, remote control, options, front ends, utilities | parsing, formatting, I/O | – | – |

What is hard here:

* **Many locks and some unlocked flags.** Pool, queue, cache (content and flush
  mutex), scanner, feeds and direct unpackers have a mutex each, some are taken
  in both orders; `NewsServer::m_active` is written without any and `Changed()`
  follows later.
* **State read before the lock or used after it.** A downloader reads the pool's
  generation after it got its connection; `ArticleCompleted` reads the group of
  its file before it locks the queue; parts are joined, segments flushed and
  URLs handed to the scanner between two critical sections.
* **Incremental counters**: those of the groups, the cache's `m_allocated` and
  `m_cachedArticles`, the post-processor's `m_queuedJobs`. A wrong one hides work
  silently or lets a thread sleep for ever.
* **Waiting without a queue**: downloaders poll the pool, writers poll the cache,
  a deletion polls `FileBusy` with the queue locked, `AddExternalFile` polls the
  scanner.
* **Crash recovery**: three state files that refer to each other, info files,
  partial states and the cache flag are written one after the other.
* **Decisions that come back**: a backup waits in the history until its better
  duplicate fails, and users edit both lists in the meantime.

What makes the parts correct:

* pool: a connection has one owner and is never lost; free connections are
  found; levels are respected;
* downloader: every download ends; an article fails only when no server is left
  to try;
* queue: counters equal the recount; no downloader keeps a destroyed file; an
  article has one downloader; the next article is found, by priority; groups
  that lost their files leave the queue; parking loses no files;
* cache: memory is accounted for; no file is destroyed under the flusher; a
  complete file has all its articles; nobody waits for ever;
* state files: a regular restart is exact; a crash loses nothing outside named
  windows; each file behaves like one that is replaced in a single step;
* post-processing: no job is slept through; stages respect strategy, direct
  unpack and scripts; every download reaches the history;
* feeds and URLs: every item is handed over once; requests are not lost; a
  deleted URL leaves the queue; no thread uses a destroyed entry;
* duplicates: equal ones are not downloaded together; a backup is used when it
  is needed; what is marked bad does not come back.

## 2. Modules

| Module | Models |
|---|---|
| `ServerPool` | the pool; each operation is an action or a conjunct of one |
| `ArticleDownloader` | extends it with the download threads, the coordinator's start of a download, the callers that switch servers, pausing and stopping |
| `ArticleDownloaderProofs` | the theorems about the two modules above |
| `DownloadInfo` | the queue as one record, with operators for everything that happens inside a critical section: booking, deletion of files, events to the post-processor, move to the history |
| `QueueCoordinator` | extends it with downloaders, coordinator and queue edits |
| `QueueCoordinatorProofs` | the theorems about the two modules above |
| `ArticleCache` | article writers, the cache with its flushing thread, the completion and the deletion of files, partial states and the cache flag |
| `ArticleCacheProofs` | its theorems |
| `StateStore` | abstract: a file whose content changes in one step |
| `DiskState` | the state files queue, progress and history, written operation by operation |
| `DiskStateProofs` | its theorems, with the refinement of `StateStore` |
| `QueueScript` | the queue of script events, as operators |
| `PostProcessor` | extends it with download events, jobs, stages, par requests and direct unpack |
| `PostProcessorProofs` | its theorems |
| `UrlCoordinator` | URLs in the queue, their downloads, and the scanner |
| `UrlCoordinatorProofs` | its theorems |
| `FeedCoordinator` | feeds, their fetches and their history |
| `FeedCoordinatorProofs` | its theorems |
| `DupeCoordinator` | queue and history as far as duplicates are concerned |
| `DupeCoordinatorProofs` | its theorems |
| `Selection` | picking from a list in its order, for `DownloadInfo`, `QueueScript` and `DupeCoordinator` |
| `MC...` | instances for TLC (pools, queues, files, feeds, attributes) |

### ServerPool and ArticleDownloader

`active`, `normLevel`, `blocked`, `levels`, `generation`, `connections`, `inUse`
and `connected` are the fields of `NewsServer`, `ServerPool` and
`PooledConnection` with those names. `held[d]` is `m_connection` of a downloader
and `dl[d]` the local variables of `Run()` with its program counter:

    idle -> started -> waiting -> retention | connecting -> downloading
         -> blocking -> releasing -> deciding -> waiting | finishing -> idle

Each step contains at most one critical section of the pool. `EditServer`,
`ChangedInit` and `ChangedClose` are the unlocked write of the flag and the two
critical sections of `Changed()`.

Decisions and abstractions:

* The random choice among candidate connections is nondeterministic.
* Clocks: `blocked` holds the servers inside their retry interval. The interval
  is at least a second and does not pass between `BlockServer` and the decision
  a few instructions later (guard of `RetryIntervalPasses`); otherwise it may pass
  at any time. Whether the hold time of a level is over is nondeterministic
  (`overdue`).
* `m_levels` has no lower bound check; `BelowLevels` is what is read for level -1.
  It is a constant: the theorems hold for any value.
* What `Download()` returns is nondeterministic, limited by what the servers
  (`Reachable`, `Unstable`) and a stop request make possible. Contents,
  decoding, the writer, raw articles and messages are left out.
* `Desired` is the server a speed test insists on.
* Shutdown is not modelled; `Stop` is the call of `Stop()` for one downloader.

### DownloadInfo and QueueCoordinator

`q` is the queue: the list of groups, the groups' and files' fields, and the
history. Operators take the record before a call and return the one after it,
so each action composes the whole chain of calls that a handler makes under the
mutex: for example `ArticleCompleted` books the article, checks the health, which
may delete the group, removes the downloader, which may remove the file, which
notifies the post-processor, which may move the group to the history.

`dl[d]` is a download in `m_activeDownloads`: `running`, `notifying` (it has read
its group, not yet locked the queue), `completing` (it joins the parts outside
the lock).

Decisions and abstractions:

* Every article has size 1, so sizes count articles.
* The order of files within a group is left open, as is the order in which
  `DeleteGroup` deletes them.
* The count of paused files is subtracted from an unsigned number in
  `GetNextArticle`, so a group counts as paused only if the numbers are equal.
* A group destroyed by a merge while a downloader still has a pointer to it: the
  flag `parking` read from it may have any value, and what is booked on it is lost.
  The edit `quietMerge` is a merge that meets no such downloader and goes into no
  group being parked, neither of which the code checks; it is used where the
  consequences (run `QueueMergeRace`, section 5) would hide others.
* Extra par-files are paused when a group is added, as with every value of
  option `ParCheck` but `force`.
* The result of the duplicate check of file names is nondeterministic
  (`DupeCheck`).
* Left out: pausing of all downloads and force priority, propagation delay,
  renaming from the first article, saving to disk, the limit of the number of
  downloads, statuses of par-check and unpack in the history, categories, names
  and messages.

### ArticleCache

`status`, `seg`, `cached`, `locked`, `allocated`, `flushing` and `flushLock` are
`ArticleInfo::m_status`, its segment, `FileInfo::m_cachedArticles`,
`m_flushLocked`, and the fields of `ArticleCache`. `wr[a]` is the place of the
writer of an article, `flusher` the cache thread, `comp[f]` the downloader that
runs `CompleteFileParts`, `deleting` the file for which `DeleteFileInfo` waits with
the queue locked. `loc[a]` says whether the content is on disk where the next
session looks for it, `part[f]` and `partFailed[f]` are the articles that the partial
state calls finished and failed, `changed` the files with `m_partialChanged`, `flag` is
the cache flag. One action is one critical section or one file-system operation.

* Sizes are small numbers; a finished segment may be smaller than asked for.
  `AllocatedIsHeld` counts the memory byte by byte, as pairs of an article and the
  number of a byte (`Bytes`).
* With `DirectWrite` the content is in the output file (`open` until it is
  closed), without it in a file per article, which is renamed when complete. When
  a file is completed `CommitDiskFile` (`CompClose`) closes the output file and
  `CleanupOldData` (`CompClean`) moves the output file of `DirectWrite` to its final
  name, or deletes the files of the articles: from then on the content is not where
  a partial state looks for it.
* `SavePartialState` runs whenever the queue is not locked and the file has changed,
  also between the moment its last article is completed and the moment
  `ArticleCompleted` clears `m_partialChanged`, while the parts are joined without
  the lock.
* `Restart` is a crash at any point followed by the loading of partial states,
  finished and failed articles alike; if all are done, `LoadFileState` leaves the
  last one to be downloaded again (here any one, the order is not modelled).
  `lost` notes that an operation failed, or that a partial state that is trusted
  names content which was moved or not yet closed. Properties about content exempt
  these, and count every other loss; section 6 describes what they exempt.
* Left out: parking (in `QueueCoordinator`), `SkipDiskWrite`, raw mode, hard-linked
  files (`ForceDirectWrite`), names of output files; the partial states that
  `DiscardDirectRename` writes to free the memory of article lists (they say what
  is in memory), and the counters of `FileInfo`, which `ProcessArticles` corrects
  when a file of an article is missing.

### StateStore and DiskState

A state file is written as `name.new`, `name` is deleted, and `name.new` renamed.
`DiskState` has each of these operations as an action, for the files `queue`,
`history` and `progress`, with a crash between any two and failing open and
rename. `plan` is what the save in progress still has to write: `Save` writes queue,
history (if changed) and progress, `SaveChanged` the progress only. `Load` reads
what a start would read, including the recovery from `name.new`, the check of the
progress against the queue, the dropping of files without info file and the
cleaning of the directory.

`StateStore` is the promise: what would be read changes in one step to what the
program wants (`Commit`), or from nothing to an unfinished copy (`Tear`).
`FilesKeepPromise` instantiates it three times with the refinement mapping

    stored <- Readable(file)   wanted <- Wanted(file)   promised <- ~Stale(file)

so the deletion of the old file must coincide with the new one becoming
readable. The promise is suspended while `name.new` of an interrupted or failed
write lies around, because then a `Discard` resurrects it (section 6).

A group is abstracted to one file, which is queued, done or neither. Text
formats, their versions, statistics and messages are left out.

### QueueScript and PostProcessor

`job[g]` is `PostInfo` with the statuses of `NzbInfo`, `thread[g]` the thread of the
current stage, `more[g]` the par-checker's queued par-files, `du[g]` the direct
unpacker, `queuedJobs`, `active` and `runner` are the post-processor's counter,
`m_activeJobs` and thread. `StartJob` chooses the next stage the way the code does,
from statuses, options and what the stages asked for. Steps under the queue's lock
are one action; `lock` names the critical sections in which a thread waits for
another mutex. Queue scripts are composed in: download events enqueue them,
`PickNextJob` waits for them, and a script may mark its download as bad.

* A group has two volumes of an archive and a par-file; what par2, unrar and
  scripts find is a choice among the results the controllers distinguish.
* `broken` notes that freed memory was used (section 6); from then on anything may
  happen, so properties do not speak about such states.
* A restart (`SanitisePostQueue`) counts as an edit, like cancellation, resuming of
  par-files and deletion.
* Left out: resume times of paused downloads, deletion of files on disk, the
  waiting at shutdown, `PostStrategy` changes at run time.

### UrlCoordinator

`url[i]` is the queue's or history's entry, `job[i]` its `UrlDownloader`, `resets[i]`
downloaders that have released the lock after a retry and not yet set
`m_activeDownloads` to 0. The scanner's service thread, its two passes over the
incoming directory, `m_queueList`, and the caller that waits in `AddExternalFile`
are modelled with it, since `UrlCompleted` uses the entry again after that wait.
`TransferEnds` is `WebDownloader::Run` with all its attempts and redirects, reduced to
what it returns: a pause turns every result into a retry, a stop by a deletion or
by `ResetHangingDownloads` too, unless it ends the loop. What connection, headers and
body may fail with is not told apart. A file that cannot be stored and an archive
that is not scanned or holds no nzb-file give their answer at once, without
the scanner (the second branch of `AddExternalFile`). Priorities of URLs, scan scripts
and the contents of archives are left out.

### FeedCoordinator

`feed[f]`, `history`, `force`, `save` are the fields of `FeedInfo` and
`FeedCoordinator`; `fetcher[f]` is the place of the feed's downloader, which leaves
`m_activeDownloads` before it processes what it fetched. `disk` is the saved
feed history. `lost`, `unsaved`, `twice` note what a restart caught half-way. Filters
(a language of text patterns), `CleanupHistory`, `CleanupCache` and the XML are
left out.

### DupeCoordinator

`queue` and `history` are sequences, because the order decides between equal
duplicates; `nzb[n]` has the attributes that the decisions use: key, score,
content hash, mark, deletion status, result, the status in the dup-history, and
whether its nzb-file can be read (`readable`; `SourceLost` takes that away at any time).
`NzbFound`, `NzbCompleted`, `ReturnBestDupe`, `HistoryMark`,
`HistoryRedownload`, `HistoryRetry`, `HistoryHide`, the periodic clean-up are operators on both lists that
an action chains as the code does. `byUser` and `waived` note what users took out of
the hands of the duplicate check. URLs as duplicates, changes of key, score and
mode in the history, and `DupeCheck=no` are left out.

## 3. Runs

The runs on one list or one file say `CHECK_DEADLOCK FALSE`: with everything
downloaded and no edits left the program may rest. The pool runs and `StateFiles`
check for deadlock. Times are with two workers.

| Run | Instance | Shows |
|---|---|---|
| `PoolEdits` | main and fill server, one connection each, the fill server unreachable; 2 downloaders, one of which insists on the fill server; 2 switches of servers | types; the local state of `Run()`; a connection in use exists and has exactly one owner; free connections are not hidden by `m_levels`, in spite of the unlocked flag (220,000 states) |
| `PoolSelection` | 3 servers on 3 levels, two in one group, one optional and unreachable, one out of retention; 2 downloaders; a pause and a stop; fixed configuration; fairness | failure only after all servers were tried; backup servers spared; levels only go up; every download ends (120,000 states, 100 s) |
| `QueueFiles` | one group with 3 files, one with two articles, one a par-file, one whose nzb-file lacks an article; 2 downloaders; 2 edits (deletions, pausing, parking, unpausing of par-files, a reset of hanging downloads); duplicates; health check that parks, `ParScan=dupe` | counters equal the recount; one downloader per article; parts are joined by one thread alone; no article is overlooked; parked files are kept; no deletion gets stuck; no empty group stays (350,000 states, 40 s) |
| `QueueGroups` | 2 groups with 3 files and a free identity for a split; 2 downloaders; 2 edits (quiet merge, split, deletion, parking, priority, move, pause); health check that pauses | no downloader with a destroyed file; highest priority first (407,000 states, 45 s) |
| `QueueSplit` | one group with 3 files; 3 edits (pause, split) | **violation**, section 6 |
| `QueueMergeRace` | one merge | **violation**, section 6 |
| `StateFiles` | 2 groups, one crash, one failed operation | a restart at rest is exact; a crash outside the named windows loses no group; each file implements `StateStore` (277,000 states) |
| `Cache` | one file, two articles, memory for one and a half; one crash or failed operation; fairness | memory and counters are right; no file is destroyed under the flusher; a trusted partial state is on disk; completed files are whole; writers, the cache thread and deletions do not wait for ever (254,000 states, 150 s) |
| `Post` | one group, all stages, damage of every degree, two edits or restarts, three script events; or two damaged groups at once without edits; fairness | no job is slept through; stages respect strategy, direct unpacker and scripts; the lock-order inversion is met only after a resume; every download reaches the history (273,000 states, 90 s) |
| `Feeds` | 2 feeds with a common item, one with backlog; 2 events (forced fetches, previews, pauses, restarts); fairness | known items are queued; none twice; a forced fetch is served (106,000 states) |
| `Urls` | one URL with every content, one retry, 5 events (deletions, pauses, hanging transfers, returns, restarts); fairness | no use of a destroyed entry outside one race; the loop does not sleep while a URL waits; a deleted URL leaves (140,000 states) |
| `Dupes` | 3 nzb-files: two duplicates with different scores and one from a feed that takes key and score from them or is a copy; one event (a user, the age limit of the history or a lost nzb-file) besides additions, ends and failures | lists are consistent, content is queued once; equal duplicates are not downloaded together; backups are not forgotten; what is marked bad stays away (305,000 states) |

Why the bounds are enough to meet the interesting cases: two downloaders are
needed for every race between a downloader and another, and two connections for
a level that is exhausted. Two switches let a server leave the pool and come
back while its connection is in use (`InitConnections` then counts it although it
is in use). Two edits are what it takes to delete a group that another edit has
changed. A file with two articles is the smallest one that two downloaders share,
and with memory for less than two articles a writer meets a full cache. One crash
is enough for `DiskState` since a restart brings back a state the model reaches
without a crash; a failed operation in addition makes a file stale first. Three
duplicates are a download, its better one and a backup. `Post` starts either with one
group and everything that may happen to it, beside a complete download, or with two
damaged groups (`MCSpec`): a strategy counts jobs across groups, and two of them
that both need a par-check are the fewest that can exceed the limit of `balanced`.
One volume each and no edits keep that part small; one of the two has archives.
`Downloaders` is a symmetry set where the run has safety properties only and no
downloader is distinguished.

Bounds: `MaxEdits` (switches of servers, edits of the queue or of jobs),
`MaxSuspends`, `MaxStops`, `MaxCrashes`, `MaxFaults`, `MaxMishaps`, `MaxRetries`,
`MaxEvents`. `ArticleRetries` is 1: more retries repeat the same loop.

`PoolSelection` has a fixed configuration because with changes the properties
fail (section 6). `QueueGroups` leaves out extra priorities for the same reason.

## 4. Fairness

`PoolSelection`: threads keep running (weak fairness of each thread's steps, the
operating system's scheduling); the retry interval passes (time); a pause ends.
Strong fairness of `PollForConnection`: a waiting thread polls the pool every
5 ms and never gives up, so it does not miss every moment at which a connection
of its level is free; the pool itself has no queue, and weak fairness would not
exclude that other threads always take the connection first. This is an
assumption about chance, the weakest the code allows. No fairness for starting
downloads, edits, stops or pauses.

`Cache`: weak fairness of writers, of the cache thread, of the completion and of
`DeleteFileInfo`; strong fairness of `CompLock`, the acquisition of a mutex that
the cache thread releases again and again. None for new downloads, deletions,
partial saves, stop or crash.

`Post`: weak fairness of the post-processor's thread, scripts, stages, direct
unpackers and downloads taken together: as long as one of them can get on, one
does (external programs end), and no thread is promised a turn before the others.
None for users.

`Feeds`: weak fairness of the coordinator's thread, of transfers (ended by
`ResetHangingDownloads` at the latest) and of the threads that process them.

`Urls`: weak fairness of loop, transfers (which time out), the end of downloads and
the scanner's service; strong
fairness of the steps that poll `m_scanning` or take `m_scanMutex` (a scan in
between does not keep the caller out for ever). None for users, pauses, restarts.

## 5. Proofs

Each theorem holds for every value of the constants that satisfies the named
assumptions, which TLC evaluates in the runs. Each rests on an inductive
invariant that was checked with TLC on the run's instance before it was proved;
the proof that a step preserves it has one lemma or step per action.

### ArticleDownloaderProofs

For any finite sets of servers and connections, any sets of downloaders and
editors and any number of switches, pauses and stops:

* `TypeCorrect`: `Spec => []TypeOK`. The hard part is that `retries` never gets
  negative although it is decremented in one step and tested in another.
* `AttemptsConsistent`: `Spec => []AttemptConsistent`, what holds of the local
  variables of `Run()` at each of its places; with `TypeOK` it is inductive
  (`LocalInv`). It is what makes `TypeOK` provable: retries are 0 only after an
  attempt that was connected and failed, and then no server is insisted on, so
  the loop resets them before the next attempt.
* `OwnershipKept`: `Spec => []ConnectionOwnership`, from `LocalInv` (a connection
  is only released by the thread that has it). The candidates of `GetConnection`
  are free connections, and `CloseUnusedConnections` deletes free ones only.
* `NoConnectionHidden`: `Spec => []NoHiddenConnection`. The invariant behind it
  bounds the free connections of each level, counted with the `active` flags of
  the moment; the argument compares the cardinality of this set before and after
  each step.

The last two rest on `StepKinds`: as far as the pool is concerned every step of
the system acquires a connection, releases one, re-ranks the servers
(`InitConnections`), switches a server, closes unused connections, or leaves pool
and owners alone. Each invariant is shown for these kinds instead of twenty actions.

Three action properties, under the hypothesis `MaxEdits = 0`: no server is
switched while downloads run. Without it they are false (section 6), and the run
`PoolSelection` that checks them has the same bound.

* `LevelsOnlyIncrease`, `BackupsSpared`, `AllServersTried`: a thread climbs the
  levels without going back, starts on the lowest one, and gives up only when
  every server that counts, or one of its group, has failed it.

The invariant behind them says of the pool (`FixedPool`) that flags and ranks are
those of the start, and that a level whose counter is positive has a connection
of an active server; and of each thread (`ClimbInv`) that its connection is not
below its level and that every server below the level which it needs to try was
tried. Taking a connection skips no level with a needed server
(`GetConnectionClimbs`), and `Run()` raises the level only past servers that are
ignored or have no active companion. The levels are the positions of the servers
in the order of their numbers (`RankIsIndex`); that there is a lowest one
(`MinLevelExists`) is the well-foundedness of the naturals. Assumptions:
`PoolAssumption`, `DownloaderAssumption`.

### ArticleCacheProofs

For any files and articles, any size, limit and mode of the cache, any number of
crashes and failed operations:

* `CacheKeepsBooks`: `Spec => []CacheAccounted`. `m_allocated` equals the bytes held
  by buffers and segments through allocation, reallocation, flush, completion,
  deletion and restart; no cached article is missing from `m_cachedArticles`.
* `FlushWorksOnFiles`: `Spec => []FlushedFileExists`. Cache thread and completion
  work on files that exist, and on segments nobody else frees.
* `TrustedAfterCrash`: `Spec => []TrustedStateOnDisk`.
* `FilesComplete`: `Spec => []CompletedFileWhole`.

They share one invariant, `CacheInv`, because each needs the others: that a
completed file is whole needs the content of every finished article to be in
memory or on disk (`Kept`), which needs that only the holder of the flush lock
writes to an unclosed file (`Opened`) and that the counter of cached articles never
misses one (`Flushed`), since the completion takes the lock only when the counter is
positive; and that no one is freed under the cache thread needs that a deleted file
with `FileBusy` set is waited for. A partial state may name all articles of a file,
since it can be saved during the completion; `Unfinished` says that a file that is
not being completed has an article to wait for even after a restart, because
`LoadFileState` leaves one, so that its completion comes. `TrustedAfterCrash` holds
outside the windows named in its property, and section 6 says what happens in them.
Assumption: `SizesAssumption` (every file has an article, finite articles, sizes of
at least 1, markers that are not files).

### DiskStateProofs

For any groups, any number of crashes and failed operations:

* `StateFilesRefine`: `Spec => FilesKeepPromise`. Each of the files implements
  `StateStore`: its initial state is one of the store, every step of `DiskState`
  is a step of the store or leaves its variables alone. The strengthening is
  `WriteInv`: at each operation of a save the new file is torn, or complete beside
  the old one, or complete and alone, and only the first file of the plan is
  being written.
* `RestartFindsState`: `Spec => []StateConsistent`.
* `CrashLosesNothing`: `Spec => []CrashHarmlessOutsideWindows`.

The last two need `CleanInv`, which describes the disk as long as nothing failed
and nothing crashed: between full saves the history is as in memory and the queue
has the groups in memory, apart from the changes that `progress` holds
(`RestFits`); during one, the files that are no longer in the plan are written
(`SaveFits`); a stopped program leaves lists that do not share a group
(`StoppedFits`); a group that is not being moved is readable where it is
(`SettledFits`). Assumption: `MarkersAssumption` (the markers for absent and
torn content are not contents).

### UrlCoordinatorProofs

For any URLs, contents, numbers of connections, retries and events:

* `UrlEntriesUsable`: `Spec => []UrlsConsistent`. Outside the race of a delayed reset
  (`raced`) an entry in transfer, in the scanner or being reset stays in the queue
  (`HeldInv`), and what waits in `m_queueList` belongs to a thread that waits for it.
* `UrlLoopNeverOversleeps`: `Spec => []UrlLoopAwake`. When `m_hasMoreJobs` is false no
  URL waits and none is in transfer: a retry puts a URL back without waking the loop.

The first attempt at a proof found a definition that was ambiguous: the branches
of a `CASE` in `Completed` overlapped, and the order of the code was lost. Assumption:
`UrlOptions`.

### FeedCoordinatorProofs

For any feeds, items, options and events:

* `FeedsAccounted`: `Spec => []ItemsAccounted`, `FeedsFetchOnce`: `Spec => []FetchedOnce`.
  The items under way between `ProcessFeed` and the URL queue belong to one feed
  that is adding them, are in the history already, and are not in the queue
  (`UnderWayOnce`), unless a restart forgot them; the file never holds more than the
  history (`FileBehind`).

### PostProcessorProofs

For any groups, strategy, optional stages, queue-scripts, health of the downloads
and number of edits and restarts:

* `PostJobsCounted`: `Spec => []JobsCounted`.
* `PostStagesWithinStrategy`: `Spec => []StagesWithinStrategy`.
* `PostScriptsBeforeStages`: `Spec => []ScriptsBeforeStages`.
* `PostLockedByResumeOnly`: `Spec => []LockedByResumeOnly`.

They share one invariant, `Inv`, since whether a job may be picked depends on
downloads, threads, unpackers and scripts at once:

* `Books` bounds the counter from both sides: `SanitisePostQueue` adds all loaded
  jobs to those that were completed before it ran, so it may be too high, by one
  count of the groups at most, but never too low.
* `JobFits`: a group without `PostInfo` still has files, one with it has none left
  but par-files; only active jobs work.
* `ThreadFits`: a running thread belongs to an active job, a par-check to one in a
  par stage that asks for nothing; one that outlived its job, because a user deleted
  it after its par-check was answered, is alone with a group that left the queue.
* `UnpackFits`: a working direct unpacker excludes a stage; one whose job went on
  without it has no file to wait for.
* `ScriptsFit`: the group of a waiting or running script for a complete download
  has no thread, or a thread whose job was freed.
* `Within`: active jobs in par stages, par-checks and threads stay within the
  limits. It is the active jobs in par stages that `CanRunMoreJobs` counts, so
  that a par-check has to keep its job among them (`ThreadFits`).
* `Turn`: within the loop of `CheckPostQueue` all active jobs have a `PostInfo`.

All but the counter, the announced scripts and the lock order are claimed only while
no freed memory was used (`broken`); a step that uses it is shown to leave the rest.
Each step is shown to disturb one group (`Local`), or to clean up a set of jobs
(`CleanupStep`, for `CheckPostQueue` and for each started job). The lemmas about
queue-scripts need what the function that drops items from a sequence returns
(`SelectedIs`, by the least-number principle). Assumptions: `PostOptions`,
`ScriptOptions` (scripts listen to known events, `NoItem` is not an item).

Looking for the inductive invariant showed that two properties were true with one
edit only; they say now what is true of any number (section 6), and the run has two.

### QueueCoordinatorProofs

For any groups and files with any numbers of articles, any number of downloaders
and edits, any health check:

* `QueueArticlesConsistent`: `[]ArticlesConsistent`.
* `QueueDownloadersHaveFiles`: `[]DownloaderFileExists`.
* `QueueCompletingAlone`: `[]CompletingAlone`.
* `QueueNoEmptyGroup`: `[]NoEmptyGroup`.

The first three follow from one invariant, `QueueInv` (`QueueInvKept`), which ties the
downloaders to the queue: every file counts its downloaders and its completed
articles (`FilesCounted`), every group in the queue counts the downloaders of its
files, and when it is being parked all its files are marked as deleted
(`GroupsCounted`); a file that exists is in a group of the queue or of an nzb-file
not yet added (`FilesHaveGroups`); a downloader has a file in the queue, a running
article, and remembers the group of its file (`DownloaderFine`); articles and
downloaders belong to each other (`ArticlesOwned`); and the downloader that joins a
file is its last (`JoinsAlone`), which needs the counters, since the code looks at
them and not at the list of downloads. `Sound` states it of any queue and any
downloaders, because a handler calls several helpers before the lock is released.
`Follows` says what these helpers may do to a queue, whatever they count in between:
a file leaves its group only when nobody works on it, a group leaves the queue
with all its files. Each helper is shown to do no more, `Follows` is transitive, and
`FollowsKeeps` carries `Sound` through all operations composed of them; only taking
and booking an article, the end of a download, adding, merging and splitting change
what `Follows` leaves alone and have proofs of their own. What `GetNextArticle`
returns is a file in the queue with an article left (`NextFilesAre`): its
two recursive functions exist by an argument on ranks (`RecursionExists`).

`QueueNoEmptyGroup` adds `Occupied` (what it states, of any queue) and `Untouched` (the files of
an nzb-file not yet added are its own) to `QueueInv`. `Retains` is its counterpart of
`Follows`: a helper takes files only from groups in the queue, and the last file of a
group only when the group leaves too or goes to post-processing. That is where
the counters matter again: the observers end a group only if no downloader is
counted for it (`Rests`), so the last file must not leave before its last downloader.

All of them hold as long as `MergesAreQuiet`: every merge is a `quietMerge`. That
excludes what the code does not guard against, and the theorems do not hold of it:

* a merge while a downloader has read the group of its file and not yet locked the
  queue (the race of run `QueueMergeRace`, hazard at `QueueCoordinator.cpp:699`).
  Counters then differ, and the flag `parking` is read from a destroyed group; if it
  happens to be set, a file is joined with an article left: with `EditKinds = {"merge",
  "park"}` `QueueGroups` violates `CompletingAlone` in seven states and `DownloaderFileExists`
  in nine, without any group being parked;
* a merge into a group that is being parked. `MergeQueueEntries` does not
  look at `GetParking()`. Then files that are not deleted are in a parking group; the
  retry of an article of one of them finds one active download and the flag, and the
  file is joined with an article left. Without the conjunct on `parking` in
  `MergeQueueEntries`, TLC violates `CompletingAlone` in eleven states and
  `DownloaderFileExists` in fourteen (edits `quietMerge` and `park`).

Merges into and out of groups with active downloads, of groups being deleted, and
splits and parking besides are within the theorems. The runs `QueueFiles` and
`QueueGroups`, which check the four properties, satisfy `MergesAreQuiet`. Assumptions:
`QueueAssumption`, `CoordinatorAssumption`.

### DupeCoordinatorProofs

For any nzb-files with any names, keys, scores, modes and contents, and any number
of events:

* `DupeTypeCorrect`: `Spec => []TypeOK`. Every nzb-file is in the queue, in the
  history or in neither, as its `step` says, and no list has one twice.
* `DupeMarkedBad`: `Spec => []MarkedBadStaysAway`.

One operation chains several moves: an addition may inherit key and score, demote
downloads of lower score, and be rejected itself, which may return a backup; a
mark handles two entries, the first of which may return one. So each
operator that takes and returns the lists has a lemma: it keeps `Listed` (the lists
have the members that the steps say, each once) and `Away` (what is marked bad is
hidden, gone, or in the recent history with its mark). In between, while an nzb-file
leaves the queue and is not yet in the history, `Moving` holds instead. `Away` needs
`PrepareEdit`: the operator for one entry keeps it only because all entries of the
command are marked before the first of them returns a backup. Below them are
lemmas about lists without repetition: what removing one (`RemovedLists`), picking
(`SelectedLists`), reversing (`ReversedLists`) and joining (`JoinedLists`)
leave. Assumption: `DupeOptions`.

### Only model-checked

* Liveness (`DownloadEnds`, `WriterGetsOn`, `ReachesHistory`,
  `ForcedFetchServed`, `DeletedUrlLeaves`, ...): the prover has no rule for fairness
  and `ENABLED`.
* The sums of the queue: `StatsMatchRecount` and `RemainingSizeOfFiles` compare counters with
  folds over the files of a group, for which the installed provers have no induction.
* `ParkedFilesKept`: it holds only where the health check does not delete (section 6).
* `DeletionAttended`: true only without merges, for a merge into a group being deleted
  brings files into it that nobody deletes (section 6).
* What `GetNextArticle` chooses (`NoArticleOverlooked`, `HighestPriorityFirst`): true only
  with edits that keep the count of paused files and the extra priority in order
  (section 6).
* `EqualDuplicatesExclusive`: it is not true of every `Attr`, since
  `SameNameOrKey` is not transitive (section 6), and the run's instance has one key.
* `BackupNotForgotten` and `ContentQueuedOnce` (the other half of `ListsConsistent`):
  which entry of a history speaks first against a download, and which backup was
  returned instead of which, depends on the whole past of both lists; no inductive
  invariant for any number of nzb-files was found. TLC finds no violation of the
  four properties with `MaxEvents = 2` either (3.8 million states, too many for a run).

## 6. Disagreements between code and documentation

With a run (quote in `PROJECT.json`, `findings`):

* `QueueMergeRace`: a merge between the unlocked read of a file's group and the
  lock makes `ArticleCompleted` write to a destroyed group.
* `QueueSplit`: `SplitQueueEntries` counts the paused files of the new group from the
  source's count (`QueueCoordinator.cpp:1354`). Two of three files are paused; one of
  them and the unpaused one are split off; the new group then counts both its files as
  paused, and `GetNextArticle` overlooks the unpaused one.

Observed with these modules, by adding the property named here to a run or by
reading while modelling; no run is kept for them.

Pool and downloader (add the property to `PoolEdits.cfg`):

* `BackupServersSpared`: between the unlocked write of `m_active` and `Changed()` a
  download starts on a backup server although the main server was merely disabled.
* `FailsAfterAllServers`: a connection taken before a change of the configuration
  and the generation read after it: the article may be reported as failed although
  an active server was not tried. The same race can give a downloader level -1,
  so that `m_levels[-1]` is read (`LevelOnlyIncreases`).
* With `ArticleInterval=0` an unreachable optional server is never blocked and is
  tried for ever (`DownloadEnds` with `RetryInterval = 0`).
* After a CRC error the server is given up at once; only incomplete articles are
  retried, while the comment of option `ArticleRetries` in `nzbget.conf` names both.
* `InitConnections` counts connections in use as free; `FreeConnection` counts them
  again. The count is only too high, which `NoHiddenConnection` permits.

Queue:

* A file with extra priority lets other files of its group overtake groups of
  higher priority (`HighestPriorityFirst` with edit `unpausePars`).
* Merging into a group that is being parked can complete a file that has articles
  left, under another downloader (section 5). Merging into one that is being deleted
  leaves it in the queue with the files that came in (`DeletionAttended` in
  `QueueGroups`, six states).
* With `HealthCheck=Delete` a group that a user parks may lose its files: `CheckHealth`, run
  for a download that was still active, deletes the group once more and so clears
  its parking flag (`ParkedFilesKept` in `QueueFiles` with `HealthCheck = "delete"`, nine steps).
* Deleting a damaged file raises the health of its group, while
  `docs/api/LISTGROUPS.md` says that it never increases.
* `MergeQueueEntries` does not add `m_extraPriority`; a split moves
  `m_failedArticles` but not `m_failedSize`; `AdjustDownloadsLimit` never updates
  `m_serverConfigGeneration`.

State files (the windows of `CrashHarmlessOutsideWindows`):

* `DownloadQueueExists` looks for neither `queue.new` nor `history.new`: a crash
  between deletion and rename of the only file makes the next start discard the
  queue, while `nzbget.conf` says "Download-jobs are always continued".
* A crash during the very first write of a file leaves a torn copy that the next
  start reads; a torn `progress`, or one that names a group the new queue no longer
  has, makes loading stop before the history.
* The queue is saved before the history: a group moved from one to the other is
  in both or in neither in between.
* `Discard` leaves `name.new`; the copy left by an interrupted write comes back.
* `Save` clears the flags `m_changed` and `m_historyChanged` also after a failed write.

Cache:

* `FlushCache` and `ProcessArticles` free a segment, and with the last one delete
  the cache flag, before the content is renamed, closed or committed: a crash in
  between leaves a partial state that names content which is not there. The same
  holds after the completion has moved the output file or deleted the files of the
  articles, until `DeleteFileInfo` discards the partial state
  (`BeingMoved` in `TrustedStateOnDisk`; without that exemption `Cache` finds
  these crashes).
* `SaveAllPartialState` may save a state in which all articles are done, while the
  parts are joined outside the lock (`m_partialChanged` is cleared only after
  that). The comment at `DiskState.cpp:1367` says "such states should never be saved on
  disk but just in case"; `LoadFileState` then downloads one article again, and
  believes the others, whose files may be gone.
* A deleted file that still has downloaders is visited by the cache thread again
  and again without being flushed (`DeletedWithDownloaders`).
* With `DirectWrite` a failed open in flush or completion loses content silently.

Post-processing:

* `CheckRequestPar` clears `working` while the thread of the stage still runs; a
  deletion of the job then frees the `PostInfo` the thread uses (`broken`).
  If the group is then completed again its queue-scripts run beside that thread,
  which is why `ScriptsBeforeStages` exempts threads of jobs in no stage.
* `PostQueueDelete` leaves the freed job in `m_activeJobs` for a moment.
* `ParChecker` can miss the wake-up for more par-files if the requested one was
  deleted by a user; the job then waits until it is cancelled.
* The lock of the queue and the mutex of a direct unpacker are taken in both
  orders; `WaitNextVolume` looks for the file before it takes the mutex. They meet
  even if the job was deleted after the par-files were resumed, since its direct
  unpacker goes on.
* A script that ends with code 92 does not always get its par-check, which
  `docs/extensions/POST-PROCESSING.md` promises.
* The stage is saved incremented and loaded as it is; `SanitisePostQueue` may count
  a job twice; a direct unpacker may push the number of active jobs beyond what
  `PostStrategy` allows; `CheckQueue` drops the event "deleted" of a download that
  was marked bad.

Feeds and URLs:

* A URL that fails and is to be retried is reset outside the lock; if it was
  started again before, a deletion destroys the entry under its downloader (`raced`).
* A deletion asked for while the scanner has the file is lost.
* `AddArchive` reports success whatever the scan of its contents brings.
* Outside the model, which has one nzb-file per archive (read in the code only):
  `AddArchive` gives every nzb-file of an archive the same `urlInfo`
  (`Scanner.cpp:795`), and adding the first one removes that entry from the queue
  (`QueueCoordinator.cpp:420`), so `AddFileToQueue` reads it again for the others.
* `m_queueList.clear()` may drop a file added in the meantime: it is added without
  its name and category, and the URL is reported as skipped.
* A transfer that is complete when downloads are paused is thrown away and fetched
  again later.
* The final deletion of a URL that is not being downloaded ignores `avoidHistory`.
* `m_downloadsMutex` and the queue's lock are taken in both orders when a filter
  asks for the queue: `ProcessFeed` filters with the mutex held, `DownloadQueueUpdate`
  takes it with the queue locked; shutdown does not wait for feed threads that have left
  `m_activeDownloads`.

Duplicates:

* Two duplicates may be downloaded together: one is being post-processed after
  the health check aborted it, a new one is queued, and `ReturnBestDupe` then
  returns a backup too. `nzbget.conf` says that only one is downloaded.
* If the nzb-file of the chosen backup is missing or cannot be parsed,
  `HistoryRedownload` only reports it (`HistoryCoordinator.cpp:464-479`) and
  `ReturnBestDupe` tries no other one: a second backup that could be downloaded is
  forgotten (`Blocks` in `BackupNotForgotten`; without that exemption `Dupes` finds it).
* A failing download in mode "all" does not bring back its backup; a demoted
  download whose deletion ends after its better duplicate failed is not tried.
* `SameNameOrKey` is not transitive, so that two equal duplicates may be downloaded
  together without any user: `h` (name "x", no key, score 5) waits as the backup of `i`
  (name "x", key "k", score 10); `q` (name "x", key "k2", score 5) is no duplicate
  of `i` and is queued; when `i` fails, `h` returns beside `q`, whose duplicate it is
  (`EqualDuplicatesExclusive` with these three).
* A download being deleted by a user still keeps a new duplicate out.

## 7. Not modelled

The map names the lines that decide, wait, count, lock and recover. Most lines of
the repository do something else:

* **Parsing and formatting**: the vendored regular expressions
  (`src/lib/regex`), XML-, JSON- and binary RPC (`remote/`), options and command line
  (`main/Options.cpp`, `main/CommandLineParser.cpp`), feed filters and feed XML, the
  text formats of `DiskState.cpp` with their old versions, nzb-XML, manifests of
  extensions. They have no state between calls; their inputs are unbounded texts
  which small sets do not stand for.
* **Work on file contents**: decoder, par2, rar headers, renaming by content. The
  verdicts are choices in `ArticleDownloader` and `PostProcessor`.
* **I/O and platform**: sockets, TLS, HTTP, file system, processes, Windows
  service and console, curses front end, remote client, program update, test
  server. Their results are choices (open fails, connection breaks, program ends).
* **Arithmetic on clocks**: `StatMeter` (speed and quotas) and the time-table of the
  scheduler. Their effect, pausing and resuming, is an environment action.
* **Reports**: system health, system information, logs.

Inside modelled components: the counters that `ResetArticles` corrects, direct rename of queued files, sorting
and reordering in the queue editor, edits of names, categories and parameters,
propagation delay, shutdown sequences. `PROJECT.json` says of each component what
it leaves out.

## 8. Plan

1. Done: `ServerPool`, `ArticleDownloader` and their proofs; `DownloadInfo`,
   `QueueCoordinator`; `ArticleCache`; `DiskState` with `StateStore`; `PostProcessor`
   with `QueueScript`; `UrlCoordinator`, `FeedCoordinator`; `DupeCoordinator`.
2. Done: the theorems of section 5. Next: what `GetNextArticle` chooses and
   `ParkedFilesKept` under the conditions of section 6, then the condition on keys
   and names under which `EqualDuplicatesExclusive` holds of any instance.
3. `ResetArticles` with the counters of a returned group; an abstract downloader (start, one report,
   end) that `ArticleDownloader` implements and `QueueCoordinator` uses; the shutdown
   of the coordinators.

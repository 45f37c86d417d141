---------------------------- MODULE ArticleCache ----------------------------
(***************************************************************************)
(* Where the content of a downloaded article is, from the moment its       *)
(* writer asks for memory until its file is complete on disk: the article  *)
(* writers, the article cache with its flushing thread, the completion of  *)
(* files, the deletion and the discarding of files under the queue lock,   *)
(* the partial states saved on disk and the flag that tells a restarted    *)
(* program not to trust them (daemon/nntp/ArticleWriter.cpp, with its      *)
(* callers in QueueCoordinator.cpp and DiskState.cpp).                     *)
(*                                                                         *)
(* Content is not modelled, only its place: a buffer of the writer, a      *)
(* segment of the article (both are memory of the cache), an open or not   *)
(* yet renamed file ("open"), a file that survives a crash ("disk"), or    *)
(* nowhere.                                                                *)
(***************************************************************************)
EXTENDS Integers, FiniteSets

CONSTANTS
    Files, Articles,
    FileOf,        \* the file of every article
    Size,          \* memory asked for one article
    Limit,         \* option ArticleCache
    Threshold,     \* 90% of it
    MaxMishaps,    \* bound: crashes and failed file-system operations together
    NoFile

ASSUME SizesAssumption ==
    /\ Size \in Nat \ {0} /\ Limit \in Nat /\ Threshold \in Nat
    /\ IsFiniteSet(Articles) /\ FileOf \in [Articles -> Files]
    /\ \A f \in Files : \E a \in Articles : FileOf[a] = f
    /\ NoFile \notin Files /\ {"free", "cache"} \cap Files = {}

VARIABLES
    status,     \* ArticleInfo::m_status
    wr,         \* what the downloader of the article is doing
    buf, seg,   \* sizes of the writer's buffer and of the attached segment
    loc,        \* where the content is on disk
    allocated,  \* ArticleCache::m_allocated
    flushing,   \* ArticleCache::m_flushing
    flushLock,  \* who holds m_flushMutex: "free", "cache" or a file
    flusher,    \* the cache thread: its step, m_fileInfo, articles to flush
    cached,     \* FileInfo::m_cachedArticles
    locked,     \* files with FileInfo::m_flushLocked
    queued,     \* files in the queue
    deleted,    \* files with FileInfo::m_deleted
    deleting,   \* the file whose DeleteFileInfo holds the queue lock
    comp,       \* CompleteFileParts: its step, the articles still to process
    out,        \* articles written into the complete file
    part,       \* finished articles in the partial state on disk
    partFailed, \* failed articles in it
    changed,    \* files with FileInfo::m_partialChanged
    flag,       \* the cache flag on disk
    stopped,    \* Thread::Stop was called for the cache
    directWrite,\* option DirectWrite, which does not change
    mishaps,    \* crashes and failed operations so far
    lost        \* content was lost to a failed operation, or a partial state
                \* trusted after a crash names content that is gone

disk == <<loc, out, part, partFailed, changed>>
files == <<cached, locked, queued, deleted, deleting, comp>>
cache == <<allocated, flag>>
thread == <<flushing, flushLock, flusher>>
limits == <<directWrite, stopped, mishaps, lost>>
vars == <<status, wr, buf, seg, disk, cache, thread, files, limits>>

ArticlesOf(f) == {a \in Articles : FileOf[a] = f}
Active(f) == {a \in ArticlesOf(f) : wr[a] # "idle"}
QueueFree == deleting = NoFile

\* The memory that the articles in A hold by m, byte by byte.
Bytes(m, A) == {b \in A \X (1 .. Size) : b[2] <= m[b[1]]}

----------------------------------------------------------------------------
(* ArticleCache::Alloc, Realloc and Free *)

Fits == allocated + Size <= Limit

Realloc(old, new) == allocated' = allocated - old + new

\* mutant: the flag is deleted with the first byte
FreeUnflags(n) ==
    /\ allocated' = allocated - n
    /\ flag' = IF n > 0 THEN FALSE ELSE flag

\* Free: the flag is deleted with the last byte.
Free(n) ==
    /\ allocated' = allocated - n
    /\ flag' = IF n > 0 /\ allocated = n THEN FALSE ELSE flag

----------------------------------------------------------------------------
Init ==
    /\ status = [a \in Articles |-> "undefined"]
    /\ wr = [a \in Articles |-> "idle"]
    /\ buf = [a \in Articles |-> 0] /\ seg = [a \in Articles |-> 0]
    /\ loc = [a \in Articles |-> "none"]
    /\ allocated = 0
    /\ flushing = FALSE /\ flushLock = "free"
    /\ flusher = [pc |-> "idle", file |-> NoFile, todo |-> {}, flushed |-> 0]
    /\ cached = [f \in Files |-> 0] /\ locked = {}
    /\ queued = Files /\ deleted = {} /\ deleting = NoFile
    /\ comp = [f \in Files |-> [pc |-> "no", todo |-> {}]]
    /\ out = [f \in Files |-> {}]
    /\ part = [f \in Files |-> {}] /\ partFailed = [f \in Files |-> {}] /\ changed = {}
    /\ directWrite \in BOOLEAN
    /\ flag = FALSE /\ stopped = FALSE /\ mishaps = 0 /\ lost = FALSE

----------------------------------------------------------------------------
(* The writer of an article *)

\* A download begins, and the first line of content calls ArticleWriter::Start.
StartDownload(a) ==
    /\ QueueFree /\ ~stopped /\ FileOf[a] \in queued \ deleted
    /\ status[a] = "undefined" /\ wr[a] = "idle"
    /\ status' = [status EXCEPT ![a] = "running"]
    /\ wr' = [wr EXCEPT ![a] = "alloc"]
    /\ UNCHANGED <<buf, seg, disk, cache, thread, files, limits>>

\* ArticleCache::Alloc, with the flag written before the first byte is used.
Alloc(a) ==
    /\ wr[a] = "alloc"
    /\ IF Fits
       THEN /\ wr' = [wr EXCEPT ![a] = "cached"]
            /\ buf' = [buf EXCEPT ![a] = Size]
            /\ allocated' = allocated + Size
            /\ flag' = (flag \/ allocated = 0)
       ELSE /\ wr' = [wr EXCEPT ![a] = "full"]
            /\ UNCHANGED <<buf, cache>>
    /\ UNCHANGED <<status, seg, disk, thread, files, limits>>

WaitsForMemory == flushing

\* Start waits for memory while something is being flushed, and otherwise
\* writes to disk.
CacheFull(a) ==
    /\ wr[a] = "full"
    /\ wr' = [wr EXCEPT ![a] = IF WaitsForMemory THEN "alloc" ELSE "disk"]
    /\ UNCHANGED <<status, buf, seg, disk, cache, thread, files, limits>>

\* ArticleWriter::Finish(true): the buffer is cut to the size received and
\* becomes the segment of the article ...
FinishCached(a, n) ==
    /\ wr[a] = "cached"
    /\ wr' = [wr EXCEPT ![a] = "finished"]
    /\ Realloc(buf[a], n)
    /\ buf' = [buf EXCEPT ![a] = 0] /\ seg' = [seg EXCEPT ![a] = n]
    /\ cached' = [cached EXCEPT ![FileOf[a]] = @ + 1]
    /\ UNCHANGED <<status, disk, flag, thread, locked, queued, deleted, deleting, comp, limits>>

\* ... or the content is in the output file or in the result file.
FinishDisk(a) ==
    /\ wr[a] = "disk"
    /\ wr' = [wr EXCEPT ![a] = "finished"]
    /\ loc' = [loc EXCEPT ![a] = "disk"]
    /\ UNCHANGED <<status, buf, seg, out, part, partFailed, changed, cache, thread, files, limits>>

\* ArticleWriter::Finish(false)
FinishFailed(a) ==
    /\ wr[a] \in {"cached", "disk"}
    /\ wr' = [wr EXCEPT ![a] = "failed"]
    /\ UNCHANGED <<status, buf, seg, disk, cache, thread, files, limits>>

\* The file becomes the business of DeleteFileInfo when its last downloader
\* leaves it.
Leaves(a) ==
    deleting' = IF FileOf[a] \in deleted /\ Active(FileOf[a]) = {a} THEN FileOf[a] ELSE NoFile

\* The destructor of ArticleWriter frees what did not become a segment.
UnusedBuffer(a) == buf[a]

\* QueueCoordinator::ArticleCompleted: the downloader of the last article
\* goes on with CompleteFileParts, any other one ends and frees its buffer.
ArticleCompleted(a) ==
    LET f == FileOf[a]
        st == IF wr[a] = "finished" THEN "finished" ELSE "failed"
        last == \A b \in ArticlesOf(f) \ {a} : status[b] \in {"finished", "failed"}
    IN  /\ QueueFree /\ wr[a] \in {"finished", "failed"}
        /\ status' = [status EXCEPT ![a] = st]
        /\ IF last /\ f \notin deleted
           THEN /\ wr' = [wr EXCEPT ![a] = "completes"]
                /\ comp' = [comp EXCEPT ![f].pc = "gather"]
                /\ deleting' = NoFile
           ELSE /\ wr' = [wr EXCEPT ![a] = "idle"]
                /\ comp' = comp
                /\ Leaves(a)
        /\ buf' = [buf EXCEPT ![a] = 0]
        /\ Free(UnusedBuffer(a))
        /\ changed' = changed \cup {f}
        /\ UNCHANGED <<seg, loc, out, part, partFailed, thread, cached, locked, queued, deleted, limits>>

----------------------------------------------------------------------------
(* The cache thread *)

\* CheckFlush, called by Run once the cache holds something.
CheckFlush(f) ==
    /\ QueueFree /\ flusher.pc = "idle" /\ allocated > 0
    /\ f \in queued /\ cached[f] > 0
    /\ Active(f) = {} \/ stopped \/ allocated >= Threshold
    /\ flusher' = [flusher EXCEPT !.pc = "lock", !.file = f]
    /\ UNCHANGED <<status, wr, buf, seg, disk, cache, flushing, flushLock, files, limits>>

\* FlushCache takes the flush lock and collects the articles in memory.
FlushBegin ==
    LET f == flusher.file
    IN  /\ flusher.pc = "lock" /\ flushLock = "free"
        /\ IF f \in locked
           THEN /\ flusher' = [flusher EXCEPT !.pc = "release"]
                /\ UNCHANGED <<flushing, flushLock, locked>>
           ELSE /\ flushing' = TRUE /\ flushLock' = "cache"
                /\ locked' = locked \cup {f}
                /\ flusher' = [flusher EXCEPT !.pc = "flush", !.flushed = 0,
                                              !.todo = {a \in ArticlesOf(f) : seg[a] > 0}]
        /\ UNCHANGED <<status, wr, buf, seg, disk, cache, cached, queued, deleted, deleting, comp, limits>>

\* One article is written and its memory freed; without DirectWrite its file
\* has still to be renamed.
FlushArticle(a) ==
    /\ flusher.pc = "flush" /\ a \in flusher.todo /\ flusher.file \notin deleted
    /\ loc' = [loc EXCEPT ![a] = "open"]
    /\ seg' = [seg EXCEPT ![a] = 0]
    /\ Free(seg[a])
    /\ flusher' = [flusher EXCEPT !.todo = @ \ {a}, !.flushed = @ + 1,
                                  !.pc = IF directWrite THEN "flush" ELSE "rename"]
    /\ UNCHANGED <<status, wr, buf, out, part, partFailed, changed, flushing, flushLock, files, limits>>

\* The file cannot be opened: one article is given up, and the flush ends.
FlushFails(a) ==
    /\ flusher.pc = "flush" /\ a \in flusher.todo /\ flusher.file \notin deleted
    /\ mishaps < MaxMishaps /\ mishaps' = mishaps + 1 /\ lost' = TRUE
    /\ seg' = [seg EXCEPT ![a] = 0]
    /\ Free(seg[a])
    /\ flusher' = [flusher EXCEPT !.todo = {}, !.flushed = @ + 1]
    /\ UNCHANGED <<status, wr, buf, disk, flushing, flushLock, files, stopped, directWrite>>

Close(f) == [a \in Articles |-> IF FileOf[a] = f /\ loc[a] = "open" THEN "disk" ELSE loc[a]]
Dropped(f, where) == [a \in Articles |-> IF FileOf[a] = f /\ loc[a] \in where THEN "none" ELSE loc[a]]

FlushRename ==
    /\ flusher.pc = "rename"
    /\ loc' = Close(flusher.file)
    /\ flusher' = [flusher EXCEPT !.pc = "flush"]
    /\ UNCHANGED <<status, wr, buf, seg, out, part, partFailed, changed, cache, flushing, flushLock, files, limits>>

\* mutant: articles that came during the flush are forgotten
NoneCached(f) == 0

StillCached(f) == cached[f] - flusher.flushed

\* The output file is closed and the flush lock released.
FlushEnd ==
    LET f == flusher.file
    IN  /\ flusher.pc = "flush" /\ (flusher.todo = {} \/ f \in deleted)
        /\ loc' = Close(f)
        /\ cached' = [cached EXCEPT ![f] = StillCached(f)]
        /\ locked' = locked \ {f}
        /\ flushing' = FALSE /\ flushLock' = "free"
        /\ flusher' = [flusher EXCEPT !.pc = "release", !.todo = {}]
        /\ UNCHANGED <<status, wr, buf, seg, out, part, partFailed, changed, cache, queued, deleted, deleting, comp, limits>>

\* mutant: CheckFlush keeps the file
FlushKeepsFile ==
    /\ flusher.pc = "release"
    /\ flusher' = [flusher EXCEPT !.pc = "idle"]
    /\ UNCHANGED <<status, wr, buf, seg, disk, cache, flushing, flushLock, files, limits>>

\* CheckFlush forgets the file.
FlushRelease ==
    /\ flusher.pc = "release"
    /\ flusher' = [flusher EXCEPT !.pc = "idle", !.file = NoFile]
    /\ UNCHANGED <<status, wr, buf, seg, disk, cache, flushing, flushLock, files, limits>>

\* Run ends when it was stopped and the cache is empty.
CacheEnds ==
    /\ flusher.pc = "idle" /\ stopped /\ allocated = 0
    /\ flusher' = [flusher EXCEPT !.pc = "ended"]
    /\ UNCHANGED <<status, wr, buf, seg, disk, cache, flushing, flushLock, files, limits>>

Stop ==
    /\ ~stopped /\ stopped' = TRUE
    /\ UNCHANGED <<status, wr, buf, seg, disk, cache, thread, files, directWrite, mishaps, lost>>

----------------------------------------------------------------------------
(* CompleteFileParts, run by the downloader of the last article *)

Finished(f) == {a \in ArticlesOf(f) : status[a] = "finished"}

CompGoes(f, pc, todo) == comp' = [comp EXCEPT ![f] = [pc |-> pc, todo |-> todo]]

\* mutant: the flush lock is not taken
NoFlushLock(f) == FALSE

NeedsFlushLock(f) == cached[f] > 0

\* The counter of cached articles, read without a lock, decides whether the
\* flush lock is taken; a file without content is not assembled.
CompGather(f) ==
    /\ comp[f].pc = "gather"
    /\ CompGoes(f, IF Finished(f) = {} THEN "clean" ELSE IF NeedsFlushLock(f) THEN "lock" ELSE "process",
                Finished(f))
    /\ UNCHANGED <<status, wr, buf, seg, disk, cache, thread, cached, locked, queued, deleted, deleting, limits>>

\* SetupOutputFile fails: nothing is written.
CompFails(f) ==
    /\ comp[f].pc = "gather" /\ Finished(f) # {}
    /\ mishaps < MaxMishaps /\ mishaps' = mishaps + 1 /\ lost' = TRUE
    /\ CompGoes(f, "done", {})
    /\ UNCHANGED <<status, wr, buf, seg, disk, cache, thread, cached, locked, queued, deleted, deleting, stopped, directWrite>>

CompLock(f) ==
    /\ comp[f].pc = "lock" /\ flushLock = "free"
    /\ flushLock' = f /\ flushing' = TRUE
    /\ CompGoes(f, "process", comp[f].todo)
    /\ UNCHANGED <<status, wr, buf, seg, disk, cache, flusher, cached, locked, queued, deleted, deleting, limits>>

\* ProcessArticles: a segment in memory is written and freed; without
\* DirectWrite an article on disk is copied, and a missing one left out.
CompArticle(f, a) ==
    /\ comp[f].pc = "process" /\ a \in comp[f].todo
    /\ CompGoes(f, "process", comp[f].todo \ {a})
    /\ IF seg[a] > 0
       THEN /\ loc' = [loc EXCEPT ![a] = "open"]
            /\ out' = [out EXCEPT ![f] = @ \cup {a}]
       ELSE /\ loc' = loc
            /\ out' = [out EXCEPT ![f] = IF loc[a] = "disk" THEN @ \cup {a} ELSE @]
    /\ seg' = [seg EXCEPT ![a] = 0]
    /\ Free(seg[a])
    /\ UNCHANGED <<status, wr, buf, part, partFailed, changed, thread, cached, locked, queued, deleted, deleting, limits>>

\* The flush lock is released ...
CompUnlock(f) ==
    /\ comp[f].pc = "process" /\ comp[f].todo = {}
    /\ IF flushLock = f THEN flushLock' = "free" /\ flushing' = FALSE
       ELSE UNCHANGED <<flushLock, flushing>>
    /\ CompGoes(f, "close", {})
    /\ UNCHANGED <<status, wr, buf, seg, disk, cache, flusher, cached, locked, queued, deleted, deleting, limits>>

\* ... CommitDiskFile closes the output file; without DirectWrite it gets its
\* final name, where no partial state finds the segments written into it ...
CompClose(f) ==
    /\ comp[f].pc = "close"
    /\ loc' = IF directWrite THEN Close(f) ELSE Dropped(f, {"open"})
    /\ CompGoes(f, "clean", {})
    /\ UNCHANGED <<status, wr, buf, seg, out, part, partFailed, changed, cache, thread, cached, locked, queued, deleted, deleting, limits>>

\* ... and CleanupOldData moves the output file of DirectWrite to its final
\* name, or deletes the result files.
CompClean(f) ==
    /\ comp[f].pc = "clean"
    /\ loc' = Dropped(f, {"open", "disk"})
    /\ CompGoes(f, "done", {})
    /\ UNCHANGED <<status, wr, buf, seg, out, part, partFailed, changed, cache, thread, cached, locked, queued, deleted, deleting, limits>>

\* The completed file needs no partial state any more, and DeleteDownloader
\* takes the queue lock for DeleteFileInfo.
CompDone(f) ==
    /\ QueueFree /\ comp[f].pc = "done"
    /\ deleting' = f
    /\ changed' = changed \ {f}
    /\ wr' = [a \in Articles |-> IF FileOf[a] = f THEN "idle" ELSE wr[a]]
    /\ UNCHANGED <<status, buf, seg, loc, out, part, partFailed, cache, thread, cached, locked, queued, deleted, comp, limits>>

----------------------------------------------------------------------------
(* The queue *)

\* DeleteQueueEntry: a file without downloaders is deleted at once.
DeleteQueueEntry(f) ==
    /\ QueueFree /\ f \in queued \ deleted
    /\ deleted' = deleted \cup {f}
    /\ deleting' = IF Active(f) = {} THEN f ELSE NoFile
    /\ UNCHANGED <<status, wr, buf, seg, disk, cache, thread, cached, locked, queued, comp, limits>>

\* mutant: the cache thread is not waited for
NeverBusy(f) == FALSE

FileBusy(f) == flusher.file = f

\* The partial state of a file, and nothing to be saved for it any more.
SavedIs(f, done, failed) ==
    /\ part' = [part EXCEPT ![f] = done]
    /\ partFailed' = [partFailed EXCEPT ![f] = failed]
    /\ changed' = changed \ {f}

\* DeleteFileInfo waits, with the queue locked, until the cache thread has
\* left the file; the articles are destroyed with their segments, and what an
\* incomplete file has on disk is deleted.
DeleteFileInfo(f) ==
    /\ deleting = f /\ ~FileBusy(f)
    /\ deleting' = NoFile /\ queued' = queued \ {f} /\ deleted' = deleted \cup {f}
    /\ loc' = IF comp[f].pc = "done" THEN loc ELSE Dropped(f, {"open", "disk"})
    /\ Free(Cardinality(Bytes(seg, ArticlesOf(f))))
    /\ seg' = [a \in Articles |-> IF FileOf[a] = f THEN 0 ELSE seg[a]]
    /\ SavedIs(f, {}, {})
    /\ CompGoes(f, "no", {})
    /\ UNCHANGED <<status, wr, buf, out, thread, cached, locked, limits>>

\* DiscardDirectRename throws away the one article of a file that was only
\* needed for its name, unless the cache thread is flushing the file.
DiscardDirectRename(f) ==
    /\ QueueFree /\ f \in queued \ deleted /\ Active(f) = {} /\ f \notin locked
    /\ Cardinality({a \in ArticlesOf(f) : status[a] \in {"finished", "failed"}}) = 1
    /\ Free(Cardinality(Bytes(seg, ArticlesOf(f))))
    /\ seg' = [a \in Articles |-> IF FileOf[a] = f THEN 0 ELSE seg[a]]
    /\ status' = [a \in Articles |-> IF FileOf[a] = f THEN "undefined" ELSE status[a]]
    /\ loc' = Dropped(f, {"open", "disk"})
    /\ cached' = [cached EXCEPT ![f] = 0]
    /\ SavedIs(f, {}, {})
    /\ UNCHANGED <<wr, buf, out, thread, locked, queued, deleted, deleting, comp, limits>>

\* SavePartialState writes down which articles are done, also while the file
\* is being completed.
SavePartialState(f) ==
    /\ QueueFree /\ f \in queued /\ f \in changed
    /\ SavedIs(f, Finished(f), {a \in ArticlesOf(f) : status[a] = "failed"})
    /\ UNCHANGED <<status, wr, buf, seg, loc, out, cache, thread, files, limits>>

----------------------------------------------------------------------------
(* The program crashes and is started again.  LoadAllFileStates deletes the *)
(* partial states when it finds the cache flag, and LoadFileState leaves    *)
(* one article of a file to be downloaded.                                  *)

Saved(f) == part[f] \cup partFailed[f]

\* The articles of a file that may be taken for done.
Trusted(f) ==
    IF flag \/ f \notin queued THEN {{}}
    ELSE IF Saved(f) # ArticlesOf(f) THEN {Saved(f)}
    ELSE {Saved(f) \ {a} : a \in Saved(f)}

\* A trusted state names content that was moved away, or was open, in the crash.
NamesLostContent(f) == ~flag /\ f \in queued /\ \E a \in part[f] : loc[a] # "disk"

Restart ==
    /\ mishaps < MaxMishaps /\ mishaps' = mishaps + 1
    /\ \E t \in [Files -> SUBSET Articles] :
          /\ \A f \in Files : t[f] \in Trusted(f)
          /\ status' = [a \in Articles |-> IF a \notin t[FileOf[a]] THEN "undefined"
                                           ELSE IF a \in part[FileOf[a]] THEN "finished" ELSE "failed"]
    /\ lost' = (lost \/ \E f \in Files : NamesLostContent(f))
    /\ part' = IF flag THEN [f \in Files |-> {}] ELSE part
    /\ partFailed' = IF flag THEN [f \in Files |-> {}] ELSE partFailed
    /\ changed' = {}
    /\ wr' = [a \in Articles |-> "idle"]
    /\ buf' = [a \in Articles |-> 0] /\ seg' = [a \in Articles |-> 0]
    /\ loc' = [a \in Articles |-> IF loc[a] = "open" THEN "none" ELSE loc[a]]
    /\ out' = [f \in Files |-> IF f \in queued THEN {} ELSE out[f]]
    /\ allocated' = 0 /\ flushing' = FALSE /\ flushLock' = "free"
    /\ flusher' = [pc |-> "idle", file |-> NoFile, todo |-> {}, flushed |-> 0]
    /\ cached' = [f \in Files |-> 0] /\ locked' = {}
    /\ deleted' = deleted \ queued /\ deleting' = NoFile
    /\ comp' = [f \in Files |-> [pc |-> "no", todo |-> {}]]
    /\ stopped' = FALSE
    /\ UNCHANGED <<queued, flag, directWrite>>

----------------------------------------------------------------------------
WriterStep(a) ==
    \/ Alloc(a) \/ CacheFull(a) \/ FinishDisk(a) \/ FinishFailed(a) \/ ArticleCompleted(a)
    \/ \E n \in 1 .. Size : FinishCached(a, n)

CacheStep ==
    \/ \E f \in Files : CheckFlush(f)
    \/ \E a \in Articles : FlushArticle(a) \/ FlushFails(a)
    \/ FlushBegin \/ FlushRename \/ FlushEnd \/ FlushRelease \/ CacheEnds

CompStep(f) ==
    \/ CompGather(f) \/ CompFails(f) \/ CompLock(f) \/ CompUnlock(f)
    \/ CompClose(f) \/ CompClean(f) \/ CompDone(f)
    \/ \E a \in ArticlesOf(f) : CompArticle(f, a)

Next ==
    \/ \E a \in Articles : StartDownload(a) \/ WriterStep(a)
    \/ CacheStep
    \/ \E f \in Files :
          \/ CompStep(f) \/ DeleteQueueEntry(f) \/ DeleteFileInfo(f)
          \/ DiscardDirectRename(f) \/ SavePartialState(f)
    \/ Stop \/ Restart

Spec == Init /\ [][Next]_vars

\* Every thread goes on while it can, and one that waits for the flush lock
\* gets it when it is released again and again.
FairSpec ==
    /\ Spec
    /\ \A a \in Articles : WF_vars(WriterStep(a))
    /\ WF_vars(CacheStep)
    /\ \A f \in Files : WF_vars(CompStep(f)) /\ SF_vars(CompLock(f)) /\ WF_vars(DeleteFileInfo(f))

----------------------------------------------------------------------------
(* Properties *)

TypeOK ==
    /\ status \in [Articles -> {"undefined", "running", "finished", "failed"}]
    /\ wr \in [Articles -> {"idle", "alloc", "full", "cached", "disk", "finished", "failed", "completes"}]
    /\ buf \in [Articles -> 0 .. Size] /\ seg \in [Articles -> 0 .. Size]
    /\ loc \in [Articles -> {"none", "open", "disk"}]
    /\ allocated \in 0 .. Limit
    /\ flushing \in BOOLEAN /\ flushLock \in {"free", "cache"} \cup Files
    /\ flusher \in [pc : {"idle", "lock", "flush", "rename", "release", "ended"},
                    file : Files \cup {NoFile}, todo : SUBSET Articles, flushed : Nat]
    /\ cached \in [Files -> Nat] /\ locked \subseteq Files
    /\ queued \subseteq Files /\ deleted \subseteq Files /\ deleting \in Files \cup {NoFile}
    /\ comp \in [Files -> [pc : {"no", "gather", "lock", "process", "close", "clean", "done"}, todo : SUBSET Articles]]
    /\ out \in [Files -> SUBSET Articles]
    /\ part \in [Files -> SUBSET Articles] /\ partFailed \in [Files -> SUBSET Articles]
    /\ changed \subseteq Files
    /\ flag \in BOOLEAN /\ stopped \in BOOLEAN /\ directWrite \in BOOLEAN
    /\ mishaps \in Nat /\ lost \in BOOLEAN

\* The cache never loses track of its memory, whoever frees it: the limit and
\* the cache flag depend on the count (Alloc, Realloc, Free).
AllocatedIsHeld ==
    allocated = Cardinality(Bytes(buf, Articles)) + Cardinality(Bytes(seg, Articles))

\* The cache thread and the completion of a file only ever work on a file
\* that is still in the queue (FileBusy in DeleteFileInfo), and on articles
\* nobody else frees (m_flushLocked, the flush lock).
FlushedFileExists ==
    /\ flusher.file # NoFile => flusher.file \in queued
    /\ \A f \in Files : comp[f].pc # "no" => f \in queued
    /\ \A a \in flusher.todo : seg[a] > 0

\* Articles in memory are counted, so that the cache thread finds them and
\* CompleteFileParts takes the flush lock (m_cachedArticles).
CachedArticlesCounted ==
    \A f \in queued : comp[f].pc \in {"no", "gather"} =>
        Cardinality({a \in ArticlesOf(f) : seg[a] > 0}) <= cached[f]

\* The books of the cache are right, and the limit is kept (ArticleCache::Alloc).
CacheAccounted == TypeOK /\ AllocatedIsHeld /\ CachedArticlesCounted

\* Content is being moved: the cache thread has the file, or its completion
\* has begun to write the output file, and it is not yet out of the queue.
BeingMoved(f) == flusher.file = f \/ comp[f].pc \in {"process", "close", "clean", "done"}

\* A partial state that a restarted program would trust names only articles
\* whose content survives, except while the content of the file is being moved
\* (the cache flag, LoadAllFileStates).  A crash in that time may leave a state
\* that names content which is gone, all articles of the file included if it
\* was saved meanwhile.
TrustedStateOnDisk ==
    \A f \in queued :
        (~flag /\ ~BeingMoved(f) /\ ~lost) => \A a \in part[f] : loc[a] = "disk"

\* A completed file contains every article counted as downloaded, whichever
\* way each of them took and in whichever session (ProcessArticles), unless a
\* failed operation, or a crash while content was being moved, came before.
CompletedFileWhole ==
    ~lost => \A f \in Files : comp[f].pc \in {"close", "clean", "done"} => out[f] = Finished(f)

\* A file that was deleted while it has downloaders: the cache thread visits
\* it again and again and flushes nothing.
DeletedWithDownloaders == \E f \in queued \cap deleted : Active(f) # {}

\* A writer that finds the cache full is not kept waiting for ever (Start),
\* unless a deleted file keeps the cache thread busy.
WriterGetsOn ==
    \A a \in Articles :
        wr[a] \in {"alloc", "full"} ~> (wr[a] \notin {"alloc", "full"} \/ DeletedWithDownloaders)

\* Once stopped, the cache thread empties the cache and ends (Run), with the
\* same exception.
CacheThreadEnds == stopped ~> (flusher.pc = "ended" \/ ~stopped \/ DeletedWithDownloaders)

\* A deletion does not wait for the cache thread for ever with the queue
\* locked (FileBusy in DeleteFileInfo).
DeletionEnds == \A f \in Files : deleting = f ~> deleting # f

\* Nobody waits for ever: writers for memory, the ending cache thread for the
\* last segment, DeleteFileInfo, with the lock of the queue, for the flusher.
NobodyWaitsForEver == WriterGetsOn /\ CacheThreadEnds /\ DeletionEnds
=============================================================================

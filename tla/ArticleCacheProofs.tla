-------------------------- MODULE ArticleCacheProofs --------------------------
(***************************************************************************)
(* Proofs about the article cache, for any files and articles, any limit   *)
(* and any number of crashes and failed operations: the memory is          *)
(* accounted for, the cache thread and the completion work on files that   *)
(* exist, a trusted partial state is on disk and a completed file is       *)
(* whole.                                                                  *)
(***************************************************************************)
EXTENDS ArticleCache, FiniteSetTheorems, TLAPS

Busy == {"alloc", "full", "cached", "disk", "finished", "failed"}
Done == {"finished", "failed"}
Flushing == {"flush", "rename"}

Segs(f) == {a \in ArticlesOf(f) : seg[a] > 0}

(***************************************************************************)
(* The writer of an article: its file is in the queue, its buffer and its  *)
(* segment are where its step says.                                        *)
(***************************************************************************)
Writer(a) ==
    /\ wr[a] \in Busy => status[a] = "running" /\ FileOf[a] \in queued
    /\ wr[a] = "completes" => comp[FileOf[a]].pc # "no"
    /\ buf[a] > 0 => wr[a] \in {"cached", "failed"}
    /\ wr[a] = "cached" => buf[a] = Size
    /\ seg[a] > 0 => wr[a] \notin Busy \ {"finished"} /\ status[a] # "undefined"

(***************************************************************************)
(* The completion and the deletion of a file.                              *)
(***************************************************************************)
Completion(f) ==
    /\ comp[f].pc # "no" =>
          /\ f \in queued /\ \A a \in ArticlesOf(f) : status[a] \in Done
          /\ deleting = f \/ \E a \in ArticlesOf(f) : wr[a] = "completes"
    /\ deleting = f => f \in queued /\ Active(f) = {} /\ comp[f].pc \in {"no", "done"}
    /\ comp[f].pc = "process" /\ flushLock # f => cached[f] = 0

(***************************************************************************)
(* A file that is neither completed nor deleted has an article to wait     *)
(* for, and a partial state names articles of its file only.               *)
(***************************************************************************)
Unfinished(f) ==
    f \in queued =>
        /\ comp[f].pc = "no" /\ deleting # f => \E a \in ArticlesOf(f) : status[a] \notin Done
        /\ Saved(f) \subseteq ArticlesOf(f)

(***************************************************************************)
(* The cache thread.                                                       *)
(***************************************************************************)
Flushed(f) ==
    /\ Cardinality(Segs(f)) <= cached[f]
    /\ flusher.file = f => f \in queued
    /\ flusher.file = f /\ flusher.todo # {} => flusher.todo \subseteq Segs(f)
    /\ flusher.file = f /\ flusher.pc \in Flushing =>
          /\ flushLock = "cache" /\ f \in locked
          /\ Cardinality(Segs(f)) + flusher.flushed <= cached[f]

Flusher ==
    /\ flusher.pc \in {"lock", "flush", "rename"} => flusher.file \in Files
    /\ flusher.todo # {} => flusher.pc \in Flushing
    /\ \A f \in Files : Flushed(f)

Memory == AllocatedIsHeld /\ (allocated > 0 => flag)

(***************************************************************************)
(* Content in a file that is not closed: who is writing it.                *)
(***************************************************************************)
Opened(a) ==
    LET f == FileOf[a]
    IN  loc[a] = "open" =>
          \/ flusher.pc \in Flushing /\ flusher.file = f /\ flusher.flushed > 0
          \/ comp[f].pc = "process" /\ flushLock = f /\ a \notin comp[f].todo
          \/ comp[f].pc = "close"

(***************************************************************************)
(* The content of a finished article is somewhere until its file is        *)
(* closed and cleaned up after.                                            *)
(***************************************************************************)
Kept(a) ==
    (/\ FileOf[a] \in queued /\ comp[FileOf[a]].pc \notin {"clean", "done"}
     /\ wr[a] = "finished" \/ status[a] = "finished" \/ a \in part[FileOf[a]])
    => seg[a] > 0 \/ loc[a] \in {"open", "disk"}

Content == \A a \in Articles : Opened(a) /\ (~lost => Kept(a))

Output(f) ==
    /\ f \in queued /\ comp[f].pc \in {"no", "gather", "lock"} => out[f] = {}
    /\ comp[f].pc \in {"lock", "process"} => comp[f].todo \subseteq Finished(f)
    /\ comp[f].pc = "lock" => comp[f].todo = Finished(f)
    /\ ~lost /\ comp[f].pc = "process" => out[f] = Finished(f) \ comp[f].todo
    /\ ~lost /\ comp[f].pc \in {"close", "clean", "done"} => out[f] = Finished(f)

CacheInv ==
    /\ TypeOK /\ (\A a \in Articles : Writer(a))
    /\ (\A f \in Files : Completion(f) /\ Unfinished(f) /\ Output(f))
    /\ Flusher /\ Memory /\ Content
----------------------------------------------------------------------------
(* Memory is counted byte by byte *)

LEMMA BytesFinite ==
    ASSUME NEW m, NEW A \in SUBSET Articles
    PROVE  IsFiniteSet(Bytes(m, A)) /\ Cardinality(Bytes(m, A)) \in Nat
<1>1. IsFiniteSet(A)
    BY FS_Subset, SizesAssumption
<1>2. IsFiniteSet(1 .. Size)
    BY FS_Interval, SizesAssumption
<1>3. IsFiniteSet(A \X (1 .. Size))
    BY <1>1, <1>2, FS_Product
<1>4. Bytes(m, A) \in SUBSET (A \X (1 .. Size))
    BY DEF Bytes
<1>5. IsFiniteSet(Bytes(m, A))
    BY <1>3, <1>4, FS_Subset
<1>6. QED
    BY <1>5, FS_CardinalityType

LEMMA BytesOne ==
    ASSUME NEW m \in [Articles -> 0 .. Size], NEW a \in Articles
    PROVE  Cardinality(Bytes(m, {a})) = m[a]
<1> DEFINE n == m[a]
<1>1. n \in 0 .. Size /\ Size \in Nat
    BY SizesAssumption
<1>2. Bytes(m, {a}) = {a} \X (1 .. n)
  <2>1. ASSUME NEW b \in {a} \X (1 .. Size)
        PROVE  b[2] <= m[b[1]] <=> b \in {a} \X (1 .. n)
      BY <1>1
  <2>2. {a} \X (1 .. n) \subseteq {a} \X (1 .. Size)
      BY <1>1
  <2>3. QED
      BY <2>1, <2>2 DEF Bytes
<1>3. IsFiniteSet({a}) /\ Cardinality({a}) = 1
    BY FS_Singleton
<1>4. IsFiniteSet(1 .. n) /\ Cardinality(1 .. n) = n
    BY <1>1, FS_Interval
<1>5. Cardinality({a} \X (1 .. n)) = Cardinality({a}) * Cardinality(1 .. n)
    BY <1>3, <1>4, FS_Product, Zenon
<1>6. Cardinality(Bytes(m, {a})) = Cardinality({a} \X (1 .. n))
    BY <1>2, Zenon
<1> HIDE DEF n
<1>7. Cardinality(Bytes(m, {a})) = n
    BY <1>1, <1>3, <1>4, <1>5, <1>6
<1>8. QED
    BY <1>7 DEF n

LEMMA BytesSplit ==
    ASSUME NEW m, NEW A \in SUBSET Articles, NEW B \in SUBSET Articles, A \cap B = {}
    PROVE  Cardinality(Bytes(m, A \cup B)) = Cardinality(Bytes(m, A)) + Cardinality(Bytes(m, B))
<1>1. Bytes(m, A \cup B) = Bytes(m, A) \cup Bytes(m, B)
  <2> DEFINE C == 1 .. Size
  <2> HIDE DEF C
  <2>1. (A \cup B) \X C = (A \X C) \cup (B \X C)
      OBVIOUS
  <2>2. QED
      BY <2>1 DEF Bytes, C
<1>2. Bytes(m, A) \cap Bytes(m, B) = {}
  <2>1. ASSUME NEW b \in A \X (1 .. Size), b \in B \X (1 .. Size)
        PROVE  FALSE
    <3>1. b[1] \in A /\ b[1] \in B
        BY <2>1
    <3>2. QED
        BY <3>1
  <2>2. QED
      BY <2>1 DEF Bytes
<1>3. /\ IsFiniteSet(Bytes(m, A)) /\ Cardinality(Bytes(m, A)) \in Nat
      /\ IsFiniteSet(Bytes(m, B)) /\ Cardinality(Bytes(m, B)) \in Nat
    BY BytesFinite
<1>4. Cardinality(Bytes(m, A) \cup Bytes(m, B))
          = Cardinality(Bytes(m, A)) + Cardinality(Bytes(m, B)) - Cardinality(Bytes(m, A) \cap Bytes(m, B))
    BY <1>3, FS_Union
<1>5. Cardinality(Bytes(m, A) \cap Bytes(m, B)) = 0
    BY <1>2, FS_EmptySet
<1>6. Cardinality(Bytes(m, A \cup B)) = Cardinality(Bytes(m, A) \cup Bytes(m, B))
    BY <1>1, Zenon
<1>7. QED
    BY <1>3, <1>4, <1>5, <1>6

LEMMA BytesSame ==
    ASSUME NEW m, NEW n, NEW A, \A a \in A : m[a] = n[a]
    PROVE  Bytes(m, A) = Bytes(n, A)
<1>1. \A b \in A \X (1 .. Size) : b[2] <= m[b[1]] <=> b[2] <= n[b[1]]
    OBVIOUS
<1>2. QED
    BY <1>1 DEF Bytes

LEMMA BytesNone ==
    ASSUME NEW m, NEW A \in SUBSET Articles, \A a \in A : m[a] = 0
    PROVE  Cardinality(Bytes(m, A)) = 0
<1>1. ASSUME NEW b \in A \X (1 .. Size)
      PROVE  ~(b[2] <= m[b[1]])
    <2>1. b[1] \in A /\ b[2] \in 1 .. Size
        BY <1>1
    <2>2. m[b[1]] = 0
        BY <2>1
    <2>3. QED
        BY <2>1, <2>2
<1>2. Bytes(m, A) = {}
    BY <1>1 DEF Bytes
<1>3. QED
    BY <1>2, FS_EmptySet

\* What changes the memory of one article changes the total by as much.
LEMMA BytesChanged ==
    ASSUME NEW m \in [Articles -> 0 .. Size], NEW k \in [Articles -> 0 .. Size], NEW a \in Articles,
           \A b \in Articles \ {a} : k[b] = m[b]
    PROVE  Cardinality(Bytes(k, Articles)) = Cardinality(Bytes(m, Articles)) - m[a] + k[a]
<1> DEFINE R == Articles \ {a}
<1>1. R \in SUBSET Articles /\ {a} \in SUBSET Articles /\ R \cap {a} = {} /\ R \cup {a} = Articles
    OBVIOUS
<1>2. Bytes(k, R) = Bytes(m, R)
    BY BytesSame
<1>3. Cardinality(Bytes(m, R)) \in Nat
    BY <1>1, BytesFinite
<1>4. Cardinality(Bytes(m, R \cup {a})) = Cardinality(Bytes(m, R)) + Cardinality(Bytes(m, {a}))
    BY <1>1, BytesSplit
<1>5. Cardinality(Bytes(k, R \cup {a})) = Cardinality(Bytes(k, R)) + Cardinality(Bytes(k, {a}))
    BY <1>1, BytesSplit
<1>6. Cardinality(Bytes(m, {a})) = m[a] /\ Cardinality(Bytes(k, {a})) = k[a]
    BY BytesOne
<1>7. m[a] \in Nat /\ k[a] \in Nat
    BY SizesAssumption
<1> HIDE DEF R
<1>8. Cardinality(Bytes(k, R)) = Cardinality(Bytes(m, R))
    BY <1>2, Zenon
<1>9. QED
    BY <1>1, <1>3, <1>4, <1>5, <1>6, <1>7, <1>8

\* The memory of the articles of a file, freed together.
LEMMA BytesFreed ==
    ASSUME NEW m \in [Articles -> 0 .. Size], NEW A \in SUBSET Articles
    PROVE  LET k == [a \in Articles |-> IF a \in A THEN 0 ELSE m[a]]
           IN  Cardinality(Bytes(k, Articles)) = Cardinality(Bytes(m, Articles)) - Cardinality(Bytes(m, A))
<1> DEFINE k == [a \in Articles |-> IF a \in A THEN 0 ELSE m[a]]
           R == Articles \ A
<1>1. R \in SUBSET Articles /\ R \cap A = {} /\ R \cup A = Articles
    OBVIOUS
<1>2. Bytes(k, R) = Bytes(m, R)
    BY BytesSame
<1>3. Cardinality(Bytes(k, A)) = 0
    BY BytesNone
<1>4. Cardinality(Bytes(m, R)) \in Nat /\ Cardinality(Bytes(m, A)) \in Nat
    BY <1>1, BytesFinite
<1> HIDE DEF k
<1>5. Cardinality(Bytes(m, R \cup A)) = Cardinality(Bytes(m, R)) + Cardinality(Bytes(m, A))
    BY <1>1, BytesSplit
<1>6. Cardinality(Bytes(k, R \cup A)) = Cardinality(Bytes(k, R)) + Cardinality(Bytes(k, A))
    BY <1>1, BytesSplit
<1> HIDE DEF R
<1>7. Cardinality(Bytes(k, Articles)) = Cardinality(Bytes(m, Articles)) - Cardinality(Bytes(m, A))
    BY <1>1, <1>2, <1>3, <1>4, <1>5, <1>6
<1>8. QED
    BY <1>7 DEF k

----------------------------------------------------------------------------
(* What the cache holds *)

LEMMA HeldPart ==
    ASSUME NEW m, NEW A \in SUBSET Articles
    PROVE  Cardinality(Bytes(m, A)) <= Cardinality(Bytes(m, Articles))
<1>1. IsFiniteSet(Bytes(m, Articles))
    BY BytesFinite
<1>2. Bytes(m, A) \in SUBSET Bytes(m, Articles)
    BY DEF Bytes
<1>3. QED
    BY <1>1, <1>2, FS_Subset

\* Nobody frees more than is allocated.
LEMMA HeldBounds ==
    ASSUME TypeOK, AllocatedIsHeld
    PROVE  /\ \A a \in Articles : buf[a] <= allocated /\ seg[a] <= allocated
           /\ \A f \in Files : Cardinality(Bytes(seg, ArticlesOf(f))) \in 0 .. allocated
<1>1. /\ Cardinality(Bytes(buf, Articles)) \in Nat /\ Cardinality(Bytes(seg, Articles)) \in Nat
    BY BytesFinite
<1>2. allocated = Cardinality(Bytes(buf, Articles)) + Cardinality(Bytes(seg, Articles))
    BY DEF AllocatedIsHeld
<1>3. ASSUME NEW a \in Articles
      PROVE  buf[a] <= allocated /\ seg[a] <= allocated
  <2>1. Cardinality(Bytes(buf, {a})) = buf[a] /\ Cardinality(Bytes(seg, {a})) = seg[a]
      BY BytesOne DEF TypeOK
  <2>2. /\ Cardinality(Bytes(buf, {a})) <= Cardinality(Bytes(buf, Articles))
        /\ Cardinality(Bytes(seg, {a})) <= Cardinality(Bytes(seg, Articles))
      BY HeldPart
  <2>3. buf[a] \in Nat /\ seg[a] \in Nat
      BY SizesAssumption DEF TypeOK
  <2>4. QED
      BY <1>1, <1>2, <2>1, <2>2, <2>3
<1>4. ASSUME NEW f \in Files
      PROVE  Cardinality(Bytes(seg, ArticlesOf(f))) \in 0 .. allocated
  <2>1. ArticlesOf(f) \in SUBSET Articles
      BY DEF ArticlesOf
  <2>2. /\ Cardinality(Bytes(seg, ArticlesOf(f))) \in Nat
        /\ Cardinality(Bytes(seg, ArticlesOf(f))) <= Cardinality(Bytes(seg, Articles))
      BY <2>1, BytesFinite, HeldPart
  <2>3. QED
      BY <1>1, <1>2, <2>2
<1>5. QED
    BY <1>3, <1>4

LEMMA SegsFinite ==
    ASSUME NEW f
    PROVE  IsFiniteSet(Segs(f)) /\ Cardinality(Segs(f)) \in Nat
<1>1. IsFiniteSet(Segs(f))
    BY FS_Subset, SizesAssumption DEF Segs, ArticlesOf
<1>2. QED
    BY <1>1, FS_CardinalityType

\* The articles that were flushed and the segments that are left are counted
\* in the number of cached articles until the flush ends.
LEMMA FlushedCounted ==
    ASSUME CacheInv
    PROVE  flusher.pc \in Flushing =>
             /\ flusher.file \in Files /\ flushLock = "cache" /\ flusher.file \in locked
             /\ flusher.flushed \in 0 .. cached[flusher.file]
             /\ Cardinality(Segs(flusher.file)) + flusher.flushed <= cached[flusher.file]
<1> SUFFICES ASSUME flusher.pc \in Flushing
             PROVE  /\ flusher.file \in Files /\ flushLock = "cache" /\ flusher.file \in locked
                    /\ flusher.flushed \in 0 .. cached[flusher.file]
                    /\ Cardinality(Segs(flusher.file)) + flusher.flushed <= cached[flusher.file]
    OBVIOUS
<1>1. flusher.file \in Files /\ flushLock = "cache" /\ flusher.file \in locked
    BY DEF CacheInv, Flusher, Flushed, Flushing
<1>2. Cardinality(Segs(flusher.file)) \in Nat
    BY SegsFinite
<1>3. Cardinality(Segs(flusher.file)) + flusher.flushed <= cached[flusher.file]
    BY <1>1 DEF CacheInv, Flusher, Flushed
<1>4. flusher.flushed \in Nat /\ cached[flusher.file] \in Nat
    BY <1>1 DEF CacheInv, TypeOK
<1>5. QED
    BY <1>1, <1>2, <1>3, <1>4

LEMMA AllocatedType ==
    ASSUME CacheInv, [Next]_vars
    PROVE  allocated' \in 0 .. Limit
<1>a. allocated \in 0 .. Limit /\ Limit \in Nat /\ Size \in Nat
    BY SizesAssumption DEF CacheInv, TypeOK
<1>b. \A a \in Articles : buf[a] \in 0 .. allocated /\ seg[a] \in 0 .. allocated
    BY HeldBounds, SizesAssumption DEF CacheInv, Memory, TypeOK
<1>c. \A a \in Articles : wr[a] = "cached" => buf[a] = Size
    BY DEF CacheInv, Writer
<1>d. \A f \in Files : Cardinality(Bytes(seg, ArticlesOf(f))) \in 0 .. allocated
    BY HeldBounds DEF CacheInv, Memory
<1>1. CASE UNCHANGED vars
    BY <1>1, <1>a DEF vars, disk, cache, thread, files, limits
<1>2. ASSUME NEW a \in Articles, StartDownload(a)
      PROVE  allocated' \in 0 .. Limit
    BY <1>2, <1>a DEF StartDownload, vars, disk, cache, thread, files, limits
<1>3. ASSUME NEW a \in Articles, Alloc(a)
      PROVE  allocated' \in 0 .. Limit
    BY <1>3, <1>a DEF Alloc, vars, disk, cache, thread, files, limits, Fits
<1>4. ASSUME NEW a \in Articles, CacheFull(a)
      PROVE  allocated' \in 0 .. Limit
    BY <1>4, <1>a DEF CacheFull, vars, disk, cache, thread, files, limits
<1>5. ASSUME NEW a \in Articles, NEW n \in 1 .. Size, FinishCached(a, n)
      PROVE  allocated' \in 0 .. Limit
    BY <1>5, <1>a, <1>b, <1>c DEF FinishCached, Realloc, vars, disk, cache, thread, files, limits
<1>6. ASSUME NEW a \in Articles, FinishDisk(a)
      PROVE  allocated' \in 0 .. Limit
    BY <1>6, <1>a DEF FinishDisk, vars, disk, cache, thread, files, limits
<1>7. ASSUME NEW a \in Articles, FinishFailed(a)
      PROVE  allocated' \in 0 .. Limit
    BY <1>7, <1>a DEF FinishFailed, vars, disk, cache, thread, files, limits
<1>8. ASSUME NEW a \in Articles, ArticleCompleted(a)
      PROVE  allocated' \in 0 .. Limit
    BY <1>8, <1>a, <1>b DEF ArticleCompleted, Free, Leaves, UnusedBuffer, vars, disk, cache, thread,
        files, limits
<1>9. ASSUME NEW f \in Files, CheckFlush(f)
      PROVE  allocated' \in 0 .. Limit
    BY <1>9, <1>a DEF CheckFlush, vars, disk, cache, thread, files, limits
<1>10. CASE FlushBegin
    BY <1>10, <1>a DEF FlushBegin, vars, disk, cache, thread, files, limits
<1>11. ASSUME NEW a \in Articles, FlushArticle(a)
      PROVE  allocated' \in 0 .. Limit
    BY <1>11, <1>a, <1>b DEF FlushArticle, Free, vars, disk, cache, thread, files, limits
<1>12. ASSUME NEW a \in Articles, FlushFails(a)
      PROVE  allocated' \in 0 .. Limit
    BY <1>12, <1>a, <1>b DEF FlushFails, Free, vars, disk, cache, thread, files, limits
<1>13. CASE FlushRename
    BY <1>13, <1>a DEF FlushRename, Close, vars, disk, cache, thread, files, limits
<1>14. CASE FlushEnd
    BY <1>14, <1>a DEF FlushEnd, Close, StillCached, vars, disk, cache, thread, files, limits
<1>15. CASE FlushRelease
    BY <1>15, <1>a DEF FlushRelease, vars, disk, cache, thread, files, limits
<1>16. CASE CacheEnds
    BY <1>16, <1>a DEF CacheEnds, vars, disk, cache, thread, files, limits
<1>17. ASSUME NEW f \in Files, CompGather(f)
      PROVE  allocated' \in 0 .. Limit
    BY <1>17, <1>a DEF CompGather, CompGoes, Finished, vars, disk, cache, thread, files, limits
<1>18. ASSUME NEW f \in Files, CompFails(f)
      PROVE  allocated' \in 0 .. Limit
    BY <1>18, <1>a DEF CompFails, CompGoes, vars, disk, cache, thread, files, limits
<1>19. ASSUME NEW f \in Files, CompLock(f)
      PROVE  allocated' \in 0 .. Limit
    BY <1>19, <1>a DEF CompLock, CompGoes, vars, disk, cache, thread, files, limits
<1>20. ASSUME NEW f \in Files, NEW a \in ArticlesOf(f), CompArticle(f, a)
      PROVE  allocated' \in 0 .. Limit
    BY <1>20, <1>a, <1>b DEF CompArticle, CompGoes, Free, vars, disk, cache, thread, files, limits,
        ArticlesOf
<1>21. ASSUME NEW f \in Files, CompUnlock(f)
      PROVE  allocated' \in 0 .. Limit
    BY <1>21, <1>a DEF CompUnlock, CompGoes, vars, disk, cache, thread, files, limits
<1>22a. ASSUME NEW f \in Files, CompClose(f)
      PROVE  allocated' \in 0 .. Limit
    BY <1>22a, <1>a DEF CompClose, CompGoes, Close, Dropped, vars, disk, cache, thread, files, limits
<1>22. ASSUME NEW f \in Files, CompClean(f)
      PROVE  allocated' \in 0 .. Limit
    BY <1>22, <1>a DEF CompClean, CompGoes, Dropped, vars, disk, cache, thread, files, limits
<1>23. ASSUME NEW f \in Files, CompDone(f)
      PROVE  allocated' \in 0 .. Limit
    BY <1>23, <1>a DEF CompDone, vars, disk, cache, thread, files, limits
<1>24. ASSUME NEW f \in Files, DeleteQueueEntry(f)
      PROVE  allocated' \in 0 .. Limit
    BY <1>24, <1>a DEF DeleteQueueEntry, vars, disk, cache, thread, files, limits
<1>25. ASSUME NEW f \in Files, DeleteFileInfo(f)
      PROVE  allocated' \in 0 .. Limit
    BY <1>25, <1>a, <1>d DEF DeleteFileInfo, SavedIs, Dropped, CompGoes, Free, FileBusy, vars, disk, cache, thread,
        files, limits
<1>26. ASSUME NEW f \in Files, DiscardDirectRename(f)
      PROVE  allocated' \in 0 .. Limit
    BY <1>26, <1>a, <1>d DEF DiscardDirectRename, SavedIs, Dropped, Free, vars, disk, cache, thread, files, limits
<1>27. ASSUME NEW f \in Files, SavePartialState(f)
      PROVE  allocated' \in 0 .. Limit
    BY <1>27, <1>a DEF SavePartialState, SavedIs, Finished, vars, disk, cache, thread, files, limits
<1>28. CASE Stop
    BY <1>28, <1>a DEF Stop, vars, disk, cache, thread, files, limits
<1>29. CASE Restart
    BY <1>29, <1>a DEF Restart, vars, disk, cache, thread, files, limits
<1>30. QED
    BY <1>1, <1>2, <1>3, <1>4, <1>5, <1>6, <1>7, <1>8, <1>9, <1>10, <1>11, <1>12, <1>13,
        <1>14, <1>15, <1>16, <1>17, <1>18, <1>19, <1>20, <1>21, <1>22, <1>22a, <1>23, <1>24, <1>25,
        <1>26, <1>27, <1>28, <1>29 DEF Next, WriterStep, CacheStep, CompStep

TypeCount == allocated \in 0 .. Limit

TypeArticles ==
    /\ status \in [Articles -> {"undefined", "running", "finished", "failed"}]
    /\ wr \in [Articles -> {"idle", "alloc", "full", "cached", "disk", "finished", "failed", "completes"}]
    /\ buf \in [Articles -> 0 .. Size] /\ seg \in [Articles -> 0 .. Size]
    /\ loc \in [Articles -> {"none", "open", "disk"}]

TypeThread ==
    /\ flushing \in BOOLEAN /\ flushLock \in {"free", "cache"} \cup Files
    /\ flusher \in [pc : {"idle", "lock", "flush", "rename", "release", "ended"},
                    file : Files \cup {NoFile}, todo : SUBSET Articles, flushed : Nat]

TypeFiles ==
    /\ cached \in [Files -> Nat] /\ locked \subseteq Files
    /\ queued \subseteq Files /\ deleted \subseteq Files /\ deleting \in Files \cup {NoFile}
    /\ comp \in [Files -> [pc : {"no", "gather", "lock", "process", "close", "clean", "done"}, todo : SUBSET Articles]]

TypeDisk ==
    /\ out \in [Files -> SUBSET Articles]
    /\ part \in [Files -> SUBSET Articles] /\ partFailed \in [Files -> SUBSET Articles]
    /\ changed \subseteq Files
    /\ flag \in BOOLEAN /\ stopped \in BOOLEAN /\ directWrite \in BOOLEAN
    /\ mishaps \in Nat /\ lost \in BOOLEAN

LEMMA TypeParts ==
    TypeOK <=> TypeCount /\ TypeArticles /\ TypeThread /\ TypeFiles /\ TypeDisk
BY DEF TypeOK, TypeCount, TypeArticles, TypeThread, TypeFiles, TypeDisk

LEMMA TypeStep ==
    ASSUME CacheInv, [Next]_vars
    PROVE  TypeOK'
<1>a. /\ TypeOK /\ TypeArticles /\ TypeThread /\ TypeFiles /\ TypeDisk
      /\ 0 \in 0 .. Size /\ Size \in 0 .. Size /\ 1 .. Size \subseteq 0 .. Size
    BY SizesAssumption, TypeParts DEF CacheInv
<1>b. allocated' \in 0 .. Limit /\ TypeCount'
    BY AllocatedType DEF TypeCount
<1>c. FileOf \in [Articles -> Files]
    BY SizesAssumption
<1>d. /\ flusher.pc \in {"lock", "flush", "rename"} => flusher.file \in Files
      /\ flusher.pc \in Flushing => cached[flusher.file] - flusher.flushed \in Nat
    BY FlushedCounted DEF CacheInv, Flusher, TypeOK
<1>1. CASE UNCHANGED vars
    BY <1>1, <1>a DEF vars, disk, cache, thread, files, limits, TypeOK
<1>2. ASSUME NEW a \in Articles, StartDownload(a)
      PROVE  TypeOK'
    BY <1>2, <1>a, <1>b DEF StartDownload, vars, disk, cache, thread, files, limits, TypeOK
<1>3. ASSUME NEW a \in Articles, Alloc(a)
      PROVE  TypeOK'
  <2>1. TypeArticles'
      BY <1>3, <1>a DEF Alloc, vars, disk, cache, thread, files, limits, TypeArticles
  <2>2. TypeThread'
      BY <1>3, <1>a DEF Alloc, vars, disk, cache, thread, files, limits, TypeThread
  <2>3. TypeFiles'
      BY <1>3, <1>a DEF Alloc, vars, disk, cache, thread, files, limits, TypeFiles
  <2>4. TypeDisk'
      BY <1>3, <1>a DEF Alloc, vars, disk, cache, thread, files, limits, TypeDisk
  <2>5. QED
      BY <1>b, <2>1, <2>2, <2>3, <2>4, TypeParts, PTL
<1>4. ASSUME NEW a \in Articles, CacheFull(a)
      PROVE  TypeOK'
    BY <1>4, <1>a, <1>b DEF CacheFull, vars, disk, cache, thread, files, limits, TypeOK
<1>5. ASSUME NEW a \in Articles, NEW n \in 1 .. Size, FinishCached(a, n)
      PROVE  TypeOK'
    BY <1>5, <1>a, <1>b, <1>c DEF FinishCached, Realloc, vars, disk, cache, thread, files, limits,
        TypeOK
<1>6. ASSUME NEW a \in Articles, FinishDisk(a)
      PROVE  TypeOK'
    BY <1>6, <1>a, <1>b DEF FinishDisk, vars, disk, cache, thread, files, limits, TypeOK
<1>7. ASSUME NEW a \in Articles, FinishFailed(a)
      PROVE  TypeOK'
    BY <1>7, <1>a, <1>b DEF FinishFailed, vars, disk, cache, thread, files, limits, TypeOK
<1>8. ASSUME NEW a \in Articles, ArticleCompleted(a)
      PROVE  TypeOK'
  <2>1. TypeArticles'
      BY <1>8, <1>a, <1>c DEF ArticleCompleted, Free, Leaves, UnusedBuffer, vars, disk, cache,
          thread, files, limits, TypeArticles
  <2>2. TypeThread'
      BY <1>8, <1>a, <1>c DEF ArticleCompleted, Free, Leaves, UnusedBuffer, vars, disk, cache,
          thread, files, limits, TypeThread
  <2>3. TypeFiles'
      BY SMTT(30), <1>8, <1>a, <1>c DEF ArticleCompleted, Free, Leaves, UnusedBuffer, vars, disk, cache,
          thread, files, limits, TypeFiles
  <2>4. TypeDisk'
      BY <1>8, <1>a, <1>c DEF ArticleCompleted, Free, Leaves, UnusedBuffer, vars, disk, cache,
          thread, files, limits, TypeDisk
  <2>5. QED
      BY <1>b, <2>1, <2>2, <2>3, <2>4, TypeParts, PTL
<1>9. ASSUME NEW f \in Files, CheckFlush(f)
      PROVE  TypeOK'
    BY <1>9, <1>a, <1>b DEF CheckFlush, vars, disk, cache, thread, files, limits, TypeOK
<1>10. CASE FlushBegin
  <2>1. TypeArticles'
      BY <1>10, <1>a, <1>d DEF FlushBegin, vars, disk, cache, thread, files, limits, TypeArticles,
          ArticlesOf
  <2>2. TypeThread'
    <3>1. flushing' \in BOOLEAN /\ flushLock' \in {"free", "cache"} \cup Files
        BY <1>10, <1>a, <1>d DEF FlushBegin, vars, disk, cache, thread, files, limits, TypeThread,
            ArticlesOf
    <3>2. {a \in ArticlesOf(flusher.file) : seg[a] > 0} \in SUBSET Articles
        BY DEF ArticlesOf
    <3>3. flusher \in [pc : {"idle", "lock", "flush", "rename", "release", "ended"},
                      file : Files \cup {NoFile}, todo : SUBSET Articles, flushed : Nat]
        BY <1>a DEF TypeThread
    <3>4. \E T \in SUBSET Articles :
            \/ flusher' = [flusher EXCEPT !.pc = "release"]
            \/ flusher' = [flusher EXCEPT !.pc = "flush", !.flushed = 0, !.todo = T]
        BY <1>10, <3>2 DEF FlushBegin
    <3>5. CASE flusher' = [flusher EXCEPT !.pc = "release"]
        BY <3>1, <3>3, <3>5 DEF TypeThread
    <3>6. ASSUME NEW T \in SUBSET Articles,
                flusher' = [flusher EXCEPT !.pc = "flush", !.flushed = 0, !.todo = T]
         PROVE  TypeThread'
        BY <3>1, <3>3, <3>6 DEF TypeThread
    <3>7. QED
        BY <3>4, <3>5, <3>6
  <2>3. TypeFiles'
      BY <1>10, <1>a, <1>d DEF FlushBegin, vars, disk, cache, thread, files, limits, TypeFiles,
          ArticlesOf
  <2>4. TypeDisk'
      BY <1>10, <1>a, <1>d DEF FlushBegin, vars, disk, cache, thread, files, limits, TypeDisk,
          ArticlesOf
  <2>5. QED
      BY <1>b, <2>1, <2>2, <2>3, <2>4, TypeParts, PTL
<1>11. ASSUME NEW a \in Articles, FlushArticle(a)
      PROVE  TypeOK'
  <2>1. TypeArticles'
      BY <1>11, <1>a DEF FlushArticle, Free, vars, disk, cache, thread, files, limits, TypeArticles
  <2>2. TypeThread'
    <3>1. flushing' \in BOOLEAN /\ flushLock' \in {"free", "cache"} \cup Files
        BY <1>11, <1>a DEF FlushArticle, Free, vars, disk, cache, thread, files, limits, TypeThread
    <3>2. (flusher.todo \ {a}) \in SUBSET Articles
        BY <1>11, <1>a DEF FlushArticle, Free, vars, disk, cache, thread, files, limits, TypeThread
    <3>3. flusher \in [pc : {"idle", "lock", "flush", "rename", "release", "ended"},
                      file : Files \cup {NoFile}, todo : SUBSET Articles, flushed : Nat]
        BY <1>a DEF TypeThread
    <3>4. flusher.flushed + 1 \in Nat
        BY <3>3
    <3>5. \E p \in {"flush", "rename"} :
             flusher' = [flusher EXCEPT !.pc = p, !.todo = (flusher.todo \ {a}), !.flushed = flusher.flushed + 1]
        BY <1>11 DEF FlushArticle, Free
    <3>6. flusher' \in [pc : {"idle", "lock", "flush", "rename", "release", "ended"},
                    file : Files \cup {NoFile}, todo : SUBSET Articles, flushed : Nat]
        BY <3>2, <3>3, <3>4, <3>5
    <3>7. QED
        BY <3>1, <3>2, <3>3, <3>4, <3>5, <3>6 DEF TypeThread
  <2>3. TypeFiles'
      BY <1>11, <1>a DEF FlushArticle, Free, vars, disk, cache, thread, files, limits, TypeFiles
  <2>4. TypeDisk'
      BY <1>11, <1>a DEF FlushArticle, Free, vars, disk, cache, thread, files, limits, TypeDisk
  <2>5. QED
      BY <1>b, <2>1, <2>2, <2>3, <2>4, TypeParts, PTL
<1>12. ASSUME NEW a \in Articles, FlushFails(a)
      PROVE  TypeOK'
  <2>1. TypeArticles'
      BY <1>12, <1>a DEF FlushFails, Free, vars, disk, cache, thread, files, limits, TypeArticles
  <2>2. TypeThread'
    <3>1. flushing' \in BOOLEAN /\ flushLock' \in {"free", "cache"} \cup Files
        BY <1>12, <1>a DEF FlushFails, Free, vars, disk, cache, thread, files, limits, TypeThread
    <3>2. {} \in SUBSET Articles
        BY <1>12, <1>a DEF FlushFails, Free, vars, disk, cache, thread, files, limits, TypeThread
    <3>3. flusher \in [pc : {"idle", "lock", "flush", "rename", "release", "ended"},
                      file : Files \cup {NoFile}, todo : SUBSET Articles, flushed : Nat]
        BY <1>a DEF TypeThread
    <3>4. flusher.flushed + 1 \in Nat
        BY <3>3
    <3>5. \E p \in {"flush"} :
             flusher' = [flusher EXCEPT !.pc = p, !.todo = {}, !.flushed = flusher.flushed + 1]
        BY <1>12 DEF FlushFails, Free
    <3>6. flusher' \in [pc : {"idle", "lock", "flush", "rename", "release", "ended"},
                    file : Files \cup {NoFile}, todo : SUBSET Articles, flushed : Nat]
        BY <3>2, <3>3, <3>4, <3>5
    <3>7. QED
        BY <3>1, <3>2, <3>3, <3>4, <3>5, <3>6 DEF TypeThread
  <2>3. TypeFiles'
      BY <1>12, <1>a DEF FlushFails, Free, vars, disk, cache, thread, files, limits, TypeFiles
  <2>4. TypeDisk'
    <3>1. /\ out' \in [Files -> SUBSET Articles] /\ part' \in [Files -> SUBSET Articles]
          /\ partFailed' \in [Files -> SUBSET Articles] /\ changed' \subseteq Files
        BY <1>12, <1>a DEF FlushFails, Free, vars, disk, cache, thread, files, limits, TypeDisk
    <3>2. flag' \in BOOLEAN
        BY <1>12, <1>a DEF FlushFails, Free, vars, disk, cache, thread, files, limits, TypeDisk
    <3>3. stopped' \in BOOLEAN /\ directWrite' \in BOOLEAN
        BY <1>12, <1>a DEF FlushFails, Free, vars, disk, cache, thread, files, limits, TypeDisk
    <3>4. mishaps' \in Nat
        BY <1>12, <1>a DEF FlushFails, Free, vars, disk, cache, thread, files, limits, TypeDisk
    <3>5. lost' \in BOOLEAN
        BY <1>12, <1>a DEF FlushFails, Free, vars, disk, cache, thread, files, limits, TypeDisk
    <3>6. QED
        BY <3>1, <3>2, <3>3, <3>4, <3>5 DEF TypeDisk
  <2>5. QED
      BY <1>b, <2>1, <2>2, <2>3, <2>4, TypeParts, PTL
<1>13. CASE FlushRename
    BY <1>13, <1>a, <1>b DEF FlushRename, Close, vars, disk, cache, thread, files, limits, TypeOK
<1>14. CASE FlushEnd
  <2>1. TypeArticles'
      BY <1>14, <1>a, <1>d DEF FlushEnd, Close, StillCached, vars, disk, cache, thread, files,
          limits, TypeArticles, Flushing
  <2>2. TypeThread'
      BY <1>14, <1>a, <1>d DEF FlushEnd, Close, StillCached, vars, disk, cache, thread, files,
          limits, TypeThread, Flushing
  <2>3. TypeFiles'
      BY <1>14, <1>a, <1>d DEF FlushEnd, Close, StillCached, vars, disk, cache, thread, files,
          limits, TypeFiles, Flushing
  <2>4. TypeDisk'
      BY <1>14, <1>a, <1>d DEF FlushEnd, Close, StillCached, vars, disk, cache, thread, files,
          limits, TypeDisk, Flushing
  <2>5. QED
      BY <1>b, <2>1, <2>2, <2>3, <2>4, TypeParts, PTL
<1>15. CASE FlushRelease
    BY <1>15, <1>a, <1>b DEF FlushRelease, vars, disk, cache, thread, files, limits, TypeOK
<1>16. CASE CacheEnds
    BY <1>16, <1>a, <1>b DEF CacheEnds, vars, disk, cache, thread, files, limits, TypeOK
<1>17. ASSUME NEW f \in Files, CompGather(f)
      PROVE  TypeOK'
    BY <1>17, <1>a, <1>b DEF CompGather, CompGoes, Finished, vars, disk, cache, thread, files,
        limits, TypeOK, ArticlesOf
<1>18. ASSUME NEW f \in Files, CompFails(f)
      PROVE  TypeOK'
    BY <1>18, <1>a, <1>b DEF CompFails, CompGoes, vars, disk, cache, thread, files, limits, TypeOK
<1>19. ASSUME NEW f \in Files, CompLock(f)
      PROVE  TypeOK'
    BY <1>19, <1>a, <1>b DEF CompLock, CompGoes, vars, disk, cache, thread, files, limits, TypeOK
<1>20. ASSUME NEW f \in Files, NEW a \in ArticlesOf(f), CompArticle(f, a)
      PROVE  TypeOK'
  <2>1. TypeArticles'
      BY <1>20, <1>a, <1>c DEF CompArticle, CompGoes, Free, vars, disk, cache, thread, files,
          limits, TypeArticles, ArticlesOf
  <2>2. TypeThread'
      BY <1>20, <1>a, <1>c DEF CompArticle, CompGoes, Free, vars, disk, cache, thread, files,
          limits, TypeThread, ArticlesOf
  <2>3. TypeFiles'
      BY <1>20, <1>a, <1>c DEF CompArticle, CompGoes, Free, vars, disk, cache, thread, files,
          limits, TypeFiles, ArticlesOf
  <2>4. TypeDisk'
    <3>1. /\ out' \in [Files -> SUBSET Articles] /\ part' \in [Files -> SUBSET Articles]
          /\ partFailed' \in [Files -> SUBSET Articles] /\ changed' \subseteq Files
        BY <1>20, <1>a, <1>c DEF CompArticle, CompGoes, Free, vars, disk, cache, thread, files,
            limits, TypeDisk, ArticlesOf
    <3>2. flag' \in BOOLEAN
        BY <1>20, <1>a, <1>c DEF CompArticle, CompGoes, Free, vars, disk, cache, thread, files,
            limits, TypeDisk, ArticlesOf
    <3>3. stopped' \in BOOLEAN /\ directWrite' \in BOOLEAN
        BY <1>20, <1>a, <1>c DEF CompArticle, CompGoes, Free, vars, disk, cache, thread, files,
            limits, TypeDisk, ArticlesOf
    <3>4. mishaps' \in Nat
        BY <1>20, <1>a, <1>c DEF CompArticle, CompGoes, Free, vars, disk, cache, thread, files,
            limits, TypeDisk, ArticlesOf
    <3>5. lost' \in BOOLEAN
        BY <1>20, <1>a, <1>c DEF CompArticle, CompGoes, Free, vars, disk, cache, thread, files,
            limits, TypeDisk, ArticlesOf
    <3>6. QED
        BY <3>1, <3>2, <3>3, <3>4, <3>5 DEF TypeDisk
  <2>5. QED
      BY <1>b, <2>1, <2>2, <2>3, <2>4, TypeParts, PTL
<1>21. ASSUME NEW f \in Files, CompUnlock(f)
      PROVE  TypeOK'
    BY ZenonT(30), <1>21, <1>a, <1>b DEF CompUnlock, CompGoes, vars, disk, cache, thread, files, limits, TypeOK
<1>22a. ASSUME NEW f \in Files, CompClose(f)
      PROVE  TypeOK'
    BY <1>22a, <1>a, <1>b DEF CompClose, CompGoes, Close, Dropped, vars, disk, cache, thread, files, limits,
        TypeOK
<1>22. ASSUME NEW f \in Files, CompClean(f)
      PROVE  TypeOK'
    BY <1>22, <1>a, <1>b DEF CompClean, CompGoes, Dropped, vars, disk, cache, thread, files, limits,
        TypeOK
<1>23. ASSUME NEW f \in Files, CompDone(f)
      PROVE  TypeOK'
    BY <1>23, <1>a, <1>b DEF CompDone, vars, disk, cache, thread, files, limits, TypeOK
<1>24. ASSUME NEW f \in Files, DeleteQueueEntry(f)
      PROVE  TypeOK'
    BY <1>24, <1>a, <1>b DEF DeleteQueueEntry, vars, disk, cache, thread, files, limits, TypeOK
<1>25. ASSUME NEW f \in Files, DeleteFileInfo(f)
      PROVE  TypeOK'
    BY ZenonT(30), <1>25, <1>a, <1>b DEF DeleteFileInfo, SavedIs, Dropped, CompGoes, Free, FileBusy, vars, disk, cache, thread,
        files, limits, TypeOK
<1>26. ASSUME NEW f \in Files, DiscardDirectRename(f)
      PROVE  TypeOK'
  <2>1. TypeArticles'
      BY <1>26, <1>a DEF DiscardDirectRename, SavedIs, Dropped, Free, vars, disk, cache, thread, files, limits,
          TypeArticles
  <2>2. TypeThread'
      BY <1>26, <1>a DEF DiscardDirectRename, SavedIs, Dropped, Free, vars, disk, cache, thread, files, limits,
          TypeThread
  <2>3. TypeFiles'
      BY <1>26, <1>a DEF DiscardDirectRename, SavedIs, Dropped, Free, vars, disk, cache, thread, files, limits,
          TypeFiles
  <2>4. TypeDisk'
      BY <1>26, <1>a DEF DiscardDirectRename, SavedIs, Dropped, Free, vars, disk, cache, thread, files, limits,
          TypeDisk
  <2>5. QED
      BY <1>b, <2>1, <2>2, <2>3, <2>4, TypeParts, PTL
<1>27. ASSUME NEW f \in Files, SavePartialState(f)
      PROVE  TypeOK'
    BY <1>27, <1>a, <1>b DEF SavePartialState, SavedIs, Finished, vars, disk, cache, thread, files, limits,
        TypeOK, ArticlesOf
<1>28. CASE Stop
    BY <1>28, <1>a, <1>b DEF Stop, vars, disk, cache, thread, files, limits, TypeOK
<1>29. CASE Restart
  <2>1. TypeArticles'
      BY <1>29, <1>a DEF Restart, vars, disk, cache, thread, files, limits, TypeArticles
  <2>2. TypeThread'
      BY <1>29, <1>a DEF Restart, vars, disk, cache, thread, files, limits, TypeThread
  <2>3. TypeFiles'
      BY <1>29, <1>a DEF Restart, vars, disk, cache, thread, files, limits, TypeFiles
  <2>4. TypeDisk'
    <3>1. /\ out' \in [Files -> SUBSET Articles] /\ part' \in [Files -> SUBSET Articles]
          /\ partFailed' \in [Files -> SUBSET Articles] /\ changed' \subseteq Files
        BY <1>29, <1>a DEF Restart, vars, disk, cache, thread, files, limits, TypeDisk
    <3>2. flag' \in BOOLEAN
        BY <1>29, <1>a DEF Restart, vars, disk, cache, thread, files, limits, TypeDisk
    <3>3. stopped' \in BOOLEAN /\ directWrite' \in BOOLEAN
        BY <1>29, <1>a DEF Restart, vars, disk, cache, thread, files, limits, TypeDisk
    <3>4. mishaps' \in Nat
        BY <1>29, <1>a DEF Restart, vars, disk, cache, thread, files, limits, TypeDisk
    <3>5. lost' \in BOOLEAN
        BY <1>29, <1>a DEF Restart, vars, disk, cache, thread, files, limits, TypeDisk
    <3>6. QED
        BY <3>1, <3>2, <3>3, <3>4, <3>5 DEF TypeDisk
  <2>5. QED
      BY <1>b, <2>1, <2>2, <2>3, <2>4, TypeParts, PTL
<1>30. QED
    BY <1>1, <1>2, <1>3, <1>4, <1>5, <1>6, <1>7, <1>8, <1>9, <1>10, <1>11, <1>12, <1>13,
        <1>14, <1>15, <1>16, <1>17, <1>18, <1>19, <1>20, <1>21, <1>22, <1>22a, <1>23, <1>24, <1>25,
        <1>26, <1>27, <1>28, <1>29 DEF Next, WriterStep, CacheStep, CompStep


----------------------------------------------------------------------------
(* The invariant is preserved: one lemma for each of its parts *)

LEMMA WritersStep ==
    ASSUME CacheInv, [Next]_vars, NEW x \in Articles
    PROVE  Writer(x)'
<1>a. /\ status \in [Articles -> {"undefined", "running", "finished", "failed"}]
      /\ wr \in [Articles -> {"idle", "alloc", "full", "cached", "disk", "finished", "failed", "completes"}]
      /\ buf \in [Articles -> 0 .. Size] /\ seg \in [Articles -> 0 .. Size] /\ Size \in Nat \ {0}
      /\ FileOf \in [Articles -> Files]
      /\ comp \in [Files -> [pc : {"no", "gather", "lock", "process", "close", "clean", "done"}, todo : SUBSET Articles]]
    BY SizesAssumption DEF CacheInv, TypeOK
<1>b. \A a \in Articles : Writer(a)
    BY DEF CacheInv
<1>c. \A f \in Files : comp[f].pc = "process" => comp[f].todo \subseteq Finished(f)
    BY DEF CacheInv, Output
<1>d. \A f \in Files : /\ comp[f].pc # "no" => \A a \in ArticlesOf(f) : status[a] \in Done
                       /\ deleting = f => Active(f) = {}
    BY DEF CacheInv, Completion
<1>1. CASE UNCHANGED vars
    BY <1>1, <1>a, <1>b DEF vars, disk, cache, thread, files, limits, Writer, Busy
<1>2. ASSUME NEW a \in Articles, StartDownload(a)
      PROVE  Writer(x)'
    BY <1>2, <1>a, <1>b DEF StartDownload, vars, disk, cache, thread, files, limits, Writer, Busy
<1>3. ASSUME NEW a \in Articles, Alloc(a)
      PROVE  Writer(x)'
    BY <1>3, <1>a, <1>b DEF Alloc, vars, disk, cache, thread, files, limits, Writer, Busy
<1>4. ASSUME NEW a \in Articles, CacheFull(a)
      PROVE  Writer(x)'
    BY <1>4, <1>a, <1>b DEF CacheFull, vars, disk, cache, thread, files, limits, Writer, Busy
<1>5. ASSUME NEW a \in Articles, NEW n \in 1 .. Size, FinishCached(a, n)
      PROVE  Writer(x)'
    BY <1>5, <1>a, <1>b DEF FinishCached, Realloc, vars, disk, cache, thread, files, limits, Writer,
        Busy
<1>6. ASSUME NEW a \in Articles, FinishDisk(a)
      PROVE  Writer(x)'
    BY <1>6, <1>a, <1>b DEF FinishDisk, vars, disk, cache, thread, files, limits, Writer, Busy
<1>7. ASSUME NEW a \in Articles, FinishFailed(a)
      PROVE  Writer(x)'
    BY <1>7, <1>a, <1>b DEF FinishFailed, vars, disk, cache, thread, files, limits, Writer, Busy
<1>8. ASSUME NEW a \in Articles, ArticleCompleted(a)
      PROVE  Writer(x)'
    BY <1>8, <1>a, <1>b DEF ArticleCompleted, Free, Leaves, UnusedBuffer, vars, disk, cache, thread,
        files, limits, Writer, Busy
<1>9. ASSUME NEW f \in Files, CheckFlush(f)
      PROVE  Writer(x)'
    BY <1>9, <1>a, <1>b DEF CheckFlush, vars, disk, cache, thread, files, limits, Writer, Busy
<1>10. CASE FlushBegin
    BY <1>10, <1>a, <1>b DEF FlushBegin, vars, disk, cache, thread, files, limits, Writer, Busy
<1>11. ASSUME NEW a \in Articles, FlushArticle(a)
      PROVE  Writer(x)'
    BY <1>11, <1>a, <1>b DEF FlushArticle, Free, vars, disk, cache, thread, files, limits, Writer,
        Busy
<1>12. ASSUME NEW a \in Articles, FlushFails(a)
      PROVE  Writer(x)'
    BY <1>12, <1>a, <1>b DEF FlushFails, Free, vars, disk, cache, thread, files, limits, Writer,
        Busy
<1>13. CASE FlushRename
    BY <1>13, <1>a, <1>b DEF FlushRename, Close, vars, disk, cache, thread, files, limits, Writer,
        Busy
<1>14. CASE FlushEnd
    BY <1>14, <1>a, <1>b DEF FlushEnd, Close, StillCached, vars, disk, cache, thread, files, limits,
        Writer, Busy
<1>15. CASE FlushRelease
    BY <1>15, <1>a, <1>b DEF FlushRelease, vars, disk, cache, thread, files, limits, Writer, Busy
<1>16. CASE CacheEnds
    BY <1>16, <1>a, <1>b DEF CacheEnds, vars, disk, cache, thread, files, limits, Writer, Busy
<1>17. ASSUME NEW f \in Files, CompGather(f)
      PROVE  Writer(x)'
    BY <1>17, <1>a, <1>b DEF CompGather, CompGoes, Finished, vars, disk, cache, thread, files,
        limits, Writer, Busy
<1>18. ASSUME NEW f \in Files, CompFails(f)
      PROVE  Writer(x)'
    BY <1>18, <1>a, <1>b DEF CompFails, CompGoes, vars, disk, cache, thread, files, limits, Writer,
        Busy
<1>19. ASSUME NEW f \in Files, CompLock(f)
      PROVE  Writer(x)'
    BY <1>19, <1>a, <1>b DEF CompLock, CompGoes, vars, disk, cache, thread, files, limits, Writer,
        Busy
<1>20. ASSUME NEW f \in Files, NEW a \in ArticlesOf(f), CompArticle(f, a)
      PROVE  Writer(x)'
    BY <1>20, <1>a, <1>b, <1>c DEF CompArticle, CompGoes, Free, vars, disk, cache, thread, files,
        limits, Writer, Busy, ArticlesOf, Finished
<1>21. ASSUME NEW f \in Files, CompUnlock(f)
      PROVE  Writer(x)'
    BY <1>21, <1>a, <1>b DEF CompUnlock, CompGoes, vars, disk, cache, thread, files, limits, Writer,
        Busy
<1>22a. ASSUME NEW f \in Files, CompClose(f)
      PROVE  Writer(x)'
    BY <1>22a, <1>a, <1>b DEF CompClose, CompGoes, Close, Dropped, vars, disk, cache, thread, files, limits,
        Writer, Busy
<1>22. ASSUME NEW f \in Files, CompClean(f)
      PROVE  Writer(x)'
    BY <1>22, <1>a, <1>b DEF CompClean, CompGoes, Dropped, vars, disk, cache, thread, files, limits,
        Writer, Busy
<1>23. ASSUME NEW f \in Files, CompDone(f)
      PROVE  Writer(x)'
    BY <1>23, <1>a, <1>b, <1>d DEF CompDone, vars, disk, cache, thread, files, limits, Writer, Busy,
        ArticlesOf, Done
<1>24. ASSUME NEW f \in Files, DeleteQueueEntry(f)
      PROVE  Writer(x)'
    BY <1>24, <1>a, <1>b DEF DeleteQueueEntry, vars, disk, cache, thread, files, limits, Writer,
        Busy
<1>25. ASSUME NEW f \in Files, DeleteFileInfo(f)
      PROVE  Writer(x)'
    BY <1>25, <1>a, <1>b, <1>d DEF DeleteFileInfo, SavedIs, Dropped, CompGoes, Free, FileBusy, vars, disk, cache,
        thread, files, limits, Writer, Busy, Active, ArticlesOf
<1>26. ASSUME NEW f \in Files, DiscardDirectRename(f)
      PROVE  Writer(x)'
    BY <1>26, <1>a, <1>b DEF DiscardDirectRename, SavedIs, Dropped, Free, vars, disk, cache, thread, files, limits,
        Writer, Busy, Active, ArticlesOf
<1>27. ASSUME NEW f \in Files, SavePartialState(f)
      PROVE  Writer(x)'
    BY <1>27, <1>a, <1>b DEF SavePartialState, SavedIs, Finished, vars, disk, cache, thread, files, limits,
        Writer, Busy
<1>28. CASE Stop
    BY <1>28, <1>a, <1>b DEF Stop, vars, disk, cache, thread, files, limits, Writer, Busy
<1>29. CASE Restart
    BY <1>29, <1>a, <1>b DEF Restart, vars, disk, cache, thread, files, limits, Writer, Busy
<1>30. QED
    BY <1>1, <1>2, <1>3, <1>4, <1>5, <1>6, <1>7, <1>8, <1>9, <1>10, <1>11, <1>12, <1>13,
        <1>14, <1>15, <1>16, <1>17, <1>18, <1>19, <1>20, <1>21, <1>22, <1>22a, <1>23, <1>24, <1>25,
        <1>26, <1>27, <1>28, <1>29 DEF Next, WriterStep, CacheStep, CompStep

\* While a file is completed without the flush lock, nothing of it is in memory
\* and nothing of it is being flushed.
LEMMA CompletedWithoutLock ==
    ASSUME CacheInv, NEW f \in Files, comp[f].pc = "process", flushLock # f
    PROVE  /\ \A a \in ArticlesOf(f) : seg[a] = 0
           /\ ~(flusher.pc \in Flushing /\ flusher.file = f /\ flusher.flushed > 0)
<1>1. cached[f] = 0
    BY DEF CacheInv, Completion
<1>2. Cardinality(Segs(f)) <= 0
    BY <1>1 DEF CacheInv, Flusher, Flushed
<1>3. Segs(f) = {}
    BY <1>2, SegsFinite, FS_EmptySet
<1>4. \A a \in ArticlesOf(f) : seg[a] = 0
    BY <1>3, SizesAssumption DEF Segs, ArticlesOf, CacheInv, TypeOK
<1>5. ~(flusher.pc \in Flushing /\ flusher.file = f /\ flusher.flushed > 0)
    BY <1>1, FlushedCounted
<1>6. QED
    BY <1>4, <1>5

LEMMA CompletionStep ==
    ASSUME CacheInv, [Next]_vars, NEW g \in Files
    PROVE  Completion(g)'
<1>a. /\ status \in [Articles -> {"undefined", "running", "finished", "failed"}]
      /\ wr \in [Articles -> {"idle", "alloc", "full", "cached", "disk", "finished", "failed", "completes"}]
      /\ buf \in [Articles -> 0 .. Size] /\ seg \in [Articles -> 0 .. Size] /\ Size \in Nat \ {0}
      /\ FileOf \in [Articles -> Files]
      /\ comp \in [Files -> [pc : {"no", "gather", "lock", "process", "close", "clean", "done"}, todo : SUBSET Articles]]
    BY SizesAssumption DEF CacheInv, TypeOK
<1>b. \A x \in Articles : Writer(x)
    BY DEF CacheInv
<1>c. \A f \in Files : Completion(f)
    BY DEF CacheInv
<1>d. /\ cached \in [Files -> Nat] /\ deleting \in Files \cup {NoFile} /\ NoFile \notin Files
      /\ "free" \notin Files /\ "cache" \notin Files
    BY SizesAssumption DEF CacheInv, TypeOK
<1>e. \A f \in Files : comp[f].pc = "process" => comp[f].todo \subseteq Finished(f)
    BY DEF CacheInv, Output
<1>f. flusher.pc \in Flushing =>
        flusher.file \in Files /\ flushLock = "cache" /\ flusher.flushed \in 0 .. cached[flusher.file]
    BY FlushedCounted
<1>1. CASE UNCHANGED vars
    BY <1>1, <1>c DEF vars, disk, cache, thread, files, limits, Completion, Active
<1>2. ASSUME NEW a \in Articles, StartDownload(a)
      PROVE  Completion(g)'
    BY <1>2, <1>a, <1>b, <1>c, <1>d DEF StartDownload, vars, disk, cache, thread, files, limits,
        Completion, Done, ArticlesOf, Active, Busy, Writer, QueueFree
<1>3. ASSUME NEW a \in Articles, Alloc(a)
      PROVE  Completion(g)'
    BY <1>3, <1>a, <1>b, <1>c, <1>d DEF Alloc, vars, disk, cache, thread, files, limits, Completion,
        Done, ArticlesOf, Active, Busy, Writer, QueueFree
<1>4. ASSUME NEW a \in Articles, CacheFull(a)
      PROVE  Completion(g)'
    BY <1>4, <1>a, <1>b, <1>c, <1>d DEF CacheFull, vars, disk, cache, thread, files, limits,
        Completion, Done, ArticlesOf, Active, Busy, Writer, QueueFree
<1>5. ASSUME NEW a \in Articles, NEW n \in 1 .. Size, FinishCached(a, n)
      PROVE  Completion(g)'
    BY <1>5, <1>a, <1>b, <1>c, <1>d DEF FinishCached, Realloc, vars, disk, cache, thread, files,
        limits, Completion, Done, ArticlesOf, Active, Busy, Writer, QueueFree
<1>6. ASSUME NEW a \in Articles, FinishDisk(a)
      PROVE  Completion(g)'
    BY <1>6, <1>a, <1>b, <1>c, <1>d DEF FinishDisk, vars, disk, cache, thread, files, limits,
        Completion, Done, ArticlesOf, Active, Busy, Writer, QueueFree
<1>7. ASSUME NEW a \in Articles, FinishFailed(a)
      PROVE  Completion(g)'
    BY <1>7, <1>a, <1>b, <1>c, <1>d DEF FinishFailed, vars, disk, cache, thread, files, limits,
        Completion, Done, ArticlesOf, Active, Busy, Writer, QueueFree
<1>8. ASSUME NEW a \in Articles, ArticleCompleted(a)
      PROVE  Completion(g)'
  <2> DEFINE f == FileOf[a]
             last == \A b \in ArticlesOf(f) \ {a} : status[b] \in {"finished", "failed"}
  <2>1. /\ f \in Files /\ a \in ArticlesOf(f) /\ f \in queued /\ status[a] = "running"
        /\ comp[f].pc = "no" /\ deleting = NoFile /\ wr[a] \in Done
      BY <1>8, <1>a, <1>b, <1>c DEF ArticleCompleted, QueueFree, ArticlesOf, Writer, Busy,
          Completion, Done
  <2>2. /\ UNCHANGED <<queued, cached, flushLock>>
        /\ status'[a] \in Done /\ \A b \in Articles \ {a} : status'[b] = status[b] /\ wr'[b] = wr[b]
        /\ IF last /\ f \notin deleted
           THEN /\ comp' = [comp EXCEPT ![f].pc = "gather"]
                /\ wr'[a] = "completes" /\ deleting' = NoFile
           ELSE /\ comp' = comp /\ wr'[a] = "idle"
                /\ deleting' = IF f \in deleted /\ Active(f) = {a} THEN f ELSE NoFile
      BY <1>8, <1>a DEF ArticleCompleted, Leaves, Done, ArticlesOf, thread
  <2> HIDE DEF f, last
  <2>3. CASE g # f
    <3>1. /\ \A b \in ArticlesOf(g) : b # a /\ status'[b] = status[b] /\ wr'[b] = wr[b]
        BY <2>2, <2>3 DEF ArticlesOf, f
    <3>2. comp'[g] = comp[g] /\ deleting # g /\ deleting' # g
        BY <1>a, <1>d, <2>1, <2>2, <2>3
    <3>3. QED
        BY <2>2, <3>1, <3>2, <1>c DEF Completion, ArticlesOf
  <2>4. CASE g = f /\ last /\ f \notin deleted
    <3>1. comp'[f].pc = "gather" /\ deleting' # f /\ wr'[a] = "completes"
        BY <1>a, <1>d, <2>1, <2>2, <2>4
    <3>2. \A b \in ArticlesOf(f) : status'[b] \in Done
        BY <2>2, <2>4 DEF last, Done, ArticlesOf
    <3>3. QED
        BY <2>1, <2>2, <2>4, <3>1, <3>2 DEF Completion, ArticlesOf
  <2>5. CASE g = f /\ ~(last /\ f \notin deleted)
    <3>1. comp' = comp /\ wr'[a] = "idle"
        BY <2>2, <2>5
    <3>2. deleting' = f => Active(f)' = {}
        BY <2>1, <2>2, <2>5, <1>d DEF Active, ArticlesOf
    <3>3. QED
        BY <2>1, <2>2, <2>5, <3>1, <3>2 DEF Completion
  <2>6. QED
      BY <2>3, <2>4, <2>5
<1>9. ASSUME NEW f \in Files, CheckFlush(f)
      PROVE  Completion(g)'
    BY <1>9, <1>c DEF CheckFlush, vars, disk, cache, thread, files, limits, Completion, Active
<1>10. CASE FlushBegin
    BY <1>10, <1>a, <1>b, <1>c, <1>d DEF FlushBegin, vars, disk, cache, thread, files, limits,
        Completion, Done, ArticlesOf, Active, Busy, Writer, QueueFree
<1>11. ASSUME NEW a \in Articles, FlushArticle(a)
      PROVE  Completion(g)'
    BY <1>11, <1>c DEF FlushArticle, Free, vars, disk, cache, thread, files, limits, Completion,
        Active
<1>12. ASSUME NEW a \in Articles, FlushFails(a)
      PROVE  Completion(g)'
    BY <1>12, <1>c DEF FlushFails, Free, vars, disk, cache, thread, files, limits, Completion,
        Active
<1>13. CASE FlushRename
    BY <1>13, <1>c DEF FlushRename, Close, vars, disk, cache, thread, files, limits, Completion,
        Active
<1>14. CASE FlushEnd
    BY <1>14, <1>a, <1>b, <1>c, <1>d, <1>f DEF FlushEnd, Close, StillCached, vars, disk, cache,
        thread, files, limits, Completion, Done, ArticlesOf, Active, Busy, Writer, QueueFree,
        Flushing
<1>15. CASE FlushRelease
    BY <1>15, <1>c DEF FlushRelease, vars, disk, cache, thread, files, limits, Completion, Active
<1>16. CASE CacheEnds
    BY <1>16, <1>c DEF CacheEnds, vars, disk, cache, thread, files, limits, Completion, Active
<1>17. ASSUME NEW f \in Files, CompGather(f)
      PROVE  Completion(g)'
    BY <1>17, <1>a, <1>b, <1>c, <1>d DEF CompGather, CompGoes, Finished, vars, disk, cache, thread,
        files, limits, Completion, Done, ArticlesOf, Active, Busy, Writer, QueueFree, NeedsFlushLock
<1>18. ASSUME NEW f \in Files, CompFails(f)
      PROVE  Completion(g)'
    BY <1>18, <1>a, <1>b, <1>c, <1>d DEF CompFails, CompGoes, vars, disk, cache, thread, files,
        limits, Completion, Done, ArticlesOf, Active, Busy, Writer, QueueFree
<1>19. ASSUME NEW f \in Files, CompLock(f)
      PROVE  Completion(g)'
    BY <1>19, <1>a, <1>b, <1>c, <1>d DEF CompLock, CompGoes, vars, disk, cache, thread, files,
        limits, Completion, Done, ArticlesOf, Active, Busy, Writer, QueueFree
<1>20. ASSUME NEW f \in Files, NEW a \in ArticlesOf(f), CompArticle(f, a)
      PROVE  Completion(g)'
    BY <1>20, <1>a, <1>b, <1>c, <1>d, <1>e DEF CompArticle, CompGoes, Free, vars, disk, cache,
        thread, files, limits, Completion, Done, ArticlesOf, Active, Busy, Writer, QueueFree,
        Finished
<1>21. ASSUME NEW f \in Files, CompUnlock(f)
      PROVE  Completion(g)'
    BY <1>21, <1>a, <1>b, <1>c, <1>d DEF CompUnlock, CompGoes, vars, disk, cache, thread, files,
        limits, Completion, Done, ArticlesOf, Active, Busy, Writer, QueueFree
<1>22a. ASSUME NEW f \in Files, CompClose(f)
      PROVE  Completion(g)'
    BY <1>22a, <1>a, <1>b, <1>c, <1>d DEF CompClose, CompGoes, Close, Dropped, vars, disk, cache, thread,
        files, limits, Completion, Done, ArticlesOf, Active, Busy, Writer, QueueFree
<1>22. ASSUME NEW f \in Files, CompClean(f)
      PROVE  Completion(g)'
    BY <1>22, <1>a, <1>b, <1>c, <1>d DEF CompClean, CompGoes, Dropped, vars, disk, cache, thread,
        files, limits, Completion, Done, ArticlesOf, Active, Busy, Writer, QueueFree
<1>23. ASSUME NEW f \in Files, CompDone(f)
      PROVE  Completion(g)'
    BY <1>23, <1>a, <1>b, <1>c, <1>d DEF CompDone, vars, disk, cache, thread, files, limits,
        Completion, Done, ArticlesOf, Active, Busy, Writer, QueueFree
<1>24. ASSUME NEW f \in Files, DeleteQueueEntry(f)
      PROVE  Completion(g)'
    BY <1>24, <1>a, <1>b, <1>c, <1>d DEF DeleteQueueEntry, vars, disk, cache, thread, files, limits,
        Completion, Done, ArticlesOf, Active, Busy, Writer, QueueFree
<1>25. ASSUME NEW f \in Files, DeleteFileInfo(f)
      PROVE  Completion(g)'
    BY <1>25, <1>a, <1>b, <1>c, <1>d DEF DeleteFileInfo, SavedIs, Dropped, CompGoes, Free, FileBusy, vars, disk,
        cache, thread, files, limits, Completion, Done, ArticlesOf, Active, Busy, Writer, QueueFree
<1>26. ASSUME NEW f \in Files, DiscardDirectRename(f)
      PROVE  Completion(g)'
    BY <1>26, <1>a, <1>b, <1>c, <1>d DEF DiscardDirectRename, SavedIs, Dropped, Free, vars, disk, cache, thread,
        files, limits, Completion, Done, ArticlesOf, Active, Busy, Writer, QueueFree
<1>27. ASSUME NEW f \in Files, SavePartialState(f)
      PROVE  Completion(g)'
    BY <1>27, <1>c DEF SavePartialState, SavedIs, Finished, vars, disk, cache, thread, files, limits,
        Completion, Active
<1>28. CASE Stop
    BY <1>28, <1>c DEF Stop, vars, disk, cache, thread, files, limits, Completion, Active
<1>29. CASE Restart
    BY <1>29, <1>a, <1>b, <1>c, <1>d DEF Restart, vars, disk, cache, thread, files, limits,
        Completion, Done, ArticlesOf, Active, Busy, Writer, QueueFree
<1>30. QED
    BY <1>1, <1>2, <1>3, <1>4, <1>5, <1>6, <1>7, <1>8, <1>9, <1>10, <1>11, <1>12, <1>13,
        <1>14, <1>15, <1>16, <1>17, <1>18, <1>19, <1>20, <1>21, <1>22, <1>22a, <1>23, <1>24, <1>25,
        <1>26, <1>27, <1>28, <1>29 DEF Next, WriterStep, CacheStep, CompStep

LEMMA UnfinishedStep ==
    ASSUME CacheInv, [Next]_vars, NEW g \in Files
    PROVE  Unfinished(g)'
<1>a. /\ status \in [Articles -> {"undefined", "running", "finished", "failed"}]
      /\ wr \in [Articles -> {"idle", "alloc", "full", "cached", "disk", "finished", "failed", "completes"}]
      /\ buf \in [Articles -> 0 .. Size] /\ seg \in [Articles -> 0 .. Size] /\ Size \in Nat \ {0}
      /\ FileOf \in [Articles -> Files]
      /\ comp \in [Files -> [pc : {"no", "gather", "lock", "process", "close", "clean", "done"}, todo : SUBSET Articles]]
    BY SizesAssumption DEF CacheInv, TypeOK
<1>b. \A x \in Articles : Writer(x)
    BY DEF CacheInv
<1>c. \A f \in Files : Completion(f)
    BY DEF CacheInv
<1>d. /\ cached \in [Files -> Nat] /\ deleting \in Files \cup {NoFile} /\ NoFile \notin Files
      /\ "free" \notin Files /\ "cache" \notin Files
    BY SizesAssumption DEF CacheInv, TypeOK
<1>e. /\ \A f \in Files : Unfinished(f)
      /\ part \in [Files -> SUBSET Articles] /\ partFailed \in [Files -> SUBSET Articles]
    BY DEF CacheInv, TypeOK
<1>1. CASE UNCHANGED vars
    BY <1>1, <1>e DEF vars, disk, cache, thread, files, limits, Unfinished, Saved
<1>2. ASSUME NEW a \in Articles, StartDownload(a)
      PROVE  Unfinished(g)'
    BY <1>2, <1>a, <1>b, <1>c, <1>d, <1>e DEF StartDownload, vars, disk, cache, thread, files,
        limits, Unfinished, Saved, Completion, Done, ArticlesOf, Active, Busy, Writer, QueueFree
<1>3. ASSUME NEW a \in Articles, Alloc(a)
      PROVE  Unfinished(g)'
    BY <1>3, <1>e DEF Alloc, vars, disk, cache, thread, files, limits, Unfinished, Saved
<1>4. ASSUME NEW a \in Articles, CacheFull(a)
      PROVE  Unfinished(g)'
    BY <1>4, <1>e DEF CacheFull, vars, disk, cache, thread, files, limits, Unfinished, Saved
<1>5. ASSUME NEW a \in Articles, NEW n \in 1 .. Size, FinishCached(a, n)
      PROVE  Unfinished(g)'
    BY <1>5, <1>e DEF FinishCached, Realloc, vars, disk, cache, thread, files, limits, Unfinished, Saved
<1>6. ASSUME NEW a \in Articles, FinishDisk(a)
      PROVE  Unfinished(g)'
    BY <1>6, <1>e DEF FinishDisk, vars, disk, cache, thread, files, limits, Unfinished, Saved
<1>7. ASSUME NEW a \in Articles, FinishFailed(a)
      PROVE  Unfinished(g)'
    BY <1>7, <1>e DEF FinishFailed, vars, disk, cache, thread, files, limits, Unfinished, Saved
<1>8. ASSUME NEW a \in Articles, ArticleCompleted(a)
      PROVE  Unfinished(g)'
  <2> DEFINE f == FileOf[a]
             last == \A b \in ArticlesOf(f) \ {a} : status[b] \in {"finished", "failed"}
  <2>1. /\ f \in Files /\ a \in ArticlesOf(f) /\ f \in queued /\ status[a] = "running"
        /\ comp[f].pc = "no" /\ deleting = NoFile
      BY <1>8, <1>a, <1>b, <1>c DEF ArticleCompleted, QueueFree, ArticlesOf, Writer, Busy,
          Completion, Done
  <2>2. /\ part' = part /\ partFailed' = partFailed /\ queued' = queued
        /\ \A b \in Articles \ {a} : status'[b] = status[b]
        /\ IF last /\ f \notin deleted THEN comp' = [comp EXCEPT ![f].pc = "gather"]
           ELSE /\ comp' = comp
                /\ f \in deleted /\ Active(f) = {a} => deleting' = f
      BY <1>8, <1>a DEF ArticleCompleted, Leaves, disk, ArticlesOf
  <2> HIDE DEF f, last
  <2>3. CASE g # f
    <3>1. \A b \in ArticlesOf(g) : status'[b] = status[b]
        BY <2>2, <2>3 DEF ArticlesOf, f
    <3>2. comp'[g] = comp[g]
        BY <1>a, <2>1, <2>2, <2>3
    <3>3. QED
        BY <2>1, <2>2, <3>1, <3>2, <1>d, <1>e DEF Unfinished, Saved, ArticlesOf
  <2>4. CASE g = f /\ last /\ f \notin deleted
    <3>1. comp'[f].pc = "gather"
        BY <1>a, <2>1, <2>2, <2>4
    <3>2. QED
        BY <2>1, <2>2, <2>4, <3>1, <1>e DEF Unfinished, Saved, ArticlesOf
  <2>5. CASE g = f /\ ~last
    <3>1. PICK b \in ArticlesOf(f) \ {a} : status[b] \notin Done
        BY <2>5 DEF last, Done
    <3>2. status'[b] \notin Done
        BY <2>2, <3>1 DEF ArticlesOf
    <3>3. QED
        BY <2>2, <2>5, <3>1, <3>2, <1>e DEF Unfinished, Saved, ArticlesOf
  <2>6. CASE g = f /\ last /\ f \in deleted
    <3>1. \A b \in ArticlesOf(f) \ {a} : wr[b] = "idle"
        BY <1>a, <1>b, <2>1, <2>6 DEF last, Writer, Busy, ArticlesOf
    <3>2. Active(f) = {a}
        BY <1>8, <2>1, <3>1 DEF Active, ArticleCompleted
    <3>3. deleting' = f
        BY <2>2, <2>6, <3>2
    <3>4. QED
        BY <2>2, <2>6, <3>3, <1>e DEF Unfinished, Saved, ArticlesOf
  <2>7. QED
      BY <2>3, <2>4, <2>5, <2>6
<1>9. ASSUME NEW f \in Files, CheckFlush(f)
      PROVE  Unfinished(g)'
    BY <1>9, <1>e DEF CheckFlush, vars, disk, cache, thread, files, limits, Unfinished, Saved
<1>10. CASE FlushBegin
    BY <1>10, <1>e DEF FlushBegin, vars, disk, cache, thread, files, limits, Unfinished, Saved
<1>11. ASSUME NEW a \in Articles, FlushArticle(a)
      PROVE  Unfinished(g)'
    BY <1>11, <1>e DEF FlushArticle, Free, vars, disk, cache, thread, files, limits, Unfinished, Saved
<1>12. ASSUME NEW a \in Articles, FlushFails(a)
      PROVE  Unfinished(g)'
    BY <1>12, <1>a, <1>b, <1>c, <1>d, <1>e DEF FlushFails, Free, vars, disk, cache, thread, files,
        limits, Unfinished, Saved, Completion, Done, ArticlesOf, Active, Busy, Writer, QueueFree
<1>13. CASE FlushRename
    BY <1>13, <1>e DEF FlushRename, Close, vars, disk, cache, thread, files, limits, Unfinished, Saved
<1>14. CASE FlushEnd
    BY <1>14, <1>e DEF FlushEnd, Close, StillCached, vars, disk, cache, thread, files, limits,
        Unfinished, Saved
<1>15. CASE FlushRelease
    BY <1>15, <1>e DEF FlushRelease, vars, disk, cache, thread, files, limits, Unfinished, Saved
<1>16. CASE CacheEnds
    BY <1>16, <1>e DEF CacheEnds, vars, disk, cache, thread, files, limits, Unfinished, Saved
<1>17. ASSUME NEW f \in Files, CompGather(f)
      PROVE  Unfinished(g)'
    BY <1>17, <1>a, <1>e DEF CompGather, CompGoes, vars, disk, cache, thread, files, limits,
        Unfinished, Saved, ArticlesOf
<1>18. ASSUME NEW f \in Files, CompFails(f)
      PROVE  Unfinished(g)'
    BY SMTT(30), <1>18, <1>a, <1>b, <1>c, <1>d, <1>e DEF CompFails, CompGoes, vars, disk, cache, thread,
        files, limits, Unfinished, Saved, Completion, Done, ArticlesOf, Active, Busy, Writer, QueueFree
<1>19. ASSUME NEW f \in Files, CompLock(f)
      PROVE  Unfinished(g)'
    BY SMTT(30), <1>19, <1>a, <1>b, <1>c, <1>d, <1>e DEF CompLock, CompGoes, vars, disk, cache, thread, files,
        limits, Unfinished, Saved, Completion, Done, ArticlesOf, Active, Busy, Writer, QueueFree
<1>20. ASSUME NEW f \in Files, NEW a \in ArticlesOf(f), CompArticle(f, a)
      PROVE  Unfinished(g)'
    BY SMTT(30), <1>20, <1>a, <1>b, <1>c, <1>d, <1>e DEF CompArticle, CompGoes, Free, vars, disk, cache,
        thread, files, limits, Unfinished, Saved, Completion, Done, ArticlesOf, Active, Busy, Writer,
        QueueFree, Finished
<1>21. ASSUME NEW f \in Files, CompUnlock(f)
      PROVE  Unfinished(g)'
    BY SMTT(30), <1>21, <1>a, <1>b, <1>c, <1>d, <1>e DEF CompUnlock, CompGoes, vars, disk, cache, thread,
        files, limits, Unfinished, Saved, Completion, Done, ArticlesOf, Active, Busy, Writer, QueueFree
<1>22a. ASSUME NEW f \in Files, CompClose(f)
      PROVE  Unfinished(g)'
    BY SMTT(30), <1>22a, <1>a, <1>b, <1>c, <1>d, <1>e DEF CompClose, CompGoes, Close, Dropped, vars, disk, cache,
        thread, files, limits, Unfinished, Saved, Completion, Done, ArticlesOf, Active, Busy, Writer,
        QueueFree
<1>22. ASSUME NEW f \in Files, CompClean(f)
      PROVE  Unfinished(g)'
    BY SMTT(30), <1>22, <1>a, <1>b, <1>c, <1>d, <1>e DEF CompClean, CompGoes, Dropped, vars, disk, cache,
        thread, files, limits, Unfinished, Saved, Completion, Done, ArticlesOf, Active, Busy, Writer,
        QueueFree
<1>23. ASSUME NEW f \in Files, CompDone(f)
      PROVE  Unfinished(g)'
  <2>1. /\ UNCHANGED <<status, part, partFailed, queued, comp>>
        /\ comp[f].pc = "done" /\ deleting = NoFile
      BY <1>23 DEF CompDone, QueueFree
  <2>2. comp[g].pc = "no" => deleting # g
      BY <1>d, <2>1
  <2>3. QED
      BY <1>e, <2>1, <2>2 DEF Unfinished, Saved, ArticlesOf
<1>24. ASSUME NEW f \in Files, DeleteQueueEntry(f)
      PROVE  Unfinished(g)'
    BY <1>24, <1>a, <1>b, <1>c, <1>d, <1>e DEF DeleteQueueEntry, vars, disk, cache, thread, files,
        limits, Unfinished, Saved, Completion, Done, ArticlesOf, Active, Busy, Writer, QueueFree
<1>25. ASSUME NEW f \in Files, DeleteFileInfo(f)
      PROVE  Unfinished(g)'
    BY SMTT(30), <1>25, <1>a, <1>b, <1>c, <1>d, <1>e DEF DeleteFileInfo, SavedIs, Dropped, CompGoes, Free, FileBusy, vars, disk,
        cache, thread, files, limits, Unfinished, Saved, Completion, Done, ArticlesOf, Active, Busy,
        Writer, QueueFree
<1>26. ASSUME NEW f \in Files, DiscardDirectRename(f)
      PROVE  Unfinished(g)'
  <2>1. /\ part' = [part EXCEPT ![f] = {}] /\ partFailed' = [partFailed EXCEPT ![f] = {}]
        /\ queued' = queued /\ comp' = comp /\ deleting' = deleting
        /\ status' = [b \in Articles |-> IF FileOf[b] = f THEN "undefined" ELSE status[b]]
      BY <1>26 DEF DiscardDirectRename, SavedIs
  <2>2. CASE g = f
      BY <2>1, <2>2, <1>e DEF Unfinished, Saved, ArticlesOf, Done
  <2>3. CASE g # f
    <3>1. \A b \in ArticlesOf(g) : status'[b] = status[b]
        BY <2>1, <2>3 DEF ArticlesOf
    <3>2. QED
        BY <2>1, <2>3, <3>1, <1>e DEF Unfinished, Saved, ArticlesOf
  <2>4. QED
      BY <2>2, <2>3
<1>27. ASSUME NEW f \in Files, SavePartialState(f)
      PROVE  Unfinished(g)'
    BY <1>27, <1>a, <1>b, <1>c, <1>d, <1>e DEF SavePartialState, SavedIs, Finished, vars, disk, cache,
        thread, files, limits, Unfinished, Saved, Completion, Done, ArticlesOf, Active, Busy, Writer,
        QueueFree
<1>28. CASE Stop
    BY <1>28, <1>e DEF Stop, vars, disk, cache, thread, files, limits, Unfinished, Saved
<1>29. CASE Restart
  <2> SUFFICES ASSUME g \in queued
               PROVE  Unfinished(g)'
      BY <1>29 DEF Restart, Unfinished
  <2>1. PICK t \in [Files -> SUBSET Articles] :
          /\ t[g] \in Trusted(g)
          /\ \A a \in Articles : a \notin t[FileOf[a]] => status'[a] = "undefined"
      BY <1>29, <1>a DEF Restart
  <2>2. Saved(g) \subseteq ArticlesOf(g)
      BY <1>e DEF Unfinished
  <2>3. PICK b \in ArticlesOf(g) : b \notin t[g]
    <3>1. PICK b \in Articles : FileOf[b] = g
        BY SizesAssumption
    <3>2. b \in ArticlesOf(g)
        BY <3>1 DEF ArticlesOf
    <3>3. QED
        BY <2>1, <2>2, <3>2 DEF Trusted
  <2>4. status'[b] \notin Done
      BY <2>1, <2>3 DEF ArticlesOf, Done
  <2>5. Saved(g)' \subseteq ArticlesOf(g)
      BY <1>29, <1>e, <2>2 DEF Restart, Saved
  <2>6. QED
      BY <2>3, <2>4, <2>5 DEF Unfinished, ArticlesOf
<1>30. QED
    BY <1>1, <1>2, <1>3, <1>4, <1>5, <1>6, <1>7, <1>8, <1>9, <1>10, <1>11, <1>12, <1>13,
        <1>14, <1>15, <1>16, <1>17, <1>18, <1>19, <1>20, <1>21, <1>22, <1>22a, <1>23, <1>24, <1>25,
        <1>26, <1>27, <1>28, <1>29 DEF Next, WriterStep, CacheStep, CompStep

LEMMA OutputStep ==
    ASSUME CacheInv, [Next]_vars, NEW g \in Files
    PROVE  Output(g)'
<1>a. /\ status \in [Articles -> {"undefined", "running", "finished", "failed"}]
      /\ wr \in [Articles -> {"idle", "alloc", "full", "cached", "disk", "finished", "failed", "completes"}]
      /\ buf \in [Articles -> 0 .. Size] /\ seg \in [Articles -> 0 .. Size] /\ Size \in Nat \ {0}
      /\ FileOf \in [Articles -> Files]
      /\ comp \in [Files -> [pc : {"no", "gather", "lock", "process", "close", "clean", "done"}, todo : SUBSET Articles]]
    BY SizesAssumption DEF CacheInv, TypeOK
<1>b. \A x \in Articles : Writer(x)
    BY DEF CacheInv
<1>c. \A f \in Files : Completion(f)
    BY DEF CacheInv
<1>d. /\ cached \in [Files -> Nat] /\ deleting \in Files \cup {NoFile} /\ NoFile \notin Files
      /\ "free" \notin Files /\ "cache" \notin Files
    BY SizesAssumption DEF CacheInv, TypeOK
<1>e. (\A f \in Files : Output(f)) /\ out \in [Files -> SUBSET Articles] /\ lost \in BOOLEAN
    BY DEF CacheInv, TypeOK
<1>f. ASSUME NEW f \in Files, NEW a \in ArticlesOf(f), comp[f].pc = "process", a \in comp[f].todo,
             seg[a] = 0, ~lost
      PROVE  loc[a] = "disk"
  <2>1. Opened(a) /\ Kept(a)
      BY <1>f DEF CacheInv, Content, ArticlesOf
  <2>2. f \in queued /\ FileOf[a] = f /\ status[a] = "finished"
      BY <1>c, <1>e, <1>f DEF Completion, Output, Finished, ArticlesOf
  <2>3. loc[a] \in {"open", "disk"}
      BY <1>f, <2>1, <2>2 DEF Kept
  <2>4. CASE loc[a] = "open"
    <3>1. flusher.pc \in Flushing /\ flusher.file = f /\ flusher.flushed > 0
        BY <1>f, <2>1, <2>2, <2>4 DEF Opened
    <3>2. flushLock # f
        BY <3>1, <1>d, FlushedCounted
    <3>3. QED
        BY <3>1, <3>2, <1>f, CompletedWithoutLock
  <2>5. QED
      BY <2>3, <2>4
<1>1. CASE UNCHANGED vars
    BY <1>1, <1>e DEF vars, disk, cache, thread, files, limits, Output, Finished
<1>2. ASSUME NEW a \in Articles, StartDownload(a)
      PROVE  Output(g)'
    BY <1>2, <1>a, <1>b, <1>c, <1>d, <1>e DEF StartDownload, vars, disk, cache, thread, files,
        limits, Output, Finished, Completion, Done, ArticlesOf, Busy, Writer, QueueFree
<1>3. ASSUME NEW a \in Articles, Alloc(a)
      PROVE  Output(g)'
    BY <1>3, <1>e DEF Alloc, vars, disk, cache, thread, files, limits, Output, Finished
<1>4. ASSUME NEW a \in Articles, CacheFull(a)
      PROVE  Output(g)'
    BY <1>4, <1>e DEF CacheFull, vars, disk, cache, thread, files, limits, Output, Finished
<1>5. ASSUME NEW a \in Articles, NEW n \in 1 .. Size, FinishCached(a, n)
      PROVE  Output(g)'
    BY <1>5, <1>e DEF FinishCached, Realloc, vars, disk, cache, thread, files, limits, Output,
        Finished
<1>6. ASSUME NEW a \in Articles, FinishDisk(a)
      PROVE  Output(g)'
    BY <1>6, <1>e DEF FinishDisk, vars, disk, cache, thread, files, limits, Output, Finished
<1>7. ASSUME NEW a \in Articles, FinishFailed(a)
      PROVE  Output(g)'
    BY <1>7, <1>e DEF FinishFailed, vars, disk, cache, thread, files, limits, Output, Finished
<1>8. ASSUME NEW a \in Articles, ArticleCompleted(a)
      PROVE  Output(g)'
    BY <1>8, <1>a, <1>b, <1>c, <1>d, <1>e DEF ArticleCompleted, Free, Leaves, UnusedBuffer, vars,
        disk, cache, thread, files, limits, Output, Finished, Completion, Done, ArticlesOf, Busy,
        Writer, QueueFree
<1>9. ASSUME NEW f \in Files, CheckFlush(f)
      PROVE  Output(g)'
    BY <1>9, <1>e DEF CheckFlush, vars, disk, cache, thread, files, limits, Output, Finished
<1>10. CASE FlushBegin
    BY <1>10, <1>e DEF FlushBegin, vars, disk, cache, thread, files, limits, Output, Finished
<1>11. ASSUME NEW a \in Articles, FlushArticle(a)
      PROVE  Output(g)'
    BY <1>11, <1>e DEF FlushArticle, Free, vars, disk, cache, thread, files, limits, Output,
        Finished
<1>12. ASSUME NEW a \in Articles, FlushFails(a)
      PROVE  Output(g)'
    BY <1>12, <1>a, <1>b, <1>c, <1>d, <1>e DEF FlushFails, Free, vars, disk, cache, thread, files,
        limits, Output, Finished, Completion, Done, ArticlesOf, Busy, Writer, QueueFree
<1>13. CASE FlushRename
    BY <1>13, <1>e DEF FlushRename, Close, vars, disk, cache, thread, files, limits, Output,
        Finished
<1>14. CASE FlushEnd
    BY <1>14, <1>e DEF FlushEnd, Close, StillCached, vars, disk, cache, thread, files, limits,
        Output, Finished
<1>15. CASE FlushRelease
    BY <1>15, <1>e DEF FlushRelease, vars, disk, cache, thread, files, limits, Output, Finished
<1>16. CASE CacheEnds
    BY <1>16, <1>e DEF CacheEnds, vars, disk, cache, thread, files, limits, Output, Finished
<1>17. ASSUME NEW f \in Files, CompGather(f)
      PROVE  Output(g)'
    BY <1>17, <1>a, <1>b, <1>c, <1>d, <1>e DEF CompGather, CompGoes, Finished, vars, disk, cache,
        thread, files, limits, Output, Completion, Done, ArticlesOf, Busy, Writer, QueueFree
<1>18. ASSUME NEW f \in Files, CompFails(f)
      PROVE  Output(g)'
    BY <1>18, <1>a, <1>b, <1>c, <1>d, <1>e DEF CompFails, CompGoes, vars, disk, cache, thread,
        files, limits, Output, Finished, Completion, Done, ArticlesOf, Busy, Writer, QueueFree
<1>19. ASSUME NEW f \in Files, CompLock(f)
      PROVE  Output(g)'
    BY <1>19, <1>a, <1>b, <1>c, <1>d, <1>e DEF CompLock, CompGoes, vars, disk, cache, thread, files,
        limits, Output, Finished, Completion, Done, ArticlesOf, Busy, Writer, QueueFree
<1>20. ASSUME NEW f \in Files, NEW a \in ArticlesOf(f), CompArticle(f, a)
      PROVE  Output(g)'
    BY <1>20, <1>a, <1>b, <1>c, <1>d, <1>e, <1>f DEF CompArticle, CompGoes, Free, vars, disk, cache,
        thread, files, limits, Output, Finished, Completion, Done, ArticlesOf, Busy, Writer,
        QueueFree, Finished
<1>21. ASSUME NEW f \in Files, CompUnlock(f)
      PROVE  Output(g)'
    BY <1>21, <1>a, <1>b, <1>c, <1>d, <1>e DEF CompUnlock, CompGoes, vars, disk, cache, thread,
        files, limits, Output, Finished, Completion, Done, ArticlesOf, Busy, Writer, QueueFree
<1>22a. ASSUME NEW f \in Files, CompClose(f)
      PROVE  Output(g)'
    BY <1>22a, <1>a, <1>b, <1>c, <1>d, <1>e DEF CompClose, CompGoes, Close, Dropped, vars, disk, cache,
        thread, files, limits, Output, Finished, Completion, Done, ArticlesOf, Busy, Writer,
        QueueFree
<1>22. ASSUME NEW f \in Files, CompClean(f)
      PROVE  Output(g)'
    BY <1>22, <1>a, <1>b, <1>c, <1>d, <1>e DEF CompClean, CompGoes, Dropped, vars, disk, cache,
        thread, files, limits, Output, Finished, Completion, Done, ArticlesOf, Busy, Writer,
        QueueFree
<1>23. ASSUME NEW f \in Files, CompDone(f)
      PROVE  Output(g)'
    BY <1>23, <1>a, <1>b, <1>c, <1>d, <1>e DEF CompDone, vars, disk, cache, thread, files, limits,
        Output, Finished, Completion, Done, ArticlesOf, Busy, Writer, QueueFree
<1>24. ASSUME NEW f \in Files, DeleteQueueEntry(f)
      PROVE  Output(g)'
    BY <1>24, <1>a, <1>b, <1>c, <1>d, <1>e DEF DeleteQueueEntry, vars, disk, cache, thread, files,
        limits, Output, Finished, Completion, Done, ArticlesOf, Busy, Writer, QueueFree
<1>25. ASSUME NEW f \in Files, DeleteFileInfo(f)
      PROVE  Output(g)'
    BY <1>25, <1>a, <1>b, <1>c, <1>d, <1>e DEF DeleteFileInfo, SavedIs, Dropped, CompGoes, Free, FileBusy, vars, disk,
        cache, thread, files, limits, Output, Finished, Completion, Done, ArticlesOf, Busy, Writer,
        QueueFree
<1>26. ASSUME NEW f \in Files, DiscardDirectRename(f)
      PROVE  Output(g)'
  <2>1. /\ out' = out /\ queued' = queued /\ comp' = comp /\ lost' = lost
        /\ status' = [b \in Articles |-> IF FileOf[b] = f THEN "undefined" ELSE status[b]]
      BY <1>26 DEF DiscardDirectRename, SavedIs, Dropped, limits
  <2>2. CASE g = f
    <3>1. comp[f].pc = "no"
        BY <1>26, <1>c, <1>d DEF DiscardDirectRename, SavedIs, Dropped, Completion, QueueFree, Active, ArticlesOf
    <3>2. QED
        BY <2>1, <2>2, <3>1, <1>e DEF Output
  <2>3. CASE g # f
    <3>1. Finished(g)' = Finished(g)
        BY <2>1, <2>3 DEF ArticlesOf, Finished
    <3>2. QED
        BY <2>1, <2>3, <3>1, <1>e DEF Output
  <2>4. QED
      BY <2>2, <2>3
<1>27. ASSUME NEW f \in Files, SavePartialState(f)
      PROVE  Output(g)'
    BY <1>27, <1>a, <1>b, <1>c, <1>d, <1>e DEF SavePartialState, SavedIs, Finished, vars, disk, cache,
        thread, files, limits, Output, Completion, Done, ArticlesOf, Busy, Writer, QueueFree
<1>28. CASE Stop
    BY <1>28, <1>e DEF Stop, vars, disk, cache, thread, files, limits, Output, Finished
<1>29. CASE Restart
    BY <1>29, <1>a, <1>b, <1>c, <1>d, <1>e DEF Restart, vars, disk, cache, thread, files, limits,
        Output, Finished, Completion, Done, ArticlesOf, Busy, Writer, QueueFree
<1>30. QED
    BY <1>1, <1>2, <1>3, <1>4, <1>5, <1>6, <1>7, <1>8, <1>9, <1>10, <1>11, <1>12, <1>13,
        <1>14, <1>15, <1>16, <1>17, <1>18, <1>19, <1>20, <1>21, <1>22, <1>22a, <1>23, <1>24, <1>25,
        <1>26, <1>27, <1>28, <1>29 DEF Next, WriterStep, CacheStep, CompStep

LEMMA FlusherShape ==
    ASSUME CacheInv, [Next]_vars
    PROVE  /\ (flusher.pc \in {"lock", "flush", "rename"} => flusher.file \in Files)'
           /\ (flusher.todo # {} => flusher.pc \in Flushing)'
<1>a. /\ flusher \in [pc : {"idle", "lock", "flush", "rename", "release", "ended"},
                    file : Files \cup {NoFile}, todo : SUBSET Articles, flushed : Nat]
      /\ cached \in [Files -> Nat] /\ NoFile \notin Files /\ "free" \notin Files /\ "cache" \notin Files
      /\ FileOf \in [Articles -> Files]
    BY SizesAssumption DEF CacheInv, TypeOK
<1>b. /\ flusher.pc \in {"lock", "flush", "rename"} => flusher.file \in Files
      /\ flusher.todo # {} => flusher.pc \in Flushing
      /\ \A f \in Files : Flushed(f)
    BY DEF CacheInv, Flusher
<1>1. CASE UNCHANGED vars
    BY <1>1, <1>a, <1>b DEF vars, disk, cache, thread, files, limits, Flushing
<1>2. ASSUME NEW a \in Articles, StartDownload(a)
      PROVE  /\ (flusher.pc \in {"lock", "flush", "rename"} => flusher.file \in Files)'
             /\ (flusher.todo # {} => flusher.pc \in Flushing)'
    BY <1>2, <1>a, <1>b DEF StartDownload, vars, disk, cache, thread, files, limits, Flushing
<1>3. ASSUME NEW a \in Articles, Alloc(a)
      PROVE  /\ (flusher.pc \in {"lock", "flush", "rename"} => flusher.file \in Files)'
             /\ (flusher.todo # {} => flusher.pc \in Flushing)'
    BY <1>3, <1>a, <1>b DEF Alloc, vars, disk, cache, thread, files, limits, Flushing
<1>4. ASSUME NEW a \in Articles, CacheFull(a)
      PROVE  /\ (flusher.pc \in {"lock", "flush", "rename"} => flusher.file \in Files)'
             /\ (flusher.todo # {} => flusher.pc \in Flushing)'
    BY <1>4, <1>a, <1>b DEF CacheFull, vars, disk, cache, thread, files, limits, Flushing
<1>5. ASSUME NEW a \in Articles, NEW n \in 1 .. Size, FinishCached(a, n)
      PROVE  /\ (flusher.pc \in {"lock", "flush", "rename"} => flusher.file \in Files)'
             /\ (flusher.todo # {} => flusher.pc \in Flushing)'
    BY <1>5, <1>a, <1>b DEF FinishCached, Realloc, vars, disk, cache, thread, files, limits,
        Flushing
<1>6. ASSUME NEW a \in Articles, FinishDisk(a)
      PROVE  /\ (flusher.pc \in {"lock", "flush", "rename"} => flusher.file \in Files)'
             /\ (flusher.todo # {} => flusher.pc \in Flushing)'
    BY <1>6, <1>a, <1>b DEF FinishDisk, vars, disk, cache, thread, files, limits, Flushing
<1>7. ASSUME NEW a \in Articles, FinishFailed(a)
      PROVE  /\ (flusher.pc \in {"lock", "flush", "rename"} => flusher.file \in Files)'
             /\ (flusher.todo # {} => flusher.pc \in Flushing)'
    BY <1>7, <1>a, <1>b DEF FinishFailed, vars, disk, cache, thread, files, limits, Flushing
<1>8. ASSUME NEW a \in Articles, ArticleCompleted(a)
      PROVE  /\ (flusher.pc \in {"lock", "flush", "rename"} => flusher.file \in Files)'
             /\ (flusher.todo # {} => flusher.pc \in Flushing)'
    BY <1>8, <1>a, <1>b DEF ArticleCompleted, Free, Leaves, UnusedBuffer, vars, disk, cache, thread,
        files, limits, Flushing
<1>9. ASSUME NEW f \in Files, CheckFlush(f)
      PROVE  /\ (flusher.pc \in {"lock", "flush", "rename"} => flusher.file \in Files)'
             /\ (flusher.todo # {} => flusher.pc \in Flushing)'
    BY <1>9, <1>a, <1>b DEF CheckFlush, vars, disk, cache, thread, files, limits, Flushing
<1>10. CASE FlushBegin
    BY <1>10, <1>a, <1>b DEF FlushBegin, vars, disk, cache, thread, files, limits, Flushing
<1>11. ASSUME NEW a \in Articles, FlushArticle(a)
      PROVE  /\ (flusher.pc \in {"lock", "flush", "rename"} => flusher.file \in Files)'
             /\ (flusher.todo # {} => flusher.pc \in Flushing)'
    BY <1>11, <1>a, <1>b DEF FlushArticle, Free, vars, disk, cache, thread, files, limits, Flushing
<1>12. ASSUME NEW a \in Articles, FlushFails(a)
      PROVE  /\ (flusher.pc \in {"lock", "flush", "rename"} => flusher.file \in Files)'
             /\ (flusher.todo # {} => flusher.pc \in Flushing)'
    BY <1>12, <1>a, <1>b DEF FlushFails, Free, vars, disk, cache, thread, files, limits, Flushing
<1>13. CASE FlushRename
    BY <1>13, <1>a, <1>b DEF FlushRename, Close, vars, disk, cache, thread, files, limits, Flushing
<1>14. CASE FlushEnd
    BY <1>14, <1>a, <1>b DEF FlushEnd, Close, StillCached, vars, disk, cache, thread, files, limits,
        Flushing
<1>15. CASE FlushRelease
    BY <1>15, <1>a, <1>b DEF FlushRelease, vars, disk, cache, thread, files, limits, Flushing
<1>16. CASE CacheEnds
    BY <1>16, <1>a, <1>b DEF CacheEnds, vars, disk, cache, thread, files, limits, Flushing
<1>17. ASSUME NEW f \in Files, CompGather(f)
      PROVE  /\ (flusher.pc \in {"lock", "flush", "rename"} => flusher.file \in Files)'
             /\ (flusher.todo # {} => flusher.pc \in Flushing)'
    BY <1>17, <1>a, <1>b DEF CompGather, CompGoes, Finished, vars, disk, cache, thread, files,
        limits, Flushing
<1>18. ASSUME NEW f \in Files, CompFails(f)
      PROVE  /\ (flusher.pc \in {"lock", "flush", "rename"} => flusher.file \in Files)'
             /\ (flusher.todo # {} => flusher.pc \in Flushing)'
    BY <1>18, <1>a, <1>b DEF CompFails, CompGoes, vars, disk, cache, thread, files, limits, Flushing
<1>19. ASSUME NEW f \in Files, CompLock(f)
      PROVE  /\ (flusher.pc \in {"lock", "flush", "rename"} => flusher.file \in Files)'
             /\ (flusher.todo # {} => flusher.pc \in Flushing)'
    BY <1>19, <1>a, <1>b DEF CompLock, CompGoes, vars, disk, cache, thread, files, limits, Flushing
<1>20. ASSUME NEW f \in Files, NEW a \in ArticlesOf(f), CompArticle(f, a)
      PROVE  /\ (flusher.pc \in {"lock", "flush", "rename"} => flusher.file \in Files)'
             /\ (flusher.todo # {} => flusher.pc \in Flushing)'
    BY <1>20, <1>a, <1>b DEF CompArticle, CompGoes, Free, vars, disk, cache, thread, files, limits,
        Flushing
<1>21. ASSUME NEW f \in Files, CompUnlock(f)
      PROVE  /\ (flusher.pc \in {"lock", "flush", "rename"} => flusher.file \in Files)'
             /\ (flusher.todo # {} => flusher.pc \in Flushing)'
    BY <1>21, <1>a, <1>b DEF CompUnlock, CompGoes, vars, disk, cache, thread, files, limits,
        Flushing
<1>22a. ASSUME NEW f \in Files, CompClose(f)
      PROVE  /\ (flusher.pc \in {"lock", "flush", "rename"} => flusher.file \in Files)'
             /\ (flusher.todo # {} => flusher.pc \in Flushing)'
    BY <1>22a, <1>a, <1>b DEF CompClose, CompGoes, Close, Dropped, vars, disk, cache, thread, files, limits,
        Flushing
<1>22. ASSUME NEW f \in Files, CompClean(f)
      PROVE  /\ (flusher.pc \in {"lock", "flush", "rename"} => flusher.file \in Files)'
             /\ (flusher.todo # {} => flusher.pc \in Flushing)'
    BY <1>22, <1>a, <1>b DEF CompClean, CompGoes, Dropped, vars, disk, cache, thread, files, limits,
        Flushing
<1>23. ASSUME NEW f \in Files, CompDone(f)
      PROVE  /\ (flusher.pc \in {"lock", "flush", "rename"} => flusher.file \in Files)'
             /\ (flusher.todo # {} => flusher.pc \in Flushing)'
    BY <1>23, <1>a, <1>b DEF CompDone, vars, disk, cache, thread, files, limits, Flushing
<1>24. ASSUME NEW f \in Files, DeleteQueueEntry(f)
      PROVE  /\ (flusher.pc \in {"lock", "flush", "rename"} => flusher.file \in Files)'
             /\ (flusher.todo # {} => flusher.pc \in Flushing)'
    BY <1>24, <1>a, <1>b DEF DeleteQueueEntry, vars, disk, cache, thread, files, limits, Flushing
<1>25. ASSUME NEW f \in Files, DeleteFileInfo(f)
      PROVE  /\ (flusher.pc \in {"lock", "flush", "rename"} => flusher.file \in Files)'
             /\ (flusher.todo # {} => flusher.pc \in Flushing)'
    BY <1>25, <1>a, <1>b DEF DeleteFileInfo, SavedIs, Dropped, CompGoes, Free, FileBusy, vars, disk, cache, thread,
        files, limits, Flushing
<1>26. ASSUME NEW f \in Files, DiscardDirectRename(f)
      PROVE  /\ (flusher.pc \in {"lock", "flush", "rename"} => flusher.file \in Files)'
             /\ (flusher.todo # {} => flusher.pc \in Flushing)'
    BY <1>26, <1>a, <1>b DEF DiscardDirectRename, SavedIs, Dropped, Free, vars, disk, cache, thread, files, limits,
        Flushing
<1>27. ASSUME NEW f \in Files, SavePartialState(f)
      PROVE  /\ (flusher.pc \in {"lock", "flush", "rename"} => flusher.file \in Files)'
             /\ (flusher.todo # {} => flusher.pc \in Flushing)'
    BY <1>27, <1>a, <1>b DEF SavePartialState, SavedIs, Finished, vars, disk, cache, thread, files, limits,
        Flushing
<1>28. CASE Stop
    BY <1>28, <1>a, <1>b DEF Stop, vars, disk, cache, thread, files, limits, Flushing
<1>29. CASE Restart
    BY <1>29, <1>a, <1>b DEF Restart, vars, disk, cache, thread, files, limits, Flushing
<1>30. QED
    BY <1>1, <1>2, <1>3, <1>4, <1>5, <1>6, <1>7, <1>8, <1>9, <1>10, <1>11, <1>12, <1>13,
        <1>14, <1>15, <1>16, <1>17, <1>18, <1>19, <1>20, <1>21, <1>22, <1>22a, <1>23, <1>24, <1>25,
        <1>26, <1>27, <1>28, <1>29 DEF Next, WriterStep, CacheStep, CompStep

LEMMA FlushedStep ==
    ASSUME CacheInv, [Next]_vars, NEW g \in Files
    PROVE  Flushed(g)'
<1>a. /\ flusher \in [pc : {"idle", "lock", "flush", "rename", "release", "ended"},
                    file : Files \cup {NoFile}, todo : SUBSET Articles, flushed : Nat]
      /\ cached \in [Files -> Nat] /\ NoFile \notin Files /\ "free" \notin Files /\ "cache" \notin Files
      /\ FileOf \in [Articles -> Files]
    BY SizesAssumption DEF CacheInv, TypeOK
<1>b. /\ flusher.pc \in {"lock", "flush", "rename"} => flusher.file \in Files
      /\ flusher.todo # {} => flusher.pc \in Flushing
      /\ \A f \in Files : Flushed(f)
    BY DEF CacheInv, Flusher
<1>c. Cardinality(Segs(g)) \in Nat
    BY SegsFinite
<1>d. queued \subseteq Files
    BY DEF CacheInv, TypeOK
<1>e. seg \in [Articles -> 0 .. Size] /\ Size \in Nat \ {0}
    BY SizesAssumption DEF CacheInv, TypeOK
<1>1. CASE UNCHANGED vars
  <2>1. Segs(g)' = Segs(g)
      BY <1>1 DEF vars, disk, cache, thread, files, limits, Segs, ArticlesOf
  <2>2. QED
      BY <1>1, <1>a, <1>b, <1>c, <2>1 DEF vars, disk, cache, thread, files, limits, Flushed,
          Flushing
<1>2. ASSUME NEW a \in Articles, StartDownload(a)
      PROVE  Flushed(g)'
  <2>1. Segs(g)' = Segs(g)
      BY <1>2 DEF StartDownload, vars, disk, cache, thread, files, limits, Segs, ArticlesOf
  <2>2. QED
      BY <1>2, <1>a, <1>b, <1>c, <2>1 DEF StartDownload, vars, disk, cache, thread, files, limits,
          Flushed, Flushing
<1>3. ASSUME NEW a \in Articles, Alloc(a)
      PROVE  Flushed(g)'
  <2>1. Segs(g)' = Segs(g)
      BY <1>3 DEF Alloc, vars, disk, cache, thread, files, limits, Segs, ArticlesOf
  <2>2. QED
      BY <1>3, <1>a, <1>b, <1>c, <2>1 DEF Alloc, vars, disk, cache, thread, files, limits, Flushed,
          Flushing
<1>4. ASSUME NEW a \in Articles, CacheFull(a)
      PROVE  Flushed(g)'
  <2>1. Segs(g)' = Segs(g)
      BY <1>4 DEF CacheFull, vars, disk, cache, thread, files, limits, Segs, ArticlesOf
  <2>2. QED
      BY <1>4, <1>a, <1>b, <1>c, <2>1 DEF CacheFull, vars, disk, cache, thread, files, limits,
          Flushed, Flushing
<1>5. ASSUME NEW a \in Articles, NEW n \in 1 .. Size, FinishCached(a, n)
      PROVE  Flushed(g)'
  <2>1. cached' = [cached EXCEPT ![FileOf[a]] = cached[FileOf[a]] + 1] /\ seg' = [seg EXCEPT ![a] = n]
      BY <1>5 DEF FinishCached
  <2>2. UNCHANGED <<flusher, flushLock, locked, queued>>
      BY <1>5 DEF FinishCached, thread, files
  <2>3. CASE FileOf[a] # g
    <3>1. Segs(g)' = Segs(g)
        BY <2>1, <2>3 DEF Segs, ArticlesOf
    <3>2. cached'[g] = cached[g]
        BY <1>a, <2>1, <2>3
    <3>3. QED
        BY <1>b, <2>2, <3>1, <3>2 DEF Flushed
  <2>4. CASE FileOf[a] = g
    <3>1. Segs(g)' = Segs(g) \cup {a}
        BY <1>e, <2>1, <2>4 DEF Segs, ArticlesOf
    <3>2. Cardinality(Segs(g)') <= Cardinality(Segs(g)) + 1 /\ Cardinality(Segs(g)') \in Nat
      <4>1. Cardinality(Segs(g) \cup {a}) <= Cardinality(Segs(g)) + 1 /\ Cardinality(Segs(g) \cup {a}) \in Nat
          BY <1>c, SegsFinite, FS_AddElement
      <4>2. QED
          BY <3>1, <4>1, Zenon
    <3>3. /\ cached'[g] = cached[g] + 1 /\ Segs(g) \subseteq Segs(g)'
          /\ cached[g] \in Nat /\ flusher.flushed \in Nat
        BY <1>a, <2>1, <2>4, <3>1
    <3>4. QED
        BY <1>b, <1>c, <2>2, <3>2, <3>3 DEF Flushed
  <2>5. QED
      BY <2>3, <2>4
<1>6. ASSUME NEW a \in Articles, FinishDisk(a)
      PROVE  Flushed(g)'
  <2>1. Segs(g)' = Segs(g)
      BY <1>6 DEF FinishDisk, vars, disk, cache, thread, files, limits, Segs, ArticlesOf
  <2>2. QED
      BY <1>6, <1>a, <1>b, <1>c, <2>1 DEF FinishDisk, vars, disk, cache, thread, files, limits,
          Flushed, Flushing
<1>7. ASSUME NEW a \in Articles, FinishFailed(a)
      PROVE  Flushed(g)'
  <2>1. Segs(g)' = Segs(g)
      BY <1>7 DEF FinishFailed, vars, disk, cache, thread, files, limits, Segs, ArticlesOf
  <2>2. QED
      BY <1>7, <1>a, <1>b, <1>c, <2>1 DEF FinishFailed, vars, disk, cache, thread, files, limits,
          Flushed, Flushing
<1>8. ASSUME NEW a \in Articles, ArticleCompleted(a)
      PROVE  Flushed(g)'
  <2>1. Segs(g)' = Segs(g)
      BY <1>8 DEF ArticleCompleted, Free, Leaves, UnusedBuffer, vars, disk, cache, thread, files,
          limits, Segs, ArticlesOf
  <2>2. QED
      BY <1>8, <1>a, <1>b, <1>c, <2>1 DEF ArticleCompleted, Free, Leaves, UnusedBuffer, vars, disk,
          cache, thread, files, limits, Flushed, Flushing
<1>9. ASSUME NEW f \in Files, CheckFlush(f)
      PROVE  Flushed(g)'
  <2>1. Segs(g)' = Segs(g)
      BY <1>9 DEF CheckFlush, vars, disk, cache, thread, files, limits, Segs, ArticlesOf
  <2>2. QED
      BY <1>9, <1>a, <1>b, <1>c, <2>1, <1>d DEF CheckFlush, vars, disk, cache, thread, files,
          limits, Flushed, Flushing
<1>10. CASE FlushBegin
  <2>1. Segs(g)' = Segs(g)
      BY <1>10 DEF FlushBegin, Segs, ArticlesOf
  <2>2. CASE flusher.file \in locked
      BY <1>10, <1>a, <1>b, <1>c, <2>1, <2>2 DEF FlushBegin, files, Flushed, Flushing
  <2>3. CASE flusher.file \notin locked
    <3>1. flusher' = [flusher EXCEPT !.pc = "flush", !.flushed = 0, !.todo = Segs(flusher.file)]
        BY <1>10, <2>3 DEF FlushBegin, Segs
    <3>2. /\ flusher'.file = flusher.file /\ flusher'.flushed = 0 /\ flusher'.todo = Segs(flusher.file)
        BY <1>a, <3>1
    <3>3. flushLock' = "cache" /\ locked' = locked \cup {flusher.file} /\ cached' = cached /\ queued' = queued
        BY <1>10, <2>3 DEF FlushBegin
    <3>4. QED
        BY <1>a, <1>b, <1>c, <2>1, <3>2, <3>3 DEF Flushed
  <2>4. QED
      BY <2>2, <2>3
<1>11. ASSUME NEW a \in Articles, FlushArticle(a)
      PROVE  Flushed(g)'
  <2>1. /\ seg' = [seg EXCEPT ![a] = 0] /\ flusher.file \in Files /\ a \in flusher.todo
        /\ flusher'.file = flusher.file /\ flusher'.flushed = flusher.flushed + 1
        /\ flusher'.todo \subseteq flusher.todo \ {a}
      BY <1>11, <1>a, <1>b DEF FlushArticle, Flushing
  <2>2. UNCHANGED <<cached, flushLock, locked, queued>> /\ flusher.pc \in Flushing
      BY <1>11 DEF FlushArticle, thread, files, Flushing
  <2>3. a \in Segs(flusher.file)
      BY <1>b, <2>1 DEF Flushed
  <2>4. CASE flusher.file # g
    <3>1. Segs(g)' = Segs(g)
        BY <2>1, <2>3, <2>4 DEF Segs, ArticlesOf
    <3>2. QED
        BY <1>b, <2>1, <2>2, <2>4, <3>1 DEF Flushed
  <2>5. CASE flusher.file = g
    <3>1. Segs(g)' = Segs(g) \ {a}
        BY <1>e, <2>1 DEF Segs, ArticlesOf
    <3>2. Cardinality(Segs(g)') = Cardinality(Segs(g)) - 1
      <4>1. Cardinality(Segs(g) \ {a}) = Cardinality(Segs(g)) - 1
          BY <2>3, <2>5, SegsFinite, FS_RemoveElement
      <4>2. QED
          BY <3>1, <4>1, Zenon
    <3>3. flusher.flushed \in Nat /\ cached[g] \in Nat
        BY <1>a
    <3>4. flusher'.todo \subseteq Segs(g)'
        BY <1>b, <2>1, <2>5, <3>1 DEF Flushed
    <3>5. QED
        BY <1>b, <1>c, <2>1, <2>2, <2>5, <3>2, <3>3, <3>4 DEF Flushed
  <2>6. QED
      BY <2>4, <2>5
<1>12. ASSUME NEW a \in Articles, FlushFails(a)
      PROVE  Flushed(g)'
  <2>1. /\ seg' = [seg EXCEPT ![a] = 0] /\ flusher.file \in Files /\ a \in flusher.todo
        /\ flusher'.file = flusher.file /\ flusher'.flushed = flusher.flushed + 1
        /\ flusher'.todo \subseteq flusher.todo \ {a}
      BY <1>12, <1>a, <1>b DEF FlushFails, Flushing
  <2>2. UNCHANGED <<cached, flushLock, locked, queued>> /\ flusher.pc \in Flushing
      BY <1>12 DEF FlushFails, thread, files, Flushing
  <2>3. a \in Segs(flusher.file)
      BY <1>b, <2>1 DEF Flushed
  <2>4. CASE flusher.file # g
    <3>1. Segs(g)' = Segs(g)
        BY <2>1, <2>3, <2>4 DEF Segs, ArticlesOf
    <3>2. QED
        BY <1>b, <2>1, <2>2, <2>4, <3>1 DEF Flushed
  <2>5. CASE flusher.file = g
    <3>1. Segs(g)' = Segs(g) \ {a}
        BY <1>e, <2>1 DEF Segs, ArticlesOf
    <3>2. Cardinality(Segs(g)') = Cardinality(Segs(g)) - 1
      <4>1. Cardinality(Segs(g) \ {a}) = Cardinality(Segs(g)) - 1
          BY <2>3, <2>5, SegsFinite, FS_RemoveElement
      <4>2. QED
          BY <3>1, <4>1, Zenon
    <3>3. flusher.flushed \in Nat /\ cached[g] \in Nat
        BY <1>a
    <3>4. flusher'.todo \subseteq Segs(g)'
        BY <1>b, <2>1, <2>5, <3>1 DEF Flushed
    <3>5. QED
        BY <1>b, <1>c, <2>1, <2>2, <2>5, <3>2, <3>3, <3>4 DEF Flushed
  <2>6. QED
      BY <2>4, <2>5
<1>13. CASE FlushRename
  <2>1. Segs(g)' = Segs(g)
      BY <1>13 DEF FlushRename, Close, vars, disk, cache, thread, files, limits, Segs, ArticlesOf
  <2>2. QED
      BY <1>13, <1>a, <1>b, <1>c, <2>1 DEF FlushRename, Close, vars, disk, cache, thread, files,
          limits, Flushed, Flushing
<1>14. CASE FlushEnd
  <2>1. Segs(g)' = Segs(g)
      BY <1>14 DEF FlushEnd, Close, StillCached, vars, disk, cache, thread, files, limits, Segs,
          ArticlesOf
  <2>2. QED
      BY <1>14, <1>a, <1>b, <1>c, <2>1 DEF FlushEnd, Close, StillCached, vars, disk, cache, thread,
          files, limits, Flushed, Flushing
<1>15. CASE FlushRelease
  <2>1. Segs(g)' = Segs(g)
      BY <1>15 DEF FlushRelease, vars, disk, cache, thread, files, limits, Segs, ArticlesOf
  <2>2. QED
      BY <1>15, <1>a, <1>b, <1>c, <2>1 DEF FlushRelease, vars, disk, cache, thread, files, limits,
          Flushed, Flushing
<1>16. CASE CacheEnds
  <2>1. Segs(g)' = Segs(g)
      BY <1>16 DEF CacheEnds, vars, disk, cache, thread, files, limits, Segs, ArticlesOf
  <2>2. QED
      BY <1>16, <1>a, <1>b, <1>c, <2>1 DEF CacheEnds, vars, disk, cache, thread, files, limits,
          Flushed, Flushing
<1>17. ASSUME NEW f \in Files, CompGather(f)
      PROVE  Flushed(g)'
  <2>1. Segs(g)' = Segs(g)
      BY <1>17 DEF CompGather, CompGoes, Finished, vars, disk, cache, thread, files, limits, Segs,
          ArticlesOf
  <2>2. QED
      BY <1>17, <1>a, <1>b, <1>c, <2>1 DEF CompGather, CompGoes, Finished, vars, disk, cache,
          thread, files, limits, Flushed, Flushing
<1>18. ASSUME NEW f \in Files, CompFails(f)
      PROVE  Flushed(g)'
  <2>1. Segs(g)' = Segs(g)
      BY <1>18 DEF CompFails, CompGoes, vars, disk, cache, thread, files, limits, Segs, ArticlesOf
  <2>2. QED
      BY <1>18, <1>a, <1>b, <1>c, <2>1 DEF CompFails, CompGoes, vars, disk, cache, thread, files,
          limits, Flushed, Flushing
<1>19. ASSUME NEW f \in Files, CompLock(f)
      PROVE  Flushed(g)'
  <2>1. Segs(g)' = Segs(g)
      BY <1>19 DEF CompLock, CompGoes, vars, disk, cache, thread, files, limits, Segs, ArticlesOf
  <2>2. QED
      BY <1>19, <1>a, <1>b, <1>c, <2>1 DEF CompLock, CompGoes, vars, disk, cache, thread, files,
          limits, Flushed, Flushing
<1>20. ASSUME NEW f \in Files, NEW a \in ArticlesOf(f), CompArticle(f, a)
      PROVE  Flushed(g)'
  <2>1. seg' = [seg EXCEPT ![a] = 0] /\ a \in Articles /\ FileOf[a] = f /\ comp[f].pc = "process"
      BY <1>20 DEF CompArticle, ArticlesOf
  <2>2. UNCHANGED <<flusher, cached, flushLock, locked, queued>>
      BY <1>20 DEF CompArticle, thread
  <2>3. CASE f # g \/ seg[a] = 0
    <3>1. Segs(g)' = Segs(g)
        BY <1>e, <2>1, <2>3 DEF Segs, ArticlesOf
    <3>2. QED
        BY <1>b, <2>2, <3>1 DEF Flushed
  <2>4. CASE f = g /\ seg[a] # 0
    <3>1. flushLock = f
        BY <1>20, <2>1, <2>4, CompletedWithoutLock
    <3>2. ~(flusher.pc \in Flushing /\ flusher.file = g)
        BY <1>a, <2>4, <3>1, FlushedCounted
    <3>3. Cardinality(Segs(g)') <= Cardinality(Segs(g)) /\ Cardinality(Segs(g)') \in Nat
      <4>1. Segs(g)' \in SUBSET Segs(g)
          BY <1>e, <2>1 DEF Segs, ArticlesOf
      <4>2. QED
          BY <4>1, SegsFinite, FS_Subset, FS_CardinalityType
    <3>4. cached[g] \in Nat
        BY <1>a
    <3>5. QED
        BY <1>b, <1>c, <2>2, <3>2, <3>3, <3>4 DEF Flushed
  <2>5. QED
      BY <2>3, <2>4
<1>21. ASSUME NEW f \in Files, CompUnlock(f)
      PROVE  Flushed(g)'
  <2>1. Segs(g)' = Segs(g)
      BY <1>21 DEF CompUnlock, CompGoes, vars, disk, cache, thread, files, limits, Segs, ArticlesOf
  <2>2. QED
      BY <1>21, <1>a, <1>b, <1>c, <2>1 DEF CompUnlock, CompGoes, vars, disk, cache, thread, files,
          limits, Flushed, Flushing
<1>22a. ASSUME NEW f \in Files, CompClose(f)
      PROVE  Flushed(g)'
  <2>1. Segs(g)' = Segs(g)
      BY <1>22a DEF CompClose, CompGoes, Close, Dropped, vars, disk, cache, thread, files, limits, Segs,
          ArticlesOf
  <2>2. QED
      BY <1>22a, <1>a, <1>b, <1>c, <2>1 DEF CompClose, CompGoes, Close, Dropped, vars, disk, cache, thread,
          files, limits, Flushed, Flushing
<1>22. ASSUME NEW f \in Files, CompClean(f)
      PROVE  Flushed(g)'
  <2>1. Segs(g)' = Segs(g)
      BY <1>22 DEF CompClean, CompGoes, Dropped, vars, disk, cache, thread, files, limits, Segs,
          ArticlesOf
  <2>2. QED
      BY <1>22, <1>a, <1>b, <1>c, <2>1 DEF CompClean, CompGoes, Dropped, vars, disk, cache, thread,
          files, limits, Flushed, Flushing
<1>23. ASSUME NEW f \in Files, CompDone(f)
      PROVE  Flushed(g)'
  <2>1. Segs(g)' = Segs(g)
      BY <1>23 DEF CompDone, vars, disk, cache, thread, files, limits, Segs, ArticlesOf
  <2>2. QED
      BY <1>23, <1>a, <1>b, <1>c, <2>1 DEF CompDone, vars, disk, cache, thread, files, limits,
          Flushed, Flushing
<1>24. ASSUME NEW f \in Files, DeleteQueueEntry(f)
      PROVE  Flushed(g)'
  <2>1. Segs(g)' = Segs(g)
      BY <1>24 DEF DeleteQueueEntry, vars, disk, cache, thread, files, limits, Segs, ArticlesOf
  <2>2. QED
      BY <1>24, <1>a, <1>b, <1>c, <2>1 DEF DeleteQueueEntry, vars, disk, cache, thread, files,
          limits, Flushed, Flushing
<1>25. ASSUME NEW f \in Files, DeleteFileInfo(f)
      PROVE  Flushed(g)'
  <2>1. seg' = [b \in Articles |-> IF FileOf[b] = f THEN 0 ELSE seg[b]]
      BY <1>25 DEF DeleteFileInfo
  <2>2. UNCHANGED <<flusher, cached, flushLock, locked>> /\ queued' = queued \ {f} /\ flusher.file # f
      BY <1>25, <1>a, <1>b DEF DeleteFileInfo, SavedIs, Dropped, thread, files, FileBusy, Flushed, Flushing
  <2>3. CASE f # g
    <3>1. Segs(g)' = Segs(g)
        BY <2>1, <2>3 DEF Segs, ArticlesOf
    <3>2. QED
        BY <1>a, <1>b, <2>2, <2>3, <3>1 DEF Flushed
  <2>4. CASE f = g
    <3>1. Segs(g)' = {}
        BY <2>1, <2>4 DEF Segs, ArticlesOf
    <3>2. Cardinality(Segs(g)') = 0
        BY <3>1, FS_EmptySet
    <3>3. cached'[g] \in Nat
        BY <1>a, <2>2, <2>4
    <3>4. QED
        BY <1>b, <2>2, <2>4, <3>2, <3>3 DEF Flushed
  <2>5. QED
      BY <2>3, <2>4
<1>26. ASSUME NEW f \in Files, DiscardDirectRename(f)
      PROVE  Flushed(g)'
  <2>1. seg' = [b \in Articles |-> IF FileOf[b] = f THEN 0 ELSE seg[b]]
      BY <1>26 DEF DiscardDirectRename
  <2>2. /\ UNCHANGED <<flusher, flushLock, locked, queued>> /\ cached' = [cached EXCEPT ![f] = 0]
        /\ flusher.file = f => flusher.pc \notin Flushing /\ flusher.todo = {}
      BY <1>26, <1>a, <1>b DEF DiscardDirectRename, SavedIs, Dropped, thread, files, FileBusy, Flushed, Flushing
  <2>3. CASE f # g
    <3>1. Segs(g)' = Segs(g)
        BY <2>1, <2>3 DEF Segs, ArticlesOf
    <3>2. QED
        BY <1>a, <1>b, <2>2, <2>3, <3>1 DEF Flushed
  <2>4. CASE f = g
    <3>1. Segs(g)' = {}
        BY <2>1, <2>4 DEF Segs, ArticlesOf
    <3>2. Cardinality(Segs(g)') = 0
        BY <3>1, FS_EmptySet
    <3>3. cached'[g] \in Nat
        BY <1>a, <2>2, <2>4
    <3>4. QED
        BY <1>b, <2>2, <2>4, <3>2, <3>3 DEF Flushed
  <2>5. QED
      BY <2>3, <2>4
<1>27. ASSUME NEW f \in Files, SavePartialState(f)
      PROVE  Flushed(g)'
  <2>1. Segs(g)' = Segs(g)
      BY <1>27 DEF SavePartialState, SavedIs, Finished, vars, disk, cache, thread, files, limits, Segs,
          ArticlesOf
  <2>2. QED
      BY <1>27, <1>a, <1>b, <1>c, <2>1 DEF SavePartialState, SavedIs, Finished, vars, disk, cache, thread,
          files, limits, Flushed, Flushing
<1>28. CASE Stop
  <2>1. Segs(g)' = Segs(g)
      BY <1>28 DEF Stop, vars, disk, cache, thread, files, limits, Segs, ArticlesOf
  <2>2. QED
      BY <1>28, <1>a, <1>b, <1>c, <2>1 DEF Stop, vars, disk, cache, thread, files, limits, Flushed,
          Flushing
<1>29. CASE Restart
  <2>1. Segs(g)' = {}
      BY <1>29 DEF Restart, Segs, ArticlesOf
  <2>2. Cardinality(Segs(g)') = 0
      BY <2>1, FS_EmptySet
  <2>3. cached'[g] = 0 /\ flusher'.file = NoFile
      BY <1>29 DEF Restart
  <2>4. QED
      BY <1>a, <2>2, <2>3 DEF Flushed
<1>30. QED
    BY <1>1, <1>2, <1>3, <1>4, <1>5, <1>6, <1>7, <1>8, <1>9, <1>10, <1>11, <1>12, <1>13,
        <1>14, <1>15, <1>16, <1>17, <1>18, <1>19, <1>20, <1>21, <1>22, <1>22a, <1>23, <1>24, <1>25,
        <1>26, <1>27, <1>28, <1>29 DEF Next, WriterStep, CacheStep, CompStep

LEMMA MemoryStep ==
    ASSUME CacheInv, [Next]_vars
    PROVE  Memory'
<1>a. /\ buf \in [Articles -> 0 .. Size] /\ seg \in [Articles -> 0 .. Size] /\ Size \in Nat \ {0}
      /\ allocated \in 0 .. Limit /\ flag \in BOOLEAN /\ allocated \in Nat
    BY SizesAssumption DEF CacheInv, TypeOK
<1>b. Memory
    BY DEF CacheInv
<1>c. \A x \in Articles : Writer(x)
    BY DEF CacheInv
<1>d. Cardinality(Bytes(buf, Articles)) \in Nat /\ Cardinality(Bytes(seg, Articles)) \in Nat
    BY BytesFinite
<1>e. \A x \in Articles : buf[x] \in 0 .. allocated /\ seg[x] \in 0 .. allocated
    BY <1>a, HeldBounds DEF CacheInv, Memory
<1>f. \A g \in Files : Cardinality(Bytes(seg, ArticlesOf(g))) \in 0 .. allocated
    BY HeldBounds DEF CacheInv, Memory
<1>1. CASE UNCHANGED vars
    BY <1>1, <1>b DEF vars, disk, cache, thread, files, limits, Memory, AllocatedIsHeld
<1>2. ASSUME NEW a \in Articles, StartDownload(a)
      PROVE  Memory'
    BY <1>2, <1>b DEF StartDownload, vars, disk, cache, thread, files, limits, Memory,
        AllocatedIsHeld
<1>3. ASSUME NEW a \in Articles, Alloc(a)
      PROVE  Memory'
  <2>1. CASE Fits
    <3>1. /\ buf' = [buf EXCEPT ![a] = Size] /\ allocated' = allocated + Size
          /\ flag' = (flag \/ allocated = 0) /\ seg' = seg
        BY <1>3, <2>1 DEF Alloc
    <3>2. buf[a] = 0
        BY <1>3, <1>a, <1>c DEF Alloc, Writer
    <3>3. /\ buf' \in [Articles -> 0 .. Size] /\ buf'[a] = Size
          /\ \A b \in Articles \ {a} : buf'[b] = buf[b]
        BY <1>a, <3>1
    <3>4. Cardinality(Bytes(buf', Articles)) = Cardinality(Bytes(buf, Articles)) - 0 + Size
        BY <1>a, <3>2, <3>3, BytesChanged
    <3>5. AllocatedIsHeld'
        BY <1>a, <1>b, <1>d, <3>1, <3>4 DEF Memory, AllocatedIsHeld
    <3>6. flag \/ allocated = 0
        BY <1>a, <1>b DEF Memory
    <3>7. flag'
        BY <3>1, <3>6
    <3>8. QED
        BY <3>5, <3>7 DEF Memory
  <2>2. CASE ~Fits
      BY <1>3, <1>b, <2>2 DEF Alloc, cache, Memory, AllocatedIsHeld
  <2>3. QED
      BY <2>1, <2>2
<1>4. ASSUME NEW a \in Articles, CacheFull(a)
      PROVE  Memory'
    BY <1>4, <1>b DEF CacheFull, vars, disk, cache, thread, files, limits, Memory, AllocatedIsHeld
<1>5. ASSUME NEW a \in Articles, NEW n \in 1 .. Size, FinishCached(a, n)
      PROVE  Memory'
  <2>1. /\ buf' = [buf EXCEPT ![a] = 0] /\ seg' = [seg EXCEPT ![a] = n]
        /\ allocated' = allocated - buf[a] + n /\ flag' = flag
      BY <1>5 DEF FinishCached, Realloc
  <2>2. buf[a] = Size /\ seg[a] = 0
      BY <1>5, <1>a, <1>c DEF FinishCached, Writer, Busy
  <2>3. /\ buf' \in [Articles -> 0 .. Size] /\ buf'[a] = 0
        /\ seg' \in [Articles -> 0 .. Size] /\ seg'[a] = n
        /\ \A b \in Articles \ {a} : buf'[b] = buf[b] /\ seg'[b] = seg[b]
      BY <1>a, <2>1
  <2>4. Cardinality(Bytes(buf', Articles)) = Cardinality(Bytes(buf, Articles)) - Size + 0
      BY <1>a, <2>2, <2>3, BytesChanged
  <2>5. Cardinality(Bytes(seg', Articles)) = Cardinality(Bytes(seg, Articles)) - 0 + n
      BY <1>a, <2>2, <2>3, BytesChanged
  <2>6. AllocatedIsHeld'
      BY <1>a, <1>b, <1>d, <2>1, <2>2, <2>4, <2>5 DEF Memory, AllocatedIsHeld
  <2>7. allocated > 0
      BY <1>a, <1>e, <2>2
  <2>8. QED
      BY <1>b, <2>1, <2>6, <2>7 DEF Memory
<1>6. ASSUME NEW a \in Articles, FinishDisk(a)
      PROVE  Memory'
    BY <1>6, <1>b DEF FinishDisk, vars, disk, cache, thread, files, limits, Memory, AllocatedIsHeld
<1>7. ASSUME NEW a \in Articles, FinishFailed(a)
      PROVE  Memory'
    BY <1>7, <1>b DEF FinishFailed, vars, disk, cache, thread, files, limits, Memory,
        AllocatedIsHeld
<1>8. ASSUME NEW a \in Articles, ArticleCompleted(a)
      PROVE  Memory'
  <2>1. /\ buf' = [buf EXCEPT ![a] = 0] /\ seg' = seg /\ allocated' = allocated - buf[a]
        /\ flag' = IF buf[a] > 0 /\ allocated = buf[a] THEN FALSE ELSE flag
      BY <1>8 DEF ArticleCompleted, Free, Leaves, UnusedBuffer
  <2>2. /\ buf' \in [Articles -> 0 .. Size] /\ buf'[a] = 0 /\ buf[a] \in 0 .. allocated /\ a \in Articles
        /\ \A b \in Articles \ {a} : buf'[b] = buf[b]
      BY <1>8, <1>a, <1>e, <2>1 DEF ArticlesOf
  <2>3. Cardinality(Bytes(buf', Articles)) = Cardinality(Bytes(buf, Articles)) - buf[a] + 0
      BY <1>a, <2>2, BytesChanged
  <2>4. AllocatedIsHeld'
      BY <1>a, <1>b, <1>d, <2>1, <2>2, <2>3 DEF Memory, AllocatedIsHeld
  <2>5. QED
      BY <1>a, <1>b, <2>1, <2>2, <2>4 DEF Memory
<1>9. ASSUME NEW f \in Files, CheckFlush(f)
      PROVE  Memory'
    BY <1>9, <1>b DEF CheckFlush, vars, disk, cache, thread, files, limits, Memory, AllocatedIsHeld
<1>10. CASE FlushBegin
    BY <1>10, <1>b DEF FlushBegin, vars, disk, cache, thread, files, limits, Memory, AllocatedIsHeld
<1>11. ASSUME NEW a \in Articles, FlushArticle(a)
      PROVE  Memory'
  <2>1. /\ seg' = [seg EXCEPT ![a] = 0] /\ buf' = buf /\ allocated' = allocated - seg[a]
        /\ flag' = IF seg[a] > 0 /\ allocated = seg[a] THEN FALSE ELSE flag
      BY <1>11 DEF FlushArticle, Free
  <2>2. /\ seg' \in [Articles -> 0 .. Size] /\ seg'[a] = 0 /\ seg[a] \in 0 .. allocated /\ a \in Articles
        /\ \A b \in Articles \ {a} : seg'[b] = seg[b]
      BY <1>11, <1>a, <1>e, <2>1 DEF ArticlesOf
  <2>3. Cardinality(Bytes(seg', Articles)) = Cardinality(Bytes(seg, Articles)) - seg[a] + 0
      BY <1>a, <2>2, BytesChanged
  <2>4. AllocatedIsHeld'
      BY <1>a, <1>b, <1>d, <2>1, <2>2, <2>3 DEF Memory, AllocatedIsHeld
  <2>5. QED
      BY <1>a, <1>b, <2>1, <2>2, <2>4 DEF Memory
<1>12. ASSUME NEW a \in Articles, FlushFails(a)
      PROVE  Memory'
  <2>1. /\ seg' = [seg EXCEPT ![a] = 0] /\ buf' = buf /\ allocated' = allocated - seg[a]
        /\ flag' = IF seg[a] > 0 /\ allocated = seg[a] THEN FALSE ELSE flag
      BY <1>12 DEF FlushFails, Free
  <2>2. /\ seg' \in [Articles -> 0 .. Size] /\ seg'[a] = 0 /\ seg[a] \in 0 .. allocated /\ a \in Articles
        /\ \A b \in Articles \ {a} : seg'[b] = seg[b]
      BY <1>12, <1>a, <1>e, <2>1 DEF ArticlesOf
  <2>3. Cardinality(Bytes(seg', Articles)) = Cardinality(Bytes(seg, Articles)) - seg[a] + 0
      BY <1>a, <2>2, BytesChanged
  <2>4. AllocatedIsHeld'
      BY <1>a, <1>b, <1>d, <2>1, <2>2, <2>3 DEF Memory, AllocatedIsHeld
  <2>5. QED
      BY <1>a, <1>b, <2>1, <2>2, <2>4 DEF Memory
<1>13. CASE FlushRename
    BY <1>13, <1>b DEF FlushRename, Close, vars, disk, cache, thread, files, limits, Memory,
        AllocatedIsHeld
<1>14. CASE FlushEnd
    BY <1>14, <1>b DEF FlushEnd, Close, StillCached, vars, disk, cache, thread, files, limits,
        Memory, AllocatedIsHeld
<1>15. CASE FlushRelease
    BY <1>15, <1>b DEF FlushRelease, vars, disk, cache, thread, files, limits, Memory,
        AllocatedIsHeld
<1>16. CASE CacheEnds
    BY <1>16, <1>b DEF CacheEnds, vars, disk, cache, thread, files, limits, Memory, AllocatedIsHeld
<1>17. ASSUME NEW f \in Files, CompGather(f)
      PROVE  Memory'
    BY <1>17, <1>b DEF CompGather, CompGoes, Finished, vars, disk, cache, thread, files, limits,
        Memory, AllocatedIsHeld
<1>18. ASSUME NEW f \in Files, CompFails(f)
      PROVE  Memory'
    BY <1>18, <1>b DEF CompFails, CompGoes, vars, disk, cache, thread, files, limits, Memory,
        AllocatedIsHeld
<1>19. ASSUME NEW f \in Files, CompLock(f)
      PROVE  Memory'
    BY <1>19, <1>b DEF CompLock, CompGoes, vars, disk, cache, thread, files, limits, Memory,
        AllocatedIsHeld
<1>20. ASSUME NEW f \in Files, NEW a \in ArticlesOf(f), CompArticle(f, a)
      PROVE  Memory'
  <2>1. /\ seg' = [seg EXCEPT ![a] = 0] /\ buf' = buf /\ allocated' = allocated - seg[a]
        /\ flag' = IF seg[a] > 0 /\ allocated = seg[a] THEN FALSE ELSE flag
      BY <1>20 DEF CompArticle, CompGoes, Free
  <2>2. /\ seg' \in [Articles -> 0 .. Size] /\ seg'[a] = 0 /\ seg[a] \in 0 .. allocated /\ a \in Articles
        /\ \A b \in Articles \ {a} : seg'[b] = seg[b]
      BY <1>20, <1>a, <1>e, <2>1 DEF ArticlesOf
  <2>3. Cardinality(Bytes(seg', Articles)) = Cardinality(Bytes(seg, Articles)) - seg[a] + 0
      BY <1>a, <2>2, BytesChanged
  <2>4. AllocatedIsHeld'
      BY <1>a, <1>b, <1>d, <2>1, <2>2, <2>3 DEF Memory, AllocatedIsHeld
  <2>5. QED
      BY <1>a, <1>b, <2>1, <2>2, <2>4 DEF Memory
<1>21. ASSUME NEW f \in Files, CompUnlock(f)
      PROVE  Memory'
    BY <1>21, <1>b DEF CompUnlock, CompGoes, vars, disk, cache, thread, files, limits, Memory,
        AllocatedIsHeld
<1>22a. ASSUME NEW f \in Files, CompClose(f)
      PROVE  Memory'
    BY <1>22a, <1>b DEF CompClose, CompGoes, Close, Dropped, vars, disk, cache, thread, files, limits, Memory,
        AllocatedIsHeld
<1>22. ASSUME NEW f \in Files, CompClean(f)
      PROVE  Memory'
    BY <1>22, <1>b DEF CompClean, CompGoes, Dropped, vars, disk, cache, thread, files, limits, Memory,
        AllocatedIsHeld
<1>23. ASSUME NEW f \in Files, CompDone(f)
      PROVE  Memory'
    BY <1>23, <1>b DEF CompDone, vars, disk, cache, thread, files, limits, Memory, AllocatedIsHeld
<1>24. ASSUME NEW f \in Files, DeleteQueueEntry(f)
      PROVE  Memory'
    BY <1>24, <1>b DEF DeleteQueueEntry, vars, disk, cache, thread, files, limits, Memory,
        AllocatedIsHeld
<1>25. ASSUME NEW f \in Files, DeleteFileInfo(f)
      PROVE  Memory'
  <2>1. /\ seg' = [b \in Articles |-> IF FileOf[b] = f THEN 0 ELSE seg[b]] /\ buf' = buf
        /\ allocated' = allocated - Cardinality(Bytes(seg, ArticlesOf(f)))
        /\ flag' = IF /\ Cardinality(Bytes(seg, ArticlesOf(f))) > 0
                      /\ allocated = Cardinality(Bytes(seg, ArticlesOf(f)))
                   THEN FALSE ELSE flag
      BY <1>25 DEF DeleteFileInfo, SavedIs, Dropped, Free
  <2>2. Cardinality(Bytes(seg, ArticlesOf(f))) \in 0 .. allocated
      BY <1>f
  <2>3. /\ seg' = [b \in Articles |-> IF b \in ArticlesOf(f) THEN 0 ELSE seg[b]]
        /\ ArticlesOf(f) \in SUBSET Articles
      BY <2>1 DEF ArticlesOf
  <2>4. Cardinality(Bytes(seg', Articles))
            = Cardinality(Bytes(seg, Articles)) - Cardinality(Bytes(seg, ArticlesOf(f)))
      BY <1>a, <2>3, BytesFreed
  <2>5. AllocatedIsHeld'
      BY <1>a, <1>b, <1>d, <2>1, <2>2, <2>4 DEF Memory, AllocatedIsHeld
  <2>6. QED
      BY <1>a, <1>b, <2>1, <2>2, <2>5 DEF Memory
<1>26. ASSUME NEW f \in Files, DiscardDirectRename(f)
      PROVE  Memory'
  <2>1. /\ seg' = [b \in Articles |-> IF FileOf[b] = f THEN 0 ELSE seg[b]] /\ buf' = buf
        /\ allocated' = allocated - Cardinality(Bytes(seg, ArticlesOf(f)))
        /\ flag' = IF /\ Cardinality(Bytes(seg, ArticlesOf(f))) > 0
                      /\ allocated = Cardinality(Bytes(seg, ArticlesOf(f)))
                   THEN FALSE ELSE flag
      BY <1>26 DEF DiscardDirectRename, SavedIs, Dropped, Free
  <2>2. Cardinality(Bytes(seg, ArticlesOf(f))) \in 0 .. allocated
      BY <1>f
  <2>3. /\ seg' = [b \in Articles |-> IF b \in ArticlesOf(f) THEN 0 ELSE seg[b]]
        /\ ArticlesOf(f) \in SUBSET Articles
      BY <2>1 DEF ArticlesOf
  <2>4. Cardinality(Bytes(seg', Articles))
            = Cardinality(Bytes(seg, Articles)) - Cardinality(Bytes(seg, ArticlesOf(f)))
      BY <1>a, <2>3, BytesFreed
  <2>5. AllocatedIsHeld'
      BY <1>a, <1>b, <1>d, <2>1, <2>2, <2>4 DEF Memory, AllocatedIsHeld
  <2>6. QED
      BY <1>a, <1>b, <2>1, <2>2, <2>5 DEF Memory
<1>27. ASSUME NEW f \in Files, SavePartialState(f)
      PROVE  Memory'
    BY <1>27, <1>b DEF SavePartialState, SavedIs, Finished, vars, disk, cache, thread, files, limits, Memory,
        AllocatedIsHeld
<1>28. CASE Stop
    BY <1>28, <1>b DEF Stop, vars, disk, cache, thread, files, limits, Memory, AllocatedIsHeld
<1>29. CASE Restart
  <2>1. allocated' = 0 /\ buf' = [a \in Articles |-> 0] /\ seg' = [a \in Articles |-> 0]
      BY <1>29 DEF Restart
  <2>2. Cardinality(Bytes(buf', Articles)) = 0 /\ Cardinality(Bytes(seg', Articles)) = 0
      BY <2>1, BytesNone
  <2>3. QED
      BY <2>1, <2>2 DEF Memory, AllocatedIsHeld
<1>30. QED
    BY <1>1, <1>2, <1>3, <1>4, <1>5, <1>6, <1>7, <1>8, <1>9, <1>10, <1>11, <1>12, <1>13,
        <1>14, <1>15, <1>16, <1>17, <1>18, <1>19, <1>20, <1>21, <1>22, <1>22a, <1>23, <1>24, <1>25,
        <1>26, <1>27, <1>28, <1>29 DEF Next, WriterStep, CacheStep, CompStep

LEMMA OpenedStep ==
    ASSUME CacheInv, [Next]_vars, NEW x \in Articles
    PROVE  Opened(x)'
<1>a. /\ status \in [Articles -> {"undefined", "running", "finished", "failed"}]
      /\ wr \in [Articles -> {"idle", "alloc", "full", "cached", "disk", "finished", "failed", "completes"}]
      /\ seg \in [Articles -> 0 .. Size] /\ loc \in [Articles -> {"none", "open", "disk"}]
      /\ FileOf \in [Articles -> Files] /\ lost \in BOOLEAN /\ part \in [Files -> SUBSET Articles]
      /\ comp \in [Files -> [pc : {"no", "gather", "lock", "process", "close", "clean", "done"}, todo : SUBSET Articles]]
      /\ flusher \in [pc : {"idle", "lock", "flush", "rename", "release", "ended"},
                    file : Files \cup {NoFile}, todo : SUBSET Articles, flushed : Nat]
      /\ "free" \notin Files /\ "cache" \notin Files /\ NoFile \notin Files /\ Size \in Nat \ {0}
    BY SizesAssumption DEF CacheInv, TypeOK
<1>b. \A y \in Articles : Opened(y) /\ (~lost => Kept(y)) /\ Writer(y)
    BY DEF CacheInv, Content
<1>c. \A f \in Files : Completion(f)
    BY DEF CacheInv
<1>d. flusher.pc \in Flushing => flushLock = "cache"
    BY FlushedCounted
<1>e. flusher.todo # {} => flusher.todo \subseteq Segs(flusher.file) /\ flusher.file \in Files
    BY DEF CacheInv, Flusher, Flushed, Flushing
<1>1. CASE UNCHANGED vars
    BY <1>1, <1>a, <1>b, <1>d DEF vars, disk, cache, thread, files, limits, Opened, Flushing
<1>2. ASSUME NEW a \in Articles, StartDownload(a)
      PROVE  Opened(x)'
    BY <1>2, <1>a, <1>b, <1>d DEF StartDownload, vars, disk, cache, thread, files, limits, Opened,
        Flushing
<1>3. ASSUME NEW a \in Articles, Alloc(a)
      PROVE  Opened(x)'
    BY <1>3, <1>a, <1>b, <1>d DEF Alloc, vars, disk, cache, thread, files, limits, Opened, Flushing
<1>4. ASSUME NEW a \in Articles, CacheFull(a)
      PROVE  Opened(x)'
    BY <1>4, <1>a, <1>b, <1>d DEF CacheFull, vars, disk, cache, thread, files, limits, Opened,
        Flushing
<1>5. ASSUME NEW a \in Articles, NEW n \in 1 .. Size, FinishCached(a, n)
      PROVE  Opened(x)'
    BY <1>5, <1>a, <1>b, <1>d DEF FinishCached, Realloc, vars, disk, cache, thread, files, limits,
        Opened, Flushing
<1>6. ASSUME NEW a \in Articles, FinishDisk(a)
      PROVE  Opened(x)'
    BY <1>6, <1>a, <1>b, <1>d DEF FinishDisk, vars, disk, cache, thread, files, limits, Opened,
        Flushing
<1>7. ASSUME NEW a \in Articles, FinishFailed(a)
      PROVE  Opened(x)'
    BY <1>7, <1>a, <1>b, <1>d DEF FinishFailed, vars, disk, cache, thread, files, limits, Opened,
        Flushing
<1>8. ASSUME NEW a \in Articles, ArticleCompleted(a)
      PROVE  Opened(x)'
  <2>1. comp[FileOf[a]].pc = "no"
      BY SMTT(30), <1>8, <1>a, <1>b, <1>c DEF ArticleCompleted, Writer, Completion, Busy, Done, ArticlesOf
  <2>2. /\ UNCHANGED <<loc, flusher, flushLock>>
        /\ comp' = comp \/ comp' = [comp EXCEPT ![FileOf[a]].pc = "gather"]
      BY <1>8 DEF ArticleCompleted, disk, thread
  <2>3. QED
      BY <1>a, <1>b, <2>1, <2>2 DEF Opened
<1>9. ASSUME NEW f \in Files, CheckFlush(f)
      PROVE  Opened(x)'
    BY <1>9, <1>a, <1>b, <1>d DEF CheckFlush, vars, disk, cache, thread, files, limits, Opened,
        Flushing
<1>10. CASE FlushBegin
    BY <1>10, <1>a, <1>b, <1>d DEF FlushBegin, vars, disk, cache, thread, files, limits, Opened,
        Flushing
<1>11. ASSUME NEW a \in Articles, FlushArticle(a)
      PROVE  Opened(x)'
    BY <1>11, <1>a, <1>b, <1>d, <1>e DEF FlushArticle, Free, vars, disk, cache, thread, files,
        limits, Opened, Flushing, Segs, ArticlesOf
<1>12. ASSUME NEW a \in Articles, FlushFails(a)
      PROVE  Opened(x)'
    BY <1>12, <1>a, <1>b, <1>d, <1>e DEF FlushFails, Free, vars, disk, cache, thread, files, limits,
        Opened, Flushing, Segs, ArticlesOf
<1>13. CASE FlushRename
    BY <1>13, <1>a, <1>b, <1>d DEF FlushRename, Close, vars, disk, cache, thread, files, limits,
        Opened, Flushing
<1>14. CASE FlushEnd
    BY <1>14, <1>a, <1>b, <1>d DEF FlushEnd, Close, StillCached, vars, disk, cache, thread, files,
        limits, Opened, Flushing
<1>15. CASE FlushRelease
    BY <1>15, <1>a, <1>b, <1>d DEF FlushRelease, vars, disk, cache, thread, files, limits, Opened,
        Flushing
<1>16. CASE CacheEnds
    BY <1>16, <1>a, <1>b, <1>d DEF CacheEnds, vars, disk, cache, thread, files, limits, Opened,
        Flushing
<1>17. ASSUME NEW f \in Files, CompGather(f)
      PROVE  Opened(x)'
    BY <1>17, <1>a, <1>b, <1>d DEF CompGather, CompGoes, vars, disk, cache, thread, files, limits,
        Opened, Flushing
<1>18. ASSUME NEW f \in Files, CompFails(f)
      PROVE  Opened(x)'
    BY <1>18, <1>a, <1>b, <1>d DEF CompFails, CompGoes, vars, disk, cache, thread, files, limits,
        Opened, Flushing
<1>19. ASSUME NEW f \in Files, CompLock(f)
      PROVE  Opened(x)'
    BY <1>19, <1>a, <1>b, <1>d DEF CompLock, CompGoes, vars, disk, cache, thread, files, limits,
        Opened, Flushing
<1>20. ASSUME NEW f \in Files, NEW a \in ArticlesOf(f), CompArticle(f, a)
      PROVE  Opened(x)'
    BY <1>20, <1>a, <1>b, <1>d, CompletedWithoutLock DEF CompArticle, CompGoes, Free, vars, disk,
        cache, thread, files, limits, Opened, Flushing, ArticlesOf
<1>21. ASSUME NEW f \in Files, CompUnlock(f)
      PROVE  Opened(x)'
    BY <1>21, <1>a, <1>b, <1>d DEF CompUnlock, CompGoes, vars, disk, cache, thread, files, limits,
        Opened, Flushing
<1>22a. ASSUME NEW f \in Files, CompClose(f)
      PROVE  Opened(x)'
    BY <1>22a, <1>a, <1>b, <1>d DEF CompClose, CompGoes, Close, Dropped, vars, disk, cache, thread, files,
        limits, Opened, Flushing
<1>22. ASSUME NEW f \in Files, CompClean(f)
      PROVE  Opened(x)'
    BY <1>22, <1>a, <1>b, <1>d DEF CompClean, CompGoes, Dropped, vars, disk, cache, thread, files,
        limits, Opened, Flushing
<1>23. ASSUME NEW f \in Files, CompDone(f)
      PROVE  Opened(x)'
    BY <1>23, <1>a, <1>b, <1>d DEF CompDone, vars, disk, cache, thread, files, limits, Opened,
        Flushing
<1>24. ASSUME NEW f \in Files, DeleteQueueEntry(f)
      PROVE  Opened(x)'
    BY <1>24, <1>a, <1>b, <1>d DEF DeleteQueueEntry, vars, disk, cache, thread, files, limits,
        Opened, Flushing
<1>25. ASSUME NEW f \in Files, DeleteFileInfo(f)
      PROVE  Opened(x)'
    BY <1>25, <1>a, <1>b, <1>d, <1>c DEF DeleteFileInfo, SavedIs, Dropped, CompGoes, Free, FileBusy, vars, disk,
        cache, thread, files, limits, Opened, Flushing, Completion
<1>26. ASSUME NEW f \in Files, DiscardDirectRename(f)
      PROVE  Opened(x)'
    BY <1>26, <1>a, <1>b, <1>d DEF DiscardDirectRename, SavedIs, Dropped, Free, vars, disk, cache, thread, files,
        limits, Opened, Flushing
<1>27. ASSUME NEW f \in Files, SavePartialState(f)
      PROVE  Opened(x)'
    BY <1>27, <1>a, <1>b, <1>d DEF SavePartialState, SavedIs, Finished, vars, disk, cache, thread, files,
        limits, Opened, Flushing
<1>28. CASE Stop
    BY <1>28, <1>a, <1>b, <1>d DEF Stop, vars, disk, cache, thread, files, limits, Opened, Flushing
<1>29. CASE Restart
    BY <1>29, <1>a, <1>b, <1>d DEF Restart, vars, disk, cache, thread, files, limits, Opened,
        Flushing
<1>30. QED
    BY <1>1, <1>2, <1>3, <1>4, <1>5, <1>6, <1>7, <1>8, <1>9, <1>10, <1>11, <1>12, <1>13,
        <1>14, <1>15, <1>16, <1>17, <1>18, <1>19, <1>20, <1>21, <1>22, <1>22a, <1>23, <1>24, <1>25,
        <1>26, <1>27, <1>28, <1>29 DEF Next, WriterStep, CacheStep, CompStep

LEMMA KeptStep ==
    ASSUME CacheInv, [Next]_vars, NEW x \in Articles, ~lost'
    PROVE  Kept(x)'
<1>a. /\ status \in [Articles -> {"undefined", "running", "finished", "failed"}]
      /\ wr \in [Articles -> {"idle", "alloc", "full", "cached", "disk", "finished", "failed", "completes"}]
      /\ seg \in [Articles -> 0 .. Size] /\ loc \in [Articles -> {"none", "open", "disk"}]
      /\ FileOf \in [Articles -> Files] /\ lost \in BOOLEAN /\ part \in [Files -> SUBSET Articles]
      /\ comp \in [Files -> [pc : {"no", "gather", "lock", "process", "close", "clean", "done"}, todo : SUBSET Articles]]
      /\ flusher \in [pc : {"idle", "lock", "flush", "rename", "release", "ended"},
                    file : Files \cup {NoFile}, todo : SUBSET Articles, flushed : Nat]
      /\ "free" \notin Files /\ "cache" \notin Files /\ NoFile \notin Files /\ Size \in Nat \ {0}
    BY SizesAssumption DEF CacheInv, TypeOK
<1>b. \A y \in Articles : Opened(y) /\ (~lost => Kept(y)) /\ Writer(y)
    BY DEF CacheInv, Content
<1>c. \A f \in Files : Completion(f)
    BY DEF CacheInv
<1>1. CASE UNCHANGED vars
    BY <1>1, <1>a, <1>b DEF vars, disk, cache, thread, files, limits, Kept
<1>2. ASSUME NEW a \in Articles, StartDownload(a)
      PROVE  Kept(x)'
    BY <1>2, <1>a, <1>b DEF StartDownload, vars, disk, cache, thread, files, limits, Kept
<1>3. ASSUME NEW a \in Articles, Alloc(a)
      PROVE  Kept(x)'
    BY <1>3, <1>a, <1>b DEF Alloc, vars, disk, cache, thread, files, limits, Kept
<1>4. ASSUME NEW a \in Articles, CacheFull(a)
      PROVE  Kept(x)'
    BY <1>4, <1>a, <1>b DEF CacheFull, vars, disk, cache, thread, files, limits, Kept
<1>5. ASSUME NEW a \in Articles, NEW n \in 1 .. Size, FinishCached(a, n)
      PROVE  Kept(x)'
    BY <1>5, <1>a, <1>b DEF FinishCached, Realloc, vars, disk, cache, thread, files, limits, Kept
<1>6. ASSUME NEW a \in Articles, FinishDisk(a)
      PROVE  Kept(x)'
    BY <1>6, <1>a, <1>b DEF FinishDisk, vars, disk, cache, thread, files, limits, Kept
<1>7. ASSUME NEW a \in Articles, FinishFailed(a)
      PROVE  Kept(x)'
    BY <1>7, <1>a, <1>b DEF FinishFailed, vars, disk, cache, thread, files, limits, Kept
<1>8. ASSUME NEW a \in Articles, ArticleCompleted(a)
      PROVE  Kept(x)'
  <2>1. comp[FileOf[a]].pc = "no" /\ (status'[a] = "finished" => wr[a] = "finished")
      BY <1>8, <1>a, <1>b, <1>c DEF ArticleCompleted, Writer, Completion, Busy, Done, ArticlesOf
  <2>2. /\ UNCHANGED <<loc, seg, part, queued, lost>>
        /\ wr'[a] # "finished" /\ \A b \in Articles \ {a} : wr'[b] = wr[b] /\ status'[b] = status[b]
        /\ comp' = comp \/ comp' = [comp EXCEPT ![FileOf[a]].pc = "gather"]
      BY <1>8, <1>a DEF ArticleCompleted, disk, limits
  <2>3. QED
      BY SMTT(30), <1>a, <1>b, <2>1, <2>2 DEF Kept
<1>9. ASSUME NEW f \in Files, CheckFlush(f)
      PROVE  Kept(x)'
    BY <1>9, <1>a, <1>b DEF CheckFlush, vars, disk, cache, thread, files, limits, Kept
<1>10. CASE FlushBegin
    BY <1>10, <1>a, <1>b DEF FlushBegin, vars, disk, cache, thread, files, limits, Kept
<1>11. ASSUME NEW a \in Articles, FlushArticle(a)
      PROVE  Kept(x)'
    BY <1>11, <1>a, <1>b DEF FlushArticle, Free, vars, disk, cache, thread, files, limits, Kept
<1>12. ASSUME NEW a \in Articles, FlushFails(a)
      PROVE  Kept(x)'
    BY <1>12, <1>a, <1>b DEF FlushFails, Free, vars, disk, cache, thread, files, limits, Kept
<1>13. CASE FlushRename
    BY <1>13, <1>a, <1>b DEF FlushRename, Close, vars, disk, cache, thread, files, limits, Kept
<1>14. CASE FlushEnd
    BY <1>14, <1>a, <1>b DEF FlushEnd, Close, StillCached, vars, disk, cache, thread, files, limits,
        Kept
<1>15. CASE FlushRelease
    BY <1>15, <1>a, <1>b DEF FlushRelease, vars, disk, cache, thread, files, limits, Kept
<1>16. CASE CacheEnds
    BY <1>16, <1>a, <1>b DEF CacheEnds, vars, disk, cache, thread, files, limits, Kept
<1>17. ASSUME NEW f \in Files, CompGather(f)
      PROVE  Kept(x)'
    BY <1>17, <1>a, <1>b DEF CompGather, CompGoes, vars, disk, cache, thread, files, limits, Kept
<1>18. ASSUME NEW f \in Files, CompFails(f)
      PROVE  Kept(x)'
    BY <1>18, <1>a, <1>b DEF CompFails, CompGoes, vars, disk, cache, thread, files, limits, Kept
<1>19. ASSUME NEW f \in Files, CompLock(f)
      PROVE  Kept(x)'
    BY <1>19, <1>a, <1>b DEF CompLock, CompGoes, vars, disk, cache, thread, files, limits, Kept
<1>20. ASSUME NEW f \in Files, NEW a \in ArticlesOf(f), CompArticle(f, a)
      PROVE  Kept(x)'
    BY <1>20, <1>a, <1>b DEF CompArticle, CompGoes, Free, vars, disk, cache, thread, files, limits,
        Kept, ArticlesOf
<1>21. ASSUME NEW f \in Files, CompUnlock(f)
      PROVE  Kept(x)'
    BY <1>21, <1>a, <1>b DEF CompUnlock, CompGoes, vars, disk, cache, thread, files, limits, Kept
<1>22a. ASSUME NEW f \in Files, CompClose(f)
      PROVE  Kept(x)'
    BY <1>22a, <1>a, <1>b DEF CompClose, CompGoes, Close, Dropped, vars, disk, cache, thread, files, limits,
        Kept
<1>22. ASSUME NEW f \in Files, CompClean(f)
      PROVE  Kept(x)'
    BY <1>22, <1>a, <1>b DEF CompClean, CompGoes, Dropped, vars, disk, cache, thread, files, limits,
        Kept
<1>23. ASSUME NEW f \in Files, CompDone(f)
      PROVE  Kept(x)'
    BY <1>23, <1>a, <1>b DEF CompDone, vars, disk, cache, thread, files, limits, Kept
<1>24. ASSUME NEW f \in Files, DeleteQueueEntry(f)
      PROVE  Kept(x)'
    BY <1>24, <1>a, <1>b DEF DeleteQueueEntry, vars, disk, cache, thread, files, limits, Kept
<1>25. ASSUME NEW f \in Files, DeleteFileInfo(f)
      PROVE  Kept(x)'
    BY <1>25, <1>a, <1>b DEF DeleteFileInfo, SavedIs, Dropped, CompGoes, Free, FileBusy, vars, disk, cache, thread,
        files, limits, Kept
<1>26. ASSUME NEW f \in Files, DiscardDirectRename(f)
      PROVE  Kept(x)'
    BY <1>26, <1>a, <1>b DEF DiscardDirectRename, SavedIs, Dropped, Free, vars, disk, cache, thread, files, limits,
        Kept, Active, ArticlesOf
<1>27. ASSUME NEW f \in Files, SavePartialState(f)
      PROVE  Kept(x)'
    BY <1>27, <1>a, <1>b DEF SavePartialState, SavedIs, Finished, vars, disk, cache, thread, files, limits,
        Kept, ArticlesOf
<1>28. CASE Stop
    BY <1>28, <1>a, <1>b DEF Stop, vars, disk, cache, thread, files, limits, Kept
<1>29. CASE Restart
  <2> DEFINE g == FileOf[x]
  <2>1. /\ wr'[x] = "idle" /\ queued' = queued /\ g \in Files
        /\ loc[x] = "disk" => loc'[x] = "disk"
      BY <1>29, <1>a DEF Restart
  <2>2. ~flag /\ g \in queued /\ x \in part[g] => loc[x] = "disk"
      BY <1>29, <2>1 DEF Restart, NamesLostContent
  <2>3. x \in part'[g] => ~flag /\ x \in part[g]
      BY <1>29, <2>1 DEF Restart
  <2>4. status'[x] = "finished" => ~flag /\ x \in part[g]
    <3>1. PICK t \in [Files -> SUBSET Articles] :
            /\ t[g] \in Trusted(g)
            /\ status'[x] = IF x \notin t[g] THEN "undefined"
                            ELSE IF x \in part[g] THEN "finished" ELSE "failed"
        BY <1>29, <2>1 DEF Restart
    <3>2. QED
        BY <3>1 DEF Trusted
  <2>5. QED
      BY <2>1, <2>2, <2>3, <2>4 DEF Kept
<1>30. QED
    BY <1>1, <1>2, <1>3, <1>4, <1>5, <1>6, <1>7, <1>8, <1>9, <1>10, <1>11, <1>12, <1>13,
        <1>14, <1>15, <1>16, <1>17, <1>18, <1>19, <1>20, <1>21, <1>22, <1>22a, <1>23, <1>24, <1>25,
        <1>26, <1>27, <1>28, <1>29 DEF Next, WriterStep, CacheStep, CompStep

----------------------------------------------------------------------------
(* The theorems *)

LEMMA CacheInitially == Init => CacheInv
<1> SUFFICES ASSUME Init
             PROVE  CacheInv
    OBVIOUS
<1>1. Size \in Nat /\ Limit \in Nat /\ 0 \in 0 .. Size /\ 0 \in 0 .. Limit /\ FileOf \in [Articles -> Files]
    BY SizesAssumption
<1>2. TypeOK
    BY <1>1 DEF Init, TypeOK
<1>3. \A a \in Articles : Writer(a) /\ Opened(a) /\ Kept(a)
    BY <1>1 DEF Init, Writer, Opened, Kept, Busy, Flushing
<1>4. ASSUME NEW f \in Files
      PROVE  Completion(f) /\ Unfinished(f) /\ Output(f)
    BY SizesAssumption DEF Init, Completion, Unfinished, Saved, Output, Active, ArticlesOf, Done
<1>5. ASSUME NEW f \in Files
      PROVE  Flushed(f)
  <2>1. Segs(f) = {}
      BY DEF Init, Segs, ArticlesOf
  <2>2. Cardinality(Segs(f)) = 0
      BY <2>1, FS_EmptySet
  <2>3. QED
      BY <2>2, SizesAssumption DEF Init, Flushed, Flushing
<1>6. Flusher
    BY <1>5 DEF Init, Flusher
<1>7. Cardinality(Bytes(buf, Articles)) = 0 /\ Cardinality(Bytes(seg, Articles)) = 0
    BY BytesNone DEF Init
<1>8. Memory
    BY <1>7 DEF Init, Memory, AllocatedIsHeld
<1>9. QED
    BY <1>2, <1>3, <1>4, <1>6, <1>8 DEF CacheInv, Content

LEMMA CacheInvStep == CacheInv /\ [Next]_vars => CacheInv'
<1> SUFFICES ASSUME CacheInv, [Next]_vars
             PROVE  CacheInv'
    OBVIOUS
<1>1. TypeOK'
    BY TypeStep
<1>2. \A x \in Articles : Writer(x)'
    BY WritersStep
<1>3. \A g \in Files : Completion(g)' /\ Unfinished(g)' /\ Output(g)'
    BY CompletionStep, UnfinishedStep, OutputStep
<1>4. \A g \in Files : Flushed(g)'
    BY FlushedStep
<1>5. Flusher'
    BY <1>4, FlusherShape DEF Flusher
<1>6. Memory'
    BY MemoryStep
<1>7. \A x \in Articles : Opened(x)' /\ (~lost' => Kept(x)')
    BY OpenedStep, KeptStep
<1>8. Content'
    BY <1>7 DEF Content
<1>9. QED
    BY <1>1, <1>2, <1>3, <1>5, <1>6, <1>8 DEF CacheInv

LEMMA CacheAlways == Spec => []CacheInv
<1>1. Init => CacheInv
    BY CacheInitially
<1>2. CacheInv /\ [Next]_vars => CacheInv'
    BY CacheInvStep
<1>3. QED
    BY <1>1, <1>2, PTL DEF Spec

(***************************************************************************)
(* However writers, the cache thread, completions, deletions and crashes   *)
(* interleave, the count of allocated memory is what is held, it never     *)
(* exceeds the option ArticleCache, and every segment of a file is counted *)
(* in its number of cached articles (ArticleCache::Alloc, Realloc, Free).  *)
(***************************************************************************)
THEOREM CacheKeepsBooks == Spec => []CacheAccounted
<1>1. CacheInv => CacheAccounted
  <2> SUFFICES ASSUME CacheInv
               PROVE  CacheAccounted
      OBVIOUS
  <2>1. \A f \in Files : Cardinality(Segs(f)) <= cached[f]
      BY DEF CacheInv, Flusher, Flushed
  <2>2. CachedArticlesCounted
      BY <2>1 DEF CachedArticlesCounted, Segs, CacheInv, TypeOK
  <2>3. QED
      BY <2>2 DEF CacheAccounted, CacheInv, Memory
<1>2. QED
    BY <1>1, CacheAlways, PTL

(***************************************************************************)
(* The cache thread and a completion never work on a file that was         *)
(* deleted, and the cache thread never flushes a segment that somebody     *)
(* else has freed (FlushCache, FileBusy in DeleteFileInfo, m_flushMutex).  *)
(***************************************************************************)
THEOREM FlushWorksOnFiles == Spec => []FlushedFileExists
<1>1. CacheInv => FlushedFileExists
  <2> SUFFICES ASSUME CacheInv
               PROVE  FlushedFileExists
      OBVIOUS
  <2>1. flusher.file # NoFile => flusher.file \in queued
      BY DEF CacheInv, Flusher, Flushed, TypeOK
  <2>2. \A f \in Files : comp[f].pc # "no" => f \in queued
      BY DEF CacheInv, Completion
  <2>3. flusher.todo # {} => flusher.file \in Files /\ flusher.todo \subseteq Segs(flusher.file)
      BY DEF CacheInv, Flusher, Flushed, Flushing
  <2>4. \A a \in flusher.todo : seg[a] > 0
      BY <2>3 DEF Segs
  <2>5. QED
      BY <2>1, <2>2, <2>4 DEF FlushedFileExists
<1>2. QED
    BY <1>1, CacheAlways, PTL

(***************************************************************************)
(* A program that is started again after a crash trusts a partial state    *)
(* only where the content of the articles it names is on disk: the cache   *)
(* flag stands for everything in memory (LoadAllFileStates).               *)
(***************************************************************************)
THEOREM TrustedAfterCrash == Spec => []TrustedStateOnDisk
<1>1. CacheInv => TrustedStateOnDisk
  <2> SUFFICES ASSUME CacheInv, NEW f \in queued, ~flag, ~BeingMoved(f), ~lost,
                      NEW a \in part[f]
               PROVE  loc[a] = "disk"
      BY DEF TrustedStateOnDisk
  <2>1. f \in Files /\ Unfinished(f)
      BY DEF CacheInv, TypeOK
  <2>2. a \in Articles /\ FileOf[a] = f
      BY <2>1 DEF Unfinished, Saved, ArticlesOf
  <2>3. allocated = 0
      BY SizesAssumption DEF CacheInv, Memory, TypeOK
  <2>4. seg[a] = 0
      BY <2>2, <2>3, HeldBounds, SizesAssumption DEF CacheInv, Memory, TypeOK
  <2>5. Kept(a) /\ Opened(a)
      BY <2>2 DEF CacheInv, Content
  <2>6. loc[a] \in {"open", "disk"}
      BY <2>2, <2>4, <2>5 DEF Kept, BeingMoved
  <2>7. loc[a] # "open"
      BY <2>2, <2>5 DEF Opened, BeingMoved
  <2>8. QED
      BY <2>6, <2>7
<1>2. QED
    BY <1>1, CacheAlways, PTL

(***************************************************************************)
(* Unless content was lost to a failed operation or to a crash, a complete *)
(* file holds every article that was downloaded, whether it went through   *)
(* the cache thread, the completion or straight to disk, and in whichever  *)
(* session (ProcessArticles).                                              *)
(***************************************************************************)
THEOREM FilesComplete == Spec => []CompletedFileWhole
<1>1. CacheInv => CompletedFileWhole
    BY DEF CacheInv, Output, CompletedFileWhole
<1>2. QED
    BY <1>1, CacheAlways, PTL
===============================================================================

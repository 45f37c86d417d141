-------------------------- MODULE QueueCoordinator --------------------------
(***************************************************************************)
(* The coordinator of the download queue and the users that edit it        *)
(* (daemon/queue/QueueCoordinator.cpp, daemon/queue/QueueEditor.cpp).      *)
(*                                                                         *)
(* Each action is a critical section of the queue's mutex, with every call *)
(* made in it.  A finished downloader goes through two of them: the first  *)
(* books the article, the second removes the file once its parts were      *)
(* joined.  It reads the group of its file before the first.               *)
(***************************************************************************)
EXTENDS DownloadInfo

CONSTANTS
    Downloaders,    \* the ArticleDownloader threads
    Priorities,     \* the priorities users assign
    EditKinds,      \* the kinds of edits that users make
    DupeCheck,      \* is option DupeCheck on, so files may be duplicates
    MaxEdits        \* bound: how many edits are made

ASSUME CoordinatorAssumption ==
    /\ IsFiniteSet(Downloaders)
    /\ Priorities \subseteq Int
    /\ DupeCheck \in BOOLEAN
    /\ MaxEdits \in Nat

VARIABLES
    q,      \* the download queue
    added,  \* the groups that were added or split off so far
    dl,     \* m_activeDownloads
    edits   \* the number of edits so far

vars == <<q, added, dl, edits>>

Idle == [pc |-> "idle", file |-> NoFile, part |-> 0, nzb |-> NoNzb,
         status |-> "none", stopped |-> FALSE]

Init ==
    /\ q = [queue |-> <<>>, nzb |-> [n \in Nzbs |-> ParsedNzb(n)],
            file |-> [f \in Files |-> NewFile(f)], history |-> {}]
    /\ added = {}
    /\ dl = [d \in Downloaders |-> Idle]
    /\ edits = 0

-----------------------------------------------------------------------------
(* Which downloaders work on a file, and what stopping them does. *)

ActiveOn(f) == {d \in Downloaders : dl[d].file = f}

StopDeleted(Q, D) ==
    [d \in Downloaders |->
        IF D[d].file # NoFile /\ Q.file[D[d].file].deleted
        THEN [D[d] EXCEPT !.stopped = TRUE] ELSE D[d]]

(***************************************************************************)
(* DeleteQueueEntry: a file that is being downloaded is removed when its   *)
(* last downloader ends.                                                   *)
(***************************************************************************)
DeleteQueueEntries(Q, n, files) ==
    LET flagged == [Q EXCEPT !.file = [f \in Files |->
                      IF f \in files THEN [@[f] EXCEPT !.deleted = TRUE] ELSE @[f]]]
    IN  DeleteFileInfo(flagged, n, {f \in files : ActiveOn(f) = {}}, FALSE)

(***************************************************************************)
(* EditGroup for the four ways to delete a group.  The event eaNzbDeleted  *)
(* matters only for a group that had no files left.                        *)
(***************************************************************************)
DeleteGroup(Q, n, kind) ==
    LET flagged == [Q EXCEPT !.nzb[n] = [Q.nzb[n] EXCEPT
                      !.deleting = TRUE,
                      !.parking = /\ kind = "park" /\ KeepHistory
                                  /\ Q.nzb[n].currentSuccess > 0,
                      !.avoidHistory = (kind = "final"),
                      !.deleteStatus = IF kind = "dupe" THEN "dupe" ELSE @]]
        files   == {f \in FilesOf(Q, n) : ~Q.file[f].deleted}
        emptied == DeleteQueueEntries(flagged, n, files)
    IN  IF /\ kind # "park" /\ InQueue(emptied, n)
           /\ emptied.nzb[n].deleting /\ ~emptied.nzb[n].postInfo
           /\ FilesOf(emptied, n) = {}
        THEN NzbDeleted(emptied, n) ELSE emptied

PauseGroup(Q, n, paused) == SetPaused(Q, n, FilesOf(Q, n), paused)

(***************************************************************************)
(* PausePars: the par-files without "vol" stay as they are if there are    *)
(* any, otherwise a smallest volume does.                                  *)
(***************************************************************************)
ExtraPars(Q, n) ==
    LET pars == FilesOf(Q, n) \cap ParFiles
        vols == pars \cap VolFiles
    IN  IF pars # vols THEN {vols}
        ELSE {vols \ {v} : v \in {x \in vols :
                            \A y \in vols : FileSize(x) <= FileSize(y)}}
             \cup (IF vols = {} THEN {{}} ELSE {})

(***************************************************************************)
(* CheckHealth pauses, deletes or parks a group with too many failures.    *)
(* One of which completed files hold over a tenth of the articles is not   *)
(* parked if the par-checker may take files from duplicates.               *)
(***************************************************************************)
ServesDuplicates(r) ==
    ParScanDupe /\ HealthCheck = "park" /\ (r.success * 100) \div r.size > 10

CheckHealth(Q, n) ==
    IF \/ HealthCheck = "none" \/ Q.nzb[n].healthPaused
       \/ Q.nzb[n].deleteStatus = "health"
       \/ CalcHealth(Q.nzb[n]) >= CalcCriticalHealth(Q.nzb[n])
       \/ ServesDuplicates(Q.nzb[n])
    THEN Q
    ELSE IF HealthCheck = "pause"
    THEN PauseGroup([Q EXCEPT !.nzb[n].healthPaused = TRUE], n, TRUE)
    ELSE DeleteGroup([Q EXCEPT !.nzb[n].deleteStatus = "health"], n, HealthCheck)

\* mutant: a downloader whose article is tried again leaves the file alone
DeleteDownloaderOfCompleted(Q, f, fileCompleted) ==
    LET left == [Q EXCEPT !.file[f].activeDownloads = @ - 1,
                          !.nzb[Q.file[f].nzb].activeDownloads = @ - 1]
    IN  IF fileCompleted
        THEN DeleteFileInfo(left, Q.file[f].nzb, {f}, fileCompleted) ELSE left

(***************************************************************************)
(* DeleteDownloader, with the group the file belongs to now.               *)
(***************************************************************************)
DeleteDownloader(Q, f, fileCompleted) ==
    LET last == Q.file[f].activeDownloads <= 1
        left == [Q EXCEPT !.file[f].activeDownloads = @ - 1,
                          !.nzb[Q.file[f].nzb].activeDownloads = @ - 1]
    IN  IF fileCompleted \/ (Q.file[f].deleted /\ last)
        THEN DeleteFileInfo(left, Q.file[f].nzb, {f}, fileCompleted) ELSE left

-----------------------------------------------------------------------------
(* GetNextArticle. *)

HasArticles(f) ==
    \E a \in DOMAIN q.file[f].article : q.file[f].article[a] = "undefined"

HasExtraPriority(n) == q.nzb[n].extraPriority > 0

\* mutant: a group counts as paused one file too early
NzbPausedEarly(n) == Cardinality(FilesOf(q, n)) <= q.nzb[n].pausedFileCount + 1

(***************************************************************************)
(* The subtraction is unsigned: the group counts as paused only if the two *)
(* numbers are equal.                                                      *)
(***************************************************************************)
NzbPaused(n) == Cardinality(FilesOf(q, n)) = q.nzb[n].pausedFileCount

Outranks(f, g) ==
    LET Prio(h) == q.nzb[q.file[h].nzb].priority
    IN  IF q.file[f].extraPriority = q.file[g].extraPriority
        THEN Prio(f) > Prio(g) ELSE q.file[f].extraPriority

\* mutant: lower priorities win
NzbOutranksLower(n, m) ==
    IF HasExtraPriority(n) = HasExtraPriority(m)
    THEN q.nzb[n].priority < q.nzb[m].priority ELSE HasExtraPriority(n)

NzbOutranks(n, m) ==
    IF HasExtraPriority(n) = HasExtraPriority(m)
    THEN q.nzb[n].priority > q.nzb[m].priority ELSE HasExtraPriority(n)

(***************************************************************************)
(* The best file after the scan of one more group, given the best so far.  *)
(* The order of the files in a group is left open.                         *)
(***************************************************************************)
ScanNzb(best, n, checked) ==
    LET files  == {f \in FilesOf(q, n) \ checked :
                      /\ ~q.file[f].paused /\ ~q.file[f].deleted
                      /\ best = NoFile \/ Outranks(f, best)}
        top    == {f \in files : \A g \in files : ~Outranks(g, f)}
    IN  IF /\ best = NoFile \/ NzbOutranks(n, q.file[best].nzb)
           /\ ~NzbPaused(n) /\ files # {}
        THEN top ELSE {best}

BestFiles(checked) ==
    LET scan[i \in 0 .. Len(q.queue)] ==
          IF i = 0 THEN {NoFile}
          ELSE UNION {ScanNzb(b, q.queue[i], checked) : b \in scan[i - 1]}
    IN  scan[Len(q.queue)]

(***************************************************************************)
(* The files GetNextArticle may return: a best file without articles left  *)
(* is noted and the search starts again.                                   *)
(***************************************************************************)
NextFiles ==
    LET next[checked \in SUBSET Files] ==
          UNION {IF f = NoFile \/ HasArticles(f) THEN {f}
                 ELSE next[checked \cup {f}] : f \in BestFiles(checked)}
    IN  next[{}]

-----------------------------------------------------------------------------
AddNzbFileToQueue(n) ==
    /\ n \notin added /\ \E f \in Files : HomeOf[f] = n
    /\ \E queue \in {<<n>> \o q.queue, q.queue \o <<n>>},
          pars \in ExtraPars(q, n) :
             q' = SetPaused([q EXCEPT !.queue = queue], n, pars, TRUE)
    /\ added' = added \cup {n}
    /\ UNCHANGED <<dl, edits>>

\* mutant: the article is not marked as running
TakeArticleUnmarked(f, a) ==
    [q EXCEPT !.file[f].activeDownloads = @ + 1,
              !.nzb[q.file[f].nzb].activeDownloads = @ + 1]

TakeArticle(f, a) ==
    [q EXCEPT !.file[f] = [q.file[f] EXCEPT !.article[a] = "running",
                                            !.activeDownloads = @ + 1],
              !.nzb[q.file[f].nzb].activeDownloads = @ + 1]

(***************************************************************************)
(* Run and StartArticleDownload: the next article gets a downloader.  The  *)
(* articles of a file are taken in their order.                            *)
(***************************************************************************)
StartArticleDownload(d) ==
    /\ dl[d].pc = "idle"
    /\ \E f \in NextFiles \ {NoFile} :
          LET a == Min({p \in DOMAIN q.file[f].article :
                           q.file[f].article[p] = "undefined"})
          IN  /\ q' = TakeArticle(f, a)
              /\ dl' = [dl EXCEPT ![d] = [Idle EXCEPT !.pc = "running",
                                             !.file = f, !.part = a]]
    /\ UNCHANGED <<added, edits>>

(***************************************************************************)
(* The downloader's thread ends with a result and enters ArticleCompleted, *)
(* which reads the file's group before it locks the queue.                 *)
(***************************************************************************)
DownloadEnds(d) ==
    /\ dl[d].pc = "running"
    /\ \E status \in (IF dl[d].stopped THEN {"retry"}
                      ELSE {"finished", "failed", "retry"}) :
          dl' = [dl EXCEPT ![d].pc = "notifying", ![d].status = status,
                           ![d].nzb = q.file[dl[d].file].nzb]
    /\ UNCHANGED <<q, added, edits>>

(***************************************************************************)
(* What ArticleCompleted books for the article: the file's counters, and   *)
(* those of the group n that was read before.                              *)
(***************************************************************************)
BookArticle(Q, f, a, n, status) ==
    LET ok   == If(status = "finished")
        bad  == If(status = "failed")
        done == ok + bad
    IN  [Q EXCEPT
            !.file[f] = [Q.file[f] EXCEPT
                !.article[a] = IF status = "retry" THEN "undefined" ELSE status,
                !.success = @ + ok, !.failed = @ + bad,
                !.remaining = @ - done, !.completedArticles = @ + done],
            !.nzb[n] = [Q.nzb[n] EXCEPT
                !.currentSuccess = @ + ok, !.currentFailed = @ + bad,
                !.parCurrentFailed = @ + If(f \in ParFiles) * bad,
                !.remaining = @ - done,
                !.pausedSize = @ - (IF Q.file[f].paused THEN done ELSE 0)]]

\* The file's name is known now, and that it is a duplicate if it is one.
ConfirmFile(Q, f, named, isDupe) ==
    [Q EXCEPT !.file[f] = [Q.file[f] EXCEPT !.confirmed = @ \/ named,
                                            !.dupeDeleted = @ \/ isDupe,
                                            !.deleted = @ \/ isDupe]]

\* mutant: other downloaders of the file are ignored
LastOfParkedAny(Q, f) == ~Q.file[f].dupeDeleted

LastOfParked(Q, f) == Q.file[f].activeDownloads = 1 /\ ~Q.file[f].dupeDeleted

(***************************************************************************)
(* The first critical section of ArticleCompleted.  If the group read      *)
(* before was destroyed by a merge in between, the flag read from it can   *)
(* have any value.                                                         *)
(***************************************************************************)
ArticleCompleted(d) ==
    LET f      == dl[d].file
        n      == dl[d].nzb
        status == dl[d].status
        booked == BookArticle(q, f, dl[d].part, n, status)
        allIn  == /\ status # "retry"
                  /\ booked.file[f].completedArticles = NumArticles[f]
        named  == status = "finished" /\ ~q.file[f].confirmed
    IN  /\ dl[d].pc = "notifying"
        /\ \E freed \in (IF InQueue(q, n) THEN {FALSE} ELSE BOOLEAN),
              isDupe \in (IF DupeCheck /\ named THEN BOOLEAN ELSE {FALSE}) :
           \E healthy \in {CheckHealth(ConfirmFile(booked, f, named, isDupe),
                                       booked.file[f].nzb)} :
            LET parking == IF InQueue(q, n) THEN healthy.nzb[n].parking ELSE freed
                isComplete == \/ allIn /\ ~isDupe
                              \/ parking /\ LastOfParked(healthy, f)
                complete == isComplete /\ (~healthy.file[f].deleted \/ parking)
            IN  IF complete
                THEN /\ q' = healthy
                     /\ dl' = [StopDeleted(healthy, dl) EXCEPT
                                 ![d].pc = "completing", ![d].nzb = NoNzb]
                ELSE /\ q' = DeleteDownloader(healthy, f, FALSE)
                     /\ dl' = [StopDeleted(healthy, dl) EXCEPT ![d] = Idle]
        /\ UNCHANGED <<added, edits>>

(***************************************************************************)
(* CompleteFileParts has joined the file; the second critical section.     *)
(***************************************************************************)
FileCompleted(d) ==
    /\ dl[d].pc = "completing"
    /\ q' = DeleteDownloader(q, dl[d].file, TRUE)
    /\ dl' = [dl EXCEPT ![d] = Idle]
    /\ UNCHANGED <<added, edits>>

(***************************************************************************)
(* A post-processing job ends or is cancelled.                             *)
(***************************************************************************)
JobCompleted(n) ==
    /\ InQueue(q, n) /\ q.nzb[n].postInfo
    /\ LET left == [q EXCEPT !.nzb[n].postInfo = FALSE]
       IN  q' = IF IsDownloadCompleted(left, n, TRUE)
                THEN NzbCompleted(left, n) ELSE left
    /\ UNCHANGED <<added, dl, edits>>

-----------------------------------------------------------------------------
(* The edits of users and of the renamer. *)

EditMade(kind) == kind \in EditKinds /\ edits < MaxEdits /\ edits' = edits + 1

Edit(kind) == EditMade(kind) /\ UNCHANGED added

Queued(f) == InQueue(q, q.file[f].nzb)

PauseUnpauseEntry(f) ==
    /\ Edit("pause")
    /\ Queued(f)
    /\ q' = SetPaused(q, q.file[f].nzb, {f}, ~q.file[f].paused)
    /\ UNCHANGED dl

PauseUnpauseGroup(n) ==
    /\ Edit("pauseGroup")
    /\ InQueue(q, n)
    /\ \/ \E paused \in BOOLEAN : q' = PauseGroup(q, n, paused)
       \/ q' = SetPaused(q, n, FilesOf(q, n) \cap ParFiles, TRUE)
       \/ \E pars \in ExtraPars(q, n) : q' = SetPaused(q, n, pars, TRUE)
    /\ UNCHANGED dl

(***************************************************************************)
(* DirectRenamer::UnpausePars and RepairController::RequestMorePars.       *)
(***************************************************************************)
UnpausePars(f) ==
    /\ Edit("unpausePars")
    /\ Queued(f) /\ f \in ParFiles
    /\ q' = SetExtraPriority(SetPaused(q, q.file[f].nzb, {f}, FALSE), f)
    /\ UNCHANGED dl

DeleteEntry(f) ==
    /\ Edit("delete")
    /\ Queued(f) /\ ~q.file[f].deleted
    /\ q' = DeleteQueueEntries(q, q.file[f].nzb, {f})
    /\ dl' = StopDeleted(q', dl)

EditGroupDelete(n) ==
    /\ InQueue(q, n)
    /\ \E kind \in {"delete", "park", "dupe", "final"} :
          /\ Edit(kind)
          /\ q' = DeleteGroup(q, n, kind)
    /\ dl' = StopDeleted(q', dl)

SetNzbPriority(n) ==
    /\ Edit("priority")
    /\ InQueue(q, n)
    /\ \E p \in Priorities : q' = [q EXCEPT !.nzb[n].priority = p]
    /\ UNCHANGED dl

MoveGroup(n) ==
    /\ Edit("move")
    /\ InQueue(q, n)
    /\ LET others == Without(q.queue, n)
       IN  \E i \in 1 .. Len(others) + 1 :
              q' = [q EXCEPT !.queue = InsertAt(others, i, n)]
    /\ UNCHANGED dl

(***************************************************************************)
(* MergeQueueEntries: the files and the counters of src go to dest, and    *)
(* src is destroyed.  The counter of extra priorities is not among them.   *)
(* The edit "quietMerge" is a merge that meets no downloader of src in     *)
(* ArticleCompleted before the lock, and goes into no group being parked.  *)
(***************************************************************************)
MergeQueueEntries(dest, src) ==
    LET s == q.nzb[src]
    IN  /\ \/ Edit("merge")
           \/ /\ Edit("quietMerge") /\ ~q.nzb[dest].parking
              /\ \A d \in Downloaders : dl[d].nzb # src
        /\ dest # src /\ InQueue(q, dest) /\ InQueue(q, src)
        /\ ~q.nzb[dest].postInfo /\ ~s.postInfo
        /\ q' = [q EXCEPT
              !.file = [f \in Files |-> IF @[f].nzb = src
                                        THEN [@[f] EXCEPT !.nzb = dest] ELSE @[f]],
              !.nzb[dest] = [q.nzb[dest] EXCEPT
                  !.fileCount = @ + s.fileCount,
                  !.activeDownloads = @ + s.activeDownloads,
                  !.size = @ + s.size, !.parSize = @ + s.parSize,
                  !.remaining = @ + s.remaining,
                  !.pausedFileCount = @ + s.pausedFileCount,
                  !.pausedSize = @ + s.pausedSize,
                  !.remainingParCount = @ + s.remainingParCount,
                  !.success = @ + s.success, !.failedSize = @ + s.failedSize,
                  !.failedArticles = @ + s.failedArticles,
                  !.parFailedSize = @ + s.parFailedSize,
                  !.currentSuccess = @ + s.currentSuccess,
                  !.currentFailed = @ + s.currentFailed,
                  !.parCurrentFailed = @ + s.parCurrentFailed,
                  !.completedFiles = @ \cup s.completedFiles],
              !.queue = Without(@, src)]
        /\ UNCHANGED dl

(***************************************************************************)
(* SplitQueueEntries: what leaves the counters of src is added to those of *)
(* the new group n.  The new count of paused files is taken from src.      *)
(***************************************************************************)
SplitFiles(Q, files, src, n) ==
    LET pars      == files \cap ParFiles
        paused    == Cardinality(Paused(Q, files))
        missed    == TotalMissed(files)
        parMissed == TotalMissed(pars)
        Shift(nzb, sign) == [nzb EXCEPT
            !.fileCount = @ + sign * Cardinality(files),
            !.size = @ + sign * TotalSize(files),
            !.remaining = @ + sign * Total(Q, files, "remaining"),
            !.currentSuccess = @ + sign * Total(Q, files, "success"),
            !.currentFailed = @ + sign * (Total(Q, files, "failed") + missed),
            !.failedArticles = @ + sign * missed,
            !.parSize = @ + sign * TotalSize(pars),
            !.parCurrentFailed = @ + sign * (Total(Q, pars, "failed") + parMissed),
            !.remainingParCount = @ + sign * Cardinality(pars),
            !.pausedSize = @ + sign * Total(Q, Paused(Q, files), "remaining")]
        left == Q.nzb[src].pausedFileCount - paused
    IN  [Q EXCEPT !.file = [f \in Files |->
                      IF f \in files THEN [@[f] EXCEPT !.nzb = n] ELSE @[f]],
                  !.nzb[src] = [Shift(Q.nzb[src], -1) EXCEPT !.pausedFileCount = left],
                  !.nzb[n] = [Shift(Q.nzb[n], 1) EXCEPT
                      !.pausedFileCount = IF paused > 0 THEN left + 1 ELSE @]]

\* mutant: the source group is removed although it still has files
SourceRemoved(moved, src) == TRUE

SourceIsEmpty(moved, src) == FilesOf(moved, src) = {}

SplitQueueEntries(src) ==
    /\ EditMade("split")
    /\ InQueue(q, src) /\ ~q.nzb[src].postInfo
    /\ \E n \in Nzbs \ added, files \in (SUBSET FilesOf(q, src)) \ {{}} :
          /\ \A f \in Files : HomeOf[f] # n
          /\ \A f \in files : /\ q.file[f].activeDownloads = 0
                              /\ q.file[f].completedArticles = 0
          /\ LET moved == SplitFiles([q EXCEPT !.nzb[n].priority = q.nzb[src].priority],
                                     files, src, n)
                 queue == IF SourceIsEmpty(moved, src)
                          THEN Without(q.queue, src) ELSE q.queue
             IN  q' = [moved EXCEPT !.queue = queue \o <<n>>]
          /\ added' = added \cup {n}
    /\ UNCHANGED dl

(***************************************************************************)
(* ResetHangingDownloads.                                                  *)
(***************************************************************************)
ResetHangingDownload(d) ==
    /\ Edit("hang")
    /\ dl[d].pc = "running" /\ ~dl[d].stopped
    /\ dl' = [dl EXCEPT ![d].stopped = TRUE]
    /\ UNCHANGED q

-----------------------------------------------------------------------------
Next ==
    \/ \E d \in Downloaders :
          StartArticleDownload(d) \/ DownloadEnds(d) \/ ArticleCompleted(d)
          \/ FileCompleted(d) \/ ResetHangingDownload(d)
    \/ \E n \in Nzbs :
          AddNzbFileToQueue(n) \/ JobCompleted(n) \/ PauseUnpauseGroup(n)
          \/ EditGroupDelete(n) \/ SetNzbPriority(n) \/ MoveGroup(n)
          \/ SplitQueueEntries(n)
    \/ \E f \in Files : PauseUnpauseEntry(f) \/ UnpausePars(f) \/ DeleteEntry(f)
    \/ \E dest, src \in Nzbs : MergeQueueEntries(dest, src)

Spec == Init /\ [][Next]_vars

-----------------------------------------------------------------------------
(***************************************************************************)
(* The type of the queue and of the downloaders.  No counter of a file is  *)
(* negative.                                                               *)
(***************************************************************************)
TypeOK ==
    /\ q \in DownloadQueue
    /\ \A f \in Files :
          /\ Len(q.file[f].article) = NumArticles[f]
          /\ {q.file[f].activeDownloads, q.file[f].completedArticles,
              q.file[f].remaining} \subseteq 0 .. NumArticles[f]
    /\ added \subseteq Nzbs
    /\ dl \in [Downloaders ->
                [pc : {"idle", "running", "notifying", "completing"},
                 file : Files \cup {NoFile}, part : Nat,
                 nzb : Nzbs \cup {NoNzb}, stopped : BOOLEAN,
                 status : {"none", "finished", "failed", "retry"}]]
    /\ edits \in 0 .. MaxEdits

(***************************************************************************)
(* No downloader works on a destroyed object: its file exists and belongs  *)
(* to a group in the queue, which counts the downloader as active.         *)
(***************************************************************************)
DownloaderFileExists ==
    /\ \A d \in Downloaders : dl[d].pc # "idle" => Queued(dl[d].file)
    /\ \A f \in Files :
          Queued(f) => q.file[f].activeDownloads = Cardinality(ActiveOn(f))

(***************************************************************************)
(* CompleteFileParts runs outside the lock: while it joins a file, no      *)
(* other downloader works on the file and none will be started for it.     *)
(***************************************************************************)
CompletingAlone ==
    \A d \in Downloaders :
        dl[d].pc = "completing" =>
            /\ ActiveOn(dl[d].file) = {d}
            /\ q.file[dl[d].file].deleted \/ ~HasArticles(dl[d].file)

(***************************************************************************)
(* An article is being downloaded by exactly one downloader.               *)
(***************************************************************************)
OneDownloaderPerArticle ==
    \A f \in Files : Queued(f) =>
        \A a \in 1 .. NumArticles[f] :
            (q.file[f].article[a] = "running") =
                (Cardinality({d \in ActiveOn(f) : dl[d].part = a
                                /\ dl[d].pc \in {"running", "notifying"}}) = 1)

\* Articles, files and groups are of their types and articles have one downloader.
ArticlesConsistent == TypeOK /\ OneDownloaderPerArticle

(***************************************************************************)
(* The counters of a group that is not being deleted are those that        *)
(* UpdateCurrentStats would recount from its files, so a restart changes   *)
(* none of them: the remaining and the paused size are those of the        *)
(* remaining and of the paused files.                                      *)
(***************************************************************************)
StatsMatchRecount ==
    \A n \in Nzbs :
        InQueue(q, n) /\ ~q.nzb[n].deleting /\ q.nzb[n].deleteStatus = "none"
        => /\ q.nzb[n] = UpdateCurrentStats(q, n)
           /\ q.nzb[n].failedArticles = q.nzb[n].failedSize

(***************************************************************************)
(* The remaining size that listgroups reports for a group is the one of    *)
(* its remaining files.                                                    *)
(***************************************************************************)
RemainingSizeOfFiles ==
    \A n \in Nzbs :
        InQueue(q, n) =>
            q.nzb[n].remaining =
                Total(q, FilesOf(q, n), "remaining")

(***************************************************************************)
(* A group that has lost its last file does not stay in the queue: it is   *)
(* being post-processed, as no event will remove it later.                 *)
(***************************************************************************)
NoEmptyGroup ==
    \A n \in Nzbs : InQueue(q, n) /\ ~q.nzb[n].postInfo => FilesOf(q, n) # {}

(***************************************************************************)
(* A deletion does not get stuck: every file that a group being deleted    *)
(* still has is marked, and has a downloader, whose end removes it, since  *)
(* nothing else would.                                                     *)
(***************************************************************************)
DeletionAttended ==
    \A n \in Nzbs : InQueue(q, n) /\ q.nzb[n].deleting =>
        \A f \in FilesOf(q, n) : q.file[f].deleted /\ ActiveOn(f) # {}

(***************************************************************************)
(* If a file that is neither paused nor deleted has an article left, then  *)
(* GetNextArticle finds one.                                               *)
(***************************************************************************)
Downloadable(f) ==
    Queued(f) /\ ~q.file[f].paused /\ ~q.file[f].deleted /\ HasArticles(f)

NoArticleOverlooked ==
    (\E f \in Files : Downloadable(f)) => NoFile \notin NextFiles

(***************************************************************************)
(* GetNextArticle takes a file of the highest priority; a file with extra  *)
(* priority precedes all others.                                           *)
(***************************************************************************)
HighestPriorityFirst ==
    \A f \in NextFiles \ {NoFile} :
        \A g \in Files : Downloadable(g) => ~Outranks(g, f)

(***************************************************************************)
(* Parking loses no file: a file that leaves a group that is being parked  *)
(* is kept in the group's list, unless it was a duplicate.                 *)
(***************************************************************************)
ParkedFilesKept ==
    [][\A f \in Files :
          LET n == q.file[f].nzb
          IN  /\ n # NoNzb /\ q.nzb[n].parking
              /\ q'.file[f].nzb = NoNzb /\ ~q.file[f].dupeDeleted
              => f \in q'.nzb[n].completedFiles]_vars

=============================================================================

---------------------------- MODULE DownloadInfo ----------------------------
(***************************************************************************)
(* The download queue: groups (NzbInfo), their files (FileInfo) and        *)
(* articles, with the counters the program keeps incrementally             *)
(* (daemon/queue/DownloadInfo.cpp), the removal of files                   *)
(* (QueueCoordinator::DeleteFileInfo) and the reaction of its observer,    *)
(* the post-processor (PrePostProcessor::DownloadQueueUpdate), which runs  *)
(* inside the same critical section.                                       *)
(*                                                                         *)
(* The queue is one record Q; every operator takes the record before an    *)
(* operation and returns the one after it, so that an action can compose   *)
(* the whole chain of calls a handler makes under the queue's mutex.       *)
(*                                                                         *)
(* Every article has size 1: sizes count articles, and the counters of     *)
(* articles that are always updated together with a size are that size.    *)
(***************************************************************************)
EXTENDS Integers, FiniteSets, Sequences, SequencesExt, FiniteSetsExt, Functions, Selection

CONSTANTS
    Nzbs,           \* identities of groups
    Files,          \* identities of files
    HomeOf,         \* the group whose nzb-file lists the file
    NumArticles,    \* articles of the file
    Missed,         \* articles of the file that the nzb-file lacks
    ParFiles,       \* the files with FileInfo::m_parFile
    VolFiles,       \* the par-files with ".vol" in their name
    HealthCheck,    \* option HealthCheck
    ParScanDupe,    \* is option ParScan "dupe"
    KeepHistory,    \* is option KeepHistory > 0
    NoNzb,          \* no group: the file object is destroyed
    NoFile          \* no file

ASSUME QueueAssumption ==
    /\ IsFiniteSet(Nzbs) /\ IsFiniteSet(Files)
    /\ HomeOf \in [Files -> Nzbs]
    /\ NumArticles \in [Files -> Nat \ {0}]
    /\ Missed \in [Files -> Nat]
    /\ VolFiles \subseteq ParFiles /\ ParFiles \subseteq Files
    /\ HealthCheck \in {"none", "pause", "delete", "park"}
    /\ ParScanDupe \in BOOLEAN /\ KeepHistory \in BOOLEAN
    /\ NoNzb \notin Nzbs /\ NoFile \notin Files

-----------------------------------------------------------------------------
(* Files, groups and the queue as NzbFile and the constructors leave them. *)

FileSize(f) == NumArticles[f] + Missed[f]

If(condition) == IF condition THEN 1 ELSE 0

NewFile(f) ==
    [nzb |-> HomeOf[f], paused |-> FALSE, deleted |-> FALSE,
     dupeDeleted |-> FALSE, extraPriority |-> FALSE, confirmed |-> FALSE,
     activeDownloads |-> 0, completedArticles |-> 0, success |-> 0,
     failed |-> 0, remaining |-> NumArticles[f],
     article |-> [a \in 1 .. NumArticles[f] |-> "undefined"]]

ArticleStatuses == {"undefined", "running", "finished", "failed"}

FileInfo ==
    [nzb : Nzbs \cup {NoNzb}, paused : BOOLEAN, deleted : BOOLEAN,
     dupeDeleted : BOOLEAN, extraPriority : BOOLEAN, confirmed : BOOLEAN,
     activeDownloads : Int, completedArticles : Int, success : Int,
     failed : Int, remaining : Int, article : Seq(ArticleStatuses)]

NzbInfo ==
    [fileCount : Int, size : Int, parSize : Int, remaining : Int,
     pausedSize : Int, pausedFileCount : Int, remainingParCount : Int,
     activeDownloads : Int, extraPriority : Int, priority : Int,
     success : Int, failedSize : Int, failedArticles : Int,
     parFailedSize : Int, currentSuccess : Int, currentFailed : Int,
     parCurrentFailed : Int, completedFiles : SUBSET Files, deleting : BOOLEAN,
     parking : BOOLEAN, avoidHistory : BOOLEAN, healthPaused : BOOLEAN,
     deleteStatus : {"none", "manual", "dupe", "health"}, postInfo : BOOLEAN]

DownloadQueue ==
    [queue : Seq(Nzbs), nzb : [Nzbs -> NzbInfo], file : [Files -> FileInfo],
     history : SUBSET Nzbs]

EmptyNzb ==
    [fileCount |-> 0, size |-> 0, parSize |-> 0, remaining |-> 0,
     pausedSize |-> 0, pausedFileCount |-> 0, remainingParCount |-> 0,
     activeDownloads |-> 0, extraPriority |-> 0, priority |-> 0,
     success |-> 0, failedSize |-> 0, failedArticles |-> 0,
     parFailedSize |-> 0, currentSuccess |-> 0, currentFailed |-> 0,
     parCurrentFailed |-> 0, completedFiles |-> {}, deleting |-> FALSE,
     parking |-> FALSE, avoidHistory |-> FALSE, healthPaused |-> FALSE,
     deleteStatus |-> "none", postInfo |-> FALSE]

\* Sums over files: of a counter, of the sizes, of the missed articles.
Total(Q, files, counter) ==
    SumFunctionOnSet([f \in Files |-> Q.file[f][counter]], files)

TotalSize(files) == SumFunctionOnSet([f \in Files |-> FileSize(f)], files)

TotalMissed(files) == SumFunctionOnSet(Missed, files)

(***************************************************************************)
(* A group as NzbFile::ProcessFiles counts it.                             *)
(***************************************************************************)
ParsedNzb(n) ==
    LET home   == {f \in Files : HomeOf[f] = n}
        pars   == home \cap ParFiles
        missed == TotalMissed(home)
    IN  [EmptyNzb EXCEPT
            !.fileCount = Cardinality(home), !.size = TotalSize(home),
            !.parSize = TotalSize(pars),
            !.remaining = TotalSize(home) - missed,
            !.remainingParCount = Cardinality(pars),
            !.failedSize = missed, !.failedArticles = missed,
            !.parFailedSize = TotalMissed(pars), !.currentFailed = missed,
            !.parCurrentFailed = TotalMissed(pars)]

FilesOf(Q, n) == {f \in Files : Q.file[f].nzb = n}

InQueue(Q, n) == Contains(Q.queue, n)

\* NzbList::Remove.
Without(queue, n) == Selected(queue, Nzbs \ {n})

Paused(Q, files) == {f \in files : Q.file[f].paused}

ExtraPriority(Q, files) == {f \in files : Q.file[f].extraPriority}

-----------------------------------------------------------------------------
(* What the loops over files do is written for all the files at once.      *)

\* mutant: the group's counters are not adjusted
SetPausedAlone(Q, n, files, paused) ==
    [Q EXCEPT !.file = [f \in Files |-> IF f \in files THEN [@[f] EXCEPT !.paused = paused]
                                                        ELSE @[f]]]

SetPaused(Q, n, files, paused) ==
    LET changed == {f \in files : Q.file[f].paused # paused}
        sign    == IF paused THEN 1 ELSE -1
    IN  [Q EXCEPT
            !.file = [f \in Files |-> IF f \in changed
                                      THEN [@[f] EXCEPT !.paused = paused] ELSE @[f]],
            !.nzb[n] = [Q.nzb[n] EXCEPT
                !.pausedFileCount = @ + sign * Cardinality(changed),
                !.pausedSize = @ + sign * Total(Q, changed, "remaining")]]

SetExtraPriority(Q, f) ==
    IF Q.file[f].extraPriority THEN Q
    ELSE [Q EXCEPT !.file[f].extraPriority = TRUE,
                   !.nzb[Q.file[f].nzb].extraPriority = @ + 1]

UpdateCompletedStats(Q, n, files) ==
    LET pars   == files \cap ParFiles
        failed == Total(Q, files, "failed")
    IN  [Q EXCEPT !.nzb[n] = [Q.nzb[n] EXCEPT
            !.success = @ + Total(Q, files, "success"),
            !.failedSize = @ + failed,
            !.failedArticles = @ + failed,
            !.extraPriority = @ - Cardinality(ExtraPriority(Q, files)),
            !.parFailedSize = @ + Total(Q, pars, "failed"),
            !.remainingParCount = @ - Cardinality(pars),
            !.pausedFileCount = @ - Cardinality(Paused(Q, files))]]

UpdateDeletedStats(Q, n, files) ==
    LET pars      == files \cap ParFiles
        missed    == TotalMissed(files)
        parMissed == TotalMissed(pars)
    IN  [Q EXCEPT !.nzb[n] = [Q.nzb[n] EXCEPT
            !.fileCount = @ - Cardinality(files),
            !.size = @ - TotalSize(files),
            !.parSize = @ - TotalSize(pars),
            !.currentSuccess = @ - Total(Q, files, "success"),
            !.failedSize = @ - missed,
            !.failedArticles = @ - missed,
            !.parFailedSize = @ - parMissed,
            !.currentFailed = @ - (Total(Q, files, "failed") + missed),
            !.parCurrentFailed = @ - (Total(Q, pars, "failed") + parMissed),
            !.remaining = @ - Total(Q, files, "remaining"),
            !.extraPriority = @ - Cardinality(ExtraPriority(Q, files)),
            !.remainingParCount = @ - Cardinality(pars),
            !.pausedFileCount = @ - Cardinality(Paused(Q, files)),
            !.pausedSize = @ - Total(Q, Paused(Q, files), "remaining")]]

(***************************************************************************)
(* UpdateCurrentStats, which recounts the counters of a group when the     *)
(* queue is loaded from disk.                                              *)
(***************************************************************************)
UpdateCurrentStats(Q, n) ==
    LET files == FilesOf(Q, n)
        pars  == files \cap ParFiles
        r     == Q.nzb[n]
    IN  [r EXCEPT
            !.pausedFileCount = Cardinality(Paused(Q, files)),
            !.remainingParCount = Cardinality(pars),
            !.remaining = Total(Q, files, "remaining"),
            !.pausedSize = Total(Q, Paused(Q, files), "remaining"),
            !.currentSuccess = r.success + Total(Q, files, "success"),
            !.currentFailed = r.failedSize + Total(Q, files, "failed"),
            !.parCurrentFailed = r.parFailedSize + Total(Q, pars, "failed"),
            !.extraPriority = Cardinality(ExtraPriority(Q, files))]

IsDownloadCompleted(Q, n, ignorePausedPars) ==
    /\ Q.nzb[n].activeDownloads = 0
    /\ \A f \in FilesOf(Q, n) :
          \/ Q.file[f].deleted
          \/ Q.file[f].paused /\ ignorePausedPars /\ f \in ParFiles

-----------------------------------------------------------------------------
CalcHealth(r) ==
    LET good   == r.size - r.parSize
        failed == r.currentFailed - r.parCurrentFailed
        health == ((good - failed) * 1000) \div good
    IN  IF r.currentFailed = 0 \/ good = 0 THEN 1000
        ELSE IF health = 1000 /\ failed > 0 THEN 999 ELSE health

CalcCriticalHealth(r) ==
    LET goodPar  == r.parSize - r.parCurrentFailed
        critical == ((r.size - goodPar * 2) * 1000) \div (r.size - goodPar)
    IN  IF r.size = 0 THEN 1000
        ELSE IF r.size = r.parSize \/ goodPar * 2 > r.size THEN 0
        ELSE IF critical < 1000 THEN critical
        ELSE IF r.parSize > 0 THEN 999 ELSE 850

-----------------------------------------------------------------------------
\* mutant: the list is discarded although the group is parked
DiscardsListAlways(r) ==
    r.failedSize - r.parFailedSize = 0 \/ r.deleteStatus # "none"

DiscardsList(r) ==
    /\ ~r.parking
    /\ r.failedSize - r.parFailedSize = 0 \/ r.deleteStatus # "none"

(***************************************************************************)
(* NzbCompleted: the group leaves the queue, normally for the history.     *)
(* AddToHistory parks the files that remain; the list of completed and     *)
(* parked files is kept if the group is parked or is worth a retry.        *)
(***************************************************************************)
NzbCompleted(Q, n) ==
    LET files  == FilesOf(Q, n)
        add    == KeepHistory /\ ~Q.nzb[n].avoidHistory
        parked == IF add THEN UpdateCompletedStats(Q, n, files) ELSE Q
        r      == parked.nzb[n]
    IN  [parked EXCEPT
            !.queue = Without(@, n),
            !.history = IF add THEN @ \cup {n} ELSE @,
            !.nzb[n] = [r EXCEPT
                !.completedFiles = IF DiscardsList(r) THEN {} ELSE @ \cup files,
                !.remainingParCount = 0, !.parking = FALSE,
                !.avoidHistory = FALSE],
            !.file = [f \in Files |-> IF f \in files
                                      THEN [@[f] EXCEPT !.nzb = NoNzb]
                                      ELSE @[f]]]

NzbDownloaded(Q, n) ==
    IF Q.nzb[n].postInfo THEN NzbCompleted(Q, n)
                         ELSE [Q EXCEPT !.nzb[n].postInfo = TRUE]

NzbDeleted(Q, n) ==
    LET status == IF Q.nzb[n].deleteStatus = "none" THEN "manual"
                  ELSE Q.nzb[n].deleteStatus
        marked == [Q EXCEPT !.nzb[n].deleteStatus = status,
                            !.nzb[n].deleting = FALSE]
    IN  IF status = "health" THEN NzbDownloaded(marked, n)
                             ELSE NzbCompleted(marked, n)

\* mutant: the deletion of the last file is overlooked
FileEventCompletedOnly(Q, n, dupe, completed) ==
    IF completed /\ ~Q.nzb[n].postInfo /\ IsDownloadCompleted(Q, n, TRUE)
    THEN NzbDownloaded(Q, n) ELSE Q

(***************************************************************************)
(* DownloadQueueUpdate for eaFileCompleted and eaFileDeleted, the latter   *)
(* possibly of a duplicate.                                                *)
(***************************************************************************)
FileEvent(Q, n, dupe, completed) ==
    LET status == Q.nzb[n].deleteStatus
    IN  IF /\ completed \/ dupe
           /\ status # "health" /\ ~Q.nzb[n].postInfo
           /\ IsDownloadCompleted(Q, n, TRUE)
        THEN NzbDownloaded(Q, n)
        ELSE IF /\ ~completed \/ status # "none"
                /\ ~Q.nzb[n].postInfo
                /\ IsDownloadCompleted(Q, n, FALSE)
        THEN NzbDeleted(Q, n)
        ELSE Q

(***************************************************************************)
(* DeleteFileInfo: files leave their group, its counters are booked, the   *)
(* observers are told, and the objects are destroyed.  When all files of a *)
(* group are deleted the observers act upon the last one only, since       *)
(* before it the group has a file that is not deleted.                     *)
(***************************************************************************)
DeleteFileInfo(Q, n, files, completed) ==
    LET deleted == \A f \in files : Q.file[f].deleted
        dupe    == \E f \in files : Q.file[f].dupeDeleted
        booked  == IF completed \/ Q.nzb[n].deleting
                   THEN UpdateCompletedStats(Q, n, files)
                   ELSE UpdateDeletedStats(Q, n, files)
        removed == [booked EXCEPT
                       !.file = [f \in Files |->
                           IF f \in files
                           THEN [@[f] EXCEPT !.deleted = TRUE, !.nzb = NoNzb]
                           ELSE @[f]],
                       !.nzb[n].completedFiles =
                           IF completed \/ Q.nzb[n].parking
                           THEN @ \cup files ELSE @]
    IN  IF files = {} THEN Q ELSE FileEvent(removed, n, dupe, completed /\ ~deleted)
=============================================================================

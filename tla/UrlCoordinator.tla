---------------------------- MODULE UrlCoordinator ----------------------------
(***************************************************************************)
(* URLs in the queue (queue/UrlCoordinator.cpp, connect/WebDownloader.cpp) *)
(* and the scanner (queue/Scanner.cpp) that turns what was fetched into an *)
(* entry of the queue.  The coordinator's loop, one thread per download,   *)
(* the scanner's service thread and users; a step under the lock of the    *)
(* queue or under m_scanMutex is one action, and so is every unlocked      *)
(* access that comes after one.  Every step that moves an entry saves the  *)
(* queue.                                                                  *)
(***************************************************************************)
EXTENDS Integers, FiniteSets

CONSTANTS
  Items,           \* URLs
  UrlConnections,  \* option UrlConnections
  UrlForce,        \* option UrlForce
  Contents,        \* what a URL may deliver
  MaxRetries,      \* bound on unfinished resets of an item after a retry
  MaxEvents        \* bound on what users, timers and restarts do

ASSUME UrlOptions ==
  /\ IsFiniteSet(Items)
  /\ UrlConnections \in Nat \ {0} /\ UrlForce \in BOOLEAN
  /\ Contents \subseteq {"nzb", "bad", "other", "archive"}
  /\ MaxRetries \in Nat /\ MaxEvents \in Nat

VARIABLES
  url,        \* the queue's or history's entry of each item
  job,        \* the step of the item's UrlDownloader
  stopped,    \* items whose UrlDownloader was told to stop
  resets,     \* downloaders about to set m_activeDownloads to 0 after a retry
  hasMore,    \* m_hasMoreJobs
  raced,      \* items started again before the reset after a retry
  broken,     \* items whose entry a thread used when it had left the queue
  forgotten,  \* items a restart found in the queue
  incoming,   \* the incoming directory: age and content of an item's file
  queueList,  \* m_queueList
  answer,     \* the addStatus on the stack of AddExternalFile
  scan,       \* the service thread in ServiceWork
  requested,  \* m_requestedNzbDirScan
  scanning,   \* m_scanning
  paused,     \* g_WorkState->GetPauseDownload
  events      \* what users, timers and restarts did so far

urlVars  == <<url, job, stopped, resets, hasMore, raced, broken, forgotten>>
scanVars == <<incoming, queueList, answer, scan, requested, scanning>>
envVars  == <<paused, events>>
vars == <<urlVars, scanVars, envVars>>

NoUrl == [place |-> "out", st |-> "none", del |-> "none", deleting |-> FALSE, avoid |-> FALSE, active |-> 0]
NoFile == [age |-> "none", content |-> "nzb"]

\* A downloader that is in m_activeDownloads, with its status.
InTransfer == {"running", "finished", "failed", "retry"}

TypeOK ==
  /\ url \in [Items -> [place : {"out", "queue", "history", "nzb", "gone"},
                        st : {"none", "running", "finished", "failed", "skipped", "scanFailed"},
                        del : {"none", "manual", "dupe"}, deleting : BOOLEAN, avoid : BOOLEAN,
                        active : 0..1]]
  /\ job \in [Items -> {"none", "scan", "request", "wait", "fail"} \union InTransfer]
  /\ stopped \subseteq {i \in Items : job[i] \in InTransfer}
  /\ resets \in [Items -> 0..MaxRetries]
  /\ incoming \in [Items -> [age : {"none", "new", "listed"}, content : Contents \union {"nzb"}]]
  /\ queueList \in SUBSET Items
  /\ answer \in [Items -> {"skipped", "success", "failed"}]
  /\ scan \in [busy : BOOLEAN, checkStat : BOOLEAN, todo : SUBSET Items]
  /\ hasMore \in BOOLEAN /\ requested \in BOOLEAN /\ scanning \in BOOLEAN
  /\ paused \in BOOLEAN
  /\ raced \in SUBSET Items /\ broken \in SUBSET Items /\ forgotten \in SUBSET Items
  /\ events \in 0..MaxEvents

IdleScan == [busy |-> FALSE, checkStat |-> TRUE, todo |-> {}]

Init ==
  /\ hasMore = TRUE
  /\ url = [i \in Items |-> NoUrl]
  /\ job = [i \in Items |-> "none"] /\ stopped = {}
  /\ resets = [i \in Items |-> 0]
  /\ incoming = [i \in Items |-> NoFile]
  /\ queueList = {} /\ answer = [i \in Items |-> "skipped"]
  /\ scan = IdleScan /\ requested = FALSE /\ scanning = FALSE
  /\ paused = FALSE /\ events = 0
  /\ raced = {} /\ broken = {} /\ forgotten = {}

Event == events < MaxEvents /\ events' = events + 1

-------------------------------------------------------------------------------
(* URLs *)

\* What the duplicate check (eaUrlFound) makes of a new entry: it is added,
\* moved to the history as duplicate, or dropped.
Checked == {[NoUrl EXCEPT !.place = "queue"], [NoUrl EXCEPT !.place = "history", !.del = "dupe"],
            [NoUrl EXCEPT !.place = "gone", !.del = "manual"]}

\* mutant: the loop is not woken
UrlAddedSilently == hasMore' = hasMore

\* The observer of eaUrlAdded and eaUrlReturned wakes UrlCoordinator::Run.
UrlAdded == hasMore' = TRUE

AddUrlToQueue(i) ==
  /\ url[i].place = "out"
  /\ \E u \in Checked :
       /\ url' = [url EXCEPT ![i] = u]
       /\ IF u.del = "manual" THEN hasMore' = hasMore ELSE UrlAdded
  /\ UNCHANGED <<job, stopped, resets, raced, broken, forgotten, scanVars, envVars>>

UrlActive == {i \in Items : job[i] \in InTransfer}

\* Any of the waiting URLs: priorities are not modelled.
Waiting(i) == url[i].place = "queue" /\ url[i].st = "none" /\ url[i].del = "none"

StartUrlDownload(i) ==
  /\ url' = [url EXCEPT ![i].active = 1, ![i].st = "running"]
  /\ job' = [job EXCEPT ![i] = "running"]
  /\ raced' = IF resets[i] > 0 THEN raced \union {i} ELSE raced

\* One pass of UrlCoordinator::Run under the lock of the queue.  With all
\* connections busy the queue is not even searched.  With nothing to do Run waits
\* for m_hasMoreJobs.
Look ==
  /\ hasMore
  /\ LET slot == Cardinality(UrlActive) < UrlConnections
         next == {i \in Items : slot /\ Waiting(i)}
     IN  /\ hasMore' = (UrlActive # {} \/ next # {})
         /\ IF next # {} /\ (~paused \/ UrlForce)
            THEN \E i \in next : StartUrlDownload(i)
            ELSE UNCHANGED <<url, job, raced>>
  /\ UNCHANGED <<stopped, resets, broken, forgotten, scanVars, envVars>>

\* WebDownloader::Run: attempts until one succeeds or is hopeless, whatever made them fail.
\* A pause turns every result, even success, into a retry; a stop does, or ends the loop.
RunResults(i) ==
  IF i \in stopped THEN {"retry", "failed"}
  ELSE IF paused /\ ~UrlForce THEN {"retry"}
  ELSE {"finished", "failed"}

TransferEnds(i) ==
  /\ job[i] = "running"
  /\ \E status \in RunResults(i) : job' = [job EXCEPT ![i] = status]
  /\ UNCHANGED <<url, stopped, resets, hasMore, raced, broken, forgotten, scanVars, envVars>>

\* ResetHangingDownloads stops a transfer that receives nothing.
ResetHangingDownloads(i) ==
  /\ Event
  /\ job[i] = "running"
  /\ stopped' = stopped \union {i}
  /\ UNCHANGED <<url, job, resets, hasMore, raced, broken, forgotten, scanVars, paused>>

\* The entry after the download, by the downloader's status.
Completed(u, status) ==
  IF u.deleting THEN [u EXCEPT !.deleting = FALSE, !.st = "none",
                               !.del = IF @ = "none" THEN "manual" ELSE @]
  ELSE [u EXCEPT !.st = IF status \in {"finished", "failed"} THEN status ELSE "none"]

\* mutant: a deleted URL is retried
RetryAlways(u, status) == status = "retry"

\* A deleted URL is not retried.
Retry(u, status) == status = "retry" /\ ~u.deleting

\* UrlCompleted up to its unlock.
UrlCompleted(i) ==
  /\ job[i] \in InTransfer \ {"running"}
  /\ stopped' = stopped \ {i}
  /\ LET retry == Retry(url[i], job[i])
         after == Completed(url[i], job[i])
     IN  IF url[i].place # "queue"
         THEN /\ broken' = broken \union {i} /\ job' = [job EXCEPT ![i] = "none"]
              /\ UNCHANGED <<url, resets>>
         ELSE /\ retry => resets[i] < MaxRetries
              /\ url' = [url EXCEPT ![i] = after]
              /\ resets' = IF retry THEN [resets EXCEPT ![i] = @ + 1] ELSE resets
              /\ job' = [job EXCEPT ![i] = IF retry THEN "none"
                                           ELSE IF after.st = "finished" THEN "scan" ELSE "fail"]
              /\ broken' = broken
  /\ UNCHANGED <<hasMore, raced, forgotten>>
  /\ UNCHANGED <<scanVars, envVars>>

\* After a retry the count of downloads is reset without the lock.
ResetActive(i) ==
  /\ resets[i] > 0
  /\ resets' = [resets EXCEPT ![i] = @ - 1]
  /\ IF url[i].place = "queue" THEN url' = [url EXCEPT ![i].active = 0] /\ broken' = broken
                               ELSE url' = url /\ broken' = broken \union {i}
  /\ UNCHANGED <<job, stopped, hasMore, raced, forgotten, scanVars, envVars>>

\* NzbCompleted for an entry that leaves the queue.
Leave(u) == [u EXCEPT !.place = IF u.avoid THEN "gone" ELSE "history", !.avoid = FALSE]

\* The end of UrlCompleted for failed URLs and failed scans.
UrlFailed(i) ==
  /\ job[i] = "fail" /\ job' = [job EXCEPT ![i] = "none"]
  /\ IF url[i].place = "queue" THEN url' = [url EXCEPT ![i] = Leave([@ EXCEPT !.active = 0])] /\ broken' = broken
                               ELSE url' = url /\ broken' = broken \union {i}
  /\ UNCHANGED <<stopped, resets, hasMore, raced, forgotten, scanVars, envVars>>

\* What is deleted leaves the queue at once; the eaUrlDeleted observer unmarks it.
Removed(u) == [Leave(u) EXCEPT !.del = IF @ = "none" THEN "manual" ELSE @, !.st = "none", !.deleting = FALSE]

\* mutant: an entry whose file is being scanned is removed
DeletedUnlessRunning(u, avoid) ==
  IF u.active > 0 /\ u.st = "running" THEN [u EXCEPT !.deleting = TRUE, !.avoid = avoid] ELSE Removed(u)

Deleted(u, avoid) == IF u.active > 0 THEN [u EXCEPT !.deleting = TRUE, !.avoid = avoid] ELSE Removed(u)

\* Deletion by a user.  An entry with an active download is only marked.
DeleteQueueEntry(i) ==
  /\ Event
  /\ url[i].place = "queue"
  /\ \E avoid \in BOOLEAN :
       url' = [url EXCEPT ![i] = Deleted(@, avoid)]
  /\ stopped' = IF url[i].active > 0 /\ job[i] \in InTransfer THEN stopped \union {i} ELSE stopped
  /\ UNCHANGED <<job, resets, hasMore, raced, broken, forgotten>>
  /\ UNCHANGED <<scanVars, paused>>

\* A user downloads the URL again.
HistoryRedownload(i) ==
  /\ Event
  /\ url[i].place = "history"
  /\ url' = [url EXCEPT ![i].place = "queue", ![i].st = "none", ![i].del = "none"]
  /\ UrlAdded
  /\ UNCHANGED <<job, stopped, resets, raced, broken, forgotten>>
  /\ UNCHANGED <<scanVars, paused>>

-------------------------------------------------------------------------------
(* Scanner *)

\* AddExternalFile and AddArchive, up to the unlock of m_scanMutex: the file is
\* in the incoming directory, its parameters are in m_queueList; or it could not
\* be stored, or is an archive that is not scanned or holds no nzb-file.
AddExternalFile(i) ==
  /\ job[i] = "scan"
  /\ \/ \E c \in Contents :
          /\ ~scan.busy
          /\ incoming' = [incoming EXCEPT ![i] = [age |-> "new", content |-> c]]
          /\ queueList' = queueList \union {i}
          /\ answer' = [answer EXCEPT ![i] = IF c = "archive" THEN "success" ELSE "skipped"]
          /\ job' = [job EXCEPT ![i] = "request"]
          /\ url' = url
     \/ /\ \E st \in {"scanFailed", "skipped"} : url' = [url EXCEPT ![i].st = st]
        /\ job' = [job EXCEPT ![i] = "fail"]
        /\ UNCHANGED <<incoming, queueList, answer>>
  /\ UNCHANGED <<stopped, resets, hasMore, raced, broken, forgotten, scan, requested, scanning>>
  /\ UNCHANGED envVars

\* ScanNzbDir locks m_scanMutex again.
ScanNzbDir(i) ==
  /\ job[i] = "request" /\ ~scan.busy
  /\ job' = [job EXCEPT ![i] = "wait"]
  /\ scanning' = TRUE /\ requested' = TRUE
  /\ UNCHANGED <<url, stopped, resets, hasMore, raced, broken, forgotten, incoming, queueList, answer, scan>>
  /\ UNCHANGED envVars

\* What was in a file is of no interest when the file and its job are gone.
Forget(dir) == [i \in Items |-> IF dir[i].age = "none" THEN NoFile ELSE dir[i]]

\* UrlCompleted gets the scanner's answer; after a success it does not touch
\* its entry, "already removed from queue and destroyed".
Scanned(i) ==
  /\ job[i] = "wait" /\ ~scanning /\ ~requested
  /\ IF answer[i] = "success"
     THEN job' = [job EXCEPT ![i] = "none"] /\ UNCHANGED <<url, broken>>
     ELSE /\ job' = [job EXCEPT ![i] = "fail"]
          /\ IF url[i].place = "queue"
             THEN /\ url' = [url EXCEPT ![i].st = IF answer[i] = "failed" THEN "scanFailed" ELSE "skipped"]
                  /\ broken' = broken
             ELSE url' = url /\ broken' = broken \union {i}
  /\ answer' = [answer EXCEPT ![i] = "skipped"]
  /\ incoming' = Forget(incoming)
  /\ UNCHANGED <<stopped, resets, hasMore, raced, forgotten, queueList, scan, requested, scanning, envVars>>

\* ServiceWork, on request or by the interval.  A scan by the interval of an
\* empty directory changes nothing.
ServiceWork ==
  /\ ~scan.busy /\ (requested \/ \E i \in Items : incoming[i].age # "none")
  /\ scan' = [busy |-> TRUE, checkStat |-> ~requested, todo |-> {i \in Items : incoming[i].age # "none"}]
  /\ requested' = FALSE /\ scanning' = TRUE
  /\ UNCHANGED <<incoming, queueList, answer, urlVars, envVars>>

\* CanProcessFile: without a request a file has to be seen twice.
MayProcess(i) == ~scan.checkStat \/ incoming[i].age = "listed"
MayWait(i) == scan.checkStat

\* The scanner looks at one file.  A file that is not for nzbget stays but is
\* of no further interest.
ProcessIncomingFile(i) ==
  /\ i \in scan.todo
  /\ scan' = [scan EXCEPT !.todo = @ \ {i}]
  /\ \/ /\ MayWait(i)
        /\ incoming' = [incoming EXCEPT ![i].age = "listed"]
        /\ UNCHANGED <<url, answer, broken>>
     \/ /\ MayProcess(i)
        /\ incoming' = [incoming EXCEPT ![i].age = "none"]
        /\ \E added \in {incoming[i].content \in {"nzb", "archive"}, FALSE} :
             /\ answer' = IF i \in queueList /\ incoming[i].content # "archive"
                          THEN [answer EXCEPT ![i] = IF incoming[i].content = "other" THEN "skipped"
                                                     ELSE IF added THEN "success" ELSE "failed"]
                          ELSE answer
             /\ IF added /\ i \in queueList
                THEN IF url[i].place = "queue"
                     THEN url' = [url EXCEPT ![i].place = "nzb"] /\ broken' = broken
                     ELSE url' = url /\ broken' = broken \union {i}
                ELSE UNCHANGED <<url, broken>>
  /\ UNCHANGED <<job, stopped, resets, hasMore, raced, forgotten, queueList, requested, scanning>>
  /\ UNCHANGED envVars

ScanEnds ==
  /\ scan.busy /\ scan.todo = {}
  /\ scanning' = FALSE /\ queueList' = {} /\ scan' = IdleScan
  /\ UNCHANGED <<incoming, answer, requested, urlVars, envVars>>

-------------------------------------------------------------------------------
(* Environment *)

Pause ==
  /\ Event
  /\ paused' = ~paused
  /\ UNCHANGED <<urlVars, scanVars>>

\* The entry of the queue after a restart.  An unfinished one is loaded as new,
\* unless its failure or deletion was saved by somebody else's save.
Loaded(u, saved) ==
  IF u.place # "queue" THEN [u EXCEPT !.deleting = FALSE]
  ELSE [NoUrl EXCEPT !.place = "queue",
          !.st = IF saved /\ u.st \in {"failed", "skipped", "scanFailed"} THEN u.st ELSE "none",
          !.del = IF saved THEN u.del ELSE "none"]

\* The program ends, without waiting for threads in UrlCompleted, or crashes, and
\* is started again.
Restart ==
  /\ Event
  /\ \E saved \in BOOLEAN : url' = [i \in Items |-> Loaded(url[i], saved)]
  /\ job' = [i \in Items |-> "none"] /\ stopped' = {} /\ resets' = [i \in Items |-> 0]
  /\ hasMore' = TRUE
  /\ queueList' = {} /\ scan' = IdleScan /\ requested' = FALSE /\ scanning' = FALSE
  /\ answer' = [i \in Items |-> "skipped"]
  /\ incoming' = Forget(incoming)
  /\ forgotten' = forgotten \union {i \in Items : url[i].place = "queue"}
  /\ UNCHANGED <<raced, broken, paused>>

Step ==
  \/ Look
  \/ \E i \in Items : \/ AddUrlToQueue(i) \/ TransferEnds(i) \/ ResetHangingDownloads(i) \/ UrlCompleted(i)
                      \/ ResetActive(i) \/ UrlFailed(i)
                      \/ DeleteQueueEntry(i) \/ HistoryRedownload(i)
                      \/ AddExternalFile(i) \/ ScanNzbDir(i) \/ Scanned(i) \/ ProcessIncomingFile(i)
  \/ ServiceWork \/ ScanEnds
  \/ Pause \/ Restart

\* Nothing is said of the program after it used a destroyed entry.
Next == broken = {} /\ Step

Spec == Init /\ [][Next]_vars

\* Threads run and transfers end.  A thread that polls m_scanning, or that needs
\* m_scanMutex, meets a moment without a scan.
FairSpec ==
  /\ Spec
  /\ WF_vars(Look) /\ WF_vars(ServiceWork) /\ WF_vars(ScanEnds)
  /\ \A i \in Items : /\ WF_vars(TransferEnds(i)) /\ WF_vars(UrlCompleted(i)) /\ WF_vars(ResetActive(i)) /\ WF_vars(UrlFailed(i))
                      /\ SF_vars(AddExternalFile(i)) /\ SF_vars(ScanNzbDir(i)) /\ SF_vars(Scanned(i))
                      /\ WF_vars(ProcessIncomingFile(i))

-------------------------------------------------------------------------------
(* Properties *)

\* A thread that works on a URL finds its entry in the queue (UrlCompleted uses
\* the pointer before and after the lock), as long as no URL was started again
\* before the former download had reset its count.
UrlJobUsable == broken \subseteq raced

\* Entries, their counts of downloads and the threads that use them agree.
UrlsConsistent == TypeOK /\ UrlJobUsable

\* UrlCoordinator::Run never sleeps on its condition while a URL waits.
UrlLoopAwake == ~hasMore => \A i \in Items : ~Waiting(i)

\* A URL whose deletion was asked for while it was active leaves the queue, unless
\* downloads are paused before its next attempt, a restart forgets the request, or
\* it is an archive whose nzb-files did not replace it.
DeletedUrlLeaves ==
  \A i \in Items : url[i].deleting /\ url[i].place = "queue" ~>
     \/ url[i].place # "queue" \/ broken # {} \/ paused \/ i \in raced \/ i \in forgotten
     \/ (url[i].st = "finished" /\ job[i] = "none")
===============================================================================

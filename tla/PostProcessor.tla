----------------------------- MODULE PostProcessor -----------------------------
(***************************************************************************)
(* The post-processor: postprocess/PrePostProcessor.cpp with the threads   *)
(* it starts (Rename, Repair with ParChecker, UnpackController, Cleanup,   *)
(* PostUnpackRenamer, PostScript), the direct unpacker that works while a  *)
(* group is still downloading, and the queue-scripts.                      *)
(*                                                                         *)
(* A group's files are two volumes of an archive and a par-file.  What the *)
(* tools (par2, unrar, scripts) find is a choice.  Steps under the lock of *)
(* the download queue are one action; "lock" names the critical sections   *)
(* that take several actions.                                              *)
(***************************************************************************)
EXTENDS QueueScript, Integers, FiniteSets

CONSTANTS
  Groups,
  Strategy,       \* option PostStrategy
  ParCheck,       \* option ParCheck
  Features,       \* the optional stages that are switched on
  HasPars,        \* groups with par-files in the destination directory
  HasArchives,    \* groups with archives in the destination directory
  Healths,        \* the health a download may end with
  MaxEdits        \* bound on what users do (and on restarts)

ASSUME PostOptions ==
  /\ Strategy \in {"sequential", "balanced", "aggressive", "rocket"}
  /\ ParCheck \in {"auto", "always", "force", "manual"}
  /\ Features \subseteq {"parRename", "rarRename", "cleanup", "move", "rename", "directUnpack"}
  /\ Healths \subseteq {"full", "damaged", "critical"}
  /\ IsFiniteSet(Groups) /\ MaxEdits \in Nat

VARIABLES
  place,          \* where each group is: "queue" or "history"
  files,          \* the files of each group that are still to be downloaded
  parPaused,      \* is the group's par-file paused?
  health,         \* the group's health
  job,            \* PostInfo and the statuses of NzbInfo
  thread,         \* the step of the thread of the group's stage
  stopped,        \* was that thread told to stop?
  more,           \* ParChecker's m_queuedParFiles and m_queuedParFilesChanged
  du,             \* the group's direct unpacker
  active,         \* m_activeJobs
  queuedJobs,     \* m_queuedJobs
  runner,         \* the post-processor's thread
  lock,           \* who holds the lock of the download queue between actions
  scripts,        \* the queue-script coordinator
  pausePost,      \* g_WorkState->GetPausePostProcess
  broken,         \* freed memory was used: the program may crash
  edits,          \* what users did so far
  asked           \* groups whose script asked for a par-check

vars == <<place, files, parPaused, health, job, thread, stopped, more, du, active,
          queuedJobs, runner, lock, scripts, pausePost, broken, edits, asked>>

Volumes == {"vol1", "vol2"}

ParStages == {"checking", "repairing"}
Stages == ParStages \union {"queued", "parRename", "rarRename", "unpack", "cleanup", "move",
                            "rename", "script", "finished"}

\* PostInfo, then the statuses of NzbInfo.
Job == [in : BOOLEAN, stage : Stages, working : BOOLEAN, deleted : BOOLEAN, askPar : BOOLEAN,
        needPar : BOOLEAN, tried : BOOLEAN, repaired : BOOLEAN, force : BOOLEAN, forceFull : BOOLEAN,
        parRename : {"none", "done"}, rarRename : {"none", "done"},
        par : {"none", "skipped", "success", "failure", "possible", "manual"},
        unpack : {"none", "skipped", "success", "failure"},
        cleanup : {"none", "done"}, move : {"none", "success", "failure"}, rename : {"none", "done"},
        full : BOOLEAN, del : {"none", "manual", "bad"}]

\* A group that is not in post-processing has no PostInfo.
NoJob == [in |-> FALSE, stage |-> "queued", working |-> FALSE, deleted |-> FALSE, askPar |-> FALSE,
          needPar |-> FALSE, tried |-> FALSE, repaired |-> FALSE, force |-> FALSE, forceFull |-> FALSE,
          parRename |-> "none", rarRename |-> "none", par |-> "none", unpack |-> "none",
          cleanup |-> "none", move |-> "none", rename |-> "none", full |-> FALSE, del |-> "none"]

DirectUnpack == [pc : {"off", "loop", "unrar", "missing", "wait", "locked", "cont", "end"},
                 status : {"none", "running", "success", "failure"}, attached : BOOLEAN,
                 main : BOOLEAN, waiting : BOOLEAN, completed : BOOLEAN, processed : BOOLEAN,
                 ok : BOOLEAN, stop : BOOLEAN]

NoUnpack == [pc |-> "off", status |-> "none", attached |-> FALSE, main |-> FALSE, waiting |-> FALSE,
             completed |-> FALSE, processed |-> FALSE, ok |-> TRUE, stop |-> FALSE]

NoMore == [file |-> FALSE, changed |-> FALSE, requested |-> FALSE]

Items == [nzb : Groups, script : DOMAIN Scripts, event : Range(Events)]

ASSUME ScriptOptions == Scripts \in Seq(SUBSET Range(Events)) /\ NoItem \notin Items

TypeOK ==
  /\ place \in [Groups -> {"queue", "history"}]
  /\ files \in [Groups -> SUBSET (Volumes \union {"par"})]
  /\ parPaused \in [Groups -> BOOLEAN]
  /\ health \in [Groups -> Healths]
  /\ job \in [Groups -> Job]
  /\ thread \in [Groups -> {"none", "run", "verify", "request", "mark", "wait", "repair", "ended"}]
  /\ stopped \in [Groups -> BOOLEAN]
  /\ more \in [Groups -> [file : BOOLEAN, changed : BOOLEAN, requested : BOOLEAN]]
  /\ du \in [Groups -> DirectUnpack]
  /\ active \subseteq Groups
  /\ queuedJobs \in 0..(2 * Cardinality(Groups))
  /\ runner \in {"loading", "idle"}
  /\ lock \in {"free", "runner", "downloader"}
  /\ scripts \in [cur : Items \union {NoItem}, queue : Seq(Items)]
  /\ pausePost \in BOOLEAN /\ broken \in BOOLEAN /\ edits \in 0..MaxEdits /\ asked \subseteq Groups

-------------------------------------------------------------------------------
(* The group. *)

Set(f, g, e) == [f EXCEPT ![g] = e]

\* NzbInfo::IsDownloadCompleted.
IsDownloadCompleted(fs, paused, ignorePausedPars) ==
  fs \subseteq (IF ignorePausedPars /\ paused THEN {"par"} ELSE {})

LeavePostProcess(j) ==
  LET idle == [j EXCEPT !.in = FALSE, !.stage = "queued", !.working = FALSE, !.deleted = FALSE,
                        !.askPar = FALSE]
  IN [idle EXCEPT !.needPar = FALSE, !.tried = FALSE, !.repaired = FALSE, !.force = FALSE,
                  !.forceFull = FALSE]
EnterPostProcess(j) == [LeavePostProcess(j) EXCEPT !.in = TRUE]

ParOpen(j) == j.par \in {"none", "skipped"}
ParLost(j) == j.par \in {"failure", "possible", "manual"}

\* The events of queue-scripts about a group that was deleted; the health check
\* and scripts that mark a download as bad leave it to post-processing.
DeletedEvent(s, g, del) ==
  IF del \in {"none", "bad"} THEN s ELSE EnqueueScript(s, g, "NzbDeleted")

-------------------------------------------------------------------------------
(* The strategy: how many jobs run at a time. *)

StageJobs(j, A, stages) == Cardinality({g \in A : j[g].stage \in stages})

\* mutant: par-checks are started without regard to those that run
AllowParAlways(j, A) == TRUE

AllowPar(j, A) ==
  LET parJobs == StageJobs(j, A, ParStages) IN
  CASE Strategy = "sequential" -> TRUE
    [] Strategy = "balanced"   -> parJobs = 0
    [] Strategy = "aggressive" -> parJobs < 1
    [] Strategy = "rocket"     -> parJobs < 2

CanRunMoreJobs(j, A) ==
  LET parJobs == StageJobs(j, A, ParStages) IN
  CASE Strategy = "sequential" -> A = {}
    [] Strategy = "balanced"   -> /\ Cardinality(A) = parJobs
                                  /\ parJobs = 0 \/ StageJobs(j, A, {"repairing"}) > 0
    [] Strategy = "aggressive" -> Cardinality(A) < 3
    [] Strategy = "rocket"     -> Cardinality(A) < 6

-------------------------------------------------------------------------------
(* The direct unpacker's methods called under the lock of the queue. *)

\* DirectUnpack::Stop also tells the post-processor that the job is idle.
UnpackStop(d) == [d EXCEPT !.stop = TRUE]

\* StartJob, when a volume is complete and no article of the group failed yet.
StartsUnpack(g, f, left) ==
  /\ "directUnpack" \in Features
  /\ f \in Volumes
  /\ g \in HasArchives
  /\ du[g].status = "none"
  /\ CanRunMoreJobs(job, active)
  /\ health[g] = "full" \/ (f = "vol1" /\ "vol2" \in left)

\* FileDownloaded: the second volume of a damaged group has failed articles.
UnpackFile(d, g, f) ==
  IF f = "vol2" /\ health[g] # "full" THEN UnpackStop(d)
  ELSE [d EXCEPT !.main = @ \/ f = "vol1",
                 !.waiting = @ /\ f # "vol2",
                 !.pc = IF d.waiting /\ f = "vol2" /\ @ = "wait" THEN "cont" ELSE @]

FileToUnpacker(g, f, left) ==
  IF StartsUnpack(g, f, left)
  THEN [NoUnpack EXCEPT !.pc = "loop", !.status = "running", !.attached = TRUE,
                        !.main = "vol1" \notin left]
  ELSE IF du[g].status = "running" THEN UnpackFile(du[g], g, f) ELSE du[g]

\* The job is working until the unpacker is done, unless it is stopped at once.
UnpackNzbDownloaded(d) ==
  IF d.waiting THEN UnpackStop([d EXCEPT !.completed = TRUE]) ELSE [d EXCEPT !.completed = TRUE]

UnpackNzbDeleted(d) ==
  IF d.attached THEN UnpackStop([d EXCEPT !.attached = FALSE, !.status = "failure"]) ELSE d

-------------------------------------------------------------------------------
(* Entering and leaving post-processing. *)

JobAdded == queuedJobs' = queuedJobs + 1

\* NzbDownloaded and the queue-scripts it announces; j is the group's job, d its unpacker.
NzbDownloaded(g, j, d, s) ==
  LET entered == [EnterPostProcess(j) EXCEPT
                    !.par = IF j.par = "none" /\ ParCheck \notin {"always", "force"} THEN "skipped" ELSE @,
                    !.working = d.attached /\ ~d.waiting]
  IN /\ job' = Set(job, g, entered)
     /\ du' = Set(du, g, IF d.attached THEN UnpackNzbDownloaded(d) ELSE d)
     /\ active' = IF d.attached THEN active \union {g} ELSE active
     /\ JobAdded
     /\ scripts' = IF j.del = "bad" THEN EnqueueScript(s, g, "NzbDeleted") ELSE s
     /\ UNCHANGED place

\* NzbDeleted: a group marked as bad is post-processed, any other one goes to the history.
NzbDeleted(g, j, d, s) ==
  LET gone == [j EXCEPT !.del = IF @ = "none" THEN "manual" ELSE @] IN
  IF gone.del = "bad" THEN NzbDownloaded(g, gone, UnpackNzbDeleted(d), s)
  ELSE /\ job' = Set(job, g, gone)
       /\ du' = Set(du, g, UnpackNzbDeleted(d))
       /\ place' = Set(place, g, "history")
       /\ scripts' = DeletedEvent(s, g, gone.del)
       /\ UNCHANGED <<active, queuedJobs>>

-------------------------------------------------------------------------------
(* Downloads: what the queue coordinator tells the post-processor. *)

\* A par-check in progress hears of every file of its group and keeps it for itself.
AddPar(g) == g \in active /\ job[g].in /\ thread[g] # "none" /\ job[g].stage \in ParStages

ToParChecker(g, isFile) ==
  more' = Set(more, g, [more[g] EXCEPT !.changed = TRUE, !.file = @ \/ isFile])

\* DownloadQueueUpdate for eaFileCompleted.  A direct unpacker in "locked" holds
\* its mutex and waits for the lock of the queue, which is held here.
FileCompleted(g, f) ==
  LET left == files[g] \ {f}
      s == IF job[g].in THEN scripts ELSE EnqueueScript(scripts, g, "FileDownloaded")
      d == FileToUnpacker(g, f, left)
      stops == d.stop /\ ~du[g].stop
      j == IF stops /\ job[g].in THEN [job[g] EXCEPT !.working = FALSE] ELSE job[g]
  IN /\ lock = "free" /\ ~broken /\ place[g] = "queue"
     /\ f \in files[g] /\ (f = "par" => ~parPaused[g])
     /\ du[g].pc # "locked" \/ du[g].status # "running" \/ "directUnpack" \notin Features
     /\ files' = Set(files, g, left)
     /\ \/ /\ AddPar(g)
           /\ ToParChecker(g, TRUE)
           /\ job' = Set(job, g, j) /\ du' = Set(du, g, d) /\ scripts' = s
           /\ UNCHANGED <<place, active, queuedJobs>>
        \/ /\ ~AddPar(g)
           /\ UNCHANGED more
           /\ IF ~j.in /\ IsDownloadCompleted(left, parPaused[g], TRUE)
              THEN NzbDownloaded(g, j, d, EnqueueScript(s, g, "NzbDownloaded"))
              ELSE /\ job' = Set(job, g, j) /\ du' = Set(du, g, d) /\ scripts' = s
                   /\ UNCHANGED <<place, active, queuedJobs>>
     /\ UNCHANGED <<parPaused, health, thread, stopped, runner, lock, pausePost, broken, edits, asked>>

\* The same with the direct unpacker's mutex taken: everyone waits for everyone.
FileCompletedBlocks(g, f) ==
  /\ lock = "free" /\ ~broken /\ place[g] = "queue"
  /\ "directUnpack" \in Features
  /\ f \in files[g] /\ (f = "par" => ~parPaused[g])
  /\ du[g].pc = "locked" /\ du[g].status = "running"
  /\ lock' = "downloader"
  /\ UNCHANGED <<place, files, parPaused, health, job, thread, stopped, more, du, active, queuedJobs,
                 runner, scripts, pausePost, broken, edits, asked>>

\* DownloadQueueUpdate for eaFileDeleted, for the files F of a group with status del.
FilesDeleted(g, F, del) ==
  LET left == files[g] \ F
      j == [job[g] EXCEPT !.del = del]
  IN /\ files' = Set(files, g, left)
     /\ IF F # {} /\ AddPar(g) THEN ToParChecker(g, FALSE) ELSE UNCHANGED more
     /\ IF ~job[g].in /\ IsDownloadCompleted(left, parPaused[g], FALSE)
        THEN NzbDeleted(g, j, du[g], scripts)
        ELSE job' = Set(job, g, j) /\ UNCHANGED <<du, place, scripts, active, queuedJobs>>
     /\ UNCHANGED <<parPaused, health, thread, stopped, runner, lock, pausePost, broken, asked>>

-------------------------------------------------------------------------------
(* Queue-scripts. *)

\* A queue-script prints MARK=BAD: at its end the group is deleted.
MarkBad(g) ==
  /\ lock = "free" /\ ~broken
  /\ scripts.cur # NoItem /\ scripts.cur.nzb = g /\ scripts.cur.event # "NzbDeleted"
  /\ place[g] = "queue" /\ job[g].del = "none"
  /\ edits < MaxEdits /\ edits' = edits + 1
  /\ FilesDeleted(g, files[g], "bad")

\* The thread of a queue-script ends.  Events about deleted groups and groups marked
\* as bad, even that of their deletion, are dropped.
QueueScriptEnds ==
  LET Deleted(item) == job[item.nzb].del # "none" /\ item.event \notin {"NzbDeleted", "NzbMarked"}
      Marked(item) == job[item.nzb].del = "bad" /\ item.event # "NzbMarked"
  IN /\ lock = "free" /\ ~broken
     /\ scripts.cur # NoItem
     /\ scripts' = CheckQueue(scripts, {item \in ToSet(scripts.queue) : Deleted(item) \/ Marked(item)})
     /\ UNCHANGED <<place, files, parPaused, health, job, thread, stopped, more, du, active,
                    queuedJobs, runner, lock, pausePost, broken, edits, asked>>

-------------------------------------------------------------------------------
(* The post-processor's thread: CheckPostQueue. *)

\* CheckRequestPar for one active job, with what is left to download.
RequestPar(j, left) ==
  IF j.askPar /\ ParCheck # "manual" /\ (ParOpen(j) \/ (j.force /\ ~j.full))
  THEN [j EXCEPT !.forceFull = ~ParOpen(j), !.par = "none", !.askPar = FALSE, !.working = FALSE]
  ELSE IF j.askPar /\ ParCheck = "manual" /\ ParOpen(j)
  THEN [j EXCEPT !.askPar = FALSE, !.par = "manual", !.working = FALSE,
                 !.stage = IF left # {} THEN "finished" ELSE @]
  ELSE j

CheckRequestPar(j, A) == [g \in Groups |-> IF g \in A THEN RequestPar(j[g], files[g]) ELSE j[g]]

\* With a manual par-check the remaining files of the group are resumed.
ResumedForPar(j, A) == [g \in Groups |-> parPaused[g] /\ ~(g \in A /\ j[g].askPar /\ ParCheck = "manual"
                                                            /\ ParOpen(j[g]) /\ files[g] # {})]

\* CleanupJobs: the jobs whose thread has ended and that are not working.
Ended(j, t, A) == {g \in A : ~j[g].working /\ t[g] \in {"none", "ended"}}

Over(j, t, A) == {g \in Ended(j, t, A) : j[g].stage = "finished" \/ j[g].deleted}

\* CheckRequestPar, then CleanupJobs with JobCompleted for the jobs that are over:
\* those with nothing left to download go to the history.
CleanupJobs(j, t, A) ==
  LET asked2 == CheckRequestPar(j, A)
      ended == Ended(asked2, t, A)
      over == Over(asked2, t, A)
      paused == ResumedForPar(j, A)
  IN /\ job' = [g \in Groups |-> IF g \in over THEN LeavePostProcess(asked2[g])
                                 ELSE IF g \in ended THEN [asked2[g] EXCEPT !.stage = "queued"]
                                 ELSE asked2[g]]
     /\ thread' = [g \in Groups |-> IF g \in ended THEN "none" ELSE t[g]]
     /\ stopped' = [g \in Groups |-> stopped[g] /\ t[g] = thread[g] /\ g \notin ended]
     /\ place' = [g \in Groups |-> IF g \in over /\ IsDownloadCompleted(files[g], paused[g], TRUE)
                                   THEN "history" ELSE place[g]]
     /\ queuedJobs' = queuedJobs - Cardinality(over)
     /\ active' = A \ ended
     /\ parPaused' = paused

UnpackerDone(g) == du[g].status # "running"

\* PickNextJob, for groups of equal priority.
PickNextJob(j, A, allowPar) ==
  {g \in Groups : /\ place[g] = "queue" /\ j[g].in /\ ~j[g].working
                  /\ ~HasJob(scripts, g)
                  /\ UnpackerDone(g)
                  /\ ~pausePost
                  /\ allowPar \/ ~j[g].needPar
                  /\ g \notin A
                  /\ IsDownloadCompleted(files[g], parPaused[g], TRUE)}

MoreToPick == CanRunMoreJobs(job, active) /\ PickNextJob(job, active, AllowPar(job, active)) # {}

\* An active job without PostInfo makes this thread use a null pointer.
CheckPostQueueCrashes ==
  /\ runner = "idle" /\ lock = "free" /\ ~broken /\ queuedJobs > 0
  /\ \E g \in active : ~job[g].in
  /\ broken' = TRUE
  /\ UNCHANGED <<place, files, parPaused, health, job, thread, stopped, more, du, active, queuedJobs,
                 runner, lock, scripts, pausePost, edits, asked>>

\* The first part: requested par-checks and finished jobs.  The lock is kept
\* while there are jobs to start.
CheckPostQueue ==
  /\ runner = "idle" /\ lock = "free" /\ ~broken /\ queuedJobs > 0
  /\ \A g \in active : job[g].in
  /\ CleanupJobs(job, thread, active)
  /\ UNCHANGED <<files, health, more, du, runner, scripts, pausePost, broken, edits, asked>>
  /\ lock' = IF MoreToPick' THEN "runner" ELSE "free"

-------------------------------------------------------------------------------
(* StartJob: the next step of a job. *)

WantsUnpack(j) == j.unpack = "none" /\ j.del = "none"

CanCleanup(g) ==
  LET j == job[g] IN
  /\ "cleanup" \in Features /\ ~WantsUnpack(j) /\ j.cleanup = "none"
  /\ \/ j.par = "success" /\ j.unpack # "failure"
     \/ j.unpack = "success" /\ j.par # "failure"
     \/ j.unpack \in {"none", "skipped"} /\ ParOpen(j) /\ health[g] = "full"

CanMove(g) ==
  LET j == job[g] IN
  /\ "move" \in Features /\ ~WantsUnpack(j) /\ j.move = "none" /\ j.del = "none"
  /\ j.unpack # "failure" /\ j.par \notin {"failure", "manual"}
  /\ ~(j.unpack \in {"none", "skipped"} /\ ParOpen(j) /\ health[g] # "full")

CanRename(g) ==
  LET j == job[g] IN
  /\ "rename" \in Features /\ j.rename = "none" /\ j.move = "success"
  /\ j.unpack # "failure" /\ j.par \notin {"failure", "manual"}

\* The branches of StartJob in their order.
Step(g, allowPar) ==
  LET j == job[g] IN
  IF "parRename" \in Features /\ j.parRename = "none" /\ j.del = "none" THEN "parRename"
  ELSE IF j.par = "none" /\ j.del = "none" /\ g \notin HasPars THEN "noPar"
  ELSE IF j.par = "none" /\ j.del = "none" THEN IF allowPar THEN "checking" ELSE "needPar"
  ELSE IF j.par = "skipped" /\ health[g] = "critical" /\ g \in HasPars THEN "skipPar"
  ELSE IF j.par = "skipped" /\ health[g] # "full" /\ g \in HasPars THEN "askPar"
  ELSE IF "rarRename" \in Features /\ j.rarRename = "none" /\ WantsUnpack(j) THEN "rarRename"
  ELSE IF /\ j.par = "skipped" /\ j.del = "none" /\ ParCheck = "auto"
          /\ g \notin HasArchives /\ g \in HasPars THEN "askPar"
  ELSE IF WantsUnpack(j) /\ ~ParLost(j) THEN "unpack"
  ELSE IF CanCleanup(g) THEN "cleanup"
  ELSE IF CanMove(g) THEN "move"
  ELSE IF CanRename(g) THEN "rename"
  ELSE "script"

\* A branch that names a stage enters it.
Entered(g, step) ==
  LET j == job[g] IN
  [j EXCEPT !.working = TRUE, !.stage = step, !.needPar = @ /\ step # "checking",
            !.unpack = IF WantsUnpack(j) /\ ParLost(j) /\ step = "script" THEN "skipped" ELSE @]

\* What the branch does to the job.
StartJob(g, step) ==
  CASE step = "noPar"   -> [job[g] EXCEPT !.par = "skipped"]
    [] step = "needPar" -> [job[g] EXCEPT !.needPar = TRUE]
    [] step = "skipPar" -> [job[g] EXCEPT !.par = "failure"]
    [] step = "askPar"  -> [job[g] EXCEPT !.askPar = TRUE]
    [] step \in Stages  -> Entered(g, step)

StartThread(step) == IF step = "checking" THEN "verify" ELSE "run"

\* One turn of the loop of CheckPostQueue: a job is started; one that only
\* changed its statuses is cleaned up and may be picked again.
StartNextJob(g) ==
  LET step == Step(g, AllowPar(job, active))
  IN /\ lock = "runner" /\ ~broken
     /\ CanRunMoreJobs(job, active)
     /\ g \in PickNextJob(job, active, AllowPar(job, active))
     /\ CleanupJobs(Set(job, g, StartJob(g, step)),
                    IF step \in Stages THEN Set(thread, g, StartThread(step)) ELSE thread,
                    active \union {g})
     /\ more' = IF step = "checking" THEN Set(more, g, NoMore) ELSE more
     /\ UNCHANGED <<files, health, du, runner, scripts, pausePost, broken, edits, asked>>
     /\ lock' = IF MoreToPick' THEN "runner" ELSE "free"

-------------------------------------------------------------------------------
(* The threads of the stages. *)

\* The end of a stage's thread, which leaves the job j; a thread whose PostInfo was freed
\* uses freed memory.
Ends(g, j) ==
  /\ thread' = Set(thread, g, "ended")
  /\ IF job[g].in
     THEN job' = Set(job, g, [j EXCEPT !.working = FALSE]) /\ UNCHANGED broken
     ELSE broken' = TRUE /\ UNCHANGED job

\* RenameCompleted: damaged par-files ask for another one, missing files for a par-check.
ParRenameEnds(g) ==
  /\ thread[g] = "run" /\ job[g].stage = "parRename" /\ lock = "free" /\ ~broken
  /\ \E damaged, missed \in BOOLEAN :
       LET again == damaged /\ "par" \in files[g]
       IN /\ parPaused' = IF again THEN Set(parPaused, g, FALSE) ELSE parPaused
          /\ Ends(g, [job[g] EXCEPT !.parRename = IF again THEN "none" ELSE "done",
                                    !.askPar = @ \/ (missed /\ g \in HasPars /\ ParOpen(job[g]))])
  /\ UNCHANGED <<place, files, health, stopped, more, du, active, queuedJobs, runner, lock, scripts,
                 pausePost, edits, asked>>

\* RequestParCheck.
ParRequested(j, force) == [j EXCEPT !.askPar = TRUE, !.force = force, !.tried = TRUE]

\* UnpackController::Run and its Completed, which take no lock.
UnpackResult(g) ==
  LET j == job[g]
      unpackFailed == [j EXCEPT !.unpack = "failure"]
      failed == IF g \in HasPars /\ ~stopped[g] /\ (ParOpen(j) \/ ~j.full)
                THEN ParRequested(j, TRUE) ELSE unpackFailed
      unpacked == [j EXCEPT !.unpack = "success",
                            !.parRename = IF "parRename" \in Features THEN "none" ELSE @]
  IN IF j.tried /\ ~j.repaired THEN {unpackFailed}
     ELSE IF g \in HasArchives THEN {failed} \union (IF stopped[g] THEN {} ELSE {unpacked})
     ELSE IF ParOpen(j) /\ j.parRename = "none" /\ g \in HasPars THEN {ParRequested(j, FALSE)}
     ELSE {[j EXCEPT !.unpack = "skipped"]}

RarRenameResult(g) == {[job[g] EXCEPT !.rarRename = "done"]}
CleanupResult(g)   == {[job[g] EXCEPT !.cleanup = "done"]}
MoveResult(g)      == {[job[g] EXCEPT !.move = m] : m \in {"success", "failure"}}
RenamerResult(g)   == {[job[g] EXCEPT !.rename = "done"]}
ScriptResult(g)    == {[job[g] EXCEPT !.stage = "finished"]}

\* What the thread of a stage leaves behind; those of a freed job have no stage.
StageResults(g) ==
  CASE job[g].stage = "rarRename" -> RarRenameResult(g)
    [] job[g].stage = "unpack"    -> UnpackResult(g)
    [] job[g].stage = "cleanup"   -> CleanupResult(g)
    [] job[g].stage = "move"      -> MoveResult(g)
    [] job[g].stage = "rename"    -> RenamerResult(g)
    [] job[g].stage = "script"    -> ScriptResult(g)
    [] OTHER                      -> {job[g]}

StageEnds(g) ==
  /\ thread[g] = "run" /\ job[g].stage # "parRename" /\ ~broken
  /\ job[g].stage \in {"rarRename", "rename"} => lock = "free"
  /\ \E result \in StageResults(g) : Ends(g, result)
  /\ UNCHANGED <<place, files, parPaused, health, stopped, more, du, active, queuedJobs, runner, lock,
                 scripts, pausePost, edits, asked>>

\* A post-processing script exits with the code that asks for a par-check.
ScriptAsksPar(g) ==
  /\ thread[g] = "run" /\ job[g].in /\ job[g].stage = "script" /\ ~broken
  /\ g \notin asked /\ ParOpen(job[g]) /\ g \in HasPars /\ job[g].del = "none"
  /\ job' = Set(job, g, [job[g] EXCEPT !.askPar = TRUE, !.force = TRUE])
  /\ asked' = asked \union {g}
  /\ UNCHANGED <<place, files, parPaused, health, thread, stopped, more, du, active, queuedJobs, runner,
                 lock, scripts, pausePost, broken, edits>>

-------------------------------------------------------------------------------
(* The par-checker. *)

\* ParCheckCompleted; a quick check may have looked at some of the files only.
ParCheckCompleted(g, result) ==
  \E full \in BOOLEAN :
    /\ job[g].forceFull => full
    /\ Ends(g, [job[g] EXCEPT !.par = CASE result \in {"repaired", "notNeeded"} -> "success"
                                        [] result = "possible" -> "possible"
                                        [] result = "failed" -> "failure",
                              !.repaired = result = "repaired", !.full = full])

ParCheckerRest == <<place, files, parPaused, health, stopped, du, active, queuedJobs, runner, lock,
                    scripts, pausePost, edits, asked>>

\* Verification: what is damaged can be repaired, or needs blocks of more par-files.
ParVerify(g) ==
  /\ thread[g] = "verify" /\ ~broken
  /\ \/ /\ lock = "free"
        /\ ParCheckCompleted(g, IF stopped[g] THEN "failed" ELSE "notNeeded")
     \/ /\ ~stopped[g] /\ lock = "free"
        /\ thread' = Set(thread, g, "repair")
        /\ job' = IF job[g].in THEN Set(job, g, [job[g] EXCEPT !.stage = "repairing"]) ELSE job
        /\ broken' = ~job[g].in
     \/ /\ ~stopped[g]
        /\ thread' = Set(thread, g, "request")
        /\ UNCHANGED <<job, broken>>
  /\ UNCHANGED more
  /\ UNCHANGED ParCheckerRest

ParRepair(g) ==
  /\ thread[g] = "repair" /\ lock = "free" /\ ~broken
  /\ \E result \in {"repaired", "failed", "possible"} :
       /\ result = "repaired" => ~stopped[g]
       /\ result = "possible" => stopped[g]
       /\ ParCheckCompleted(g, result)
  /\ UNCHANGED more
  /\ UNCHANGED ParCheckerRest

\* ProcessMorePars, RequestMorePars: unpause the par-file if there is one.
RequestMorePars(g) ==
  /\ thread[g] = "request" /\ lock = "free" /\ ~broken
  /\ IF stopped[g] THEN ParCheckCompleted(g, "failed") /\ UNCHANGED <<more, parPaused>>
     ELSE IF more[g].file
     THEN thread' = Set(thread, g, "wait") /\ UNCHANGED <<more, parPaused, job, broken>>
     ELSE /\ thread' = Set(thread, g, "mark")
          /\ parPaused' = Set(parPaused, g, FALSE)
          /\ more' = Set(more, g, [more[g] EXCEPT !.requested = "par" \in files[g]])
          /\ UNCHANGED <<job, broken>>
  /\ UNCHANGED <<place, files, health, stopped, du, active, queuedJobs, runner, lock, scripts,
                 pausePost, edits, asked>>

\* The flag of changes is cleared after the request, under the mutex of the par-checker.
ClearChanged(g) ==
  /\ thread[g] = "mark" /\ ~broken
  /\ more' = Set(more, g, [more[g] EXCEPT !.changed = FALSE])
  /\ \/ /\ more[g].requested \/ more[g].file
        /\ thread' = Set(thread, g, "wait")
        /\ UNCHANGED <<job, broken>>
     \/ /\ ~more[g].requested /\ ~more[g].file /\ lock = "free"
        /\ ParCheckCompleted(g, "failed")
  /\ UNCHANGED ParCheckerRest

\* The wait for a par-file; LoadMorePars and the next verification.
LoadMorePars(g) ==
  /\ thread[g] = "wait" /\ ~broken
  /\ stopped[g] \/ more[g].file \/ more[g].changed
  /\ thread' = Set(thread, g, IF more[g].file /\ ~stopped[g] THEN "verify" ELSE "request")
  /\ more' = Set(more, g, [more[g] EXCEPT !.file = FALSE])
  /\ UNCHANGED <<job, broken>>
  /\ UNCHANGED ParCheckerRest

-------------------------------------------------------------------------------
(* The direct unpacker's thread. *)

UnpackerRest == <<place, files, parPaused, health, thread, stopped, more, active, queuedJobs, runner,
                  lock, scripts, pausePost, broken, edits, asked>>

\* An archive is there: unrar starts.
UnpackArchive(g) ==
  /\ du[g].pc = "loop" /\ ~du[g].stop /\ du[g].main /\ ~broken
  /\ du' = Set(du, g, [du[g] EXCEPT !.pc = "unrar", !.main = FALSE, !.processed = TRUE])
  /\ UNCHANGED job
  /\ UNCHANGED UnpackerRest

\* WaitNextVolume looks for the second volume before it takes the mutex.
AskVolume(g) ==
  /\ du[g].pc = "unrar" /\ ~du[g].stop /\ ~broken
  /\ du' = Set(du, g, [du[g] EXCEPT !.pc = IF "vol2" \in files[g] THEN "missing" ELSE "cont"])
  /\ UNCHANGED job
  /\ UNCHANGED UnpackerRest

\* mutant: every missing volume stops the unpacker
StopsForVolume(d) == TRUE

MissesVolume(d) == d.completed

WaitNextVolume(g) ==
  /\ du[g].pc = "missing" /\ ~broken
  /\ du' = Set(du, g, [du[g] EXCEPT !.waiting = TRUE,
                                    !.pc = IF MissesVolume(du[g]) THEN "locked" ELSE "wait"])
  /\ UNCHANGED job
  /\ UNCHANGED UnpackerRest

\* mutant: the job works for ever
NotIdle(j) == j

\* SetWorking(false), for a group in post-processing.
SetIdle(j) == IF j.in THEN [j EXCEPT !.working = FALSE] ELSE j

\* Stop, called by the unpacker's own thread: a volume is missing, or an error of unrar.
StopSelf(g) ==
  /\ lock = "free" /\ ~broken
  /\ du[g].pc = "locked" \/ (du[g].pc \in {"unrar", "cont"} /\ ~du[g].stop)
  /\ du' = Set(du, g, [UnpackStop(du[g]) EXCEPT !.pc = IF @ = "locked" THEN "wait" ELSE @])
  /\ job' = IF place[g] = "queue" THEN Set(job, g, SetIdle(job[g])) ELSE job
  /\ UNCHANGED UnpackerRest

\* unrar has ended: with success only if it was not stopped and had all volumes.
UnrarEnds(g) ==
  /\ ~broken
  /\ \/ du[g].pc = "cont"
     \/ du[g].pc \in {"unrar", "wait"} /\ du[g].stop
  /\ LET ok == du[g].pc = "cont" /\ ~du[g].stop
     IN du' = Set(du, g, [du[g] EXCEPT !.ok = ok, !.pc = IF ok THEN "loop" ELSE "end"])
  /\ UNCHANGED job
  /\ UNCHANGED UnpackerRest

LoopEnds(g) ==
  /\ du[g].pc = "loop" /\ ~broken
  /\ du[g].stop \/ (~du[g].main /\ du[g].completed)
  /\ du' = Set(du, g, [du[g] EXCEPT !.pc = "end"])
  /\ UNCHANGED job
  /\ UNCHANGED UnpackerRest

\* The end of DirectUnpack::Run.
UnpackerEnds(g) ==
  /\ du[g].pc = "end" /\ lock = "free" /\ ~broken
  /\ IF place[g] = "queue" /\ du[g].attached
     THEN /\ du' = Set(du, g, [NoUnpack EXCEPT
                         !.status = IF ~du[g].processed THEN "none"
                                    ELSE IF du[g].ok /\ ~du[g].stop THEN "success" ELSE "failure"])
          /\ job' = Set(job, g, SetIdle(job[g]))
     ELSE /\ du' = Set(du, g, [NoUnpack EXCEPT !.status = du[g].status])
          /\ UNCHANGED job
  /\ UNCHANGED UnpackerRest

-------------------------------------------------------------------------------
(* Users, and a restart of the program. *)

Edit == lock = "free" /\ ~broken /\ runner = "idle" /\ edits < MaxEdits /\ edits' = edits + 1

\* PostQueueDelete for a job that works: its thread is stopped.
StopPostJob(g) ==
  /\ Edit
  /\ place[g] = "queue" /\ job[g].in /\ job[g].working
  /\ IF thread[g] # "none"
     THEN /\ stopped' = Set(stopped, g, TRUE)
          /\ job' = Set(job, g, [job[g] EXCEPT !.deleted = TRUE])
          /\ UNCHANGED du
     ELSE /\ du' = Set(du, g, UnpackNzbDeleted(du[g]))
          /\ job' = Set(job, g, [job[g] EXCEPT !.deleted = TRUE, !.working = @ /\ ~du[g].attached])
          /\ UNCHANGED stopped
  /\ UNCHANGED <<place, files, parPaused, health, thread, more, active, queuedJobs, runner, lock,
                 scripts, pausePost, broken, asked>>

\* PostQueueDelete for a job that does not: JobCompleted frees the PostInfo first, so that
\* the job that is then looked for among the active ones is not found.
DeletePostJob(g) ==
  /\ Edit
  /\ place[g] = "queue" /\ job[g].in /\ ~job[g].working
  /\ job' = Set(job, g, LeavePostProcess(job[g]))
  /\ queuedJobs' = queuedJobs - 1
  /\ place' = IF IsDownloadCompleted(files[g], parPaused[g], TRUE) THEN Set(place, g, "history") ELSE place
  /\ thread' = IF thread[g] = "ended" THEN Set(thread, g, "none") ELSE thread
  /\ UNCHANGED <<files, parPaused, health, stopped, more, du, active, runner, lock, scripts,
                 pausePost, broken, asked>>

DeleteFile(g, f) ==
  /\ Edit
  /\ place[g] = "queue" /\ f \in files[g]
  /\ FilesDeleted(g, {f}, job[g].del)

ResumePars(g) ==
  /\ Edit
  /\ place[g] = "queue" /\ "par" \in files[g] /\ parPaused[g]
  /\ parPaused' = Set(parPaused, g, FALSE)
  /\ UNCHANGED <<place, files, health, job, thread, stopped, more, du, active, queuedJobs, runner, lock,
                 scripts, pausePost, broken, asked>>

PausePost ==
  /\ Edit
  /\ pausePost' = ~pausePost
  /\ UNCHANGED <<place, files, parPaused, health, job, thread, stopped, more, du, active, queuedJobs,
                 runner, lock, scripts, broken, asked>>

\* SaveNzbInfo writes the number of the stage plus one, LoadNzbInfo takes the number for the stage.
LoadedStage(stage) ==
  CASE stage = "rename" -> "script"
    [] stage = "script" -> "finished"
    [] OTHER -> "queued"      \* some other stage; SanitisePostQueue treats them alike

\* The program is ended and started again: threads, queue-scripts and what the
\* queue's file does not hold are gone.
Restart ==
  /\ Edit
  /\ job' = [g \in Groups |-> IF job[g].in
                              THEN [EnterPostProcess(job[g]) EXCEPT !.stage = LoadedStage(job[g].stage),
                                      !.force = job[g].force, !.forceFull = job[g].forceFull]
                              ELSE job[g]]
  /\ thread' = [g \in Groups |-> "none"]
  /\ stopped' = [g \in Groups |-> FALSE]
  /\ more' = [g \in Groups |-> NoMore]
  /\ du' = [g \in Groups |-> NoUnpack]
  /\ active' = {} /\ queuedJobs' = 0 /\ runner' = "loading"
  /\ scripts' = Idle /\ pausePost' = FALSE /\ asked' = {}
  /\ UNCHANGED <<place, files, parPaused, health, lock, broken>>

\* mutant: jobs of the last session are not counted
NoJobsLoaded == 0

JobsLoaded == Cardinality({g \in Groups : place[g] = "queue" /\ job[g].in})

\* SanitisePostQueue: downloads may already run.
SanitisePostQueue ==
  /\ runner = "loading" /\ lock = "free" /\ ~broken
  /\ job' = [g \in Groups |-> IF place[g] = "queue" /\ job[g].in
                              THEN [job[g] EXCEPT !.stage = IF @ = "script" THEN "finished" ELSE "queued",
                                                  !.working = FALSE]
                              ELSE job[g]]
  /\ queuedJobs' = queuedJobs + JobsLoaded
  /\ runner' = "idle"
  /\ UNCHANGED <<place, files, parPaused, health, thread, stopped, more, du, active, lock, scripts,
                 pausePost, broken, edits, asked>>

-------------------------------------------------------------------------------
\* Groups in the queue still have files to download; others are in the history.
Init ==
  /\ place \in [Groups -> {"queue", "history"}]
  /\ files \in [Groups -> {{}} \union {fs \in SUBSET (Volumes \union {"par"}) : "vol2" \in fs}]
  /\ \A g \in Groups : place[g] = "history" <=> files[g] = {}
  /\ \A g \in Groups : "par" \in files[g] => g \in HasPars
  /\ parPaused = [g \in Groups |-> ParCheck # "force"]
  /\ health \in [Groups -> Healths]
  /\ job = [g \in Groups |-> NoJob]
  /\ thread = [g \in Groups |-> "none"]
  /\ stopped = [g \in Groups |-> FALSE]
  /\ more = [g \in Groups |-> NoMore]
  /\ du = [g \in Groups |-> NoUnpack]
  /\ active = {} /\ queuedJobs = 0 /\ runner = "loading"
  /\ lock = "free" /\ scripts = Idle
  /\ pausePost = FALSE /\ broken = FALSE /\ edits = 0 /\ asked = {}

StageStep(g) ==
  \/ ParRenameEnds(g) \/ StageEnds(g) \/ ScriptAsksPar(g)
  \/ ParVerify(g) \/ ParRepair(g) \/ RequestMorePars(g) \/ ClearChanged(g) \/ LoadMorePars(g)

UnpackerStep(g) ==
  \/ UnpackArchive(g) \/ AskVolume(g) \/ WaitNextVolume(g) \/ StopSelf(g)
  \/ UnrarEnds(g) \/ LoopEnds(g) \/ UnpackerEnds(g)

Download(g) == \E f \in Volumes \union {"par"} : FileCompleted(g, f) \/ FileCompletedBlocks(g, f)

RunnerStep ==
  \/ SanitisePostQueue \/ CheckPostQueue \/ CheckPostQueueCrashes
  \/ \E g \in Groups : StartNextJob(g)

UserStep ==
  \/ PausePost \/ Restart
  \/ \E g \in Groups : \/ StopPostJob(g) \/ DeletePostJob(g) \/ ResumePars(g) \/ MarkBad(g)
                       \/ \E f \in Volumes \union {"par"} : DeleteFile(g, f)

\* What the program's threads, its scripts and the downloads do.
ProgramStep ==
  \/ RunnerStep \/ QueueScriptEnds
  \/ \E g \in Groups : StageStep(g) \/ UnpackerStep(g) \/ Download(g)

Next == UserStep \/ ProgramStep

Spec == Init /\ [][Next]_vars

\* As long as a thread, a script or a download can get on, one of them does; users need not
\* do anything.
Fairness == WF_vars(ProgramStep)

-------------------------------------------------------------------------------
(* Properties. *)

\* The post-processor's thread sleeps when m_queuedJobs is 0 (PrePostProcessor.cpp, Run):
\* the counter must never fall below the number of jobs, whoever adds, ends or deletes them.
JobsNotForgotten ==
  runner = "idle" => queuedJobs >= Cardinality({g \in Groups : place[g] = "queue" /\ job[g].in})

\* The counter the thread sleeps on is a count of jobs at any moment.
JobsCounted == TypeOK /\ JobsNotForgotten

\* The stages of one group never overlap with its own direct unpacker (both write into the
\* same directory), and no more stages run than the option PostStrategy allows.
StagesWithinStrategy ==
  LET running == {g \in Groups : thread[g] \notin {"none", "ended"}}
      pars == {g \in running : thread[g] # "run"}
      limit == CASE Strategy = "sequential" -> 1 [] Strategy = "balanced" -> 2
                 [] Strategy = "aggressive" -> 3 [] Strategy = "rocket" -> 6
  IN ~broken => /\ \A g \in running : du[g].status # "running"
                /\ Cardinality(running) <= limit
                /\ Cardinality(pars) <= IF Strategy = "rocket" THEN 2 ELSE 1

\* Queue-scripts wait only while another one runs, and post-processing of a group starts
\* only when none is left for it (PickNextJob): a download is not unpacked while a script
\* may still mark it as bad.  (A thread of a job in no stage is one whose job was freed under
\* it: if the group is completed again, its scripts run beside that thread.)
ScriptsBeforeStages ==
  /\ scripts.queue # <<>> => scripts.cur # NoItem
  /\ \A g \in Groups : scripts.cur # NoItem /\ scripts.cur.nzb = g /\ scripts.cur.event = "NzbDownloaded"
                         => thread[g] = "none" \/ job[g].stage = "queued"

\* The lock of the queue and the mutex of a direct unpacker are taken in both orders; the two
\* threads meet only if par-files were resumed while the unpacker of a complete download runs,
\* which then waits for the lock in Stop.
LockedByResumeOnly ==
  lock = "downloader" =>
    /\ edits > 0
    /\ \E g \in Groups : /\ du[g].pc = "locked" /\ du[g].status = "running" /\ du[g].completed
                         /\ "par" \in files[g] /\ ~parPaused[g]

\* Every group gets through download and post-processing into the history, whatever the tools
\* report, unless a user interferes.
ReachesHistory == <>((\A g \in Groups : place[g] = "history") \/ edits > 0)
===============================================================================

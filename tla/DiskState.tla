------------------------------ MODULE DiskState ------------------------------
(***************************************************************************)
(* The files in which NZBGet keeps its queue and its history, written      *)
(* under the queue lock one file-system operation at a time, and read when *)
(* the program starts (daemon/queue/DiskState.cpp and the Save, Load and   *)
(* SaveChanged of daemon/queue/QueueCoordinator.cpp).                      *)
(*                                                                         *)
(* A group is abstracted to one file, which is queued, done (in the list   *)
(* of completed files) or broken (in neither).  The file "queue" holds all *)
(* groups, "progress" the groups changed since "queue" was written, and    *)
(* "history" the groups of the history; the set data stands for the info   *)
(* files of the queued files.  A state file is written as name.new, which  *)
(* then replaces name: dest and temp below.  A crash may come between any  *)
(* two operations and leaves the disk as it is; opening and renaming may   *)
(* fail.                                                                   *)
(***************************************************************************)
EXTENDS Naturals, Sequences, FiniteSets, Functions

CONSTANTS
    Groups,       \* identities of download jobs
    MaxCrashes,   \* bound: crashes of the program
    MaxFaults,    \* bound: failed file-system operations
    Absent, Torn  \* no file; a file whose writing was not finished

ASSUME BoundsAssumption == MaxCrashes \in Nat /\ MaxFaults \in Nat

VARIABLES
    up,              \* the program runs
    queue,           \* its queue: the groups and the state of their file
    history,         \* its history
    changed,         \* NzbInfo::m_changed
    historyChanged,  \* CoordinatorDownloadQueue::m_historyChanged
    plan,            \* the files the save in progress has still to write
    saving,          \* "no", "Save" or "SaveChanged"
    step,            \* where the writing of Head(plan) is
    disk,            \* dest and temp of every state file
    data,            \* groups whose file has its info file on disk
    crashes, faults, \* how many there were
    failed,          \* files that a failed operation left out of date
    settled          \* where every group was when the last save ended, the
                     \* groups that were moved since then excepted

memory == <<queue, history, changed, historyChanged>>
vars == <<up, memory, plan, saving, step, disk, data, crashes, faults, failed, settled>>

Files == {"queue", "history", "progress"}
FileStates == {"queued", "done", "broken"}
NoGroups == [g \in {} |-> "done"]
QueueContents == UNION {[G -> FileStates] : G \in SUBSET Groups}

\* The markers are no contents of a file.
ASSUME MarkersAssumption ==
    /\ Absent # Torn
    /\ \A c \in QueueContents : c \notin {Absent, Torn}
    /\ \A c \in SUBSET Groups : c \notin {Absent, Torn}

----------------------------------------------------------------------------
(* Contents *)

\* What the running program means a file to hold.
Wanted(k) ==
    CASE k = "queue" -> IF queue = NoGroups THEN Absent ELSE queue
      [] k = "history" -> IF history = {} THEN Absent ELSE history
      [] k = "progress" -> IF saving = "Save" \/ changed = {} THEN Absent
                           ELSE Restrict(queue, changed)

\* mutant: no recovery from name.new
ReadableDest(k) == disk[k].dest

\* What BeginRead would read: the file, or the new one when it is missing.
Readable(k) == IF disk[k].dest # Absent THEN disk[k].dest ELSE disk[k].temp

DownloadQueueExists == disk["queue"].dest # Absent \/ disk["history"].dest # Absent

ReadQueue == IF Readable("queue") = Absent THEN NoGroups ELSE Readable("queue")
ReadProgress == IF Readable("progress") = Absent THEN NoGroups ELSE Readable("progress")
ReadHistory == IF Readable("history") = Absent THEN {} ELSE Readable("history")

\* LoadProgress fails on a group that is not in the queue.
ProgressFits == ReadProgress # Torn /\ DOMAIN ReadProgress \subseteq DOMAIN ReadQueue

\* LoadAllFileInfos drops a queued file whose info file is missing.
LoadAllFileInfos(q) ==
    [g \in DOMAIN q |-> IF q[g] = "queued" /\ g \notin data THEN "broken" ELSE q[g]]

\* LoadDownloadQueue, as far as an error lets it come; the groups that a
\* progress file updates before an error are left out.
Recovered ==
    IF ~DownloadQueueExists \/ ReadQueue = Torn
    THEN [ok |-> ~DownloadQueueExists, queue |-> NoGroups, history |-> {}]
    ELSE IF ~ProgressFits
    THEN [ok |-> FALSE, queue |-> ReadQueue, history |-> {}]
    ELSE LET q == [g \in DOMAIN ReadQueue |->
                      IF g \in DOMAIN ReadProgress THEN ReadProgress[g] ELSE ReadQueue[g]]
         IN  IF ReadHistory = Torn
             THEN [ok |-> FALSE, queue |-> q, history |-> {}]
             ELSE [ok |-> TRUE, queue |-> LoadAllFileInfos(q), history |-> ReadHistory]

Places(q, h) == [g \in DOMAIN q \cup h |-> IF g \in DOMAIN q THEN "queue" ELSE "history"]

----------------------------------------------------------------------------
Init ==
    /\ up = TRUE
    /\ queue = NoGroups /\ history = {}
    /\ changed = {} /\ historyChanged = FALSE
    /\ plan = <<>> /\ saving = "no" /\ step = "begin"
    /\ disk = [k \in Files |-> [dest |-> Absent, temp |-> Absent]]
    /\ data = {}
    /\ crashes = 0 /\ faults = 0 /\ failed = {}
    /\ settled = Places(NoGroups, {})

----------------------------------------------------------------------------
(* Operations on the queue: each one is made under the queue lock, which   *)
(* is held until its save has ended.                                       *)

Idle == up /\ saving = "no"

\* mutant: the history is never written
SaveQueueOnly(withHistory) ==
    plan' = <<"queue", "progress">> /\ saving' = "Save" /\ step' = "begin"

\* CoordinatorDownloadQueue::Save: "history" is written when it changed, and
\* the progress file goes last.
Save(withHistory) ==
    /\ plan' = IF withHistory THEN <<"queue", "history", "progress">> ELSE <<"queue", "progress">>
    /\ saving' = "Save" /\ step' = "begin"

\* CoordinatorDownloadQueue::SaveChanged
SaveChanged == plan' = <<"progress">> /\ saving' = "SaveChanged" /\ step' = "begin"

\* The flag goes with the group, which SaveDownloadProgress meets no more.
LeavesChanged(g) == changed' = changed \ {g}

Moves(g) == settled' = Restrict(settled, DOMAIN settled \ {g})

\* NzbFile::Parse writes the info files before the group is queued.
ParseNzb(g) ==
    /\ Idle /\ g \notin DOMAIN queue \cup history \cup data
    /\ data' = data \cup {g}
    /\ UNCHANGED <<up, memory, plan, saving, step, disk, crashes, faults, failed, settled>>

AddNzbFileToQueue(g) ==
    /\ Idle /\ g \in data \ (DOMAIN queue \cup history)
    /\ queue' = [x \in DOMAIN queue \cup {g} |-> IF x = g THEN "queued" ELSE queue[x]]
    /\ Save(historyChanged)
    /\ UNCHANGED <<up, history, changed, historyChanged, disk, data, crashes, faults, failed, settled>>

\* DeleteFileInfo discards the info file of a completed file, and
\* DeleteDownloader saves the progress afterwards.
FileCompleted(g) ==
    /\ Idle /\ g \in DOMAIN queue /\ queue[g] = "queued"
    /\ data' = data \ {g}
    /\ queue' = [queue EXCEPT ![g] = "done"]
    /\ changed' = changed \cup {g}
    /\ SaveChanged
    /\ UNCHANGED <<up, history, historyChanged, disk, crashes, faults, failed, settled>>

\* HistoryCoordinator::AddToHistory, and the save of CheckPostQueue.
AddToHistory(g) ==
    /\ Idle /\ g \in DOMAIN queue /\ queue[g] # "queued"
    /\ queue' = Restrict(queue, DOMAIN queue \ {g})
    /\ LeavesChanged(g)
    /\ history' = history \cup {g} /\ historyChanged' = TRUE
    /\ Save(TRUE) /\ Moves(g)
    /\ UNCHANGED <<up, disk, data, crashes, faults, failed>>

\* HistoryCoordinator::HistoryReturn
HistoryReturn(g) ==
    /\ Idle /\ g \in history
    /\ queue' = [x \in DOMAIN queue \cup {g} |-> IF x = g THEN "done" ELSE queue[x]]
    /\ history' = history \ {g} /\ historyChanged' = TRUE
    /\ Save(TRUE) /\ Moves(g)
    /\ UNCHANGED <<up, changed, disk, data, crashes, faults, failed>>

\* HistoryCoordinator::HistoryDelete
HistoryDelete(g) ==
    /\ Idle /\ g \in history
    /\ data' = data \ {g}
    /\ history' = history \ {g} /\ historyChanged' = TRUE
    /\ Save(TRUE) /\ Moves(g)
    /\ UNCHANGED <<up, queue, changed, disk, crashes, faults, failed>>

\* A group deleted without a trace in the history (NzbCompleted with
\* AvoidHistory: DeleteDiskFiles, Remove, Save).
DeleteGroup(g) ==
    /\ Idle /\ g \in DOMAIN queue
    /\ data' = data \ {g}
    /\ queue' = Restrict(queue, DOMAIN queue \ {g})
    /\ LeavesChanged(g)
    /\ Save(historyChanged) /\ Moves(g)
    /\ UNCHANGED <<up, history, historyChanged, disk, crashes, faults, failed>>

\* SaveQueueIfChanged, at the end of QueueCoordinator::Run
SaveQueueIfChanged ==
    /\ Idle /\ changed # {}
    /\ Save(historyChanged)
    /\ UNCHANGED <<up, memory, disk, data, crashes, faults, failed, settled>>

----------------------------------------------------------------------------
(* The steps of a save *)

\* The save goes on with the next file, or ends; Save then clears the flags,
\* whether the files were written or not.
Continue(rest) ==
    /\ plan' = rest /\ step' = "begin"
    /\ IF rest # <<>> THEN UNCHANGED <<saving, changed, historyChanged, settled>>
       ELSE /\ saving' = "no"
            /\ changed' = IF saving = "Save" THEN {} ELSE changed
            /\ historyChanged' = IF saving = "Save" THEN FALSE ELSE historyChanged
            /\ settled' = Places(queue, history)

Writing(k, s) == up /\ plan # <<>> /\ k = Head(plan) /\ step = s

\* mutant: the file is overwritten in place
BeginWriteInPlace(k) ==
    /\ Writing(k, "begin") /\ Wanted(k) # Absent
    /\ disk' = [disk EXCEPT ![k] = [dest |-> Torn, temp |-> Torn]]
    /\ step' = "write"
    /\ UNCHANGED <<up, memory, plan, saving, data, crashes, faults, failed, settled>>

\* StateFile::BeginWrite
BeginWrite(k) ==
    /\ Writing(k, "begin") /\ Wanted(k) # Absent
    /\ disk' = [disk EXCEPT ![k].temp = Torn]
    /\ step' = "write"
    /\ UNCHANGED <<up, memory, plan, saving, data, crashes, faults, failed, settled>>

\* The file cannot be created: SaveDownloadQueue returns at once.
OpenFails(k) ==
    /\ Writing(k, "begin") /\ Wanted(k) # Absent /\ faults < MaxFaults
    /\ faults' = faults + 1
    /\ failed' = failed \cup Range(plan)
    /\ Continue(<<>>)
    /\ UNCHANGED <<up, queue, history, disk, data, crashes>>

\* SaveQueue, SaveHistory or SaveProgress, and Close
WriteContent(k) ==
    /\ Writing(k, "write")
    /\ disk' = [disk EXCEPT ![k].temp = Wanted(k)]
    /\ step' = "delete"
    /\ UNCHANGED <<up, memory, plan, saving, data, crashes, faults, failed, settled>>

\* StateFile::FinishWrite deletes the old file ...
DeleteOld(k) ==
    /\ Writing(k, "delete")
    /\ disk' = [disk EXCEPT ![k].dest = Absent]
    /\ step' = "rename"
    /\ UNCHANGED <<up, memory, plan, saving, data, crashes, faults, failed, settled>>

\* ... and renames the new one.
RenameNew(k) ==
    /\ Writing(k, "rename")
    /\ disk' = [disk EXCEPT ![k] = [dest |-> @.temp, temp |-> Absent]]
    /\ failed' = failed \ {k}
    /\ Continue(Tail(plan))
    /\ UNCHANGED <<up, queue, history, data, crashes, faults>>

RenameFails(k) ==
    /\ Writing(k, "rename") /\ faults < MaxFaults
    /\ faults' = faults + 1
    /\ failed' = failed \cup {k}
    /\ Continue(Tail(plan))
    /\ UNCHANGED <<up, queue, history, disk, data, crashes>>

\* StateFile::Discard deletes the file and not the new one beside it.
Discard(k) ==
    /\ Writing(k, "begin") /\ Wanted(k) = Absent
    /\ disk' = [disk EXCEPT ![k].dest = Absent]
    /\ failed' = failed \ {k}
    /\ Continue(Tail(plan))
    /\ UNCHANGED <<up, queue, history, data, crashes, faults>>

----------------------------------------------------------------------------
(* Stops and starts *)

Forget ==
    /\ up' = FALSE
    /\ queue' = NoGroups /\ history' = {} /\ changed' = {} /\ historyChanged' = FALSE
    /\ plan' = <<>> /\ saving' = "no" /\ step' = "begin"

Crash ==
    /\ up /\ crashes < MaxCrashes
    /\ crashes' = crashes + 1
    /\ Forget
    /\ UNCHANGED <<disk, data, faults, failed, settled>>

Shutdown ==
    /\ Idle /\ changed = {}
    /\ Forget
    /\ UNCHANGED <<disk, data, crashes, faults, failed, settled>>

\* BeginRead renames name.new when name is missing.
Restored(k) ==
    IF disk[k].dest = Absent THEN [dest |-> disk[k].temp, temp |-> Absent] ELSE disk[k]

\* The files LoadDownloadQueue comes to before an error stops it.
FilesRead ==
    IF ReadQueue = Torn THEN {"queue"}
    ELSE IF ~ProgressFits THEN {"queue", "progress"}
    ELSE Files

\* Without a file "queue" or "history" all info files are discarded.
DiscardDownloadQueue == {}

\* Info files of unknown groups are deleted.
CleanupQueueDir == data \cap (DOMAIN Recovered.queue \cup Recovered.history)

\* QueueCoordinator::Load: the directory is cleaned up unless an error came before.
Load ==
    /\ ~up /\ up' = TRUE
    /\ queue' = Recovered.queue /\ history' = Recovered.history
    /\ settled' = Places(Recovered.queue, Recovered.history)
    /\ disk' = IF ~DownloadQueueExists THEN disk
               ELSE [k \in Files |-> IF k \in FilesRead THEN Restored(k) ELSE disk[k]]
    /\ data' = CASE ~DownloadQueueExists -> DiscardDownloadQueue
                 [] DownloadQueueExists /\ Recovered.ok -> CleanupQueueDir
                 [] OTHER -> data
    /\ UNCHANGED <<changed, historyChanged, plan, saving, step, crashes, faults, failed>>

----------------------------------------------------------------------------
Next ==
    \/ \E g \in Groups :
          ParseNzb(g) \/ AddNzbFileToQueue(g) \/ FileCompleted(g) \/ AddToHistory(g)
          \/ HistoryReturn(g) \/ HistoryDelete(g) \/ DeleteGroup(g)
    \/ \E k \in Files :
          BeginWrite(k) \/ OpenFails(k) \/ WriteContent(k) \/ DeleteOld(k)
          \/ RenameNew(k) \/ RenameFails(k) \/ Discard(k)
    \/ SaveQueueIfChanged \/ Crash \/ Shutdown \/ Load

Spec == Init /\ [][Next]_vars

----------------------------------------------------------------------------
(* Properties *)

TypeOK ==
    /\ up \in BOOLEAN /\ queue \in QueueContents /\ history \subseteq Groups
    /\ changed \subseteq DOMAIN queue /\ historyChanged \in BOOLEAN
    /\ plan \in {<<>>, <<"queue", "history", "progress">>, <<"history", "progress">>,
                 <<"queue", "progress">>, <<"progress">>}
    /\ saving \in {"no", "Save", "SaveChanged"} /\ (saving = "no" <=> plan = <<>>)
    /\ step \in {"begin", "write", "delete", "rename"}
    /\ \A k \in Files, c \in {"dest", "temp"} :
          disk[k][c] \in (IF k = "history" THEN SUBSET Groups ELSE QueueContents) \cup {Absent, Torn}
    /\ data \subseteq Groups
    /\ crashes \in 0 .. MaxCrashes /\ faults \in 0 .. MaxFaults /\ failed \subseteq Files
    /\ \A g \in DOMAIN settled : settled[g] \in {"queue", "history"}

\* A write of the file was interrupted or its rename failed, and name.new
\* is still there.
Stale(k) == disk[k].temp # Absent /\ ~(up /\ plan # <<>> /\ Head(plan) = k /\ step # "begin")

\* A program that is stopped at rest, before any crash or failed operation,
\* finds at its next start exactly the queue and the history it had,
\* although they are spread over three files and the info files.
RestartExact ==
    (Idle /\ crashes = 0 /\ faults = 0) =>
        Recovered = [ok |-> TRUE, queue |-> queue, history |-> history]

\* Memory and disk agree whenever the program could be stopped.
StateConsistent == TypeOK /\ RestartExact

\* The moments at which a first crash is not harmless: the file being
\* written does not exist yet (its torn copy is restored); the only one of
\* "queue" and "history" is deleted and not yet renamed (DownloadQueueExists
\* looks for neither new file); the progress file names a group that the new
\* queue does not contain.
Window ==
    \/ \E k \in Files : Readable(k) = Torn
    \/ ~DownloadQueueExists /\ \E k \in Files : disk[k].temp # Absent
    \/ ~ProgressFits

\* At every other moment a first crash loses no job and no history entry: the
\* groups that are not being moved are found where they were, at least as
\* far as they had come (FinishWrite, SaveDownloadQueue, LoadDownloadQueue).
CrashHarmlessOutsideWindows ==
    (up /\ crashes = 0 /\ faults = 0 /\ ~Window) =>
        /\ Recovered.ok
        /\ \A g \in DOMAIN settled :
              IF settled[g] = "queue" THEN g \in DOMAIN Recovered.queue
              ELSE g \in Recovered.history

\* Every state file keeps the promise of StateStore, through crashes and
\* failed operations.
QueueFile == INSTANCE StateStore WITH
    stored <- Readable("queue"), wanted <- Wanted("queue"), promised <- ~Stale("queue")
HistoryFile == INSTANCE StateStore WITH
    stored <- Readable("history"), wanted <- Wanted("history"), promised <- ~Stale("history")
ProgressFile == INSTANCE StateStore WITH
    stored <- Readable("progress"), wanted <- Wanted("progress"), promised <- ~Stale("progress")

FilesKeepPromise == QueueFile!Spec /\ HistoryFile!Spec /\ ProgressFile!Spec
=============================================================================

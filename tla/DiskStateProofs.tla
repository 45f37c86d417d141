---------------------------- MODULE DiskStateProofs ----------------------------
(***************************************************************************)
(* Proofs about the state files, for any groups and any numbers of crashes *)
(* and failed operations: every file keeps the promise of StateStore, a    *)
(* restart finds what the stopped program had, and a first crash outside   *)
(* the windows of DiskState loses nothing.                                 *)
(***************************************************************************)
EXTENDS DiskState, TLAPS

Plans == {<<>>, <<"queue", "history", "progress">>, <<"history", "progress">>,
          <<"queue", "progress">>, <<"progress">>}

(***************************************************************************)
(* What a save has still to write, one file after the other.               *)
(***************************************************************************)
LEMMA PlanFacts ==
    ASSUME NEW p \in Plans, p # <<>>
    PROVE  /\ Head(p) \in Files /\ Tail(p) \in Plans
           /\ Range(p) = Range(Tail(p)) \cup {Head(p)}
           /\ Head(p) \notin Range(Tail(p))
           /\ Range(p) \subseteq Files
           /\ Tail(p) = <<>> => Range(p) = {Head(p)}
<1>1. CASE p = <<"queue", "history", "progress">>
  <2>1. Head(p) = "queue" /\ Tail(p) = <<"history", "progress">>
    BY <1>1
  <2>2. Range(p) = Files /\ Range(Tail(p)) = {"history", "progress"}
    BY <1>1, <2>1 DEF Range, Files
  <2> QED BY <2>1, <2>2 DEF Plans, Files
<1>2. CASE p = <<"history", "progress">>
  <2>1. Head(p) = "history" /\ Tail(p) = <<"progress">>
    BY <1>2
  <2>2. Range(p) = {"history", "progress"} /\ Range(Tail(p)) = {"progress"}
    BY <1>2, <2>1 DEF Range
  <2> QED BY <2>1, <2>2 DEF Plans, Files
<1>3. CASE p = <<"queue", "progress">>
  <2>1. Head(p) = "queue" /\ Tail(p) = <<"progress">>
    BY <1>3
  <2>2. Range(p) = {"queue", "progress"} /\ Range(Tail(p)) = {"progress"}
    BY <1>3, <2>1 DEF Range
  <2> QED BY <2>1, <2>2 DEF Plans, Files
<1>4. CASE p = <<"progress">>
  <2>1. Head(p) = "progress" /\ Tail(p) = <<>>
    BY <1>4
  <2>2. Range(p) = {"progress"} /\ Range(Tail(p)) = {}
    BY <1>4, <2>1 DEF Range
  <2> QED BY <2>1, <2>2 DEF Plans, Files
<1> QED
  BY <1>1, <1>2, <1>3, <1>4 DEF Plans
-----------------------------------------------------------------------------
(* Types. *)

ContentOf(k) == (IF k = "history" THEN SUBSET Groups ELSE QueueContents) \cup {Absent, Torn}

Content == QueueContents \cup (SUBSET Groups) \cup {Absent, Torn}

(***************************************************************************)
(* The files, in a form that says what disk is as a whole.                 *)
(***************************************************************************)
DiskOK ==
    /\ disk \in [Files -> [dest : Content, temp : Content]]
    /\ \A k \in Files : disk[k].dest \in ContentOf(k) /\ disk[k].temp \in ContentOf(k)

MemoryOK ==
    /\ up \in BOOLEAN /\ queue \in QueueContents /\ history \subseteq Groups
    /\ changed \subseteq DOMAIN queue /\ historyChanged \in BOOLEAN

SaveOK ==
    /\ plan \in Plans /\ saving \in {"no", "Save", "SaveChanged"} /\ (saving = "no" <=> plan = <<>>)
    /\ step \in {"begin", "write", "delete", "rename"}
    /\ saving = "SaveChanged" => plan = <<"progress">>

CountsOK ==
    /\ data \subseteq Groups
    /\ crashes \in 0 .. MaxCrashes /\ faults \in 0 .. MaxFaults /\ failed \subseteq Files

SettledOK == \A g \in DOMAIN settled : settled[g] \in {"queue", "history"}

DownOK == ~up => changed = {} /\ plan = <<>>

Types == DiskOK /\ MemoryOK /\ SaveOK /\ CountsOK /\ SettledOK /\ DownOK

LEMMA TypesTypeOK == Types => TypeOK
<1> SUFFICES ASSUME Types PROVE TypeOK
  OBVIOUS
<1>1. ASSUME NEW k \in Files, NEW c \in {"dest", "temp"}
      PROVE  disk[k][c] \in (IF k = "history" THEN SUBSET Groups ELSE QueueContents) \cup {Absent, Torn}
  BY DEF Types, DiskOK, ContentOf
<1> QED
  BY <1>1 DEF Types, MemoryOK, SaveOK, CountsOK, SettledOK, TypeOK, Plans

(***************************************************************************)
(* Contents of queues: adding, restricting and changing a group.           *)
(***************************************************************************)
LEMMA QueueContentsIs ==
    \A q : q \in QueueContents <=>
             /\ q = [g \in DOMAIN q |-> q[g]] /\ DOMAIN q \subseteq Groups
             /\ \A g \in DOMAIN q : q[g] \in FileStates
  BY DEF QueueContents

LEMMA NoGroupsContents == NoGroups \in QueueContents /\ DOMAIN NoGroups = {}
  BY DEF QueueContents, NoGroups

LEMMA EmptyQueue == \A q \in QueueContents : q = NoGroups <=> DOMAIN q = {}
<1> SUFFICES ASSUME NEW q \in QueueContents, DOMAIN q = {} PROVE q = NoGroups
  BY NoGroupsContents
<1>1. q = [g \in DOMAIN q |-> q[g]]
  BY QueueContentsIs
<1> QED BY <1>1 DEF NoGroups

LEMMA FunctionsAreContents ==
    ASSUME NEW G \in SUBSET Groups, NEW f \in [G -> FileStates]
    PROVE  f \in QueueContents /\ DOMAIN f = G
  BY DEF QueueContents

LEMMA RestrictContents ==
    ASSUME NEW q \in QueueContents, NEW S \in SUBSET DOMAIN q
    PROVE  Restrict(q, S) \in QueueContents /\ DOMAIN Restrict(q, S) = S
           /\ \A g \in S : Restrict(q, S)[g] = q[g]
<1>1. DOMAIN q \subseteq Groups /\ \A g \in DOMAIN q : q[g] \in FileStates
  BY QueueContentsIs
<1>2. Restrict(q, S) \in [S -> FileStates]
  BY <1>1 DEF Restrict
<1> QED BY <1>1, <1>2, FunctionsAreContents DEF Restrict

LEMMA WantedContents ==
    ASSUME MemoryOK, NEW k \in Files
    PROVE  Wanted(k) \in ContentOf(k) /\ Wanted(k) # Torn
<1>1. Restrict(queue, changed) \in QueueContents
  BY RestrictContents DEF MemoryOK
<1>2. CASE k = "queue"
  BY <1>2, MarkersAssumption DEF Wanted, ContentOf, MemoryOK, MarkersAssumption
<1>3. CASE k = "history"
  BY <1>3, MarkersAssumption DEF Wanted, ContentOf, MemoryOK, MarkersAssumption
<1>4. CASE k = "progress"
  BY <1>1, <1>4, MarkersAssumption DEF Wanted, ContentOf, MemoryOK, MarkersAssumption
<1> QED BY <1>2, <1>3, <1>4 DEF Files

LEMMA ContentOfIsContent ==
    ASSUME NEW k \in Files, NEW c \in ContentOf(k)
    PROVE  c \in Content
<1> DEFINE H == SUBSET Groups
           Q == QueueContents
<1>0. Content = Q \cup H \cup {Absent, Torn}
  BY DEF Content
<1>1. CASE k = "history"
  <2>1. ContentOf(k) = H \cup {Absent, Torn}
    BY <1>1 DEF ContentOf
  <2> HIDE DEF H, Q
  <2> QED BY <1>0, <2>1
<1>2. CASE k # "history"
  <2>1. ContentOf(k) = Q \cup {Absent, Torn}
    BY <1>2 DEF ContentOf
  <2> HIDE DEF H, Q
  <2> QED BY <1>0, <2>1
<1> QED BY <1>1, <1>2
(***************************************************************************)
(* What one operation on the files does to each of them.                   *)
(***************************************************************************)
LEMMA DiskSet ==
    ASSUME DiskOK, NEW k \in Files, NEW d \in ContentOf(k), NEW t \in ContentOf(k),
           NEW D, D = [disk EXCEPT ![k] = [dest |-> d, temp |-> t]]
    PROVE  /\ D \in [Files -> [dest : Content, temp : Content]]
           /\ \A j \in Files : D[j].dest \in ContentOf(j) /\ D[j].temp \in ContentOf(j)
<1>1. d \in Content /\ t \in Content
  BY ContentOfIsContent
<1>2. D \in [Files -> [dest : Content, temp : Content]]
  BY <1>1 DEF DiskOK
<1>3. ASSUME NEW j \in Files
      PROVE  D[j].dest \in ContentOf(j) /\ D[j].temp \in ContentOf(j)
  <2>1. CASE j = k
    BY <2>1 DEF DiskOK
  <2>2. CASE j # k
    BY <2>2 DEF DiskOK
  <2> QED BY <2>1, <2>2
<1> QED BY <1>2, <1>3

(***************************************************************************)
(* The steps that only write to the files.                                 *)
(***************************************************************************)
FileWrites(k, d, t) == disk' = [disk EXCEPT ![k] = [dest |-> d, temp |-> t]]

LEMMA WriteIs ==
    ASSUME Types, NEW k \in Files
    PROVE  /\ BeginWrite(k) => FileWrites(k, disk[k].dest, Torn)
           /\ WriteContent(k) => FileWrites(k, disk[k].dest, Wanted(k))
           /\ DeleteOld(k) => FileWrites(k, Absent, disk[k].temp)
           /\ RenameNew(k) => FileWrites(k, disk[k].temp, Absent)
           /\ Discard(k) => FileWrites(k, Absent, disk[k].temp)
<1> USE DEF Types, DiskOK, FileWrites
<1>0. disk[k] \in [dest : Content, temp : Content]
  OBVIOUS
<1>1. \A c : [disk[k] EXCEPT !.temp = c] = [dest |-> disk[k].dest, temp |-> c]
  BY <1>0
<1>2. \A c : [disk[k] EXCEPT !.dest = c] = [dest |-> c, temp |-> disk[k].temp]
  BY <1>0
<1>3. BeginWrite(k) => FileWrites(k, disk[k].dest, Torn)
  BY <1>1 DEF BeginWrite
<1>4. WriteContent(k) => FileWrites(k, disk[k].dest, Wanted(k))
  BY <1>1 DEF WriteContent
<1>5. DeleteOld(k) => FileWrites(k, Absent, disk[k].temp)
  BY <1>2 DEF DeleteOld
<1>6. RenameNew(k) => FileWrites(k, disk[k].temp, Absent)
  BY DEF RenameNew
<1>7. Discard(k) => FileWrites(k, Absent, disk[k].temp)
  BY <1>2 DEF Discard
<1> QED BY <1>3, <1>4, <1>5, <1>6, <1>7

LEMMA FileWritesOK ==
    ASSUME DiskOK, NEW k \in Files, NEW d \in ContentOf(k), NEW t \in ContentOf(k),
           FileWrites(k, d, t)
    PROVE  /\ DiskOK'
           /\ disk'[k].dest = d /\ disk'[k].temp = t
           /\ \A j \in Files : j # k => disk'[j] = disk[j]
<1>1. DiskOK'
  BY DiskSet DEF FileWrites, DiskOK
<1> QED BY <1>1 DEF FileWrites, DiskOK

LEMMA MarkersContent == \A k : Absent \in ContentOf(k) /\ Torn \in ContentOf(k)
  BY DEF ContentOf

(***************************************************************************)
(* A save that goes on or ends.                                            *)
(***************************************************************************)
LEMMA ContinueOK ==
    ASSUME Types, plan # <<>>, NEW rest \in {<<>>, Tail(plan)}, Continue(rest),
           UNCHANGED <<up, queue, history>>
    PROVE  MemoryOK' /\ SaveOK' /\ SettledOK'
<1> USE DEF Types
<1>1. rest \in Plans
  BY PlanFacts DEF SaveOK, Plans
<1>2. CASE rest # <<>>
  <2>1. UNCHANGED <<saving, changed, historyChanged, settled>> /\ plan' = rest /\ step' = "begin"
    BY <1>2 DEF Continue
  <2>2. saving # "SaveChanged"
    BY <1>2 DEF SaveOK
  <2> QED BY <1>1, <1>2, <2>1, <2>2 DEF MemoryOK, SaveOK, SettledOK
<1>3. CASE rest = <<>>
  <2>1. /\ plan' = <<>> /\ step' = "begin" /\ saving' = "no"
        /\ changed' = IF saving = "Save" THEN {} ELSE changed
        /\ historyChanged' = IF saving = "Save" THEN FALSE ELSE historyChanged
        /\ settled' = Places(queue, history)
    BY <1>3 DEF Continue
  <2>2. SettledOK'
    BY <2>1 DEF SettledOK, Places
  <2> QED BY <2>1, <2>2 DEF MemoryOK, SaveOK, Plans
<1> QED BY <1>2, <1>3
(***************************************************************************)
(* What LoadDownloadQueue reads has the type of a queue and of a history.  *)
(***************************************************************************)
LEMMA ReadableType == DiskOK => \A k \in Files : Readable(k) \in ContentOf(k)
  BY DEF DiskOK, Readable

LEMMA ReadTypes ==
    ASSUME DiskOK
    PROVE  /\ ReadQueue # Torn => ReadQueue \in QueueContents
           /\ ReadProgress # Torn => ReadProgress \in QueueContents
           /\ ReadHistory # Torn => ReadHistory \subseteq Groups
<1> DEFINE H == SUBSET Groups
           Q == QueueContents
<1>1. Readable("queue") \in Q \cup {Absent, Torn}
  BY ReadableType DEF ContentOf, Files
<1>2. Readable("progress") \in Q \cup {Absent, Torn}
  BY ReadableType DEF ContentOf, Files
<1>3. Readable("history") \in H \cup {Absent, Torn}
  BY ReadableType DEF ContentOf, Files
<1>4. NoGroups \in Q /\ {} \in H
  BY NoGroupsContents
<1>5. ReadHistory # Torn => ReadHistory \in H
  <2> HIDE DEF H
  <2> QED BY <1>3, <1>4 DEF ReadHistory
<1>6. ReadQueue # Torn => ReadQueue \in Q
  <2> HIDE DEF Q
  <2> QED BY <1>1, <1>4 DEF ReadQueue
<1>7. ReadProgress # Torn => ReadProgress \in Q
  <2> HIDE DEF Q
  <2> QED BY <1>2, <1>4 DEF ReadProgress
<1> QED BY <1>5, <1>6, <1>7

LEMMA LoadAllFileInfosType ==
    ASSUME NEW q \in QueueContents
    PROVE  LoadAllFileInfos(q) \in QueueContents /\ DOMAIN LoadAllFileInfos(q) = DOMAIN q
<1>1. DOMAIN q \subseteq Groups /\ \A g \in DOMAIN q : q[g] \in FileStates
  BY QueueContentsIs
<1>2. LoadAllFileInfos(q) \in [DOMAIN q -> FileStates]
  BY <1>1 DEF LoadAllFileInfos, FileStates
<1> QED BY <1>1, <1>2, FunctionsAreContents

Overlaid ==
    [g \in DOMAIN ReadQueue |->
        IF g \in DOMAIN ReadProgress THEN ReadProgress[g] ELSE ReadQueue[g]]

LEMMA OverlaidType ==
    ASSUME DiskOK, ReadQueue # Torn, ProgressFits
    PROVE  Overlaid \in QueueContents /\ DOMAIN Overlaid = DOMAIN ReadQueue
<1>1. ReadQueue \in QueueContents /\ ReadProgress \in QueueContents
  BY ReadTypes DEF ProgressFits
<1>2. /\ DOMAIN ReadQueue \subseteq Groups /\ \A g \in DOMAIN ReadQueue : ReadQueue[g] \in FileStates
      /\ \A g \in DOMAIN ReadProgress : ReadProgress[g] \in FileStates
  BY <1>1, QueueContentsIs
<1>3. Overlaid \in [DOMAIN ReadQueue -> FileStates]
  BY <1>2 DEF Overlaid
<1> QED BY <1>2, <1>3, FunctionsAreContents

(***************************************************************************)
(* The ways LoadDownloadQueue may end.                                     *)
(***************************************************************************)
LEMMA RecoveredCases ==
    /\ ~DownloadQueueExists
       => Recovered = [ok |-> TRUE, queue |-> NoGroups, history |-> {}]
    /\ DownloadQueueExists /\ ReadQueue = Torn
       => Recovered = [ok |-> FALSE, queue |-> NoGroups, history |-> {}]
    /\ DownloadQueueExists /\ ReadQueue # Torn /\ ~ProgressFits
       => Recovered = [ok |-> FALSE, queue |-> ReadQueue, history |-> {}]
    /\ DownloadQueueExists /\ ReadQueue # Torn /\ ProgressFits /\ ReadHistory = Torn
       => Recovered = [ok |-> FALSE, queue |-> Overlaid, history |-> {}]
    /\ DownloadQueueExists /\ ReadQueue # Torn /\ ProgressFits /\ ReadHistory # Torn
       => Recovered = [ok |-> TRUE, queue |-> LoadAllFileInfos(Overlaid), history |-> ReadHistory]
<1> DEFINE E == DownloadQueueExists
           T == ReadQueue = Torn
           P == ProgressFits
<1>1. CASE ~E
  BY <1>1 DEF Recovered
<1>2. CASE E /\ T
  BY <1>2 DEF Recovered
<1>3. CASE E /\ ~T /\ ~P
  BY <1>3 DEF Recovered
<1>4. CASE E /\ ~T /\ P
  BY <1>4 DEF Recovered, Overlaid
<1> QED BY <1>1, <1>2, <1>3, <1>4

LEMMA RecoveredType ==
    ASSUME DiskOK
    PROVE  Recovered.queue \in QueueContents /\ Recovered.history \subseteq Groups
<1>1. CASE ~DownloadQueueExists
  BY <1>1, RecoveredCases, NoGroupsContents
<1>2. CASE DownloadQueueExists /\ ReadQueue = Torn
  BY <1>2, RecoveredCases, NoGroupsContents
<1>3. CASE DownloadQueueExists /\ ReadQueue # Torn /\ ~ProgressFits
  BY <1>3, RecoveredCases, ReadTypes
<1>4. CASE DownloadQueueExists /\ ReadQueue # Torn /\ ProgressFits /\ ReadHistory = Torn
  BY <1>4, RecoveredCases, OverlaidType
<1>5. CASE DownloadQueueExists /\ ReadQueue # Torn /\ ProgressFits /\ ReadHistory # Torn
  <2>1. LoadAllFileInfos(Overlaid) \in QueueContents
    BY <1>5, OverlaidType, LoadAllFileInfosType
  <2>2. Recovered = [ok |-> TRUE, queue |-> LoadAllFileInfos(Overlaid), history |-> ReadHistory]
    BY <1>5, RecoveredCases
  <2> QED BY <1>5, <2>1, <2>2, ReadTypes
<1> QED BY <1>1, <1>2, <1>3, <1>4, <1>5
-----------------------------------------------------------------------------
(* Every step keeps the types. *)

LEMMA InitTypes == Init => Types
<1> SUFFICES ASSUME Init PROVE Types
  OBVIOUS
<1>1. DiskOK
  <2>1. \A k \in Files : disk[k] = [dest |-> Absent, temp |-> Absent]
    BY DEF Init
  <2>2. [dest |-> Absent, temp |-> Absent] \in [dest : Content, temp : Content]
    BY DEF Content
  <2> QED BY <2>1, <2>2, MarkersContent DEF Init, DiskOK
<1>2. MemoryOK
  BY NoGroupsContents DEF Init, MemoryOK
<1>3. SaveOK
  BY DEF Init, SaveOK, Plans
<1>4. CountsOK
  BY BoundsAssumption DEF Init, CountsOK, BoundsAssumption
<1>5. SettledOK /\ DownOK
  BY NoGroupsContents DEF Init, SettledOK, Places, DownOK
<1> QED BY <1>1, <1>2, <1>3, <1>4, <1>5 DEF Types

LEMMA AddedContents ==
    ASSUME NEW q \in QueueContents, NEW g \in Groups, NEW s \in FileStates
    PROVE  LET r == [x \in DOMAIN q \cup {g} |-> IF x = g THEN s ELSE q[x]]
           IN  r \in QueueContents /\ DOMAIN r = DOMAIN q \cup {g}
<1> DEFINE r == [x \in DOMAIN q \cup {g} |-> IF x = g THEN s ELSE q[x]]
<1>1. DOMAIN q \subseteq Groups /\ \A x \in DOMAIN q : q[x] \in FileStates
  BY QueueContentsIs
<1>2. r \in [DOMAIN q \cup {g} -> FileStates]
  BY <1>1
<1>3. DOMAIN q \cup {g} \subseteq Groups
  BY <1>1
<1> HIDE DEF r
<1>4. r \in QueueContents /\ DOMAIN r = DOMAIN q \cup {g}
  BY <1>2, <1>3, FunctionsAreContents
<1> QED BY <1>4 DEF r

LEMMA ChangedContents ==
    ASSUME NEW q \in QueueContents, NEW g \in DOMAIN q, NEW s \in FileStates
    PROVE  [q EXCEPT ![g] = s] \in QueueContents /\ DOMAIN [q EXCEPT ![g] = s] = DOMAIN q
<1>1. DOMAIN q \subseteq Groups /\ q \in [DOMAIN q -> FileStates]
  BY QueueContentsIs
<1>2. [q EXCEPT ![g] = s] \in [DOMAIN q -> FileStates]
  BY <1>1
<1> QED BY <1>1, <1>2, FunctionsAreContents

(***************************************************************************)
(* A save begins; a group is moved.                                        *)
(***************************************************************************)
LEMMA SaveBegins ==
    ASSUME (\E w \in BOOLEAN : Save(w)) \/ Save(historyChanged) \/ SaveChanged
    PROVE  SaveOK'
  BY DEF Save, SaveChanged, SaveOK, Plans

LEMMA MovesOK ==
    ASSUME SettledOK, NEW g, Moves(g)
    PROVE  /\ SettledOK' /\ DOMAIN settled' = DOMAIN settled \ {g}
           /\ \A h \in DOMAIN settled' : settled'[h] = settled[h]
  BY DEF SettledOK, Moves, Restrict

LEMMA GroupTypes ==
    ASSUME Types, NEW g \in Groups,
           \/ ParseNzb(g) \/ AddNzbFileToQueue(g) \/ FileCompleted(g) \/ AddToHistory(g)
           \/ HistoryReturn(g) \/ HistoryDelete(g) \/ DeleteGroup(g)
    PROVE  Types'
<1> USE DEF Types
<1>0. "queued" \in FileStates /\ "done" \in FileStates
  BY DEF FileStates
<1>00. DownOK'
  <2>1. up /\ up' = up
    BY DEF Idle, ParseNzb, AddNzbFileToQueue, FileCompleted, AddToHistory, HistoryReturn,
           HistoryDelete, DeleteGroup
  <2> QED BY <2>1 DEF DownOK
<1>1. CASE ParseNzb(g)
  BY <1>00, <1>1 DEF ParseNzb, memory, DiskOK, MemoryOK, SaveOK, CountsOK, SettledOK
<1>2. CASE AddNzbFileToQueue(g)
  <2>1. queue' \in QueueContents /\ DOMAIN queue' = DOMAIN queue \cup {g}
    BY <1>0, <1>2, AddedContents DEF AddNzbFileToQueue, MemoryOK
  <2>2. SaveOK'
    BY <1>2, SaveBegins DEF AddNzbFileToQueue
  <2>3. UNCHANGED <<up, history, changed, historyChanged, disk, data, crashes, faults, failed, settled>>
    BY <1>2 DEF AddNzbFileToQueue
  <2> QED BY <1>00, <2>1, <2>2, <2>3 DEF DiskOK, MemoryOK, CountsOK, SettledOK
<1>3. CASE FileCompleted(g)
  <2>1. queue' \in QueueContents /\ DOMAIN queue' = DOMAIN queue
    BY <1>0, <1>3, ChangedContents DEF FileCompleted, MemoryOK
  <2>2. SaveOK'
    BY <1>3, SaveBegins DEF FileCompleted
  <2>3. /\ data' = data \ {g} /\ changed' = changed \cup {g} /\ g \in DOMAIN queue
        /\ UNCHANGED <<up, history, historyChanged, disk, crashes, faults, failed, settled>>
    BY <1>3 DEF FileCompleted
  <2> QED BY <1>00, <2>1, <2>2, <2>3 DEF DiskOK, MemoryOK, CountsOK, SettledOK
<1>4. CASE AddToHistory(g)
  <2>1. queue' \in QueueContents /\ DOMAIN queue' = DOMAIN queue \ {g}
    BY <1>4, RestrictContents DEF AddToHistory, MemoryOK
  <2>2. SaveOK' /\ SettledOK'
    BY <1>4, SaveBegins, MovesOK DEF AddToHistory
  <2>3. /\ changed' = changed \ {g} /\ history' = history \cup {g} /\ historyChanged' = TRUE
        /\ UNCHANGED <<up, disk, data, crashes, faults, failed>>
    BY <1>4 DEF AddToHistory, LeavesChanged
  <2> QED BY <1>00, <2>1, <2>2, <2>3 DEF DiskOK, MemoryOK, CountsOK
<1>5. CASE HistoryReturn(g)
  <2>1. queue' \in QueueContents /\ DOMAIN queue' = DOMAIN queue \cup {g}
    BY <1>0, <1>5, AddedContents DEF HistoryReturn, MemoryOK
  <2>2. SaveOK' /\ SettledOK'
    BY <1>5, SaveBegins, MovesOK DEF HistoryReturn
  <2>3. /\ history' = history \ {g} /\ historyChanged' = TRUE
        /\ UNCHANGED <<up, changed, disk, data, crashes, faults, failed>>
    BY <1>5 DEF HistoryReturn
  <2> QED BY <1>00, <2>1, <2>2, <2>3 DEF DiskOK, MemoryOK, CountsOK
<1>6. CASE HistoryDelete(g)
  <2>2. SaveOK' /\ SettledOK'
    BY <1>6, SaveBegins, MovesOK DEF HistoryDelete
  <2>3. /\ history' = history \ {g} /\ historyChanged' = TRUE /\ data' = data \ {g}
        /\ UNCHANGED <<up, queue, changed, disk, crashes, faults, failed>>
    BY <1>6 DEF HistoryDelete
  <2> QED BY <1>00, <2>2, <2>3 DEF DiskOK, MemoryOK, CountsOK
<1>7. CASE DeleteGroup(g)
  <2>1. queue' \in QueueContents /\ DOMAIN queue' = DOMAIN queue \ {g}
    BY <1>7, RestrictContents DEF DeleteGroup, MemoryOK
  <2>2. SaveOK' /\ SettledOK'
    BY <1>7, SaveBegins, MovesOK DEF DeleteGroup
  <2>3. /\ changed' = changed \ {g} /\ data' = data \ {g}
        /\ UNCHANGED <<up, history, historyChanged, disk, crashes, faults, failed>>
    BY <1>7 DEF DeleteGroup, LeavesChanged
  <2> QED BY <1>00, <2>1, <2>2, <2>3 DEF DiskOK, MemoryOK, CountsOK
<1> QED BY <1>1, <1>2, <1>3, <1>4, <1>5, <1>6, <1>7
FileStep(k) ==
    \/ BeginWrite(k) \/ OpenFails(k) \/ WriteContent(k) \/ DeleteOld(k)
    \/ RenameNew(k) \/ RenameFails(k) \/ Discard(k)

LEMMA FileTypes ==
    ASSUME Types, NEW k \in Files, FileStep(k)
    PROVE  Types'
<1> USE DEF Types
<1>0. /\ \A c \in {Absent, Torn, disk[k].dest, disk[k].temp} : c \in ContentOf(k)
      /\ Wanted(k) \in ContentOf(k)
  BY WantedContents, MarkersContent DEF DiskOK
<1>00. plan # <<>> /\ DownOK'
  BY DEF DownOK, FileStep, Writing, BeginWrite, OpenFails, WriteContent, DeleteOld, RenameNew, RenameFails, Discard
<1>1. CASE BeginWrite(k) \/ WriteContent(k) \/ DeleteOld(k)
  <2>1. DiskOK'
    BY <1>0, <1>1, WriteIs, FileWritesOK
  <2>2. /\ UNCHANGED <<up, memory, plan, saving, data, crashes, faults, failed, settled>>
        /\ step' \in {"write", "delete", "rename"}
    BY <1>1 DEF BeginWrite, WriteContent, DeleteOld
  <2> QED BY <1>00, <2>1, <2>2 DEF memory, MemoryOK, SaveOK, CountsOK, SettledOK
<1>2. CASE OpenFails(k)
  <2>1. MemoryOK' /\ SaveOK' /\ SettledOK'
    BY <1>00, <1>2, ContinueOK DEF OpenFails, FileStep
  <2>2. Range(plan) \subseteq Files
    BY <1>00, <1>2, PlanFacts DEF SaveOK, FileStep
  <2>3. faults' \in 0 .. MaxFaults
    BY <1>2, BoundsAssumption DEF OpenFails, CountsOK, BoundsAssumption
  <2> QED BY <1>00, <1>2, <2>1, <2>2, <2>3 DEF OpenFails, DiskOK, CountsOK
<1>3. CASE RenameFails(k)
  <2>1. MemoryOK' /\ SaveOK' /\ SettledOK'
    BY <1>00, <1>3, ContinueOK DEF RenameFails, FileStep
  <2>3. faults' \in 0 .. MaxFaults
    BY <1>3, BoundsAssumption DEF RenameFails, CountsOK, BoundsAssumption
  <2> QED BY <1>00, <1>3, <2>1, <2>3 DEF RenameFails, DiskOK, CountsOK
<1>4. CASE RenameNew(k) \/ Discard(k)
  <2>1. DiskOK'
    BY <1>0, <1>4, WriteIs, FileWritesOK
  <2>2. MemoryOK' /\ SaveOK' /\ SettledOK'
    BY <1>00, <1>4, ContinueOK DEF RenameNew, Discard, FileStep
  <2>3. failed' = failed \ {k} /\ UNCHANGED <<data, crashes, faults>>
    BY <1>4 DEF RenameNew, Discard
  <2> QED BY <1>00, <2>1, <2>2, <2>3 DEF CountsOK
<1> QED BY <1>1, <1>2, <1>3, <1>4 DEF FileStep

(***************************************************************************)
(* BeginRead gives back what was readable, and leaves no new file.         *)
(***************************************************************************)
LEMMA RestoredIs ==
    ASSUME DiskOK, NEW k \in Files
    PROVE  /\ Restored(k) \in [dest : Content, temp : Content]
           /\ Restored(k).dest = Readable(k)
           /\ Restored(k).temp \in {Absent, disk[k].temp}
           /\ Restored(k).dest = Absent => Restored(k).temp = Absent
           /\ disk[k].temp = Absent => Restored(k) = disk[k]
<1>1. disk[k] \in [dest : Content, temp : Content]
  BY DEF DiskOK
<1>2. Absent \in Content
  BY DEF Content
<1>3. CASE disk[k].dest = Absent
  BY <1>1, <1>2, <1>3 DEF Restored, Readable
<1>4. CASE disk[k].dest # Absent
  BY <1>1, <1>2, <1>4 DEF Restored, Readable
<1> QED BY <1>3, <1>4

LEMMA LoadTypes ==
    ASSUME Types, Load
    PROVE  /\ Types'
           /\ \A k \in Files : disk'[k] = disk[k] \/ disk'[k] = Restored(k)
<1> USE DEF Types
<1>1. \A k \in Files : disk'[k] = disk[k] \/ disk'[k] = Restored(k)
  BY DEF Load
<1>2. DiskOK'
  <2>1. DOMAIN disk' = Files /\ disk' = [k \in Files |-> disk'[k]]
    BY DEF Load, DiskOK
  <2>2. ASSUME NEW k \in Files
        PROVE  /\ disk'[k] \in [dest : Content, temp : Content]
               /\ disk'[k].dest \in ContentOf(k) /\ disk'[k].temp \in ContentOf(k)
    BY <1>1, <2>2, RestoredIs, ReadableType, MarkersContent DEF DiskOK
  <2> QED BY <2>1, <2>2 DEF DiskOK
<1>3. /\ up' = TRUE /\ ~up
      /\ queue' = Recovered.queue /\ history' = Recovered.history
      /\ settled' = Places(Recovered.queue, Recovered.history)
      /\ data' \subseteq data
      /\ UNCHANGED <<changed, historyChanged, plan, saving, step, crashes, faults, failed>>
  BY DEF Load, DiscardDownloadQueue, CleanupQueueDir
<1>4. MemoryOK' /\ SaveOK' /\ CountsOK' /\ DownOK'
  BY <1>3, RecoveredType DEF MemoryOK, SaveOK, CountsOK, DownOK
<1>5. SettledOK'
  BY <1>3 DEF SettledOK, Places
<1> QED
  BY <1>1, <1>2, <1>4, <1>5
LEMMA StopTypes ==
    ASSUME Types, Crash \/ Shutdown \/ SaveQueueIfChanged
    PROVE  Types'
<1> USE DEF Types
<1>1. CASE Crash \/ Shutdown
  <2>1. /\ up' = FALSE /\ queue' = NoGroups /\ history' = {} /\ changed' = {} /\ historyChanged' = FALSE
        /\ plan' = <<>> /\ saving' = "no" /\ step' = "begin"
        /\ UNCHANGED <<disk, data, faults, failed, settled>>
    BY <1>1 DEF Crash, Shutdown, Forget
  <2>2. MemoryOK' /\ SaveOK' /\ DownOK' /\ DiskOK' /\ SettledOK'
    BY <2>1, NoGroupsContents DEF MemoryOK, SaveOK, DownOK, DiskOK, SettledOK, Plans
  <2>3. crashes' \in 0 .. MaxCrashes
    BY <1>1, BoundsAssumption DEF Crash, Shutdown, CountsOK, BoundsAssumption
  <2> QED BY <2>1, <2>2, <2>3 DEF CountsOK
<1>2. CASE SaveQueueIfChanged
  <2>1. SaveOK' /\ DownOK'
    BY <1>2, SaveBegins DEF SaveQueueIfChanged, Idle, DownOK, memory
  <2> QED BY <1>2, <2>1 DEF SaveQueueIfChanged, memory, DiskOK, MemoryOK, CountsOK, SettledOK
<1> QED BY <1>1, <1>2

GroupStep(g) ==
    \/ ParseNzb(g) \/ AddNzbFileToQueue(g) \/ FileCompleted(g) \/ AddToHistory(g)
    \/ HistoryReturn(g) \/ HistoryDelete(g) \/ DeleteGroup(g)

LEMMA NextIs ==
    [Next]_vars => \/ \E g \in Groups : GroupStep(g)
                   \/ \E k \in Files : FileStep(k)
                   \/ SaveQueueIfChanged \/ Crash \/ Shutdown \/ Load \/ UNCHANGED vars
  BY DEF Next, GroupStep, FileStep

LEMMA TypesStep == Types /\ [Next]_vars => Types'
<1> SUFFICES ASSUME Types, [Next]_vars PROVE Types'
  OBVIOUS
<1>1. CASE UNCHANGED vars
  BY <1>1 DEF vars, memory, Types, DiskOK, MemoryOK, SaveOK, CountsOK, SettledOK, DownOK
<1> QED
  BY <1>1, NextIs, GroupTypes, FileTypes, LoadTypes, StopTypes DEF GroupStep

-----------------------------------------------------------------------------
(* The refinement of StateStore. *)

(***************************************************************************)
(* What the file being written looks like: torn, then complete beside the  *)
(* old one, then alone.                                                    *)
(***************************************************************************)
WriteInv ==
    plan # <<>> =>
        LET k == Head(plan)
        IN  /\ step = "write" => disk[k].temp = Torn
            /\ step \in {"delete", "rename"} => disk[k].temp = Wanted(k)
            /\ step = "rename" => disk[k].dest = Absent
            /\ step # "begin" => Wanted(k) # Absent

LEMMA WriteInvStep == Types /\ WriteInv /\ [Next]_vars => WriteInv'
<1> SUFFICES ASSUME Types, WriteInv, [Next]_vars PROVE WriteInv'
  OBVIOUS
<1>0. Types'
  BY TypesStep
<1>1. ASSUME plan' = <<>> \/ step' = "begin" PROVE WriteInv'
  BY <1>1 DEF WriteInv
<1>2. ASSUME NEW g \in Groups, GroupStep(g) PROVE WriteInv'
  <2>1. CASE ParseNzb(g)
    BY <1>1, <2>1 DEF ParseNzb, Idle, Types, SaveOK
  <2>2. CASE ~ParseNzb(g)
    BY <1>1, <1>2, <2>2 DEF GroupStep, AddNzbFileToQueue, FileCompleted, AddToHistory, HistoryReturn,
       HistoryDelete, DeleteGroup, Save, SaveChanged
  <2> QED BY <2>1, <2>2
<1>3. ASSUME NEW k \in Files, FileStep(k) PROVE WriteInv'
  <2>0. /\ k = Head(plan) /\ plan # <<>>
        /\ \A c \in {Absent, Torn, disk[k].dest, disk[k].temp} : c \in ContentOf(k)
        /\ Wanted(k) \in ContentOf(k)
    BY <1>3, WantedContents, MarkersContent DEF Types, DiskOK, FileStep, Writing, BeginWrite, OpenFails,
       WriteContent, DeleteOld, RenameNew, RenameFails, Discard
  <2>1. CASE OpenFails(k) \/ RenameFails(k) \/ RenameNew(k) \/ Discard(k)
    BY <1>1, <2>1 DEF OpenFails, RenameFails, RenameNew, Discard, Continue
  <2>2. CASE BeginWrite(k) \/ WriteContent(k) \/ DeleteOld(k)
    <3>1. UNCHANGED <<plan, memory, saving>> /\ Wanted(k)' = Wanted(k)
      BY <2>2 DEF BeginWrite, WriteContent, DeleteOld, memory, Wanted
    <3>2. CASE BeginWrite(k)
      <4>1. disk'[k].temp = Torn
        BY <2>0, <3>2, WriteIs, FileWritesOK DEF Types
      <4>2. step' = "write" /\ Wanted(k) # Absent
        BY <3>2 DEF BeginWrite
      <4> QED BY <2>0, <3>1, <4>1, <4>2 DEF WriteInv
    <3>3. CASE WriteContent(k)
      <4>1. disk'[k].temp = Wanted(k)
        BY <2>0, <3>3, WriteIs, FileWritesOK DEF Types
      <4>2. step' = "delete" /\ step = "write"
        BY <3>3 DEF WriteContent, Writing
      <4> QED BY <2>0, <3>1, <4>1, <4>2 DEF WriteInv
    <3>4. CASE DeleteOld(k)
      <4>1. disk'[k].temp = disk[k].temp /\ disk'[k].dest = Absent
        BY <2>0, <3>4, WriteIs, FileWritesOK DEF Types
      <4>2. step' = "rename" /\ step = "delete"
        BY <3>4 DEF DeleteOld, Writing
      <4> QED BY <2>0, <3>1, <4>1, <4>2 DEF WriteInv
    <3> QED BY <2>2, <3>2, <3>3, <3>4
  <2> QED BY <1>3, <2>1, <2>2 DEF FileStep
<1>4. CASE SaveQueueIfChanged \/ Crash \/ Shutdown
  BY <1>1, <1>4 DEF SaveQueueIfChanged, Save, Crash, Shutdown, Forget
<1>5. CASE Load
  BY <1>1, <1>5 DEF Load, Types, DownOK
<1>6. CASE UNCHANGED vars
  BY <1>6 DEF vars, memory, WriteInv, Wanted
<1> QED BY <1>2, <1>3, <1>4, <1>5, <1>6, NextIs
(***************************************************************************)
(* What a step does to one file, as StateStore allows it.                  *)
(***************************************************************************)
StoreStep(k) ==
    \/ Readable(k)' = Readable(k)
    \/ /\ ~Stale(k) /\ ~Stale(k)' /\ Wanted(k)' = Wanted(k)
       /\ Readable(k)' = Wanted(k) \/ (Readable(k) = Absent /\ Readable(k)' = Torn)
    \/ Stale(k)

LEMMA DiscardKeepsWanted ==
    ASSUME Types, NEW k \in Files, Discard(k)
    PROVE  Wanted(k)' = Wanted(k)
<1>1. /\ Wanted(k) = Absent /\ Continue(Tail(plan)) /\ UNCHANGED <<queue, history>>
      /\ k = Head(plan) /\ plan # <<>>
  BY DEF Discard, Writing
<1>2. CASE k = "queue" \/ k = "history"
  BY <1>1, <1>2 DEF Wanted
<1>3. CASE k = "progress"
  <2>1. Restrict(queue, changed) # Absent
    BY RestrictContents, MarkersAssumption DEF Types, MemoryOK, MarkersAssumption
  <2>2. saving = "Save" \/ changed = {}
    BY <1>1, <1>3, <2>1 DEF Wanted
  <2>3. CASE Tail(plan) = <<>>
    BY <1>1, <1>3, <2>2, <2>3 DEF Continue, Wanted
  <2>4. CASE Tail(plan) # <<>>
    BY <1>1, <1>3, <2>4 DEF Continue, Wanted
  <2> QED BY <2>3, <2>4
<1> QED BY <1>2, <1>3 DEF Files

LEMMA WritingNotStale ==
    ASSUME Types, NEW k \in Files, WriteContent(k) \/ DeleteOld(k) \/ BeginWrite(k)
    PROVE  ~Stale(k)' /\ Wanted(k)' = Wanted(k)
<1>1. /\ up /\ plan # <<>> /\ k = Head(plan) /\ step' # "begin"
      /\ UNCHANGED <<up, memory, plan, saving>>
  BY DEF WriteContent, DeleteOld, BeginWrite, Writing
<1> QED BY <1>1 DEF Stale, Wanted, memory

LEMMA FileStoreStep ==
    ASSUME Types, WriteInv, NEW j \in Files, FileStep(j), NEW k \in Files
    PROVE  StoreStep(k)
<1>0. /\ \A c \in {Absent, Torn, disk[j].dest, disk[j].temp} : c \in ContentOf(j)
      /\ Wanted(j) \in ContentOf(j)
  BY WantedContents, MarkersContent DEF Types, DiskOK
<1>1. CASE OpenFails(j) \/ RenameFails(j)
  BY <1>1 DEF OpenFails, RenameFails, StoreStep, Readable
<1>2. CASE BeginWrite(j)
  <2>1. /\ disk'[j].dest = disk[j].dest /\ disk'[j].temp = Torn
        /\ \A i \in Files : i # j => disk'[i] = disk[i]
    BY <1>0, <1>2, WriteIs, FileWritesOK DEF Types
  <2>2. CASE k # j
    BY <2>1, <2>2 DEF StoreStep, Readable
  <2>3. CASE k = j
    <3>1. ~Stale(k)' /\ Wanted(k)' = Wanted(k) /\ step = "begin"
      BY <1>2, <2>3, WritingNotStale DEF BeginWrite, Writing
    <3>2. CASE disk[k].dest # Absent
      BY <2>1, <2>3, <3>2 DEF StoreStep, Readable
    <3>3. CASE disk[k].dest = Absent /\ disk[k].temp # Absent
      BY <3>1, <3>3 DEF StoreStep, Stale
    <3>4. CASE disk[k].dest = Absent /\ disk[k].temp = Absent
      <4>1. Readable(k) = Absent /\ Readable(k)' = Torn /\ ~Stale(k)
        BY <2>1, <2>3, <3>4 DEF Readable, Stale
      <4> QED BY <3>1, <4>1 DEF StoreStep
    <3> QED BY <3>2, <3>3, <3>4
  <2> QED BY <2>2, <2>3
<1>3. CASE WriteContent(j) \/ DeleteOld(j)
  <2>0. Writing(j, "write") \/ Writing(j, "delete")
    BY <1>3 DEF WriteContent, DeleteOld
  <2>1. /\ \/ WriteContent(j) /\ disk'[j].dest = disk[j].dest /\ disk'[j].temp = Wanted(j)
           \/ DeleteOld(j) /\ disk'[j].dest = Absent /\ disk'[j].temp = disk[j].temp
        /\ \A i \in Files : i # j => disk'[i] = disk[i]
    BY <1>0, <1>3, WriteIs, FileWritesOK DEF Types
  <2>2. CASE k # j
    BY <2>1, <2>2 DEF StoreStep, Readable
  <2>3. CASE k = j
    <3>1. ~Stale(k)' /\ Wanted(k)' = Wanted(k)
      BY <1>3, <2>3, WritingNotStale
    <3>2. ~Stale(k)
      BY <2>0, <2>3 DEF Stale, Writing
    <3>3. DeleteOld(j) => disk[k].temp = Wanted(k)
      BY <2>3 DEF WriteInv, DeleteOld, Writing
    <3>4. Readable(k)' = Readable(k) \/ Readable(k)' = Wanted(k)
      BY <2>1, <2>3, <3>3 DEF Readable
    <3> QED BY <3>1, <3>2, <3>4 DEF StoreStep
  <2> QED BY <2>2, <2>3
<1>4. CASE RenameNew(j)
  <2>1. /\ disk'[j].dest = disk[j].temp /\ disk'[j].temp = Absent
        /\ \A i \in Files : i # j => disk'[i] = disk[i]
    BY <1>0, <1>4, WriteIs, FileWritesOK DEF Types
  <2>2. disk[j].dest = Absent
    BY <1>4 DEF WriteInv, RenameNew, Writing
  <2>3. Readable(k)' = Readable(k)
    BY <2>1, <2>2 DEF Readable
  <2> QED BY <2>3 DEF StoreStep
<1>5. CASE Discard(j)
  <2>1. /\ disk'[j].dest = Absent /\ disk'[j].temp = disk[j].temp
        /\ \A i \in Files : i # j => disk'[i] = disk[i]
    BY <1>0, <1>5, WriteIs, FileWritesOK DEF Types
  <2>2. CASE k # j
    BY <2>1, <2>2 DEF StoreStep, Readable
  <2>3. CASE k = j /\ disk[k].temp # Absent
    BY <1>5, <2>3 DEF StoreStep, Stale, Discard, Writing
  <2>4. CASE k = j /\ disk[k].temp = Absent
    <3>1. ~Stale(k) /\ ~Stale(k)' /\ Readable(k)' = Absent
      BY <2>1, <2>4 DEF Stale, Readable
    <3>2. Wanted(k)' = Wanted(k) /\ Wanted(k) = Absent
      BY <1>5, <2>4, DiscardKeepsWanted DEF Discard
    <3> QED BY <3>1, <3>2 DEF StoreStep
  <2> QED BY <2>2, <2>3, <2>4
<1> QED BY <1>1, <1>2, <1>3, <1>4, <1>5 DEF FileStep

LEMMA StoreSteps ==
    ASSUME Types, WriteInv, [Next]_vars, NEW k \in Files
    PROVE  StoreStep(k)
<1>1. ASSUME NEW g \in Groups, GroupStep(g) PROVE disk' = disk
  BY <1>1 DEF GroupStep, ParseNzb, AddNzbFileToQueue, FileCompleted, AddToHistory, HistoryReturn,
              HistoryDelete, DeleteGroup
<1>2. CASE SaveQueueIfChanged \/ Crash \/ Shutdown \/ UNCHANGED vars
  BY <1>2 DEF SaveQueueIfChanged, Crash, Shutdown, vars, StoreStep, Readable
<1>3. CASE Load
  <2>1. disk'[k] = disk[k] \/ disk'[k] = Restored(k)
    BY <1>3, LoadTypes
  <2>2. Restored(k).dest = Readable(k) /\ (Readable(k) = Absent => Restored(k).temp = Absent)
    BY RestoredIs DEF Types
  <2>3. Readable(k)' = Readable(k)
    BY <2>1, <2>2 DEF Readable
  <2> QED BY <2>3 DEF StoreStep
<1>4. disk' = disk => StoreStep(k)
  BY DEF StoreStep, Readable
<1> QED BY <1>1, <1>2, <1>3, <1>4, NextIs, FileStoreStep

LEMMA StoreInit ==
    ASSUME Init, NEW k \in Files
    PROVE  Readable(k) = Absent /\ Wanted(k) = Absent /\ Stale(k) = FALSE
<1>1. Readable(k) = Absent /\ Stale(k) = FALSE
  BY DEF Init, Readable, Stale
<1>2. Wanted(k) = Absent
  BY DEF Init, Wanted, Files
<1> QED BY <1>1, <1>2

(***************************************************************************)
(* Each of the three state files implements StateStore, through crashes    *)
(* and failed operations: what a restart would read from it changes only   *)
(* by becoming what the program wants there, and is torn only while its    *)
(* first copy is being written, unless an interrupted or failed write left *)
(* a stale new file behind (StateFile::BeginWrite, FinishWrite, BeginRead, *)
(* Discard).                                                               *)
(***************************************************************************)
THEOREM StateFilesRefine == Spec => FilesKeepPromise
<1>1. Init => QueueFile!Init /\ HistoryFile!Init /\ ProgressFile!Init
  BY StoreInit DEF QueueFile!Init, HistoryFile!Init, ProgressFile!Init, Files
<1>2. Types /\ WriteInv /\ [Next]_vars => [QueueFile!Next]_(QueueFile!vars)
  <2> SUFFICES ASSUME Types, WriteInv, [Next]_vars PROVE QueueFile!Next
    OBVIOUS
  <2>1. StoreStep("queue")
    BY StoreSteps DEF Files
  <2>2. Stale("queue") \in BOOLEAN /\ Stale("queue")' \in BOOLEAN
    BY DEF Stale
  <2> QED BY <2>1, <2>2 DEF StoreStep, QueueFile!Next, QueueFile!Change, QueueFile!Commit, QueueFile!Tear,
             QueueFile!Unreliable
<1>3. Types /\ WriteInv /\ [Next]_vars => [HistoryFile!Next]_(HistoryFile!vars)
  <2> SUFFICES ASSUME Types, WriteInv, [Next]_vars PROVE HistoryFile!Next
    OBVIOUS
  <2>1. StoreStep("history")
    BY StoreSteps DEF Files
  <2>2. Stale("history") \in BOOLEAN /\ Stale("history")' \in BOOLEAN
    BY DEF Stale
  <2> QED BY <2>1, <2>2 DEF StoreStep, HistoryFile!Next, HistoryFile!Change, HistoryFile!Commit,
             HistoryFile!Tear, HistoryFile!Unreliable
<1>4. Types /\ WriteInv /\ [Next]_vars => [ProgressFile!Next]_(ProgressFile!vars)
  <2> SUFFICES ASSUME Types, WriteInv, [Next]_vars PROVE ProgressFile!Next
    OBVIOUS
  <2>1. StoreStep("progress")
    BY StoreSteps DEF Files
  <2>2. Stale("progress") \in BOOLEAN /\ Stale("progress")' \in BOOLEAN
    BY DEF Stale
  <2> QED BY <2>1, <2>2 DEF StoreStep, ProgressFile!Next, ProgressFile!Change, ProgressFile!Commit,
             ProgressFile!Tear, ProgressFile!Unreliable
<1>5. Init => Types /\ WriteInv
  BY InitTypes DEF Init, WriteInv
<1> QED
  BY <1>1, <1>2, <1>3, <1>4, <1>5, TypesStep, WriteInvStep, PTL
     DEF Spec, FilesKeepPromise, QueueFile!Spec, HistoryFile!Spec, ProgressFile!Spec
-----------------------------------------------------------------------------
(* Before the first crash and the first failed operation. *)

Clean == crashes = 0 /\ faults = 0

(***************************************************************************)
(* The main queue file as SaveChanged leaves it: the groups of the queue,  *)
(* and their state as far as they did not change since.                    *)
(***************************************************************************)
QueueMatches ==
    IF DOMAIN queue = {} THEN disk["queue"].dest = Absent
    ELSE /\ disk["queue"].dest \in QueueContents
         /\ DOMAIN disk["queue"].dest = DOMAIN queue
         /\ \A g \in DOMAIN queue \ changed : disk["queue"].dest[g] = queue[g]

\* The groups in memory are in one list each and have their info files.
MemoryFits ==
    up => /\ DOMAIN queue \cap history = {}
          /\ \A g \in DOMAIN queue : queue[g] = "queued" => g \in data

\* Between two full saves.
RestFits ==
    up /\ saving # "Save" =>
        /\ QueueMatches /\ disk["history"].dest = Wanted("history")
        /\ saving = "no" => disk["progress"].dest = Wanted("progress")

\* During a full save, the files that are already written.
SaveFits ==
    saving = "Save" => \A k \in Files \ Range(plan) : disk[k].dest = Wanted(k)

\* The files of a stopped program.
StoppedFits ==
    ~up => LET q == disk["queue"].dest
               h == disk["history"].dest
           IN  /\ disk["progress"].dest = Absent /\ q # Torn /\ h # Torn
               /\ q # NoGroups /\ h # {}
               /\ q # Absent => \A g \in DOMAIN q : q[g] = "queued" => g \in data
               /\ q # Absent /\ h # Absent => DOMAIN q \cap h = {}

\* A group that is not being moved is where it was, and is found there.
SettledFits ==
    \A g \in DOMAIN settled :
        IF settled[g] = "queue"
        THEN /\ up => g \in DOMAIN queue
             /\ Readable("queue") # Torn => g \in DOMAIN ReadQueue
        ELSE /\ up => g \in history
             /\ Readable("history") # Torn => g \in ReadHistory

NoStale == \A k \in Files : ~Stale(k)

CleanInv ==
    Clean => NoStale /\ MemoryFits /\ RestFits /\ SaveFits /\ StoppedFits /\ SettledFits
CleanOK == NoStale /\ MemoryFits /\ RestFits /\ SaveFits /\ StoppedFits /\ SettledFits

QuietStep(k) ==
    BeginWrite(k) \/ WriteContent(k) \/ DeleteOld(k) \/ RenameNew(k) \/ Discard(k)

LEMMA CleanSteps ==
    ASSUME Types, [Next]_vars, Clean'
    PROVE  /\ Clean
           /\ \/ \E g \in Groups : GroupStep(g)
              \/ \E k \in Files : QuietStep(k)
              \/ SaveQueueIfChanged \/ Shutdown \/ Load \/ UNCHANGED vars
<1>0. crashes \in Nat /\ faults \in Nat
  BY BoundsAssumption DEF Types, CountsOK, BoundsAssumption
<1>1. ~Crash
  BY <1>0 DEF Crash, Clean
<1>2. ASSUME NEW k \in Files, FileStep(k) PROVE QuietStep(k) /\ Clean
  <2>1. ~OpenFails(k) /\ ~RenameFails(k)
    BY <1>0 DEF OpenFails, RenameFails, Clean
  <2>2. QuietStep(k)
    BY <1>2, <2>1 DEF FileStep, QuietStep
  <2> QED BY <2>2 DEF QuietStep, BeginWrite, WriteContent, DeleteOld, RenameNew, Discard, Clean
<1>3. ASSUME NEW g \in Groups, GroupStep(g) PROVE Clean
  BY <1>3 DEF GroupStep, ParseNzb, AddNzbFileToQueue, FileCompleted, AddToHistory, HistoryReturn,
              HistoryDelete, DeleteGroup, Clean
<1>4. SaveQueueIfChanged \/ Shutdown \/ Load \/ UNCHANGED vars => Clean
  BY DEF SaveQueueIfChanged, Shutdown, Load, vars, Clean
<1> QED BY <1>1, <1>2, <1>3, <1>4, NextIs

(***************************************************************************)
(* When nothing is being written there is no new file.                     *)
(***************************************************************************)
LEMMA NoTemps ==
    ASSUME NoStale, plan = <<>> \/ ~up
    PROVE  \A k \in Files : disk[k].temp = Absent /\ Readable(k) = disk[k].dest
  BY DEF NoStale, Stale, Readable

LEMMA SettledAfter ==
    ASSUME SettledFits, up,
           DOMAIN settled' \subseteq DOMAIN settled,
           \A h \in DOMAIN settled' : settled'[h] = settled[h],
           \A h \in DOMAIN settled' : h \in DOMAIN queue => h \in DOMAIN queue',
           \A h \in DOMAIN settled' : h \in history => h \in history',
           disk' = disk
    PROVE  SettledFits'
<1>1. /\ Readable("queue")' = Readable("queue") /\ ReadQueue' = ReadQueue
      /\ Readable("history")' = Readable("history") /\ ReadHistory' = ReadHistory
  BY DEF Readable, ReadQueue, ReadHistory
<1>2. ASSUME NEW g \in DOMAIN settled'
      PROVE  IF settled'[g] = "queue"
             THEN /\ up' => g \in DOMAIN queue'
                  /\ Readable("queue")' # Torn => g \in DOMAIN ReadQueue'
             ELSE /\ up' => g \in history'
                  /\ Readable("history")' # Torn => g \in ReadHistory'
  <2>1. g \in DOMAIN settled /\ settled'[g] = settled[g]
    OBVIOUS
  <2>2. IF settled[g] = "queue" THEN g \in DOMAIN queue /\ (Readable("queue") # Torn => g \in DOMAIN ReadQueue)
        ELSE g \in history /\ (Readable("history") # Torn => g \in ReadHistory)
    BY <2>1 DEF SettledFits
  <2> QED BY <1>1, <2>1, <2>2
<1> QED BY <1>2 DEF SettledFits

(***************************************************************************)
(* What the operations on the queue have in common.                        *)
(***************************************************************************)
LEMMA GroupFrame ==
    ASSUME Types, NEW g \in Groups, GroupStep(g)
    PROVE  /\ up /\ up' = up /\ saving = "no" /\ plan = <<>> /\ disk' = disk
           /\ DOMAIN settled' \subseteq DOMAIN settled
           /\ \A h \in DOMAIN settled' : settled'[h] = settled[h]
           /\ \A h \in DOMAIN settled' : h \in DOMAIN queue => h \in DOMAIN queue'
           /\ \A h \in DOMAIN settled' : h \in history => h \in history'
<1>1. up /\ up' = up /\ saving = "no" /\ disk' = disk
  BY DEF GroupStep, ParseNzb, AddNzbFileToQueue, FileCompleted, AddToHistory, HistoryReturn,
         HistoryDelete, DeleteGroup, Idle
<1>2. plan = <<>>
  BY <1>1 DEF Types, SaveOK
<1> USE <1>1, <1>2
<1>0. "queued" \in FileStates /\ "done" \in FileStates
  BY DEF FileStates
<1>3. CASE ParseNzb(g)
  BY <1>3 DEF ParseNzb, memory
<1>4. CASE AddNzbFileToQueue(g)
  BY <1>4 DEF AddNzbFileToQueue
<1>5. CASE FileCompleted(g)
  BY <1>5 DEF FileCompleted
<1>6. CASE AddToHistory(g)
  <2>1. DOMAIN queue' = DOMAIN queue \ {g}
    BY <1>6, RestrictContents DEF AddToHistory, Types, MemoryOK
  <2>2. DOMAIN settled' = DOMAIN settled \ {g} /\ \A h \in DOMAIN settled' : settled'[h] = settled[h]
    BY <1>6, MovesOK DEF AddToHistory, Types
  <2> QED BY <1>6, <2>1, <2>2 DEF AddToHistory
<1>7. CASE HistoryReturn(g)
  <2>2. DOMAIN settled' = DOMAIN settled \ {g} /\ \A h \in DOMAIN settled' : settled'[h] = settled[h]
    BY <1>7, MovesOK DEF HistoryReturn, Types
  <2> QED BY <1>7, <2>2 DEF HistoryReturn
<1>8. CASE HistoryDelete(g)
  <2>2. DOMAIN settled' = DOMAIN settled \ {g} /\ \A h \in DOMAIN settled' : settled'[h] = settled[h]
    BY <1>8, MovesOK DEF HistoryDelete, Types
  <2> QED BY <1>8, <2>2 DEF HistoryDelete
<1>9. CASE DeleteGroup(g)
  <2>1. DOMAIN queue' = DOMAIN queue \ {g}
    BY <1>9, RestrictContents DEF DeleteGroup, Types, MemoryOK
  <2>2. DOMAIN settled' = DOMAIN settled \ {g} /\ \A h \in DOMAIN settled' : settled'[h] = settled[h]
    BY <1>9, MovesOK DEF DeleteGroup, Types
  <2> QED BY <1>9, <2>1, <2>2 DEF DeleteGroup
<1> QED BY <1>3, <1>4, <1>5, <1>6, <1>7, <1>8, <1>9 DEF GroupStep

LEMMA GroupMemory ==
    ASSUME Types, MemoryFits, NEW g \in Groups, GroupStep(g)
    PROVE  MemoryFits'
<1>0. /\ up /\ DOMAIN queue \cap history = {}
      /\ \A h \in DOMAIN queue : queue[h] = "queued" => h \in data
  BY GroupFrame DEF MemoryFits
<1>1. CASE ParseNzb(g)
  BY <1>0, <1>1 DEF ParseNzb, memory, MemoryFits
<1>2. CASE AddNzbFileToQueue(g)
  BY <1>0, <1>2 DEF AddNzbFileToQueue, MemoryFits
<1>3. CASE FileCompleted(g)
  BY <1>0, <1>3 DEF FileCompleted, MemoryFits
<1>4. CASE AddToHistory(g)
  <2>1. DOMAIN queue' = DOMAIN queue \ {g} /\ \A h \in DOMAIN queue' : queue'[h] = queue[h]
    BY <1>4, RestrictContents DEF AddToHistory, Types, MemoryOK
  <2> QED BY <1>0, <1>4, <2>1 DEF AddToHistory, MemoryFits
<1>5. CASE HistoryReturn(g)
  BY <1>0, <1>5 DEF HistoryReturn, MemoryFits
<1>6. CASE HistoryDelete(g)
  BY <1>0, <1>6 DEF HistoryDelete, MemoryFits
<1>7. CASE DeleteGroup(g)
  <2>1. DOMAIN queue' = DOMAIN queue \ {g} /\ \A h \in DOMAIN queue' : queue'[h] = queue[h]
    BY <1>7, RestrictContents DEF DeleteGroup, Types, MemoryOK
  <2> QED BY <1>0, <1>7, <2>1 DEF DeleteGroup, MemoryFits
<1> QED BY <1>1, <1>2, <1>3, <1>4, <1>5, <1>6, <1>7 DEF GroupStep

(***************************************************************************)
(* A full save begins with the history written or to be written.           *)
(***************************************************************************)
LEMMA SaveBeginsFits ==
    ASSUME up, saving = "no", RestFits, disk' = disk,
           \/ Save(TRUE)
           \/ Save(historyChanged) /\ history' = history
    PROVE  SaveFits' /\ RestFits'
<1>1. saving' = "Save"
  BY DEF Save
<1>2. CASE plan' = <<"queue", "history", "progress">>
  <2>1. Range(plan') = Files
    BY <1>2 DEF Range, Files
  <2> QED BY <1>1, <2>1 DEF SaveFits, RestFits
<1>3. CASE plan' = <<"queue", "progress">> /\ history' = history
  <2>1. Range(plan') = {"queue", "progress"}
    BY <1>3 DEF Range
  <2>2. Wanted("history")' = Wanted("history")
    BY <1>3 DEF Wanted
  <2> QED BY <1>1, <2>1, <2>2 DEF SaveFits, RestFits, Files
<1> QED BY <1>2, <1>3 DEF Save
LEMMA GroupClean ==
    ASSUME Types, CleanOK, NEW g \in Groups, GroupStep(g)
    PROVE  CleanOK'
<1> USE DEF CleanOK
<1>1. /\ up /\ up' = up /\ saving = "no" /\ plan = <<>> /\ disk' = disk
  BY GroupFrame
<1>2. NoStale'
  BY <1>1, NoTemps DEF NoStale, Stale
<1>3. MemoryFits' /\ SettledFits' /\ StoppedFits'
  BY <1>1, GroupFrame, GroupMemory, SettledAfter DEF StoppedFits
<1>4. SaveFits' /\ RestFits'
  <2>1. CASE ParseNzb(g)
    BY <1>1, <2>1 DEF ParseNzb, memory, SaveFits, RestFits, QueueMatches, Wanted
  <2>2. CASE FileCompleted(g)
    <3>1. /\ DOMAIN queue' = DOMAIN queue /\ saving' = "SaveChanged"
          /\ \A h \in DOMAIN queue' \ changed' : queue'[h] = queue[h] /\ h \notin changed
      BY <2>2 DEF FileCompleted, SaveChanged
    <3>2. Wanted("history")' = Wanted("history")
      BY <2>2 DEF FileCompleted, Wanted
    <3>3. QueueMatches'
      BY <1>1, <3>1 DEF RestFits, QueueMatches
    <3> QED BY <1>1, <3>1, <3>2, <3>3 DEF RestFits, SaveFits
  <2>3. CASE AddToHistory(g) \/ HistoryReturn(g) \/ HistoryDelete(g)
    BY <1>1, <2>3, SaveBeginsFits DEF AddToHistory, HistoryReturn, HistoryDelete
  <2>4. CASE AddNzbFileToQueue(g) \/ DeleteGroup(g)
    BY <1>1, <2>4, SaveBeginsFits DEF AddNzbFileToQueue, DeleteGroup
  <2> QED BY <2>1, <2>2, <2>3, <2>4 DEF GroupStep
<1> QED BY <1>2, <1>3, <1>4

(***************************************************************************)
(* The groups are found again after a step on a file that keeps its        *)
(* promise.                                                                *)
(***************************************************************************)
LEMMA SettledKept ==
    ASSUME Types, WriteInv, NoStale, SettledFits, [Next]_vars, up,
           UNCHANGED <<up, queue, history, settled>>
    PROVE  SettledFits'
<1>1. StoreStep("queue") /\ StoreStep("history") /\ ~Stale("queue") /\ ~Stale("history")
  BY StoreSteps DEF NoStale, Files
<1>2. /\ Wanted("queue") = IF queue = NoGroups THEN Absent ELSE queue
      /\ Wanted("history") = IF history = {} THEN Absent ELSE history
  BY DEF Wanted
<1>3. queue \in QueueContents /\ queue # Absent /\ history # Absent
  BY MarkersAssumption DEF Types, MemoryOK, MarkersAssumption
<1>4. ASSUME NEW g \in DOMAIN settled
      PROVE  IF settled[g] = "queue"
             THEN g \in DOMAIN queue /\ (Readable("queue")' # Torn => g \in DOMAIN ReadQueue')
             ELSE g \in history /\ (Readable("history")' # Torn => g \in ReadHistory')
  <2>1. IF settled[g] = "queue" THEN g \in DOMAIN queue /\ (Readable("queue") # Torn => g \in DOMAIN ReadQueue)
        ELSE g \in history /\ (Readable("history") # Torn => g \in ReadHistory)
    BY DEF SettledFits
  <2>2. CASE settled[g] = "queue"
    <3>1. Wanted("queue") = queue
      BY <1>2, <2>1, <2>2, NoGroupsContents
    <3>2. \/ Readable("queue")' = Readable("queue") \/ Readable("queue")' = queue
          \/ Readable("queue")' = Torn
      BY <1>1, <3>1 DEF StoreStep
    <3>3. CASE Readable("queue")' = Readable("queue")
      BY <2>1, <2>2, <3>3 DEF ReadQueue
    <3>4. CASE Readable("queue")' = queue
      BY <1>3, <2>1, <2>2, <3>4 DEF ReadQueue
    <3> QED BY <2>1, <2>2, <3>2, <3>3, <3>4
  <2>3. CASE settled[g] # "queue"
    <3>1. Wanted("history") = history
      BY <1>2, <2>1, <2>3
    <3>2. \/ Readable("history")' = Readable("history") \/ Readable("history")' = history
          \/ Readable("history")' = Torn
      BY <1>1, <3>1 DEF StoreStep
    <3>3. CASE Readable("history")' = Readable("history")
      BY <2>1, <2>3, <3>3 DEF ReadHistory
    <3>4. CASE Readable("history")' = history
      BY <1>3, <2>1, <2>3, <3>4 DEF ReadHistory
    <3> QED BY <2>1, <2>3, <3>2, <3>3, <3>4
  <2> QED BY <2>2, <2>3
<1> QED BY <1>4 DEF SettledFits

(***************************************************************************)
(* What a program at rest wrote is what it would read.                     *)
(***************************************************************************)
LEMMA RestReads ==
    ASSUME Types, NoStale, RestFits, up, saving = "no"
    PROVE  /\ ReadQueue \in QueueContents /\ ReadQueue # Torn /\ DOMAIN ReadQueue = DOMAIN queue
           /\ \A g \in DOMAIN queue \ changed : ReadQueue[g] = queue[g]
           /\ ReadProgress \in QueueContents /\ ReadProgress # Torn /\ DOMAIN ReadProgress = changed
           /\ \A g \in changed : ReadProgress[g] = queue[g]
           /\ ReadHistory = history /\ ReadHistory # Torn
           /\ changed \subseteq DOMAIN queue
<1>0. /\ queue \in QueueContents /\ changed \subseteq DOMAIN queue /\ plan = <<>>
      /\ history # Absent /\ history # Torn
  BY MarkersAssumption DEF Types, MemoryOK, SaveOK, MarkersAssumption
<1>1. \A k \in Files : Readable(k) = disk[k].dest
  BY <1>0, NoTemps
<1>2. /\ QueueMatches /\ disk["history"].dest = Wanted("history")
      /\ disk["progress"].dest = Wanted("progress")
  BY DEF RestFits
<1>3. /\ ReadQueue \in QueueContents /\ DOMAIN ReadQueue = DOMAIN queue
      /\ \A g \in DOMAIN queue \ changed : ReadQueue[g] = queue[g]
  <2>1. Readable("queue") = disk["queue"].dest
    BY <1>1 DEF Files
  <2>2. CASE DOMAIN queue = {}
    BY <1>2, <2>1, <2>2, NoGroupsContents DEF QueueMatches, ReadQueue
  <2>3. CASE DOMAIN queue # {}
    <3>1. disk["queue"].dest \in QueueContents /\ disk["queue"].dest # Absent
      BY <1>2, <2>3, MarkersAssumption DEF QueueMatches, MarkersAssumption
    <3> QED BY <1>2, <2>1, <2>3, <3>1 DEF QueueMatches, ReadQueue
  <2> QED BY <2>2, <2>3
<1>4. /\ ReadProgress \in QueueContents /\ DOMAIN ReadProgress = changed
      /\ \A g \in changed : ReadProgress[g] = queue[g]
  <2>1. Readable("progress") = IF changed = {} THEN Absent ELSE Restrict(queue, changed)
    BY <1>1, <1>2 DEF Files, Wanted
  <2>2. CASE changed = {}
    BY <2>1, <2>2, NoGroupsContents DEF ReadProgress
  <2>3. CASE changed # {}
    <3>1. /\ Restrict(queue, changed) \in QueueContents /\ DOMAIN Restrict(queue, changed) = changed
          /\ \A g \in changed : Restrict(queue, changed)[g] = queue[g]
      BY <1>0, RestrictContents
    <3>2. Restrict(queue, changed) # Absent
      BY <3>1, MarkersAssumption DEF MarkersAssumption
    <3> QED BY <2>1, <2>3, <3>1, <3>2 DEF ReadProgress
  <2> QED BY <2>2, <2>3
<1>5. ReadHistory = history
  BY <1>0, <1>1, <1>2 DEF ReadHistory, Wanted, Files
<1>6. ReadQueue # Torn /\ ReadProgress # Torn
  BY <1>3, <1>4, MarkersAssumption DEF MarkersAssumption
<1> QED BY <1>0, <1>3, <1>4, <1>5, <1>6
(***************************************************************************)
(* The steps that write a file beside the old one.                         *)
(***************************************************************************)
LEMMA WriteClean ==
    ASSUME Types, WriteInv, CleanOK, [Next]_vars, NEW k \in Files,
           BeginWrite(k) \/ WriteContent(k) \/ DeleteOld(k)
    PROVE  CleanOK'
<1> USE DEF CleanOK
<1>1. /\ up /\ plan # <<>> /\ k = Head(plan) /\ step' # "begin"
      /\ UNCHANGED <<up, queue, history, changed, plan, saving, data, settled>>
  BY DEF BeginWrite, WriteContent, DeleteOld, Writing, memory
<1>2. \A j \in Files : j # k => disk'[j] = disk[j]
  <2>1. \A c \in {Absent, Torn, disk[k].dest, disk[k].temp, Wanted(k)} : c \in ContentOf(k)
    BY WantedContents, MarkersContent DEF Types, DiskOK
  <2> QED BY <2>1, WriteIs, FileWritesOK DEF Types
<1>3. \A j \in Files : Wanted(j)' = Wanted(j)
  BY <1>1 DEF Wanted
<1>4. NoStale'
  <2>1. ~Stale(k)'
    BY WritingNotStale
  <2>2. ASSUME NEW j \in Files, j # k PROVE ~Stale(j)'
    BY <1>1, <1>2, <2>2 DEF NoStale, Stale
  <2> QED BY <2>1, <2>2 DEF NoStale
<1>5. MemoryFits' /\ StoppedFits'
  BY <1>1 DEF MemoryFits, StoppedFits
<1>6. SaveFits'
  <2>1. k \in Range(plan)
    BY <1>1, PlanFacts DEF Types, SaveOK
  <2> QED BY <1>1, <1>2, <1>3, <2>1 DEF SaveFits
<1>7. RestFits'
  <2> SUFFICES ASSUME saving # "Save" PROVE RestFits'
    BY <1>1 DEF RestFits
  <2>1. saving = "SaveChanged" /\ k = "progress"
    BY <1>1 DEF Types, SaveOK
  <2>2. QueueMatches /\ disk["history"].dest = Wanted("history")
    BY <1>1, <2>1 DEF RestFits
  <2>3. disk'["queue"] = disk["queue"] /\ disk'["history"] = disk["history"]
    BY <1>2, <2>1 DEF Files
  <2>4. QueueMatches'
    BY <1>1, <2>2, <2>3 DEF QueueMatches
  <2> QED BY <1>1, <1>3, <2>1, <2>2, <2>3, <2>4 DEF RestFits, Files
<1>8. SettledFits'
  BY <1>1, SettledKept
<1> QED BY <1>4, <1>5, <1>6, <1>7, <1>8

LEMMA ContinueKeepsWanted ==
    ASSUME Types, plan # <<>>, Continue(Tail(plan)), UNCHANGED <<queue, history>>, NEW k \in Files
    PROVE  Wanted(k)' = Wanted(k)
<1>1. CASE k # "progress"
  BY <1>1 DEF Wanted, Files
<1>2. CASE k = "progress"
  <2>1. CASE Tail(plan) # <<>>
    BY <1>2, <2>1 DEF Continue, Wanted
  <2>2. CASE Tail(plan) = <<>>
    <3>1. saving' = "no" /\ changed' = IF saving = "Save" THEN {} ELSE changed
      BY <2>2 DEF Continue
    <3> QED BY <1>2, <3>1 DEF Wanted
  <2> QED BY <2>1, <2>2
<1> QED BY <1>1, <1>2

LEMMA WantedMatches ==
    ASSUME MemoryOK, disk["queue"].dest = Wanted("queue")
    PROVE  QueueMatches
<1>1. queue \in QueueContents
  BY DEF MemoryOK
<1> QED BY <1>1, EmptyQueue DEF QueueMatches, Wanted

(***************************************************************************)
(* The steps that complete a file, and perhaps the save.                   *)
(***************************************************************************)
LEMMA FinishClean ==
    ASSUME Types, WriteInv, CleanOK, [Next]_vars, NEW k \in Files,
           RenameNew(k) \/ Discard(k)
    PROVE  CleanOK'
<1> USE DEF CleanOK
<1>0. Types'
  BY TypesStep
<1>1. /\ up /\ plan # <<>> /\ k = Head(plan) /\ Continue(Tail(plan))
      /\ UNCHANGED <<up, queue, history, data>>
  BY DEF RenameNew, Discard, Writing
<1>2. /\ disk'[k].dest = Wanted(k) /\ disk'[k].temp = Absent
      /\ \A j \in Files : j # k => disk'[j] = disk[j]
  <2>1. \A c \in {Absent, Torn, disk[k].dest, disk[k].temp, Wanted(k)} : c \in ContentOf(k)
    BY WantedContents, MarkersContent DEF Types, DiskOK
  <2>2. CASE RenameNew(k)
    <3>1. disk[k].temp = Wanted(k)
      BY <1>1, <2>2 DEF WriteInv, RenameNew, Writing
    <3> QED BY <2>1, <2>2, <3>1, WriteIs, FileWritesOK DEF Types
  <2>3. CASE Discard(k)
    <3>1. disk[k].temp = Absent /\ Wanted(k) = Absent
      BY <2>3 DEF NoStale, Stale, Discard, Writing
    <3> QED BY <2>1, <2>3, <3>1, WriteIs, FileWritesOK DEF Types
  <2> QED BY <2>2, <2>3
<1>3. \A j \in Files : Wanted(j)' = Wanted(j)
  BY <1>1, ContinueKeepsWanted
<1>4. NoStale'
  BY <1>1, <1>2 DEF NoStale, Stale
<1>5. MemoryFits' /\ StoppedFits'
  BY <1>1 DEF MemoryFits, StoppedFits
<1>6. /\ Range(plan) = Range(Tail(plan)) \cup {k} /\ k \in Files /\ Head(plan) \notin Range(Tail(plan))
      /\ Tail(plan) = <<>> => Range(plan) = {k}
  BY <1>1, PlanFacts DEF Types, SaveOK
<1>7. CASE Tail(plan) # <<>>
  <2>1. plan' = Tail(plan) /\ UNCHANGED <<saving, changed, settled>>
    BY <1>1, <1>7 DEF Continue
  <2>2. saving = "Save"
    <3>1. saving # "no"
      BY <1>1 DEF Types, SaveOK
    <3>0. Tail(<<"progress">>) = <<>>
      OBVIOUS
    <3>2. saving # "SaveChanged"
      BY <1>7, <3>0 DEF Types, SaveOK
    <3> QED BY <3>1, <3>2 DEF Types, SaveOK
  <2>3. SaveFits'
    BY <1>2, <1>3, <1>6, <2>1, <2>2 DEF SaveFits
  <2>4. RestFits'
    BY <2>1, <2>2 DEF RestFits
  <2>5. SettledFits'
    BY <1>1, <2>1, SettledKept
  <2> QED BY <1>4, <1>5, <2>3, <2>4, <2>5
<1>8. CASE Tail(plan) = <<>>
  <2>1. /\ saving' = "no" /\ settled' = Places(queue, history)
        /\ changed' = IF saving = "Save" THEN {} ELSE changed
    BY <1>1, <1>8 DEF Continue
  <2>2. SaveFits'
    BY <2>1 DEF SaveFits
  <2>3. ASSUME saving = "Save" PROVE RestFits'
    <3>1. \A j \in Files : disk'[j].dest = Wanted(j)'
      BY <1>2, <1>3, <1>6, <1>8, <2>3 DEF SaveFits
    <3>2. (MemoryOK /\ disk["queue"].dest = Wanted("queue") => QueueMatches)'
      BY WantedMatches, PTL
    <3>3. QueueMatches'
      BY <1>0, <3>1, <3>2 DEF Types, Files
    <3> QED BY <3>1, <3>3 DEF RestFits, Files
  <2>4. ASSUME saving # "Save" PROVE RestFits'
    <3>1. saving = "SaveChanged" /\ k = "progress"
      BY <1>1, <2>4 DEF Types, SaveOK
    <3>2. QueueMatches /\ disk["history"].dest = Wanted("history")
      BY <1>1, <2>4 DEF RestFits
    <3>3. disk'["queue"] = disk["queue"] /\ disk'["history"] = disk["history"]
      BY <1>2, <3>1 DEF Files
    <3>4. QueueMatches'
      BY <1>1, <2>1, <2>4, <3>2, <3>3 DEF QueueMatches
    <3> QED BY <1>2, <1>3, <3>1, <3>2, <3>3, <3>4 DEF RestFits, Files
  <2>5. RestFits'
    BY <2>3, <2>4
  <2>6. DOMAIN ReadQueue' = DOMAIN queue /\ ReadHistory' = history
    <3>1. (Types /\ NoStale /\ RestFits /\ up /\ saving = "no"
           => DOMAIN ReadQueue = DOMAIN queue /\ ReadHistory = history)'
      BY RestReads, PTL
    <3> QED BY <1>0, <1>1, <1>4, <2>1, <2>5, <3>1
  <2>7. SettledFits'
    BY <1>1, <2>1, <2>6 DEF SettledFits, Places
  <2> QED BY <1>4, <1>5, <2>2, <2>5, <2>7
<1> QED BY <1>7, <1>8
LEMMA SaveClean ==
    ASSUME Types, CleanOK, SaveQueueIfChanged
    PROVE  CleanOK'
<1> USE DEF CleanOK
<1>1. /\ up /\ saving = "no" /\ Save(historyChanged)
      /\ UNCHANGED <<up, queue, history, changed, disk, data, settled>>
  BY DEF SaveQueueIfChanged, Idle, memory
<1>2. plan = <<>>
  BY <1>1 DEF Types, SaveOK
<1>3. NoStale'
  BY <1>1, <1>2, NoTemps DEF NoStale, Stale
<1>4. SaveFits' /\ RestFits'
  BY <1>1, SaveBeginsFits
<1>5. MemoryFits' /\ StoppedFits'
  BY <1>1 DEF MemoryFits, StoppedFits
<1>6. SettledFits'
  BY <1>1, SettledAfter
<1> QED BY <1>3, <1>4, <1>5, <1>6

LEMMA ShutdownClean ==
    ASSUME Types, CleanOK, Shutdown
    PROVE  CleanOK'
<1> USE DEF CleanOK
<1>1. /\ up /\ saving = "no" /\ changed = {} /\ ~up' /\ saving' = "no"
      /\ UNCHANGED <<disk, data, settled>>
  BY DEF Shutdown, Idle, Forget
<1>2. plan = <<>> /\ queue \in QueueContents
  BY <1>1 DEF Types, SaveOK, MemoryOK
<1>3. NoStale'
  BY <1>1, <1>2, NoTemps DEF NoStale, Stale
<1>4. SaveFits' /\ RestFits' /\ MemoryFits'
  BY <1>1 DEF SaveFits, RestFits, MemoryFits
<1>5. StoppedFits'
  <2>1. /\ QueueMatches /\ disk["history"].dest = Wanted("history")
        /\ disk["progress"].dest = Wanted("progress")
    BY <1>1 DEF RestFits
  <2>2. disk["progress"].dest = Absent
    BY <1>1, <2>1 DEF Wanted
  <2>3. /\ disk["history"].dest = IF history = {} THEN Absent ELSE history
        /\ history # Torn /\ Absent # Torn /\ Absent # {} /\ Absent # NoGroups
    BY <2>1, MarkersAssumption, NoGroupsContents DEF Wanted, Types, MemoryOK, MarkersAssumption
  <2>4. /\ DOMAIN queue \cap history = {}
        /\ \A g \in DOMAIN queue : queue[g] = "queued" => g \in data
    BY <1>1 DEF MemoryFits
  <2>5. CASE DOMAIN queue = {}
    <3>1. disk["queue"].dest = Absent
      BY <2>1, <2>5 DEF QueueMatches
    <3> QED BY <1>1, <2>2, <2>3, <3>1 DEF StoppedFits
  <2>6. CASE DOMAIN queue # {}
    <3>1. /\ disk["queue"].dest \in QueueContents /\ DOMAIN disk["queue"].dest = DOMAIN queue
          /\ \A g \in DOMAIN queue : disk["queue"].dest[g] = queue[g]
      BY <1>1, <2>1, <2>6 DEF QueueMatches
    <3>2. disk["queue"].dest # Torn /\ disk["queue"].dest # NoGroups
      BY <2>6, <3>1, MarkersAssumption, NoGroupsContents DEF MarkersAssumption
    <3> QED BY <1>1, <2>2, <2>3, <2>4, <3>1, <3>2 DEF StoppedFits
  <2> QED BY <2>5, <2>6
<1>6. SettledFits'
  <2>1. /\ Readable("queue")' = Readable("queue") /\ ReadQueue' = ReadQueue
        /\ Readable("history")' = Readable("history") /\ ReadHistory' = ReadHistory
    BY <1>1 DEF Readable, ReadQueue, ReadHistory
  <2> QED BY <1>1, <2>1 DEF SettledFits
<1> QED BY <1>3, <1>4, <1>5, <1>6

(***************************************************************************)
(* LoadDownloadQueue finds a queue whose files all have their info files,  *)
(* when no state file was left half written.                               *)
(***************************************************************************)
LEMMA RecoveredExact ==
    ASSUME DiskOK, \A k \in Files : disk[k].temp = Absent,
           ReadQueue # Torn, ReadHistory # Torn, ProgressFits,
           \A g \in DOMAIN Overlaid : Overlaid[g] = "queued" => g \in data
    PROVE  Recovered = [ok |-> TRUE, queue |-> Overlaid, history |-> ReadHistory]
<1>0. Overlaid \in QueueContents /\ DOMAIN Overlaid = DOMAIN ReadQueue
  BY OverlaidType
<1>1. CASE ~DownloadQueueExists
  <2>1. Readable("queue") = Absent /\ Readable("history") = Absent
    BY <1>1 DEF DownloadQueueExists, Readable, Files
  <2>2. ReadQueue = NoGroups /\ ReadHistory = {}
    BY <2>1 DEF ReadQueue, ReadHistory
  <2>3. Overlaid = NoGroups
    BY <1>0, <2>2, NoGroupsContents, EmptyQueue
  <2> QED BY <1>1, <2>2, <2>3, RecoveredCases
<1>2. CASE DownloadQueueExists
  <2>1. LoadAllFileInfos(Overlaid) = [g \in DOMAIN Overlaid |-> Overlaid[g]]
    BY DEF LoadAllFileInfos
  <2>2. LoadAllFileInfos(Overlaid) = Overlaid
    BY <1>0, <2>1, QueueContentsIs
  <2> QED BY <1>2, <2>2, RecoveredCases
<1> QED BY <1>1, <1>2

LEMMA LoadClean ==
    ASSUME Types, CleanOK, Load
    PROVE  CleanOK'
<1> USE DEF CleanOK
<1>1. ~up /\ up' /\ plan = <<>> /\ changed = {} /\ saving = "no"
  BY DEF Load, Types, DownOK, SaveOK
<1>2. \A k \in Files : disk[k].temp = Absent /\ Readable(k) = disk[k].dest
  BY <1>1, NoTemps
<1>3. \A k \in Files : disk'[k] = disk[k]
  BY <1>2, LoadTypes, RestoredIs DEF Types
<1>4. /\ disk["progress"].dest = Absent /\ disk["queue"].dest # Torn /\ disk["history"].dest # Torn
      /\ disk["queue"].dest # NoGroups /\ disk["history"].dest # {}
      /\ disk["queue"].dest # Absent =>
            \A g \in DOMAIN disk["queue"].dest : disk["queue"].dest[g] = "queued" => g \in data
      /\ disk["queue"].dest # Absent /\ disk["history"].dest # Absent =>
            DOMAIN disk["queue"].dest \cap disk["history"].dest = {}
  BY <1>1 DEF StoppedFits
<1>5. /\ ReadQueue = IF disk["queue"].dest = Absent THEN NoGroups ELSE disk["queue"].dest
      /\ ReadHistory = IF disk["history"].dest = Absent THEN {} ELSE disk["history"].dest
      /\ ReadProgress = NoGroups
  BY <1>2, <1>4 DEF ReadQueue, ReadHistory, ReadProgress, Files
<1>6. ReadQueue # Torn /\ ReadHistory # Torn /\ ProgressFits
  <2>1. NoGroups # Torn /\ {} # Torn
    BY NoGroupsContents, MarkersAssumption DEF MarkersAssumption
  <2> QED BY <1>4, <1>5, <2>1, NoGroupsContents DEF ProgressFits
<1>7. ReadQueue \in QueueContents
  BY <1>6, ReadTypes DEF Types
<1>8. Overlaid = ReadQueue
  <2>1. Overlaid = [g \in DOMAIN ReadQueue |-> ReadQueue[g]]
    BY <1>5, NoGroupsContents DEF Overlaid
  <2> QED BY <1>7, <2>1, QueueContentsIs
<1>9. \A g \in DOMAIN ReadQueue : ReadQueue[g] = "queued" => g \in data
  BY <1>4, <1>5, NoGroupsContents
<1>10. Recovered = [ok |-> TRUE, queue |-> ReadQueue, history |-> ReadHistory]
  BY <1>2, <1>6, <1>8, <1>9, RecoveredExact DEF Types
<1>11. /\ queue' = ReadQueue /\ history' = ReadHistory /\ settled' = Places(ReadQueue, ReadHistory)
       /\ changed' = {} /\ saving' = "no" /\ plan' = <<>>
  BY <1>1, <1>10 DEF Load
<1>12. NoStale'
  BY <1>2, <1>3 DEF NoStale, Stale
<1>13. MemoryFits'
  <2>1. DOMAIN queue' \cap history' = {}
    BY <1>4, <1>5, <1>11, NoGroupsContents
  <2>2. CASE DownloadQueueExists
    <3>1. data' = data \cap (DOMAIN ReadQueue \cup ReadHistory)
      BY <1>10, <2>2 DEF Load, CleanupQueueDir
    <3> QED BY <1>9, <1>11, <2>1, <3>1 DEF MemoryFits
  <2>3. CASE ~DownloadQueueExists
    <3>1. DOMAIN queue' = {}
      BY <1>5, <1>11, <2>3, NoGroupsContents DEF DownloadQueueExists
    <3> QED BY <2>1, <3>1 DEF MemoryFits
  <2> QED BY <2>2, <2>3
<1>14. SaveFits' /\ StoppedFits'
  BY <1>1, <1>11 DEF SaveFits, StoppedFits
<1>15. RestFits'
  <2>0. /\ disk'["queue"] = disk["queue"] /\ disk'["history"] = disk["history"]
        /\ disk'["progress"] = disk["progress"]
    BY <1>3 DEF Files
  <2>1. QueueMatches'
    <3>1. CASE disk["queue"].dest = Absent
      BY <1>5, <1>11, <2>0, <3>1, NoGroupsContents DEF QueueMatches
    <3>2. CASE disk["queue"].dest # Absent
      <4>1. ReadQueue = disk["queue"].dest /\ DOMAIN ReadQueue # {}
        BY <1>4, <1>5, <1>7, <3>2, EmptyQueue
      <4> QED BY <1>7, <1>11, <2>0, <4>1 DEF QueueMatches
    <3> QED BY <3>1, <3>2
  <2>2. disk'["history"].dest = Wanted("history")'
    BY <1>4, <1>5, <1>11, <2>0 DEF Wanted
  <2>3. disk'["progress"].dest = Wanted("progress")'
    BY <1>4, <1>11, <2>0 DEF Wanted
  <2> QED BY <2>1, <2>2, <2>3 DEF RestFits
<1>16. SettledFits'
  <2>1. ReadQueue' = ReadQueue /\ ReadHistory' = ReadHistory
    BY <1>3 DEF ReadQueue, ReadHistory, Readable, Files
  <2> QED BY <1>11, <2>1 DEF SettledFits, Places
<1> QED BY <1>12, <1>13, <1>14, <1>15, <1>16
DiskInv == Types /\ WriteInv /\ CleanInv

LEMMA InitClean == Init => CleanInv
<1> SUFFICES ASSUME Init PROVE CleanOK
  BY DEF CleanInv, CleanOK
<1>1. up /\ saving = "no" /\ queue = NoGroups /\ history = {} /\ changed = {} /\ DOMAIN settled = {}
  BY NoGroupsContents DEF Init, Places
<1>2. \A k \in Files : disk[k].dest = Absent /\ disk[k].temp = Absent
  BY DEF Init
<1>3. disk["queue"].dest = Absent /\ disk["history"].dest = Absent /\ disk["progress"].dest = Absent
  BY <1>2 DEF Files
<1>4. NoStale /\ MemoryFits /\ SaveFits /\ StoppedFits /\ SettledFits
  BY <1>1, <1>2, NoGroupsContents DEF NoStale, Stale, MemoryFits, SaveFits, StoppedFits, SettledFits
<1>5. RestFits
  BY <1>1, <1>3, NoGroupsContents DEF RestFits, QueueMatches, Wanted
<1> QED BY <1>4, <1>5 DEF CleanOK

LEMMA CleanStep == DiskInv /\ [Next]_vars => CleanInv'
<1> SUFFICES ASSUME Types, WriteInv, CleanInv, [Next]_vars, Clean' PROVE CleanOK'
  BY DEF DiskInv, CleanInv, CleanOK
<1>1. Clean /\ CleanOK
  BY CleanSteps DEF CleanInv, CleanOK
<1>2. ASSUME NEW k \in Files, QuietStep(k) PROVE CleanOK'
  BY <1>1, <1>2, WriteClean, FinishClean DEF QuietStep
<1>3. CASE UNCHANGED vars
  <2>1. UNCHANGED <<up, queue, history, changed, plan, saving, step, disk, data, settled>>
    BY <1>3 DEF vars, memory
  <2>2. NoStale' /\ MemoryFits' /\ SaveFits'
    BY <1>1, <2>1 DEF CleanOK, NoStale, Stale, MemoryFits, SaveFits, Wanted
  <2>3. RestFits' /\ StoppedFits'
    BY <1>1, <2>1 DEF CleanOK, RestFits, QueueMatches, StoppedFits, Wanted
  <2>4. SettledFits'
    BY <1>1, <2>1 DEF CleanOK, SettledFits, Readable, ReadQueue, ReadHistory
  <2> QED BY <2>2, <2>3, <2>4 DEF CleanOK
<1> QED BY <1>1, <1>2, <1>3, CleanSteps, GroupClean, SaveClean, ShutdownClean, LoadClean

LEMMA DiskInvariant == Spec => []DiskInv
<1>1. Init => DiskInv
  BY InitTypes, InitClean DEF DiskInv, WriteInv, Init
<1>2. DiskInv /\ [Next]_vars => DiskInv'
  BY TypesStep, WriteInvStep, CleanStep DEF DiskInv
<1> QED BY <1>1, <1>2, PTL DEF Spec

LEMMA InvRestart == DiskInv => RestartExact
<1> SUFFICES ASSUME Types, CleanOK, Idle
             PROVE  Recovered = [ok |-> TRUE, queue |-> queue, history |-> history]
  BY DEF DiskInv, CleanInv, CleanOK, RestartExact, Clean
<1>1. up /\ saving = "no" /\ plan = <<>> /\ queue \in QueueContents
  BY DEF Idle, Types, SaveOK, MemoryOK
<1>2. /\ ReadQueue \in QueueContents /\ ReadQueue # Torn /\ DOMAIN ReadQueue = DOMAIN queue
      /\ \A g \in DOMAIN queue \ changed : ReadQueue[g] = queue[g]
      /\ ReadProgress \in QueueContents /\ ReadProgress # Torn /\ DOMAIN ReadProgress = changed
      /\ \A g \in changed : ReadProgress[g] = queue[g]
      /\ ReadHistory = history /\ ReadHistory # Torn
      /\ changed \subseteq DOMAIN queue
  BY <1>1, RestReads DEF CleanOK
<1>3. ProgressFits
  BY <1>2 DEF ProgressFits
<1>4. Overlaid = queue
  <2>1. Overlaid = [g \in DOMAIN queue |-> queue[g]]
    BY <1>2 DEF Overlaid
  <2> QED BY <1>1, <2>1, QueueContentsIs
<1>5. \A g \in DOMAIN queue : queue[g] = "queued" => g \in data
  BY <1>1 DEF CleanOK, MemoryFits
<1>6. \A k \in Files : disk[k].temp = Absent
  BY <1>1, NoTemps DEF CleanOK
<1> QED BY <1>2, <1>3, <1>4, <1>5, <1>6, RecoveredExact DEF Types

(***************************************************************************)
(* A program stopped at rest before the first crash and the first failed   *)
(* operation finds at its next start exactly the queue and the history it  *)
(* had: the files written by Save and SaveChanged and the info files       *)
(* together hold the whole state (LoadDownloadQueue, LoadAllFileInfos).    *)
(***************************************************************************)
THEOREM RestartFindsState == Spec => []StateConsistent
<1>1. DiskInv => StateConsistent
  BY TypesTypeOK, InvRestart DEF DiskInv, StateConsistent
<1> QED BY <1>1, DiskInvariant, PTL

LEMMA InvHarmless == DiskInv => CrashHarmlessOutsideWindows
<1> SUFFICES ASSUME Types, CleanOK, up, ~Window
             PROVE  /\ Recovered.ok
                    /\ \A g \in DOMAIN settled :
                          IF settled[g] = "queue" THEN g \in DOMAIN Recovered.queue
                          ELSE g \in Recovered.history
  BY DEF DiskInv, CleanInv, CleanOK, CrashHarmlessOutsideWindows, Clean
<1>1. /\ Readable("queue") # Torn /\ Readable("history") # Torn /\ ProgressFits
      /\ ~DownloadQueueExists => \A k \in Files : disk[k].temp = Absent
  BY DEF Window, Files
<1>2. ReadQueue # Torn /\ ReadHistory # Torn
  <2>1. NoGroups # Torn /\ {} # Torn
    BY NoGroupsContents, MarkersAssumption DEF MarkersAssumption
  <2> QED BY <1>1, <2>1 DEF ReadQueue, ReadHistory
<1>3. \A g \in DOMAIN settled :
         IF settled[g] = "queue" THEN g \in DOMAIN ReadQueue ELSE g \in ReadHistory
  BY <1>1 DEF CleanOK, SettledFits
<1>4. CASE DownloadQueueExists
  <2>1. Recovered = [ok |-> TRUE, queue |-> LoadAllFileInfos(Overlaid), history |-> ReadHistory]
    BY <1>1, <1>2, <1>4, RecoveredCases
  <2>2. DOMAIN LoadAllFileInfos(Overlaid) = DOMAIN ReadQueue
    BY <1>1, <1>2, OverlaidType, LoadAllFileInfosType DEF Types
  <2> QED BY <1>3, <2>1, <2>2
<1>5. CASE ~DownloadQueueExists
  <2>1. Readable("queue") = Absent /\ Readable("history") = Absent
    BY <1>1, <1>5 DEF DownloadQueueExists, Readable, Files
  <2>2. Recovered = [ok |-> TRUE, queue |-> ReadQueue, history |-> ReadHistory]
    BY <1>5, <2>1, RecoveredCases DEF ReadQueue, ReadHistory
  <2> QED BY <1>3, <2>2
<1> QED BY <1>4, <1>5

(***************************************************************************)
(* A first crash at any moment outside the windows loses no job and no     *)
(* history entry that was not being moved: the load succeeds and finds     *)
(* every group of the last finished save where that save left it           *)
(* (FinishWrite's delete and rename, SaveDownloadQueue's order of files).  *)
(***************************************************************************)
THEOREM CrashLosesNothing == Spec => []CrashHarmlessOutsideWindows
  BY InvHarmless, DiskInvariant, PTL
===============================================================================

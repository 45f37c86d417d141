-------------------------- MODULE UrlCoordinatorProofs --------------------------
(***************************************************************************)
(* Proofs about URLs in the queue, for any number of URLs, connections and *)
(* events: a thread that works on a URL finds its entry in the queue, and  *)
(* the loop of the coordinator never sleeps while a URL waits.             *)
(***************************************************************************)
EXTENDS UrlCoordinator, FiniteSetTheorems, TLAPS

(***************************************************************************)
(* The loop sleeps only when no URL waits and none is transferred: a retry *)
(* puts a URL back without waking the loop.                                *)
(***************************************************************************)
LoopInv == ~hasMore => \A i \in Items : ~Waiting(i) /\ job[i] \notin InTransfer

(***************************************************************************)
(* The entry of an item as long as it was never started again too early:   *)
(* its downloader, from the transfer to the end of UrlCompleted, and the   *)
(* unlocked reset after a retry keep it in the queue.                      *)
(***************************************************************************)
EntryHeld(i) ==
  /\ job[i] \in InTransfer \union {"scan", "fail"} => url[i].place = "queue"
  /\ job[i] \in {"request", "wait"} =>
        url[i].place = "queue" \/ (url[i].place = "nzb" /\ answer[i] = "success")
  /\ job[i] # "none" =>
        /\ url[i].active = 1 /\ resets[i] = 0
        /\ url[i].st # "none" \/ url[i].del # "none"
  /\ resets[i] > 0 => resets[i] = 1 /\ url[i].place = "queue" /\ url[i].active = 1

(***************************************************************************)
(* The parameters of a fetched file wait in m_queueList no longer than its *)
(* downloader waits for the scanner.                                       *)
(***************************************************************************)
FileHeld(i) ==
  i \in queueList =>
     /\ job[i] \in {"request", "wait"} /\ (job[i] = "wait" => requested \/ scan.busy)
     /\ incoming[i].age # "none" =>
           url[i].place = "queue" /\ (incoming[i].content = "archive" => answer[i] = "success")

HeldInv == \A i \in Items \ raced : EntryHeld(i) /\ FileHeld(i)

ScanInv ==
  /\ scan.busy => scanning
  /\ \A i \in scan.todo : incoming[i].age # "none" /\ scan.busy

UrlInv == TypeOK /\ LoopInv /\ HeldInv /\ ScanInv /\ UrlJobUsable
-----------------------------------------------------------------------------
(* Entries of the queue and the history, and the operators on them. *)

Entries ==
  [place : {"out", "queue", "history", "nzb", "gone"},
   st : {"none", "running", "finished", "failed", "skipped", "scanFailed"},
   del : {"none", "manual", "dupe"}, deleting : BOOLEAN, avoid : BOOLEAN, active : 0..1]

Jobs == {"none", "scan", "request", "wait", "fail"} \union InTransfer

LEMMA NoUrlEntry == NoUrl \in Entries
  BY DEF NoUrl, Entries

LEMMA CheckedEntries ==
  \A u \in Checked : u \in Entries /\ u.active = 0 /\ (u.del = "manual" => u.place = "gone")
<1> DEFINE E(p, d) == [place |-> p, st |-> "none", del |-> d, deleting |-> FALSE, avoid |-> FALSE,
                       active |-> 0]
<1>1. /\ [NoUrl EXCEPT !.place = "queue"] = E("queue", "none")
      /\ [NoUrl EXCEPT !.place = "history", !.del = "dupe"] = E("history", "dupe")
      /\ [NoUrl EXCEPT !.place = "gone", !.del = "manual"] = E("gone", "manual")
  <2> SUFFICES ASSUME NEW v
               PROVE  /\ v = [NoUrl EXCEPT !.place = "queue"] => v = E("queue", "none")
                      /\ v = [NoUrl EXCEPT !.place = "history", !.del = "dupe"] => v = E("history", "dupe")
                      /\ v = [NoUrl EXCEPT !.place = "gone", !.del = "manual"] => v = E("gone", "manual")
    BY Zenon
  <2>1. v = [NoUrl EXCEPT !.place = "queue"] => v = E("queue", "none")
    BY DEF NoUrl
  <2>2. v = [NoUrl EXCEPT !.place = "history", !.del = "dupe"] => v = E("history", "dupe")
    BY DEF NoUrl
  <2>3. v = [NoUrl EXCEPT !.place = "gone", !.del = "manual"] => v = E("gone", "manual")
    BY DEF NoUrl
  <2> QED BY <2>1, <2>2, <2>3
<1>2. /\ E("queue", "none") \in Entries /\ E("history", "dupe") \in Entries
      /\ E("gone", "manual") \in Entries
  <2>1. E("queue", "none") \in Entries
    BY DEF Entries
  <2>2. E("history", "dupe") \in Entries
    BY DEF Entries
  <2>3. E("gone", "manual") \in Entries
    BY DEF Entries
  <2> QED BY <2>1, <2>2, <2>3
<1>3. \A p, d : E(p, d).place = p /\ E(p, d).del = d /\ E(p, d).active = 0
  OBVIOUS
<1> HIDE DEF E
<1> QED BY <1>1, <1>2, <1>3 DEF Checked

LEMMA CompletedEntry ==
  ASSUME NEW u \in Entries, NEW status \in InTransfer
  PROVE  LET v == Completed(u, status)
         IN  /\ v \in Entries /\ v.place = u.place /\ v.active = u.active
             /\ u.deleting => v.st = "none" /\ v.del # "none"
             /\ ~u.deleting /\ status \in {"finished", "failed"} => v.st = status /\ v.del = u.del
             /\ v.st = "none" => u.deleting \/ status \notin {"finished", "failed"}
<1> DEFINE v == Completed(u, status)
<1>1. CASE u.deleting
  <2> DEFINE d == IF u.del = "none" THEN "manual" ELSE u.del
  <2>0. d \in {"manual", "dupe"}
    BY DEF Entries
  <2>1. v = [u EXCEPT !.deleting = FALSE, !.st = "none", !.del = d]
    BY <1>1 DEF Completed, Entries
  <2> HIDE DEF v, d
  <2>2. v \in Entries /\ v.place = u.place /\ v.active = u.active /\ v.st = "none" /\ v.del # "none"
    BY <2>0, <2>1 DEF Entries
  <2> QED BY <1>1, <2>2 DEF v
<1>2. CASE ~u.deleting /\ status = "finished"
  <2>1. v = [u EXCEPT !.st = "finished"]
    BY <1>2 DEF Completed
  <2> QED BY <1>2, <2>1 DEF Entries
<1>3. CASE ~u.deleting /\ status = "failed"
  <2>1. v = [u EXCEPT !.st = "failed"]
    BY <1>3 DEF Completed
  <2> QED BY <1>3, <2>1 DEF Entries
<1>4. CASE ~u.deleting /\ status \notin {"finished", "failed"}
  <2>1. v = [u EXCEPT !.st = "none"]
    BY <1>4 DEF Completed
  <2> QED BY <1>4, <2>1 DEF Entries
<1> QED BY <1>1, <1>2, <1>3, <1>4

LEMMA StartedEntry ==
  ASSUME NEW u \in Entries, NEW v, v = [u EXCEPT !.active = 1, !.st = "running"]
  PROVE  v \in Entries /\ v.place = u.place /\ v.active = 1 /\ v.st = "running"
<1>1. 1 \in 0..1
  OBVIOUS
<1>2. v = [place |-> u.place, st |-> "running", del |-> u.del, deleting |-> u.deleting,
           avoid |-> u.avoid, active |-> 1]
  BY DEF Entries
<1> QED BY <1>1, <1>2 DEF Entries

LEMMA LeaveEntry ==
  ASSUME NEW u \in Entries
  PROVE  Leave(u) \in Entries /\ Leave(u).place \in {"gone", "history"}
<1>1. Leave(u) = [u EXCEPT !.place = IF u.avoid THEN "gone" ELSE "history", !.avoid = FALSE]
  BY DEF Leave
<1>2. CASE u.avoid
  BY <1>1, <1>2 DEF Entries
<1>3. CASE ~u.avoid
  BY <1>1, <1>3 DEF Entries
<1> QED BY <1>2, <1>3

LEMMA RemovedEntry ==
  ASSUME NEW u \in Entries
  PROVE  Removed(u) \in Entries /\ Removed(u).place \in {"gone", "history"}
<1>1. Leave(u) \in Entries /\ Leave(u).place \in {"gone", "history"}
  BY LeaveEntry
<1>2. Removed(u) = [Leave(u) EXCEPT !.del = IF @ = "none" THEN "manual" ELSE @, !.st = "none",
                                    !.deleting = FALSE]
  BY DEF Removed
<1> QED BY <1>1, <1>2 DEF Entries

LEMMA DeletedEntry ==
  ASSUME NEW u \in Entries, NEW avoid \in BOOLEAN
  PROVE  LET v == Deleted(u, avoid)
         IN  /\ v \in Entries
             /\ u.active > 0 => /\ v.place = u.place /\ v.active = u.active
                                /\ v.st = u.st /\ v.del = u.del
             /\ ~(u.active > 0) => v.place \in {"gone", "history"}
<1>1. CASE u.active > 0
  <2>1. Deleted(u, avoid) = [u EXCEPT !.deleting = TRUE, !.avoid = avoid]
    BY <1>1 DEF Deleted
  <2> QED BY <1>1, <2>1 DEF Entries
<1>2. CASE ~(u.active > 0)
  <2>1. Deleted(u, avoid) = Removed(u)
    BY <1>2 DEF Deleted
  <2> QED BY <1>2, <2>1, RemovedEntry
<1> QED BY <1>1, <1>2

LEMMA LoadedEntry ==
  ASSUME NEW u \in Entries, NEW saved \in BOOLEAN
  PROVE  Loaded(u, saved) \in Entries
<1>1. CASE u.place # "queue"
  BY <1>1 DEF Loaded, Entries
<1>2. CASE u.place = "queue"
  <2> DEFINE s == IF saved /\ u.st \in {"failed", "skipped", "scanFailed"} THEN u.st ELSE "none"
             d == IF saved THEN u.del ELSE "none"
  <2>1. Loaded(u, saved) = [NoUrl EXCEPT !.place = "queue", !.st = s, !.del = d]
    BY <1>2 DEF Loaded
  <2>2. /\ s \in {"none", "running", "finished", "failed", "skipped", "scanFailed"}
        /\ d \in {"none", "manual", "dupe"}
    BY DEF Entries
  <2> HIDE DEF s, d
  <2>3. Loaded(u, saved) = [place |-> "queue", st |-> s, del |-> d, deleting |-> FALSE,
                            avoid |-> FALSE, active |-> 0]
    BY <2>1 DEF NoUrl
  <2> QED BY <2>2, <2>3 DEF Entries
<1> QED BY <1>1, <1>2

(***************************************************************************)
(* TypeOK in parts.                                                        *)
(***************************************************************************)
UrlTypes ==
  /\ url \in [Items -> Entries] /\ job \in [Items -> Jobs]
  /\ stopped \subseteq {i \in Items : job[i] \in InTransfer}
  /\ resets \in [Items -> 0..MaxRetries]
  /\ hasMore \in BOOLEAN
  /\ raced \in SUBSET Items /\ broken \in SUBSET Items /\ forgotten \in SUBSET Items

ScanTypes ==
  /\ incoming \in [Items -> [age : {"none", "new", "listed"}, content : Contents \union {"nzb"}]]
  /\ queueList \in SUBSET Items
  /\ answer \in [Items -> {"skipped", "success", "failed"}]
  /\ scan \in [busy : BOOLEAN, checkStat : BOOLEAN, todo : SUBSET Items]
  /\ requested \in BOOLEAN /\ scanning \in BOOLEAN

EnvTypes == paused \in BOOLEAN /\ events \in 0..MaxEvents

LEMMA TypeParts == TypeOK <=> UrlTypes /\ ScanTypes /\ EnvTypes
  BY DEF TypeOK, UrlTypes, ScanTypes, EnvTypes, Entries, Jobs

LEMMA EventTypes == EnvTypes /\ Event /\ paused' \in BOOLEAN => EnvTypes'
  BY UrlOptions DEF EnvTypes, Event, UrlOptions

(***************************************************************************)
(* An item that a step leaves alone stays held.                            *)
(***************************************************************************)
Untouched(i) ==
  /\ url'[i] = url[i] /\ job'[i] = job[i] /\ resets'[i] = resets[i]
  /\ answer'[i] = answer[i] /\ incoming'[i].age = incoming[i].age
  /\ incoming[i].age # "none" => incoming'[i] = incoming[i]
  /\ i \in queueList' => i \in queueList
  /\ requested \/ scan.busy => requested' \/ scan'.busy

LEMMA HeldKept ==
  ASSUME NEW i, EntryHeld(i), FileHeld(i), Untouched(i)
  PROVE  EntryHeld(i)' /\ FileHeld(i)'
  BY DEF EntryHeld, FileHeld, Untouched

LEMMA ScanKept ==
  ASSUME ScanInv, UNCHANGED <<scan, scanning, incoming>>
  PROVE  ScanInv'
  BY DEF ScanInv

LEMMA HeldBut ==
  ASSUME HeldInv, NEW i \in Items, \A j \in Items \ {i} : Untouched(j),
         raced \subseteq raced',
         i \notin raced' /\ EntryHeld(i) /\ FileHeld(i) => EntryHeld(i)' /\ FileHeld(i)'
  PROVE  HeldInv'
<1> SUFFICES ASSUME NEW j \in Items \ raced' PROVE EntryHeld(j)' /\ FileHeld(j)'
  BY DEF HeldInv
<1>1. EntryHeld(j) /\ FileHeld(j)
  BY DEF HeldInv
<1>2. CASE j = i
  BY <1>1, <1>2
<1>3. CASE j # i
  BY <1>1, <1>3, HeldKept
<1> QED BY <1>2, <1>3
-----------------------------------------------------------------------------
(* The steps. *)

LEMMA InitUrlInv == Init => UrlInv
<1> SUFFICES ASSUME Init PROVE UrlInv
  OBVIOUS
<1>1. UrlTypes
  BY NoUrlEntry, UrlOptions DEF Init, UrlTypes, Jobs, UrlOptions
<1>2. ScanTypes
  BY DEF Init, ScanTypes, NoFile, IdleScan
<1>3. EnvTypes
  <2>1. paused \in BOOLEAN
    BY DEF Init
  <2>2. events \in 0..MaxEvents
    BY UrlOptions DEF Init, UrlOptions
  <2> QED BY <2>1, <2>2 DEF EnvTypes
<1>4. LoopInv /\ UrlJobUsable
  BY DEF Init, LoopInv, UrlJobUsable
<1>5. HeldInv
  BY DEF Init, HeldInv, EntryHeld, FileHeld, InTransfer
<1>6. ScanInv
  BY DEF Init, ScanInv, IdleScan
<1> QED BY <1>1, <1>2, <1>3, <1>4, <1>5, <1>6, TypeParts DEF UrlInv

(***************************************************************************)
(* A step that replaces the entry of one item and leaves the scanner       *)
(* alone.                                                                  *)
(***************************************************************************)
LEMMA EntrySet ==
  ASSUME UrlTypes, NEW i \in Items, NEW u \in Entries, url' = [url EXCEPT ![i] = u]
  PROVE  /\ url' \in [Items -> Entries] /\ url'[i] = u
         /\ \A j \in Items \ {i} : url'[j] = url[j]
  BY DEF UrlTypes

LEMMA JobSet ==
  ASSUME UrlTypes, NEW i \in Items, NEW s \in Jobs, job' = [job EXCEPT ![i] = s]
  PROVE  /\ job' \in [Items -> Jobs] /\ job'[i] = s
         /\ \A j \in Items \ {i} : job'[j] = job[j]
  BY DEF UrlTypes

LEMMA AddStep ==
  ASSUME UrlInv, broken = {}, NEW i \in Items, AddUrlToQueue(i)
  PROVE  UrlInv'
<1> USE DEF UrlInv
<1>0. UrlTypes /\ ScanTypes /\ EnvTypes
  BY TypeParts
<1>1. PICK u \in Checked : /\ url' = [url EXCEPT ![i] = u]
                           /\ IF u.del = "manual" THEN hasMore' = hasMore ELSE hasMore' = TRUE
  BY DEF AddUrlToQueue, UrlAdded
<1>2. /\ url[i].place = "out"
      /\ UNCHANGED <<job, stopped, resets, raced, broken, forgotten, scanVars, envVars>>
  BY DEF AddUrlToQueue
<1>3. u \in Entries /\ (u.del = "manual" => u.place = "gone")
  BY CheckedEntries
<1>4. /\ url' \in [Items -> Entries] /\ url'[i] = u
      /\ \A j \in Items \ {i} : url'[j] = url[j]
  BY <1>0, <1>1, <1>3, EntrySet
<1>5. UrlTypes' /\ ScanTypes' /\ EnvTypes'
  BY <1>0, <1>1, <1>2, <1>4 DEF UrlTypes, ScanTypes, EnvTypes, scanVars, envVars
<1>6. LoopInv'
  BY <1>1, <1>2, <1>3, <1>4 DEF LoopInv, Waiting
<1>7. HeldInv'
  <2>1. i \notin raced /\ EntryHeld(i) /\ FileHeld(i) => EntryHeld(i)' /\ FileHeld(i)'
    <3> SUFFICES ASSUME EntryHeld(i), FileHeld(i) PROVE EntryHeld(i)' /\ FileHeld(i)'
      OBVIOUS
    <3>1. job[i] = "none" /\ ~(resets[i] > 0) /\ i \notin queueList
      BY <1>0, <1>2 DEF EntryHeld, FileHeld, UrlTypes, Jobs
    <3> QED BY <1>2, <3>1 DEF EntryHeld, FileHeld, scanVars, InTransfer
  <2> QED BY <1>2, <1>4, <2>1, HeldBut DEF Untouched, scanVars
<1>8. ScanInv' /\ UrlJobUsable'
  BY <1>2, ScanKept DEF scanVars, UrlJobUsable
<1> QED BY <1>5, <1>6, <1>7, <1>8, TypeParts, PTL

LEMMA LookStep ==
  ASSUME UrlInv, broken = {}, Look
  PROVE  UrlInv'
<1> USE DEF UrlInv
<1>0. UrlTypes /\ ScanTypes /\ EnvTypes
  BY TypeParts
<1> DEFINE slot == Cardinality(UrlActive) < UrlConnections
           next == {i \in Items : slot /\ Waiting(i)}
<1>1. /\ hasMore' = (UrlActive # {} \/ next # {})
      /\ UNCHANGED <<stopped, resets, broken, forgotten, scanVars, envVars>>
      /\ IF next # {} /\ (~paused \/ UrlForce)
         THEN \E i \in next : StartUrlDownload(i)
         ELSE UNCHANGED <<url, job, raced>>
  BY DEF Look
<1>2. hasMore' \in BOOLEAN
  BY <1>1
<1>3. ~hasMore' => UrlActive = {} /\ next = {}
  BY <1>1
<1>4. UrlActive = {} => slot
  BY FS_EmptySet, UrlOptions DEF UrlOptions
<1>5. CASE UNCHANGED <<url, job, raced>>
  <2>1. UrlTypes' /\ ScanTypes' /\ EnvTypes'
    BY <1>0, <1>1, <1>2, <1>5 DEF UrlTypes, ScanTypes, EnvTypes, scanVars, envVars
  <2>2. LoopInv'
    BY <1>3, <1>4, <1>5 DEF LoopInv, Waiting, UrlActive
  <2>3. HeldInv'
    BY <1>1, <1>5, HeldKept DEF HeldInv, Untouched, scanVars
  <2>4. ScanInv' /\ UrlJobUsable'
    BY <1>1, <1>5, ScanKept DEF scanVars, UrlJobUsable
  <2> QED BY <2>1, <2>2, <2>3, <2>4, TypeParts, PTL
<1>6. ASSUME NEW i \in next, StartUrlDownload(i) PROVE UrlInv'
  <2>1. i \in Items /\ Waiting(i) /\ hasMore'
    BY <1>1
  <2> DEFINE u == [url[i] EXCEPT !.active = 1, !.st = "running"]
  <2>2. u \in Entries /\ u.place = "queue" /\ u.active = 1 /\ u.st = "running"
    <3>1. url[i] \in Entries /\ url[i].place = "queue"
      BY <1>0, <2>1 DEF UrlTypes, Waiting
    <3> QED BY <3>1, StartedEntry
  <2>3. /\ url' = [url EXCEPT ![i] = u] /\ job' = [job EXCEPT ![i] = "running"]
        /\ raced' = IF resets[i] > 0 THEN raced \union {i} ELSE raced
    BY <1>0, <1>6 DEF StartUrlDownload, UrlTypes
  <2> HIDE DEF u, next
  <2>4. /\ url' \in [Items -> Entries] /\ url'[i] = u
        /\ \A j \in Items \ {i} : url'[j] = url[j]
    BY <1>0, <2>1, <2>2, <2>3, EntrySet
  <2>5. /\ job' \in [Items -> Jobs] /\ job'[i] = "running"
        /\ \A j \in Items \ {i} : job'[j] = job[j]
    BY <1>0, <2>1, <2>3, JobSet DEF Jobs, InTransfer
  <2>6. UrlTypes' /\ ScanTypes' /\ EnvTypes'
    BY <1>0, <1>1, <1>2, <2>1, <2>3, <2>4, <2>5 DEF UrlTypes, ScanTypes, EnvTypes, scanVars, envVars, InTransfer
  <2>7. LoopInv'
    BY <2>1 DEF LoopInv
  <2>8. HeldInv'
    <3>1. i \notin raced' /\ EntryHeld(i) /\ FileHeld(i) => EntryHeld(i)' /\ FileHeld(i)'
      <4> SUFFICES ASSUME i \notin raced', EntryHeld(i), FileHeld(i) PROVE EntryHeld(i)' /\ FileHeld(i)'
        OBVIOUS
      <4>1. ~(resets[i] > 0) /\ resets[i] \in 0..MaxRetries
        BY <1>0, <2>1, <2>3 DEF UrlTypes
      <4>2. resets[i] = 0
        BY <4>1, UrlOptions DEF UrlOptions
      <4>3. job[i] = "none" /\ i \notin queueList
        BY <2>1 DEF EntryHeld, FileHeld, Waiting
      <4> QED BY <1>1, <2>2, <2>4, <2>5, <4>2, <4>3 DEF EntryHeld, FileHeld, scanVars, InTransfer
    <3> QED BY <1>1, <2>1, <2>3, <2>4, <2>5, <3>1, HeldBut DEF Untouched, scanVars
  <2>9. ScanInv' /\ UrlJobUsable'
    BY <1>1, <2>3, ScanKept DEF scanVars, UrlJobUsable
  <2> QED BY <2>6, <2>7, <2>8, <2>9, TypeParts, PTL
<1> QED BY <1>1, <1>5, <1>6
(***************************************************************************)
(* A step of one downloader or of one user: an item changes, the scanner   *)
(* does not.                                                               *)
(***************************************************************************)
ItemChanges(i, u, s, n) ==
  /\ url' = [url EXCEPT ![i] = u] /\ job' = [job EXCEPT ![i] = s]
  /\ resets' = [resets EXCEPT ![i] = n]
  /\ UNCHANGED <<raced, forgotten, scanVars>>

LEMMA ItemChanged ==
  ASSUME UrlTypes, NEW i \in Items, NEW u \in Entries, NEW s \in Jobs, NEW n \in 0..MaxRetries,
         ItemChanges(i, u, s, n)
  PROVE  /\ url' \in [Items -> Entries] /\ job' \in [Items -> Jobs] /\ resets' \in [Items -> 0..MaxRetries]
         /\ url'[i] = u /\ job'[i] = s /\ resets'[i] = n
         /\ \A j \in Items \ {i} : Untouched(j)
         /\ UNCHANGED <<answer, incoming, queueList, requested, scan, scanning>>
<1>1. resets' \in [Items -> 0..MaxRetries] /\ resets'[i] = n /\ \A j \in Items \ {i} : resets'[j] = resets[j]
  BY DEF UrlTypes, ItemChanges
<1>2. UNCHANGED <<answer, incoming, queueList, requested, scan, scanning>>
  BY DEF ItemChanges, scanVars
<1> QED BY <1>1, <1>2, EntrySet, JobSet DEF ItemChanges, Untouched

LEMMA ItemStep ==
  ASSUME UrlInv, NEW i \in Items, NEW u \in Entries, NEW s \in Jobs, NEW n \in 0..MaxRetries,
         ItemChanges(i, u, s, n), EnvTypes',
         hasMore' \in BOOLEAN,
         stopped' \subseteq stopped \union {i}, i \in stopped' => s \in InTransfer,
         broken = {}, broken' \subseteq {i}, broken' # {} => i \in raced,
         ~hasMore' => ~hasMore /\ ~(u.place = "queue" /\ u.st = "none" /\ u.del = "none")
                      /\ s \notin InTransfer,
         i \notin raced /\ EntryHeld(i) /\ FileHeld(i) => EntryHeld(i)' /\ FileHeld(i)'
  PROVE  UrlInv'
<1> USE DEF UrlInv
<1>0. UrlTypes /\ ScanTypes /\ EnvTypes
  BY TypeParts
<1>1. /\ url' \in [Items -> Entries] /\ job' \in [Items -> Jobs] /\ resets' \in [Items -> 0..MaxRetries]
      /\ url'[i] = u /\ job'[i] = s /\ resets'[i] = n
      /\ \A j \in Items \ {i} : Untouched(j)
      /\ UNCHANGED <<answer, incoming, queueList, requested, scan, scanning, raced, forgotten>>
  BY <1>0, ItemChanged DEF ItemChanges
<1>2. UrlTypes'
  <2>1. ASSUME NEW j \in stopped' PROVE j \in Items /\ job'[j] \in InTransfer
    BY <1>0, <1>1 DEF UrlTypes, Untouched
  <2>2. stopped' \subseteq {j \in Items : job'[j] \in InTransfer}
    BY <2>1
  <2> QED BY <1>0, <1>1, <2>2 DEF UrlTypes
<1>3. ScanTypes'
  BY <1>0, <1>1 DEF ScanTypes
<1>4. LoopInv'
  <2> SUFFICES ASSUME ~hasMore', NEW j \in Items PROVE ~Waiting(j)' /\ job'[j] \notin InTransfer
    BY DEF LoopInv
  <2>1. CASE j = i
    BY <1>1, <2>1 DEF Waiting
  <2>2. CASE j # i
    BY <1>1, <2>2 DEF LoopInv, Waiting, Untouched
  <2> QED BY <2>1, <2>2
<1>5. HeldInv'
  BY <1>1, HeldBut
<1>6. ScanInv' /\ UrlJobUsable'
  BY <1>1, ScanKept DEF UrlJobUsable
<1> QED BY <1>2, <1>3, <1>4, <1>5, <1>6, TypeParts, PTL

LEMMA SameEntry ==
  ASSUME UrlTypes, NEW i \in Items
  PROVE  /\ url = [url EXCEPT ![i] = url[i]] /\ job = [job EXCEPT ![i] = job[i]]
         /\ resets = [resets EXCEPT ![i] = resets[i]]
         /\ url[i] \in Entries /\ job[i] \in Jobs /\ resets[i] \in 0..MaxRetries /\ resets[i] \in Nat
<1>1. resets[i] \in 0..MaxRetries
  BY DEF UrlTypes
<1>2. resets[i] \in Nat
  BY <1>1, UrlOptions DEF UrlOptions
<1> QED BY <1>1, <1>2 DEF UrlTypes

LEMMA TransferStep ==
  ASSUME UrlInv, broken = {}, NEW i \in Items, TransferEnds(i)
  PROVE  UrlInv'
<1>0. UrlTypes /\ EnvTypes
  BY TypeParts DEF UrlInv
<1>1. PICK status \in RunResults(i) : job' = [job EXCEPT ![i] = status]
  BY DEF TransferEnds
<1>2. /\ job[i] = "running"
      /\ UNCHANGED <<url, stopped, resets, hasMore, raced, broken, forgotten, scanVars, envVars>>
  BY DEF TransferEnds
<1>3. status \in InTransfer
  BY DEF RunResults, InTransfer
<1>4. ItemChanges(i, url[i], status, resets[i]) /\ status \in Jobs
  BY <1>0, <1>1, <1>2, <1>3, SameEntry DEF ItemChanges, Jobs
<1>5. hasMore /\ hasMore \in BOOLEAN
  BY <1>0, <1>2 DEF UrlInv, LoopInv, InTransfer, UrlTypes
<1>6. EntryHeld(i) /\ FileHeld(i) => EntryHeld(i)' /\ FileHeld(i)'
  BY <1>0, <1>2, <1>3, <1>4, SameEntry, ItemChanged DEF EntryHeld, FileHeld, InTransfer
<1>7. EnvTypes'
  BY <1>0, <1>2 DEF EnvTypes, envVars
<1> QED BY <1>0, <1>2, <1>3, <1>4, <1>5, <1>6, <1>7, SameEntry, ItemStep

LEMMA HangStep ==
  ASSUME UrlInv, broken = {}, NEW i \in Items, ResetHangingDownloads(i)
  PROVE  UrlInv'
<1>0. UrlTypes /\ EnvTypes
  BY TypeParts DEF UrlInv
<1>1. /\ job[i] = "running" /\ stopped' = stopped \union {i} /\ Event
      /\ UNCHANGED <<url, job, resets, hasMore, raced, broken, forgotten, scanVars, paused>>
  BY DEF ResetHangingDownloads
<1>2. ItemChanges(i, url[i], job[i], resets[i])
  BY <1>0, <1>1, SameEntry DEF ItemChanges
<1>3. hasMore /\ hasMore \in BOOLEAN
  BY <1>0, <1>1 DEF UrlInv, LoopInv, InTransfer, UrlTypes
<1>4. EntryHeld(i) /\ FileHeld(i) => EntryHeld(i)' /\ FileHeld(i)'
  BY <1>1, HeldKept DEF Untouched, scanVars
<1>5. EnvTypes'
  BY <1>0, <1>1, EventTypes DEF EnvTypes
<1> QED BY <1>0, <1>1, <1>2, <1>3, <1>4, <1>5, SameEntry, ItemStep DEF InTransfer

LEMMA CompletedStep ==
  ASSUME UrlInv, broken = {}, NEW i \in Items, UrlCompleted(i)
  PROVE  UrlInv'
<1>0. UrlTypes /\ EnvTypes
  BY TypeParts DEF UrlInv
<1> DEFINE retry == Retry(url[i], job[i])
           after == Completed(url[i], job[i])
<1>1. /\ job[i] \in InTransfer \ {"running"} /\ stopped' = stopped \ {i}
      /\ UNCHANGED <<hasMore, raced, forgotten, scanVars, envVars>>
      /\ IF url[i].place # "queue"
         THEN /\ broken' = broken \union {i} /\ job' = [job EXCEPT ![i] = "none"]
              /\ UNCHANGED <<url, resets>>
         ELSE /\ retry => resets[i] < MaxRetries
              /\ url' = [url EXCEPT ![i] = after]
              /\ resets' = IF retry THEN [resets EXCEPT ![i] = @ + 1] ELSE resets
              /\ job' = [job EXCEPT ![i] = IF retry THEN "none"
                                           ELSE IF after.st = "finished" THEN "scan" ELSE "fail"]
              /\ broken' = broken
  BY DEF UrlCompleted
<1>2. hasMore /\ hasMore \in BOOLEAN
  BY <1>0, <1>1 DEF UrlInv, LoopInv, UrlTypes
<1>3. EnvTypes'
  BY <1>0, <1>1 DEF EnvTypes, envVars
<1>4. i \notin raced => EntryHeld(i) /\ FileHeld(i)
  BY DEF UrlInv, HeldInv
<1>5. CASE url[i].place # "queue"
  <2>1. i \in raced
    BY <1>1, <1>4, <1>5 DEF EntryHeld
  <2>2. ItemChanges(i, url[i], "none", resets[i])
    BY <1>0, <1>1, <1>5, SameEntry DEF ItemChanges
  <2> QED BY <1>0, <1>1, <1>2, <1>3, <1>5, <2>1, <2>2, SameEntry, ItemStep DEF Jobs
<1>6. CASE url[i].place = "queue"
  <2>1. /\ after \in Entries /\ after.place = "queue" /\ after.active = url[i].active
        /\ after.st = "none" => url[i].deleting \/ job[i] \notin {"finished", "failed"}
        /\ url[i].deleting => after.del # "none"
    BY <1>0, <1>1, <1>6, SameEntry, CompletedEntry
  <2>2. job[i] \in {"finished", "failed", "retry"} /\ retry = (job[i] = "retry" /\ ~url[i].deleting)
    BY <1>1 DEF InTransfer, Retry
  <2> HIDE DEF after, retry
  <2>3. CASE retry
    <3>1. ItemChanges(i, after, "none", resets[i] + 1) /\ resets[i] + 1 \in 0..MaxRetries
      BY <1>0, <1>1, <1>6, <2>3, SameEntry, UrlOptions DEF ItemChanges, UrlOptions
    <3>2. i \notin raced /\ EntryHeld(i) /\ FileHeld(i) => EntryHeld(i)' /\ FileHeld(i)'
      <4> SUFFICES ASSUME EntryHeld(i), FileHeld(i) PROVE EntryHeld(i)' /\ FileHeld(i)'
        OBVIOUS
      <4>1. url[i].active = 1 /\ resets[i] = 0 /\ i \notin queueList
        BY <1>1 DEF EntryHeld, FileHeld, InTransfer
      <4>2. url'[i] = after /\ job'[i] = "none" /\ resets'[i] = 1 /\ queueList' = queueList
        BY <1>0, <2>1, <3>1, <4>1, ItemChanged DEF Jobs
      <4> QED BY <2>1, <4>1, <4>2 DEF EntryHeld, FileHeld, InTransfer
    <3> QED BY <1>0, <1>1, <1>2, <1>3, <1>6, <2>1, <3>1, <3>2, ItemStep DEF Jobs
  <2>4. CASE ~retry
    <3> DEFINE s == IF after.st = "finished" THEN "scan" ELSE "fail"
    <3>1. ItemChanges(i, after, s, resets[i]) /\ s \in Jobs
      BY <1>0, <1>1, <1>6, <2>4, SameEntry DEF ItemChanges, Jobs
    <3>0. s \in {"scan", "fail"}
      OBVIOUS
    <3>00. after.st # "none" \/ after.del # "none"
      BY <2>1, <2>2, <2>4
    <3> HIDE DEF s
    <3>2. i \notin raced /\ EntryHeld(i) /\ FileHeld(i) => EntryHeld(i)' /\ FileHeld(i)'
      <4> SUFFICES ASSUME EntryHeld(i), FileHeld(i) PROVE EntryHeld(i)' /\ FileHeld(i)'
        OBVIOUS
      <4>1. url[i].active = 1 /\ resets[i] = 0 /\ i \notin queueList
        BY <1>1 DEF EntryHeld, FileHeld, InTransfer
      <4>2. url'[i] = after /\ job'[i] = s /\ resets'[i] = 0 /\ queueList' = queueList
        BY <1>0, <2>1, <3>1, <4>1, SameEntry, ItemChanged
      <4> QED BY <2>1, <3>0, <3>00, <4>1, <4>2 DEF EntryHeld, FileHeld, InTransfer
    <3> QED BY <1>0, <1>1, <1>2, <1>3, <1>6, <2>1, <3>1, <3>2, SameEntry, ItemStep
  <2> QED BY <2>3, <2>4
<1> QED BY <1>5, <1>6
LEMMA ResetStep ==
  ASSUME UrlInv, broken = {}, NEW i \in Items, ResetActive(i)
  PROVE  UrlInv'
<1>0. UrlTypes /\ EnvTypes
  BY TypeParts DEF UrlInv
<1>1. /\ resets[i] > 0 /\ resets' = [resets EXCEPT ![i] = @ - 1]
      /\ IF url[i].place = "queue" THEN url' = [url EXCEPT ![i].active = 0] /\ broken' = broken
                                   ELSE url' = url /\ broken' = broken \union {i}
      /\ UNCHANGED <<job, stopped, hasMore, raced, forgotten, scanVars, envVars>>
  BY DEF ResetActive
<1>2. EnvTypes' /\ hasMore' \in BOOLEAN
  BY <1>0, <1>1 DEF EnvTypes, envVars, UrlTypes
<1>3. i \notin raced => EntryHeld(i) /\ FileHeld(i)
  BY DEF UrlInv, HeldInv
<1>4. /\ resets[i] - 1 \in 0..MaxRetries /\ resets' = [resets EXCEPT ![i] = resets[i] - 1]
      /\ i \in stopped => job[i] \in InTransfer
  BY <1>0, <1>1, SameEntry, UrlOptions DEF UrlOptions, UrlTypes
<1>5. ~hasMore => ~Waiting(i) /\ job[i] \notin InTransfer
  BY DEF UrlInv, LoopInv
<1>6. CASE url[i].place # "queue"
  <2>1. i \in raced
    BY <1>1, <1>3, <1>6 DEF EntryHeld
  <2>2. ItemChanges(i, url[i], job[i], resets[i] - 1)
    BY <1>0, <1>1, <1>4, <1>6, SameEntry DEF ItemChanges
  <2> QED BY <1>0, <1>1, <1>2, <1>4, <1>5, <1>6, <2>1, <2>2, SameEntry, ItemStep DEF Waiting
<1>7. CASE url[i].place = "queue"
  <2> DEFINE u == [url[i] EXCEPT !.active = 0]
  <2>1. u \in Entries /\ u.place = url[i].place /\ u.st = url[i].st /\ u.del = url[i].del
    <3>1. url[i] \in Entries
      BY <1>0, SameEntry
    <3> QED BY <3>1 DEF Entries
  <2>2. ItemChanges(i, u, job[i], resets[i] - 1)
    BY <1>0, <1>1, <1>4, <1>7, SameEntry DEF ItemChanges, UrlTypes
  <2> HIDE DEF u
  <2>3. i \notin raced /\ EntryHeld(i) /\ FileHeld(i) => EntryHeld(i)' /\ FileHeld(i)'
    <3> SUFFICES ASSUME EntryHeld(i), FileHeld(i) PROVE EntryHeld(i)' /\ FileHeld(i)'
      OBVIOUS
    <3>1. resets[i] = 1 /\ job[i] = "none" /\ i \notin queueList
      BY <1>1 DEF EntryHeld, FileHeld
    <3>2. job'[i] = "none" /\ resets'[i] = 0 /\ queueList' = queueList
      BY <1>0, <1>4, <2>1, <2>2, <3>1, SameEntry, ItemChanged
    <3> QED BY <3>1, <3>2 DEF EntryHeld, FileHeld, InTransfer
  <2> QED BY <1>0, <1>1, <1>2, <1>4, <1>5, <1>7, <2>1, <2>2, <2>3, SameEntry, ItemStep DEF Waiting
<1> QED BY <1>6, <1>7

LEMMA FailedStep ==
  ASSUME UrlInv, broken = {}, NEW i \in Items, UrlFailed(i)
  PROVE  UrlInv'
<1>0. UrlTypes /\ EnvTypes
  BY TypeParts DEF UrlInv
<1> DEFINE u == Leave([url[i] EXCEPT !.active = 0])
<1>1. /\ job[i] = "fail" /\ job' = [job EXCEPT ![i] = "none"]
      /\ IF url[i].place = "queue" THEN url' = [url EXCEPT ![i] = u] /\ broken' = broken
                                   ELSE url' = url /\ broken' = broken \union {i}
      /\ UNCHANGED <<stopped, resets, hasMore, raced, forgotten, scanVars, envVars>>
  BY <1>0 DEF UrlFailed, UrlTypes
<1>2. EnvTypes' /\ hasMore' \in BOOLEAN
  BY <1>0, <1>1 DEF EnvTypes, envVars, UrlTypes
<1>3. i \notin raced => EntryHeld(i) /\ FileHeld(i)
  BY DEF UrlInv, HeldInv
<1>4. i \notin stopped /\ "none" \notin InTransfer
  BY <1>0, <1>1 DEF UrlTypes, InTransfer
<1>5. ~hasMore => ~Waiting(i)
  BY DEF UrlInv, LoopInv
<1>6. CASE url[i].place # "queue"
  <2>1. i \in raced
    BY <1>1, <1>3, <1>6 DEF EntryHeld
  <2>2. ItemChanges(i, url[i], "none", resets[i])
    BY <1>0, <1>1, <1>6, SameEntry DEF ItemChanges
  <2> QED BY <1>0, <1>1, <1>2, <1>4, <1>5, <1>6, <2>1, <2>2, SameEntry, ItemStep DEF Waiting, Jobs
<1>7. CASE url[i].place = "queue"
  <2>1. u \in Entries /\ u.place \in {"gone", "history"}
    <3>1. url[i] \in Entries
      BY <1>0, SameEntry
    <3>2. [url[i] EXCEPT !.active = 0] \in Entries
      BY <3>1 DEF Entries
    <3> QED BY <3>2, LeaveEntry
  <2> HIDE DEF u
  <2>2. ItemChanges(i, u, "none", resets[i])
    BY <1>0, <1>1, <1>7, SameEntry DEF ItemChanges
  <2>3. i \notin raced /\ EntryHeld(i) /\ FileHeld(i) => EntryHeld(i)' /\ FileHeld(i)'
    <3> SUFFICES ASSUME EntryHeld(i), FileHeld(i) PROVE EntryHeld(i)' /\ FileHeld(i)'
      OBVIOUS
    <3>1. resets[i] = 0 /\ i \notin queueList
      BY <1>1 DEF EntryHeld, FileHeld
    <3>2. job'[i] = "none" /\ resets'[i] = 0 /\ queueList' = queueList
      BY <1>0, <2>1, <2>2, <3>1, SameEntry, ItemChanged DEF Jobs
    <3> QED BY <3>1, <3>2 DEF EntryHeld, FileHeld, InTransfer
  <2> QED BY <1>0, <1>1, <1>2, <1>4, <1>7, <2>1, <2>2, <2>3, SameEntry, ItemStep DEF Jobs
<1> QED BY <1>6, <1>7

LEMMA DeleteStep ==
  ASSUME UrlInv, broken = {}, NEW i \in Items, DeleteQueueEntry(i)
  PROVE  UrlInv'
<1>0. UrlTypes /\ EnvTypes
  BY TypeParts DEF UrlInv
<1>1. PICK avoid \in BOOLEAN : url' = [url EXCEPT ![i] = Deleted(@, avoid)]
  BY DEF DeleteQueueEntry
<1> DEFINE u == Deleted(url[i], avoid)
<1>2. /\ Event /\ url[i].place = "queue" /\ url' = [url EXCEPT ![i] = u]
      /\ stopped' = IF url[i].active > 0 /\ job[i] \in InTransfer THEN stopped \union {i} ELSE stopped
      /\ UNCHANGED <<job, resets, hasMore, raced, broken, forgotten, scanVars, paused>>
  BY <1>0, <1>1 DEF DeleteQueueEntry, UrlTypes
<1>3. EnvTypes' /\ hasMore' \in BOOLEAN
  BY <1>0, <1>2, EventTypes DEF EnvTypes, UrlTypes
<1>4. /\ u \in Entries
      /\ url[i].active > 0 => /\ u.place = url[i].place /\ u.active = url[i].active
                              /\ u.st = url[i].st /\ u.del = url[i].del
      /\ ~(url[i].active > 0) => u.place \in {"gone", "history"}
  BY <1>0, SameEntry, DeletedEntry
<1> HIDE DEF u
<1>5. ItemChanges(i, u, job[i], resets[i])
  BY <1>0, <1>2, SameEntry DEF ItemChanges
<1>6. ~hasMore => ~Waiting(i) /\ job[i] \notin InTransfer
  BY DEF UrlInv, LoopInv
<1>7. stopped' \subseteq stopped \union {i} /\ (i \in stopped' => job[i] \in InTransfer)
  BY <1>0, <1>2 DEF UrlTypes
<1>8. i \notin raced /\ EntryHeld(i) /\ FileHeld(i) => EntryHeld(i)' /\ FileHeld(i)'
  <2> SUFFICES ASSUME EntryHeld(i), FileHeld(i) PROVE EntryHeld(i)' /\ FileHeld(i)'
    OBVIOUS
  <2>1. /\ url'[i] = u /\ job'[i] = job[i] /\ resets'[i] = resets[i]
        /\ UNCHANGED <<answer, incoming, queueList, requested, scan, scanning>>
    BY <1>0, <1>4, <1>5, SameEntry, ItemChanged
  <2>2. CASE url[i].active > 0
    BY <1>4, <2>1, <2>2 DEF EntryHeld, FileHeld
  <2>3. CASE ~(url[i].active > 0)
    <3>1. job[i] = "none" /\ ~(resets[i] > 0) /\ i \notin queueList
      BY <2>3 DEF EntryHeld, FileHeld
    <3> QED BY <2>1, <3>1 DEF EntryHeld, FileHeld, InTransfer
  <2> QED BY <2>2, <2>3
<1> QED BY <1>0, <1>2, <1>3, <1>4, <1>5, <1>6, <1>7, <1>8, SameEntry, ItemStep DEF Waiting

LEMMA RedownloadStep ==
  ASSUME UrlInv, broken = {}, NEW i \in Items, HistoryRedownload(i)
  PROVE  UrlInv'
<1>0. UrlTypes /\ EnvTypes
  BY TypeParts DEF UrlInv
<1> DEFINE u == [url[i] EXCEPT !.place = "queue", !.st = "none", !.del = "none"]
<1>1. /\ Event /\ url[i].place = "history" /\ url' = [url EXCEPT ![i] = u] /\ hasMore' = TRUE
      /\ UNCHANGED <<job, stopped, resets, raced, broken, forgotten, scanVars, paused>>
  BY <1>0 DEF HistoryRedownload, UrlAdded, UrlTypes
<1>2. EnvTypes' /\ (i \in stopped' => job[i] \in InTransfer)
  BY <1>0, <1>1, EventTypes DEF EnvTypes, UrlTypes
<1>3. u \in Entries
  <2>1. url[i] \in Entries
    BY <1>0, SameEntry
  <2> QED BY <2>1 DEF Entries
<1> HIDE DEF u
<1>4. ItemChanges(i, u, job[i], resets[i])
  BY <1>0, <1>1, SameEntry DEF ItemChanges
<1>5. i \notin raced /\ EntryHeld(i) /\ FileHeld(i) => EntryHeld(i)' /\ FileHeld(i)'
  <2> SUFFICES ASSUME EntryHeld(i), FileHeld(i) PROVE EntryHeld(i)' /\ FileHeld(i)'
    OBVIOUS
  <2>1. job[i] = "none" /\ ~(resets[i] > 0) /\ i \notin queueList
    BY <1>0, <1>1, SameEntry DEF EntryHeld, FileHeld, Jobs
  <2>2. job'[i] = job[i] /\ resets'[i] = resets[i] /\ queueList' = queueList
    BY <1>0, <1>3, <1>4, SameEntry, ItemChanged
  <2> QED BY <2>1, <2>2 DEF EntryHeld, FileHeld, InTransfer
<1> QED BY <1>0, <1>1, <1>2, <1>3, <1>4, <1>5, SameEntry, ItemStep
-----------------------------------------------------------------------------
(* The steps of the scanner. *)

LEMMA IncomingTypes ==
  ASSUME ScanTypes, NEW i \in Items
  PROVE  /\ incoming[i] \in [age : {"none", "new", "listed"}, content : Contents \union {"nzb"}]
         /\ incoming[i].age \in {"none", "new", "listed"}
         /\ incoming[i].content \in Contents \union {"nzb"}
  BY DEF ScanTypes

LEMMA AddExternalStep ==
  ASSUME UrlInv, broken = {}, NEW i \in Items, AddExternalFile(i)
  PROVE  UrlInv'
<1> USE DEF UrlInv
<1>0. UrlTypes /\ ScanTypes /\ EnvTypes
  BY TypeParts
<1>1. /\ job[i] = "scan"
      /\ UNCHANGED <<stopped, resets, hasMore, raced, broken, forgotten, scan, requested, scanning, envVars>>
  BY DEF AddExternalFile
<1>2. i \notin stopped /\ (i \notin raced => EntryHeld(i) /\ FileHeld(i))
  BY <1>0, <1>1 DEF UrlTypes, HeldInv, InTransfer
<1>3. ~scan.busy => scan.todo = {}
  BY DEF ScanInv
<1>4. ASSUME NEW c \in Contents, ~scan.busy,
             /\ incoming' = [incoming EXCEPT ![i] = [age |-> "new", content |-> c]]
             /\ queueList' = queueList \union {i}
             /\ answer' = [answer EXCEPT ![i] = IF c = "archive" THEN "success" ELSE "skipped"]
             /\ job' = [job EXCEPT ![i] = "request"]
             /\ url' = url
      PROVE  UrlInv'
  <2>1. /\ job' \in [Items -> Jobs] /\ job'[i] = "request"
        /\ \A j \in Items \ {i} : job'[j] = job[j]
    BY <1>0, <1>4, JobSet DEF Jobs
  <2>2. /\ incoming'[i] = [age |-> "new", content |-> c]
        /\ answer'[i] = IF c = "archive" THEN "success" ELSE "skipped"
        /\ \A j \in Items \ {i} : answer'[j] = answer[j] /\ incoming'[j] = incoming[j]
    BY <1>0, <1>4 DEF ScanTypes
  <2>3. UrlTypes'
    <3>1. ASSUME NEW j \in stopped' PROVE j \in Items /\ job'[j] \in InTransfer
      BY <1>0, <1>1, <1>2, <2>1 DEF UrlTypes
    <3>2. stopped' \subseteq {j \in Items : job'[j] \in InTransfer}
      BY <3>1
    <3> QED BY <1>0, <1>1, <1>4, <2>1, <3>2 DEF UrlTypes
  <2>4. ScanTypes'
    <3>1. [age |-> "new", content |-> c] \in [age : {"none", "new", "listed"}, content : Contents \union {"nzb"}]
      OBVIOUS
    <3>2. incoming' \in [Items -> [age : {"none", "new", "listed"}, content : Contents \union {"nzb"}]]
      BY <1>0, <1>4, <3>1 DEF ScanTypes
    <3> QED BY <1>0, <1>1, <1>4, <3>2 DEF ScanTypes
  <2>5. EnvTypes'
    BY <1>0, <1>1 DEF EnvTypes, envVars
  <2>6. LoopInv'
    BY <1>1, <1>4, <2>1 DEF LoopInv, Waiting, InTransfer
  <2>7. HeldInv'
    <3>1. \A j \in Items \ {i} : Untouched(j)
      BY <1>1, <1>4, <2>1, <2>2 DEF Untouched
    <3>2. i \notin raced /\ EntryHeld(i) /\ FileHeld(i) => EntryHeld(i)' /\ FileHeld(i)'
      BY <1>1, <1>4, <2>1, <2>2 DEF EntryHeld, FileHeld, InTransfer
    <3> QED BY <1>1, <3>1, <3>2, HeldBut
  <2>8. ScanInv' /\ UrlJobUsable'
    BY <1>1, <1>3, <1>4 DEF ScanInv, UrlJobUsable
  <2> QED BY <2>3, <2>4, <2>5, <2>6, <2>7, <2>8, TypeParts, PTL
<1>5. ASSUME NEW st \in {"scanFailed", "skipped"},
             /\ url' = [url EXCEPT ![i].st = st]
             /\ job' = [job EXCEPT ![i] = "fail"]
             /\ UNCHANGED <<incoming, queueList, answer>>
      PROVE  UrlInv'
  <2> DEFINE u == [url[i] EXCEPT !.st = st]
  <2>1. url[i] \in Entries
    BY <1>0, SameEntry
  <2>2. u \in Entries /\ u.place = url[i].place /\ u.st = st /\ u.active = url[i].active
    BY <2>1 DEF Entries
  <2>3. ItemChanges(i, u, "fail", resets[i])
    BY <1>0, <1>1, <1>5, SameEntry DEF ItemChanges, UrlTypes, scanVars
  <2> HIDE DEF u
  <2>4. i \notin raced /\ EntryHeld(i) /\ FileHeld(i) => EntryHeld(i)' /\ FileHeld(i)'
    <3> SUFFICES ASSUME EntryHeld(i), FileHeld(i) PROVE EntryHeld(i)' /\ FileHeld(i)'
      OBVIOUS
    <3>1. url[i].place = "queue" /\ url[i].active = 1 /\ resets[i] = 0 /\ i \notin queueList
      BY <1>1 DEF EntryHeld, FileHeld
    <3>2. u \in Entries /\ "fail" \in Jobs /\ resets[i] \in 0..MaxRetries
      BY <1>0, <2>2, SameEntry DEF Jobs
    <3>3. url'[i] = u /\ job'[i] = "fail" /\ resets'[i] = resets[i] /\ queueList' = queueList
      BY <1>0, <2>3, <3>2, ItemChanged
    <3> QED BY <2>2, <3>1, <3>3 DEF EntryHeld, FileHeld, InTransfer
  <2>5. EnvTypes' /\ hasMore' \in BOOLEAN
    BY <1>0, <1>1 DEF EnvTypes, envVars, UrlTypes
  <2> QED BY <1>0, <1>1, <1>2, <2>2, <2>3, <2>4, <2>5, SameEntry, ItemStep DEF Jobs, InTransfer
<1> QED BY <1>4, <1>5 DEF AddExternalFile

LEMMA ScanNzbDirStep ==
  ASSUME UrlInv, broken = {}, NEW i \in Items, ScanNzbDir(i)
  PROVE  UrlInv'
<1> USE DEF UrlInv
<1>0. UrlTypes /\ ScanTypes /\ EnvTypes
  BY TypeParts
<1>1. /\ job[i] = "request" /\ job' = [job EXCEPT ![i] = "wait"] /\ scanning' = TRUE /\ requested' = TRUE
      /\ UNCHANGED <<url, stopped, resets, hasMore, raced, broken, forgotten, incoming, queueList, answer,
                     scan, envVars>>
  BY DEF ScanNzbDir
<1>2. /\ job' \in [Items -> Jobs] /\ job'[i] = "wait"
      /\ \A j \in Items \ {i} : job'[j] = job[j]
  BY <1>0, <1>1, JobSet DEF Jobs
<1>3. UrlTypes'
  <2>1. ASSUME NEW j \in stopped' PROVE j \in Items /\ job'[j] \in InTransfer
    BY <1>0, <1>1, <1>2 DEF UrlTypes, InTransfer
  <2>2. stopped' \subseteq {j \in Items : job'[j] \in InTransfer}
    BY <2>1
  <2> QED BY <1>0, <1>1, <1>2, <2>2 DEF UrlTypes
<1>4. ScanTypes' /\ EnvTypes'
  BY <1>0, <1>1 DEF ScanTypes, EnvTypes, envVars
<1>5. LoopInv'
  BY <1>1, <1>2 DEF LoopInv, Waiting, InTransfer
<1>6. HeldInv'
  <2>1. \A j \in Items \ {i} : Untouched(j)
    BY <1>1, <1>2 DEF Untouched
  <2>2. EntryHeld(i) /\ FileHeld(i) => EntryHeld(i)' /\ FileHeld(i)'
    BY <1>1, <1>2 DEF EntryHeld, FileHeld, InTransfer
  <2> QED BY <1>1, <2>1, <2>2, HeldBut
<1>7. ScanInv' /\ UrlJobUsable'
  BY <1>1 DEF ScanInv, UrlJobUsable
<1> QED BY <1>3, <1>4, <1>5, <1>6, <1>7, TypeParts, PTL
LEMMA ForgetIs ==
  ASSUME ScanTypes
  PROVE  /\ Forget(incoming) \in [Items -> [age : {"none", "new", "listed"}, content : Contents \union {"nzb"}]]
         /\ \A j \in Items : /\ Forget(incoming)[j].age = incoming[j].age
                             /\ incoming[j].age # "none" => Forget(incoming)[j] = incoming[j]
<1>1. NoFile \in [age : {"none", "new", "listed"}, content : Contents \union {"nzb"}] /\ NoFile.age = "none"
  BY DEF NoFile
<1>2. \A j \in Items : Forget(incoming)[j] = IF incoming[j].age = "none" THEN NoFile ELSE incoming[j]
  BY DEF Forget
<1>3. Forget(incoming) \in [Items -> [age : {"none", "new", "listed"}, content : Contents \union {"nzb"}]]
  BY <1>1, IncomingTypes DEF Forget
<1> QED BY <1>1, <1>2, <1>3

LEMMA ScannedStep ==
  ASSUME UrlInv, broken = {}, NEW i \in Items, Scanned(i)
  PROVE  UrlInv'
<1> USE DEF UrlInv
<1>0. UrlTypes /\ ScanTypes /\ EnvTypes
  BY TypeParts
<1> DEFINE st == IF answer[i] = "failed" THEN "scanFailed" ELSE "skipped"
           u == [url[i] EXCEPT !.st = st]
           s == IF answer[i] = "success" THEN "none" ELSE "fail"
<1>1. /\ job[i] = "wait" /\ ~scanning /\ ~requested
      /\ answer' = [answer EXCEPT ![i] = "skipped"] /\ incoming' = Forget(incoming)
      /\ UNCHANGED <<stopped, resets, hasMore, raced, forgotten, queueList, scan, requested, scanning, envVars>>
      /\ job' = [job EXCEPT ![i] = s]
      /\ IF answer[i] # "success" /\ url[i].place = "queue" THEN url' = [url EXCEPT ![i] = u] ELSE url' = url
      /\ IF answer[i] # "success" /\ url[i].place # "queue" THEN broken' = broken \union {i} ELSE broken' = broken
  BY <1>0 DEF Scanned, UrlTypes
<1>2. /\ u \in Entries /\ u.place = url[i].place /\ u.active = url[i].active /\ u.st # "none"
      /\ s \in {"none", "fail"} /\ s \in Jobs /\ url[i] \in Entries
  <2>1. url[i] \in Entries
    BY <1>0, SameEntry
  <2>2. st \in {"scanFailed", "skipped"}
    OBVIOUS
  <2>3. s \in {"none", "fail"} /\ s \in Jobs
    BY DEF Jobs
  <2> HIDE DEF st
  <2>4. u \in Entries /\ u.place = url[i].place /\ u.active = url[i].active /\ u.st # "none"
    BY <2>1, <2>2 DEF Entries
  <2> QED BY <2>1, <2>3, <2>4
<1>3. ~scan.busy
  BY <1>1 DEF ScanInv
<1>4. i \notin raced => EntryHeld(i) /\ FileHeld(i)
  BY DEF HeldInv
<1>5. i \notin raced => i \notin queueList /\ (answer[i] # "success" => url[i].place = "queue")
  BY <1>1, <1>3, <1>4 DEF EntryHeld, FileHeld
<1>6. (answer[i] = "success" <=> s = "none") /\ (answer[i] # "success" => s = "fail")
  OBVIOUS
<1> HIDE DEF u, s, st
<1>7. /\ url' \in [Items -> Entries] /\ (url'[i] = u \/ url'[i] = url[i])
      /\ answer[i] # "success" /\ url[i].place = "queue" => url'[i] = u
      /\ \A j \in Items \ {i} : url'[j] = url[j]
  BY <1>0, <1>1, <1>2, EntrySet DEF UrlTypes
<1>8. /\ job' \in [Items -> Jobs] /\ job'[i] = s
      /\ \A j \in Items \ {i} : job'[j] = job[j]
  BY <1>0, <1>1, <1>2, JobSet
<1>9. UrlTypes'
  <2>1. ASSUME NEW j \in stopped' PROVE j \in Items /\ job'[j] \in InTransfer
    BY <1>0, <1>1, <1>8 DEF UrlTypes, InTransfer
  <2>2. stopped' \subseteq {j \in Items : job'[j] \in InTransfer}
    BY <2>1
  <2>3. broken' \in SUBSET Items
    BY <1>0, <1>1 DEF UrlTypes
  <2> QED BY <1>0, <1>1, <1>7, <1>8, <2>2, <2>3 DEF UrlTypes
<1>10. ScanTypes' /\ EnvTypes'
  BY <1>0, <1>1, ForgetIs DEF ScanTypes, EnvTypes, envVars
<1>11. LoopInv'
  <2> SUFFICES ASSUME ~hasMore', NEW j \in Items PROVE ~Waiting(j)' /\ job'[j] \notin InTransfer
    BY DEF LoopInv
  <2>1. ~Waiting(j) /\ job[j] \notin InTransfer
    BY <1>1 DEF LoopInv
  <2>2. CASE j = i
    BY <1>2, <1>7, <1>8, <2>1, <2>2 DEF Waiting, InTransfer
  <2>3. CASE j # i
    BY <1>7, <1>8, <2>1, <2>3 DEF Waiting
  <2> QED BY <2>2, <2>3
<1>12. HeldInv'
  <2>1. \A j \in Items \ {i} : Untouched(j)
    BY <1>0, <1>1, <1>7, <1>8, ForgetIs DEF Untouched, ScanTypes
  <2>2. i \notin raced' /\ EntryHeld(i) /\ FileHeld(i) => EntryHeld(i)' /\ FileHeld(i)'
    <3> SUFFICES ASSUME i \notin raced, EntryHeld(i) PROVE EntryHeld(i)' /\ FileHeld(i)'
      BY <1>1
    <3>1. url[i].active = 1 /\ resets[i] = 0 /\ i \notin queueList'
      BY <1>1, <1>5 DEF EntryHeld
    <3>2. CASE s = "none"
      BY <1>1, <1>8, <3>1, <3>2 DEF EntryHeld, FileHeld, InTransfer
    <3>3. CASE s = "fail"
      <4>1. url'[i] = u /\ url[i].place = "queue"
        BY <1>5, <1>6, <1>7, <3>3
      <4> QED BY <1>1, <1>2, <1>8, <3>1, <3>3, <4>1 DEF EntryHeld, FileHeld, InTransfer
    <3> QED BY <1>2, <3>2, <3>3
  <2> QED BY <1>1, <2>1, <2>2, HeldBut
<1>13. ScanInv'
  BY <1>1, <1>3 DEF ScanInv
<1>14. UrlJobUsable'
  BY <1>1, <1>5 DEF UrlJobUsable
<1> QED BY <1>9, <1>10, <1>11, <1>12, <1>13, <1>14, TypeParts, PTL

LEMMA ServiceWorkStep ==
  ASSUME UrlInv, broken = {}, ServiceWork
  PROVE  UrlInv'
<1> USE DEF UrlInv
<1>0. UrlTypes /\ ScanTypes /\ EnvTypes
  BY TypeParts
<1>1. /\ scan' = [busy |-> TRUE, checkStat |-> ~requested, todo |-> {i \in Items : incoming[i].age # "none"}]
      /\ requested' = FALSE /\ scanning' = TRUE /\ UNCHANGED <<incoming, queueList, answer, urlVars, envVars>>
  BY DEF ServiceWork
<1>2. /\ scan'.busy = TRUE /\ scan'.todo = {i \in Items : incoming[i].age # "none"}
      /\ scan' \in [busy : BOOLEAN, checkStat : BOOLEAN, todo : SUBSET Items]
  BY <1>1
<1>3. UrlTypes' /\ ScanTypes' /\ EnvTypes'
  BY <1>0, <1>1, <1>2 DEF UrlTypes, ScanTypes, EnvTypes, urlVars, envVars
<1>4. LoopInv' /\ ScanInv' /\ UrlJobUsable'
  BY <1>1, <1>2 DEF LoopInv, Waiting, ScanInv, UrlJobUsable, urlVars
<1>5. HeldInv'
  BY <1>1, <1>2, HeldKept DEF HeldInv, Untouched, urlVars
<1> QED BY <1>3, <1>4, <1>5, TypeParts, PTL

LEMMA ScanEndsStep ==
  ASSUME UrlInv, broken = {}, ScanEnds
  PROVE  UrlInv'
<1> USE DEF UrlInv
<1>0. UrlTypes /\ ScanTypes /\ EnvTypes
  BY TypeParts
<1>1. /\ scanning' = FALSE /\ queueList' = {} /\ scan' = IdleScan
      /\ UNCHANGED <<incoming, answer, requested, urlVars, envVars>>
  BY DEF ScanEnds
<1>2. scan' \in [busy : BOOLEAN, checkStat : BOOLEAN, todo : SUBSET Items] /\ ~scan'.busy /\ scan'.todo = {}
  BY <1>1 DEF IdleScan
<1>3. UrlTypes' /\ ScanTypes' /\ EnvTypes'
  BY <1>0, <1>1, <1>2 DEF UrlTypes, ScanTypes, EnvTypes, urlVars, envVars
<1>4. LoopInv' /\ ScanInv' /\ UrlJobUsable'
  BY <1>1, <1>2 DEF LoopInv, Waiting, ScanInv, UrlJobUsable, urlVars
<1>5. HeldInv'
  BY <1>1 DEF HeldInv, EntryHeld, FileHeld, urlVars
<1> QED BY <1>3, <1>4, <1>5, TypeParts, PTL
LEMMA ProcessStep ==
  ASSUME UrlInv, broken = {}, NEW i \in Items, ProcessIncomingFile(i)
  PROVE  UrlInv'
<1> USE DEF UrlInv
<1>0. UrlTypes /\ ScanTypes /\ EnvTypes
  BY TypeParts
<1>1. /\ i \in scan.todo /\ scan' = [scan EXCEPT !.todo = @ \ {i}]
      /\ UNCHANGED <<job, stopped, resets, hasMore, raced, forgotten, queueList, requested, scanning, envVars>>
  BY DEF ProcessIncomingFile
<1>2. incoming[i].age # "none" /\ scan.busy /\ scanning
  BY <1>1 DEF ScanInv
<1>3. /\ scan' \in [busy : BOOLEAN, checkStat : BOOLEAN, todo : SUBSET Items]
      /\ scan'.busy = scan.busy /\ scan'.todo = scan.todo \ {i}
  BY <1>0, <1>1 DEF ScanTypes
<1>4. i \notin raced => EntryHeld(i) /\ FileHeld(i)
  BY DEF HeldInv
(***************************************************************************)
(* What every way to look at the file has in common.                       *)
(***************************************************************************)
<1>5. ASSUME NEW age \in {"none", "listed"}, incoming' = [incoming EXCEPT ![i].age = age],
             url' \in [Items -> Entries], \A j \in Items \ {i} : url'[j] = url[j],
             answer' \in [Items -> {"skipped", "success", "failed"}],
             \A j \in Items \ {i} : answer'[j] = answer[j],
             Waiting(i)' => Waiting(i),
             broken' \subseteq {i}, broken' # {} => i \in raced,
             i \notin raced /\ EntryHeld(i) /\ FileHeld(i) =>
                EntryHeld(i)' /\ (age # "none" => url'[i] = url[i] /\ answer'[i] = answer[i])
      PROVE  UrlInv'
  <2>1. /\ incoming' \in [Items -> [age : {"none", "new", "listed"}, content : Contents \union {"nzb"}]]
        /\ incoming'[i].age = age /\ incoming'[i].content = incoming[i].content
        /\ \A j \in Items \ {i} : incoming'[j] = incoming[j]
    BY <1>0, <1>5 DEF ScanTypes
  <2>2. UrlTypes'
    BY <1>0, <1>1, <1>5 DEF UrlTypes
  <2>3. ScanTypes' /\ EnvTypes'
    BY <1>0, <1>1, <1>3, <1>5, <2>1 DEF ScanTypes, EnvTypes, envVars
  <2>4. LoopInv'
    <3> SUFFICES ASSUME ~hasMore', NEW j \in Items PROVE ~Waiting(j)' /\ job'[j] \notin InTransfer
      BY DEF LoopInv
    <3>1. ~Waiting(j) /\ job[j] \notin InTransfer
      BY <1>1 DEF LoopInv
    <3>2. CASE j = i
      BY <1>1, <1>5, <3>1, <3>2
    <3>3. CASE j # i
      BY <1>1, <1>5, <3>1, <3>3 DEF Waiting
    <3> QED BY <3>2, <3>3
  <2>5. HeldInv'
    <3>1. \A j \in Items \ {i} : Untouched(j)
      BY <1>1, <1>3, <1>5, <2>1 DEF Untouched
    <3>2. i \notin raced' /\ EntryHeld(i) /\ FileHeld(i) => EntryHeld(i)' /\ FileHeld(i)'
      BY <1>1, <1>2, <1>3, <1>5, <2>1 DEF FileHeld
    <3> QED BY <1>1, <3>1, <3>2, HeldBut
  <2>6. ScanInv'
    BY <1>1, <1>2, <1>3, <2>1 DEF ScanInv
  <2>7. UrlJobUsable'
    BY <1>1, <1>5 DEF UrlJobUsable
  <2> QED BY <2>2, <2>3, <2>4, <2>5, <2>6, <2>7, TypeParts, PTL
<1>6. ASSUME incoming' = [incoming EXCEPT ![i].age = "listed"], UNCHANGED <<url, answer, broken>>
      PROVE  UrlInv'
  <2>1. EntryHeld(i) => EntryHeld(i)'
    BY <1>1, <1>6 DEF EntryHeld
  <2>2. Waiting(i)' => Waiting(i)
    BY <1>6 DEF Waiting
  <2> QED BY <1>0, <1>5, <1>6, <2>1, <2>2 DEF UrlTypes, ScanTypes
<1>7. ASSUME NEW added \in {incoming[i].content \in {"nzb", "archive"}, FALSE},
             incoming' = [incoming EXCEPT ![i].age = "none"],
             answer' = IF i \in queueList /\ incoming[i].content # "archive"
                       THEN [answer EXCEPT ![i] = IF incoming[i].content = "other" THEN "skipped"
                                                  ELSE IF added THEN "success" ELSE "failed"]
                       ELSE answer,
             IF added /\ i \in queueList
             THEN IF url[i].place = "queue"
                  THEN url' = [url EXCEPT ![i].place = "nzb"] /\ broken' = broken
                  ELSE url' = url /\ broken' = broken \union {i}
             ELSE UNCHANGED <<url, broken>>
      PROVE  UrlInv'
  <2>1. /\ answer' \in [Items -> {"skipped", "success", "failed"}]
        /\ \A j \in Items \ {i} : answer'[j] = answer[j]
        /\ i \notin queueList => answer'[i] = answer[i]
        /\ i \in queueList /\ incoming[i].content = "archive" => answer'[i] = answer[i]
        /\ i \in queueList /\ incoming[i].content = "nzb" /\ added => answer'[i] = "success"
    BY <1>0, <1>7 DEF ScanTypes
  <2>2. added => incoming[i].content \in {"nzb", "archive"}
    BY <1>7
  <2>3. CASE added /\ i \in queueList /\ url[i].place = "queue"
    <3> DEFINE u == [url[i] EXCEPT !.place = "nzb"]
    <3>1. url[i] \in Entries
      BY <1>0, SameEntry
    <3>2. /\ u \in Entries /\ u.place = "nzb" /\ u.active = url[i].active /\ u.st = url[i].st
          /\ u.del = url[i].del
      BY <3>1 DEF Entries
    <3>3. url' = [url EXCEPT ![i] = u] /\ broken' = broken
      BY <1>0, <1>7, <2>3 DEF UrlTypes
    <3> HIDE DEF u
    <3>4. /\ url' \in [Items -> Entries] /\ url'[i] = u /\ \A j \in Items \ {i} : url'[j] = url[j]
      BY <1>0, <3>2, <3>3, EntrySet
    <3>5. ~Waiting(i)'
      BY <3>2, <3>4 DEF Waiting
    <3>6. i \notin raced /\ EntryHeld(i) /\ FileHeld(i) => EntryHeld(i)'
      <4> SUFFICES ASSUME EntryHeld(i), FileHeld(i) PROVE EntryHeld(i)'
        OBVIOUS
      <4>1. /\ job[i] \in {"request", "wait"} /\ url[i].active = 1 /\ resets[i] = 0
            /\ url[i].st # "none" \/ url[i].del # "none"
            /\ incoming[i].content = "archive" => answer[i] = "success"
        BY <1>2, <2>3 DEF EntryHeld, FileHeld
      <4>2. answer'[i] = "success"
        BY <2>1, <2>2, <2>3, <4>1
      <4> QED BY <1>1, <3>2, <3>4, <4>1, <4>2 DEF EntryHeld, InTransfer
    <3> QED BY <1>5, <1>7, <2>1, <3>3, <3>4, <3>5, <3>6
  <2>4. CASE ~(added /\ i \in queueList /\ url[i].place = "queue")
    <3>1. url' = url /\ broken' \subseteq {i}
      BY <1>7, <2>4
    <3>2. broken' # {} => i \in raced
      <4> SUFFICES ASSUME i \notin raced PROVE broken' = {}
        OBVIOUS
      <4>1. i \in queueList => url[i].place = "queue"
        BY <1>2, <1>4 DEF FileHeld
      <4> QED BY <1>7, <2>4, <4>1
    <3>3. i \notin raced /\ EntryHeld(i) /\ FileHeld(i) => EntryHeld(i)'
      <4> SUFFICES ASSUME EntryHeld(i), FileHeld(i) PROVE EntryHeld(i)'
        OBVIOUS
      <4>1. CASE i \in queueList
        <5>1. url[i].place = "queue"
          BY <1>2, <4>1 DEF FileHeld
        <5> QED BY <1>1, <3>1, <5>1 DEF EntryHeld
      <4>2. CASE i \notin queueList
        BY <1>1, <2>1, <3>1, <4>2 DEF EntryHeld
      <4> QED BY <4>1, <4>2
    <3>4. Waiting(i)' => Waiting(i)
      BY <3>1 DEF Waiting
    <3> QED BY <1>0, <1>5, <1>7, <2>1, <3>1, <3>2, <3>3, <3>4 DEF UrlTypes
  <2> QED BY <2>3, <2>4
<1> QED BY <1>6, <1>7 DEF ProcessIncomingFile

LEMMA PauseStep ==
  ASSUME UrlInv, Pause \/ UNCHANGED vars
  PROVE  UrlInv'
<1> USE DEF UrlInv
<1>0. UrlTypes /\ ScanTypes /\ EnvTypes
  BY TypeParts
<1>1. UNCHANGED <<url, job, stopped, resets, hasMore, raced, broken, forgotten,
                  incoming, queueList, answer, scan, requested, scanning>>
  BY DEF Pause, vars, urlVars, scanVars
<1>2. EnvTypes'
  <2>1. CASE UNCHANGED vars
    BY <1>0, <2>1 DEF vars, envVars, EnvTypes
  <2>2. CASE Pause
    <3>1. paused' \in BOOLEAN /\ Event
      BY <2>2 DEF Pause
    <3> QED BY <1>0, <3>1, EventTypes
  <2> QED BY <2>1, <2>2
<1>3. UrlTypes' /\ ScanTypes'
  BY <1>0, <1>1 DEF UrlTypes, ScanTypes
<1>4. LoopInv' /\ ScanInv' /\ UrlJobUsable'
  BY <1>1 DEF LoopInv, Waiting, ScanInv, UrlJobUsable
<1>5. HeldInv'
  BY <1>1, HeldKept DEF HeldInv, Untouched
<1> QED BY <1>2, <1>3, <1>4, <1>5, TypeParts, PTL

LEMMA RestartStep ==
  ASSUME UrlInv, broken = {}, Restart
  PROVE  UrlInv'
<1> USE DEF UrlInv
<1>0. UrlTypes /\ ScanTypes /\ EnvTypes
  BY TypeParts
<1>1. PICK saved \in BOOLEAN : url' = [i \in Items |-> Loaded(url[i], saved)]
  BY DEF Restart
<1>2. /\ Event /\ job' = [i \in Items |-> "none"] /\ stopped' = {} /\ resets' = [i \in Items |-> 0]
      /\ hasMore' = TRUE /\ queueList' = {} /\ scan' = IdleScan /\ requested' = FALSE /\ scanning' = FALSE
      /\ answer' = [i \in Items |-> "skipped"] /\ incoming' = Forget(incoming)
      /\ forgotten' = forgotten \union {i \in Items : url[i].place = "queue"}
      /\ UNCHANGED <<raced, broken, paused>>
  BY DEF Restart
<1>3. url' \in [Items -> Entries]
  BY <1>0, <1>1, SameEntry, LoadedEntry
<1>4. UrlTypes'
  <2>1. resets' \in [Items -> 0..MaxRetries]
    BY <1>2, UrlOptions DEF UrlOptions
  <2> QED BY <1>0, <1>2, <1>3, <2>1 DEF UrlTypes, Jobs
<1>5. scan' \in [busy : BOOLEAN, checkStat : BOOLEAN, todo : SUBSET Items] /\ ~scan'.busy /\ scan'.todo = {}
  BY <1>2 DEF IdleScan
<1>6. ScanTypes' /\ EnvTypes'
  BY <1>0, <1>2, <1>5, ForgetIs, EventTypes DEF ScanTypes, EnvTypes
<1>7. LoopInv' /\ ScanInv' /\ UrlJobUsable'
  BY <1>2, <1>5 DEF LoopInv, ScanInv, UrlJobUsable
<1>8. HeldInv'
  BY <1>2 DEF HeldInv, EntryHeld, FileHeld, InTransfer
<1> QED BY <1>4, <1>6, <1>7, <1>8, TypeParts, PTL

LEMMA UrlInvariant == Spec => []UrlInv
<1>1. UrlInv /\ [Next]_vars => UrlInv'
  <2> SUFFICES ASSUME UrlInv, [Next]_vars PROVE UrlInv'
    OBVIOUS
  <2>1. CASE UNCHANGED vars
    BY <2>1, PauseStep
  <2>2. CASE Next
    <3>1. broken = {} /\ Step
      BY <2>2 DEF Next
    <3> QED BY <3>1, LookStep, AddStep, TransferStep, HangStep, CompletedStep, ResetStep, FailedStep,
               DeleteStep, RedownloadStep, AddExternalStep, ScanNzbDirStep, ScannedStep, ProcessStep,
               ServiceWorkStep, ScanEndsStep, PauseStep, RestartStep DEF Step
  <2> QED BY <2>1, <2>2
<1> QED BY <1>1, InitUrlInv, PTL DEF Spec

(***************************************************************************)
(* A thread that works on a URL, in UrlCompleted before and after its      *)
(* unlock or in the scanner, finds the entry in the queue, for any number  *)
(* of URLs and connections, unless the URL was started again before the    *)
(* unlocked reset after its retry.                                         *)
(***************************************************************************)
THEOREM UrlEntriesUsable == Spec => []UrlsConsistent
<1>1. UrlInv => UrlsConsistent
  BY DEF UrlInv, UrlsConsistent
<1> QED BY <1>1, UrlInvariant, PTL

(***************************************************************************)
(* UrlCoordinator::Run never sleeps on its condition while a URL waits:    *)
(* although a retry does not wake it, it cannot have gone to sleep while   *)
(* the download that is retried was active.                                *)
(***************************************************************************)
THEOREM UrlLoopNeverOversleeps == Spec => []UrlLoopAwake
<1>1. UrlInv => UrlLoopAwake
  BY DEF UrlInv, LoopInv, UrlLoopAwake
<1> QED BY <1>1, UrlInvariant, PTL
===============================================================================

-------------------------- MODULE FeedCoordinatorProofs --------------------------
(***************************************************************************)
(* Proofs about the feed coordinator, for any feeds, items, options and    *)
(* numbers of restarts: the feed history, the items on the way to the URL  *)
(* coordinator and the URL queue always agree, and no item is handed over  *)
(* twice.                                                                  *)
(***************************************************************************)
EXTENDS FeedCoordinator, TLAPS

(***************************************************************************)
(* What ProcessFeed, AddUrlToQueue and Restart rely on.  Only a feed that  *)
(* is adding has items under way, so ProcessFeed overwrites none; they are *)
(* in the history, so no other feed takes them for new; what is in the     *)
(* queue is still known or was forgotten by a restart; the file never      *)
(* holds more than the history.                                            *)
(***************************************************************************)
OnlyAddersHold == \A f \in Feeds : fetcher[f] # "adding" => addedNzbs[f] = {}

UnderWayKnown == \A f \in Feeds : addedNzbs[f] \subseteq history

QueuedKnown == queued \subseteq history \union unsaved

UnderWayOnce ==
  /\ \A f \in Feeds : addedNzbs[f] \intersect queued \subseteq unsaved
  /\ \A f, g \in Feeds : f # g => addedNzbs[f] \intersect addedNzbs[g] \subseteq unsaved

FileBehind == disk.history \subseteq history

FeedInv ==
  /\ TypeOK /\ OnlyAddersHold /\ UnderWayKnown /\ QueuedKnown /\ UnderWayOnce
  /\ FileBehind /\ FetchedOnce /\ KnownItemsQueued

-------------------------------------------------------------------------------

FeedInfo == [fetch : BOOLEAN, due : BOOLEAN, updated : BOOLEAN]

(***************************************************************************)
(* Setting one flag of a FeedInfo gives a FeedInfo.                        *)
(***************************************************************************)
LEMMA FeedFlags ==
  ASSUME NEW r \in FeedInfo, NEW b \in BOOLEAN
  PROVE  /\ [r EXCEPT !.fetch = b] \in FeedInfo
         /\ [r EXCEPT !.due = b] \in FeedInfo
         /\ [r EXCEPT !.updated = b] \in FeedInfo
  BY DEF FeedInfo

LEMMA ForcedType == StillForced \in BOOLEAN
<1>1. CASE \E f \in Feeds \ Due : feed[f].fetch
  BY <1>1 DEF StillForced
<1>2. CASE ~ \E f \in Feeds \ Due : feed[f].fetch
  BY <1>2 DEF StillForced
<1> QED BY <1>1, <1>2

LEMMA NewFeedType == NewFeed \in FeedInfo
  BY DEF NewFeed, FeedInfo

(***************************************************************************)
(* The initial state, and every step keeps the types.                      *)
(***************************************************************************)
LEMMA LoadedFeedType ==
  ASSUME NEW f, NEW S
  PROVE  [NewFeed EXCEPT !.updated = f \in S] \in FeedInfo
<1>1. (f \in S) \in BOOLEAN
  <2>1. CASE f \in S  BY <2>1
  <2>2. CASE f \notin S  BY <2>2
  <2> QED BY <2>1, <2>2
<1> QED BY <1>1, NewFeedType, FeedFlags

LEMMA FeedInit == Init => FeedInv
<1> SUFFICES ASSUME Init PROVE FeedInv
  OBVIOUS
<1>1. TypeOK
  <2>1. feed \in [Feeds -> FeedInfo]
    BY NewFeedType DEF Init
  <2>2. disk \in [history : SUBSET Items, updated : SUBSET Feeds]
    BY DEF Init
  <2>3. previews \in 0..1 /\ events \in 0..MaxEvents
    BY FeedOptions DEF Init, FeedOptions
  <2>4. /\ fetcher \in [Feeds -> {"none", "running", "erased", "process", "adding"}]
        /\ addedNzbs \in [Feeds -> SUBSET Items]
    BY DEF Init
  <2>5. force \in BOOLEAN /\ save \in BOOLEAN /\ paused \in BOOLEAN
    BY DEF Init
  <2> QED BY <2>1, <2>2, <2>3, <2>4, <2>5 DEF Init, TypeOK, FeedInfo
<1> QED
  BY <1>1 DEF Init, FeedInv, OnlyAddersHold, UnderWayKnown, QueuedKnown, UnderWayOnce,
     FileBehind, FetchedOnce, KnownItemsQueued

LEMMA FeedTypeStep == TypeOK /\ [Next]_vars => TypeOK'
<1> SUFFICES ASSUME TypeOK, [Next]_vars PROVE TypeOK'
  OBVIOUS
<1>0. feed \in [Feeds -> FeedInfo]
  BY DEF TypeOK, FeedInfo
<1> USE FeedOptions DEF TypeOK, FeedOptions
<1>1. CASE CheckFeeds
  <2>1. force' \in BOOLEAN
    BY <1>1, ForcedType DEF CheckFeeds
  <2>2. feed' \in [Feeds -> FeedInfo]
    BY <1>0, <1>1, FeedFlags DEF CheckFeeds
  <2>3. fetcher' \in [Feeds -> {"none", "running", "erased", "process", "adding"}]
    BY <1>1 DEF CheckFeeds
  <2>4. UNCHANGED <<addedNzbs, previews, history, backlogged, save, disk, queued,
                    paused, events, lost, unsaved, twice>>
    BY <1>1 DEF CheckFeeds
  <2> QED BY <2>1, <2>2, <2>3, <2>4 DEF FeedInfo
<1>2. CASE CheckSaveFeeds
  BY <1>2 DEF CheckSaveFeeds
<1>3. CASE PreviewFeed
  BY <1>3 DEF PreviewFeed, Event
<1>4. CASE PreviewEnds
  BY <1>4 DEF PreviewEnds
<1>5. CASE WorkStateUpdate
  BY <1>5 DEF WorkStateUpdate, Event
<1>6. CASE Restart
  <2>1. feed' \in [Feeds -> FeedInfo]
    BY <1>6, LoadedFeedType DEF Restart
  <2>2. history' \subseteq Items /\ unsaved' \subseteq Items /\ lost' \subseteq Items
        /\ backlogged' \subseteq Items
    BY <1>6 DEF Restart
  <2>3. /\ fetcher' = [f \in Feeds |-> "none"] /\ addedNzbs' = [f \in Feeds |-> {}]
        /\ previews' = 0 /\ force' = FALSE /\ save' = FALSE
        /\ events \in Nat /\ events < MaxEvents /\ events' = events + 1
        /\ UNCHANGED <<disk, queued, paused, twice>>
    BY <1>6 DEF Restart, Event
  <2>4. events' \in 0..MaxEvents
    BY <2>3
  <2>5. previews' \in 0..1
    BY <2>3
  <2> QED BY <2>1, <2>2, <2>3, <2>4, <2>5 DEF FeedInfo
<1>7. ASSUME NEW f \in Feeds, FeedErased(f) PROVE TypeOK'
  BY <1>7 DEF FeedErased
<1>8. ASSUME NEW f \in Feeds, SchedulerNextUpdate(f) PROVE TypeOK'
  <2>1. feed' \in [Feeds -> FeedInfo]
    BY <1>0, <1>8, FeedFlags DEF SchedulerNextUpdate
  <2> QED BY <1>8, <2>1 DEF SchedulerNextUpdate, FeedInfo
<1>9. ASSUME NEW f \in Feeds, ProcessFeed(f) PROVE TypeOK'
  <2>1. feed' \in [Feeds -> FeedInfo]
    BY <1>0, <1>9, FeedFlags DEF ProcessFeed
  <2>2. /\ addedNzbs' \in [Feeds -> SUBSET Items]
        /\ history' \in SUBSET Items /\ backlogged' \in SUBSET Items
    BY <1>9 DEF ProcessFeed, NewItems, Noted
  <2> QED BY <1>9, <2>1, <2>2 DEF ProcessFeed, SaveLater, FeedInfo
<1>10. ASSUME NEW f \in Feeds, FeedFinished(f) PROVE TypeOK'
  BY <1>10 DEF FeedFinished
<1>11. ASSUME NEW f \in Feeds, FetchFeed(f) PROVE TypeOK'
  <2>1. feed' \in [Feeds -> FeedInfo]
    BY <1>0, <1>11, FeedFlags DEF FetchFeed
  <2> QED BY <1>11, <2>1 DEF FetchFeed, Event, FeedInfo
<1>12. ASSUME NEW f \in Feeds, UpdateIsDue(f) PROVE TypeOK'
  <2>1. feed' \in [Feeds -> FeedInfo]
    BY <1>0, <1>12, FeedFlags DEF UpdateIsDue
  <2> QED BY <1>12, <2>1 DEF UpdateIsDue, Event, FeedInfo
<1>13. ASSUME NEW f \in Feeds, NEW i \in Items, AddUrlToQueue(f, i) PROVE TypeOK'
  BY <1>13 DEF AddUrlToQueue
<1>14. ASSUME NEW i \in Items, UrlCompleted(i) PROVE TypeOK'
  BY <1>14 DEF UrlCompleted, SaveLater
<1>15. CASE UNCHANGED vars
  BY <1>15 DEF vars
<1> QED
  BY <1>1, <1>2, <1>3, <1>4, <1>5, <1>6, <1>7, <1>8, <1>9, <1>10, <1>11, <1>12, <1>13, <1>14, <1>15
     DEF Next

(***************************************************************************)
(* Steps that touch neither the history, the items under way, the queue    *)
(* nor the file keep the invariant, if no feed with items stops adding.    *)
(***************************************************************************)
LEMMA FeedFrame ==
  ASSUME FeedInv, TypeOK', OnlyAddersHold',
         UNCHANGED <<addedNzbs, history, backlogged, queued, lost, unsaved, twice>>,
         disk'.history \subseteq history
  PROVE  FeedInv'
  BY DEF FeedInv, UnderWayKnown, QueuedKnown, UnderWayOnce, FileBehind, FetchedOnce, KnownItemsQueued

(***************************************************************************)
(* The steps that move items.                                              *)
(***************************************************************************)
LEMMA ProcessFeedStep ==
  ASSUME FeedInv, TypeOK', NEW f \in Feeds, ProcessFeed(f)
  PROVE  FeedInv'
<1> USE DEF FeedInv
<1>1. PICK listed \in SUBSET FeedItems[f] :
         /\ addedNzbs' = [addedNzbs EXCEPT ![f] = NewItems(f, listed)]
         /\ history' = history \union listed
         /\ backlogged' = backlogged \union (listed \ (history \union NewItems(f, listed)))
  BY DEF ProcessFeed, Noted
<1>2. /\ fetcher[f] = "process" /\ fetcher' = [fetcher EXCEPT ![f] = "adding"]
      /\ UNCHANGED <<disk, queued, lost, unsaved, twice>>
  BY DEF ProcessFeed
<1>3. /\ NewItems(f, listed) \subseteq listed
      /\ NewItems(f, listed) \intersect history = {}
  BY DEF NewItems
<1>4. addedNzbs[f] = {}
  BY <1>2 DEF OnlyAddersHold
<1>5. /\ addedNzbs'[f] = NewItems(f, listed)
      /\ \A g \in Feeds : g # f => addedNzbs'[g] = addedNzbs[g] /\ fetcher'[g] = fetcher[g]
      /\ fetcher'[f] = "adding"
  BY <1>1, <1>2 DEF TypeOK
<1>6. OnlyAddersHold'
  BY <1>5 DEF OnlyAddersHold
<1>7. UnderWayKnown'
  BY <1>1, <1>3, <1>5 DEF UnderWayKnown
<1>8. QueuedKnown' /\ FileBehind' /\ FetchedOnce'
  BY <1>1, <1>2 DEF QueuedKnown, FileBehind, FetchedOnce
<1>9. UnderWayOnce'
  BY <1>2, <1>3, <1>5 DEF UnderWayOnce, UnderWayKnown, QueuedKnown
<1>10. KnownItemsQueued'
  <2> SUFFICES ASSUME NEW i \in history', i \notin queued', i \notin backlogged', i \notin lost'
               PROVE  \E g \in Feeds : i \in addedNzbs'[g]
    BY DEF KnownItemsQueued
  <2>1. CASE i \in history
    <3>1. PICK g \in Feeds : i \in addedNzbs[g]
      BY <1>1, <1>2, <2>1 DEF KnownItemsQueued
    <3> QED BY <1>4, <1>5, <3>1
  <2>2. CASE i \notin history
    BY <1>1, <1>5, <2>2
  <2> QED BY <2>1, <2>2
<1> QED
  BY <1>6, <1>7, <1>8, <1>9, <1>10

LEMMA AddUrlStep ==
  ASSUME FeedInv, TypeOK', NEW f \in Feeds, NEW i \in Items, AddUrlToQueue(f, i)
  PROVE  FeedInv'
<1> USE DEF FeedInv
<1>1. /\ i \in addedNzbs[f] /\ queued' = queued \union {i}
      /\ twice' = twice \union (queued \intersect {i})
      /\ UNCHANGED <<fetcher, history, backlogged, disk, lost, unsaved>>
  BY DEF AddUrlToQueue
<1>2. /\ addedNzbs'[f] = addedNzbs[f] \ {i}
      /\ \A g \in Feeds : g # f => addedNzbs'[g] = addedNzbs[g]
  BY DEF AddUrlToQueue, TypeOK
<1>3. OnlyAddersHold' /\ UnderWayKnown' /\ FileBehind'
  BY <1>1, <1>2 DEF OnlyAddersHold, UnderWayKnown, FileBehind
<1>4. QueuedKnown' /\ FetchedOnce'
  BY <1>1 DEF QueuedKnown, FetchedOnce, UnderWayKnown, UnderWayOnce
<1>5. UnderWayOnce'
  <2>1. ASSUME NEW g \in Feeds PROVE addedNzbs'[g] \intersect queued' \subseteq unsaved'
    <3>1. CASE g = f
      BY <1>1, <1>2, <3>1 DEF UnderWayOnce
    <3>2. CASE g # f
      BY <1>1, <1>2, <3>2 DEF UnderWayOnce
    <3> QED BY <3>1, <3>2
  <2>2. ASSUME NEW g \in Feeds, NEW h \in Feeds, g # h
        PROVE  addedNzbs'[g] \intersect addedNzbs'[h] \subseteq unsaved'
    BY <1>1, <1>2, <2>2 DEF UnderWayOnce
  <2> QED BY <2>1, <2>2 DEF UnderWayOnce
<1>6. KnownItemsQueued'
  <2> SUFFICES ASSUME NEW j \in history', j \notin queued', j \notin backlogged', j \notin lost'
               PROVE  \E g \in Feeds : j \in addedNzbs'[g]
    BY DEF KnownItemsQueued
  <2>1. PICK g \in Feeds : j \in addedNzbs[g]
    BY <1>1 DEF KnownItemsQueued
  <2> QED BY <1>1, <1>2, <2>1
<1> QED
  BY <1>3, <1>4, <1>5, <1>6

LEMMA RestartStep ==
  ASSUME FeedInv, TypeOK', Restart
  PROVE  FeedInv'
<1> USE DEF FeedInv
<1>1. /\ lost' = lost \union UNION {addedNzbs[f] : f \in Feeds}
      /\ unsaved' = unsaved \union (history \ disk.history)
      /\ history' = disk.history /\ backlogged' = backlogged \intersect disk.history
      /\ UNCHANGED <<disk, queued, twice>>
      /\ addedNzbs' = [f \in Feeds |-> {}]
  BY DEF Restart
<1>2. \A f \in Feeds : addedNzbs'[f] = {}
  BY <1>1
<1>3. OnlyAddersHold' /\ UnderWayKnown' /\ UnderWayOnce'
  BY <1>2 DEF OnlyAddersHold, UnderWayKnown, UnderWayOnce
<1>4. QueuedKnown' /\ FileBehind' /\ FetchedOnce'
  BY <1>1 DEF QueuedKnown, FileBehind, FetchedOnce
<1>5. KnownItemsQueued'
  BY <1>1 DEF KnownItemsQueued, FileBehind
<1> QED
  BY <1>3, <1>4, <1>5

LEMMA FeedStep == FeedInv /\ [Next]_vars => FeedInv'
<1> SUFFICES ASSUME FeedInv, [Next]_vars PROVE FeedInv'
  OBVIOUS
<1>0. TypeOK /\ TypeOK'
  BY FeedTypeStep DEF FeedInv
<1> DEFINE Same == UNCHANGED <<addedNzbs, history, backlogged, queued, lost, unsaved, twice>>
<1>1. CASE CheckFeeds
  <2>1. Same /\ disk' = disk
    BY <1>1 DEF CheckFeeds
  <2>2. OnlyAddersHold'
    BY <1>0, <1>1 DEF FeedInv, OnlyAddersHold, CheckFeeds, Due, TypeOK
  <2> QED BY <1>0, <2>1, <2>2, FeedFrame DEF FeedInv, FileBehind
<1>2. CASE CheckSaveFeeds
  BY <1>0, <1>2, FeedFrame DEF FeedInv, FileBehind, OnlyAddersHold, CheckSaveFeeds
<1>3. CASE PreviewFeed \/ PreviewEnds \/ WorkStateUpdate
  BY <1>0, <1>3, FeedFrame
     DEF FeedInv, FileBehind, OnlyAddersHold, PreviewFeed, PreviewEnds, WorkStateUpdate
<1>4. CASE Restart
  BY <1>0, <1>4, RestartStep
<1>5. ASSUME NEW f \in Feeds, FeedErased(f) \/ SchedulerNextUpdate(f) \/ FeedFinished(f)
      PROVE  FeedInv'
  <2>1. Same /\ disk' = disk
    BY <1>5 DEF FeedErased, SchedulerNextUpdate, FeedFinished
  <2>2. /\ addedNzbs[f] = {}
        /\ \A g \in Feeds : g # f => fetcher'[g] = fetcher[g]
    BY <1>0, <1>5 DEF FeedErased, SchedulerNextUpdate, FeedFinished, FeedInv, OnlyAddersHold, TypeOK
  <2>3. OnlyAddersHold'
    BY <2>1, <2>2 DEF FeedInv, OnlyAddersHold
  <2> QED BY <1>0, <2>1, <2>3, FeedFrame DEF FeedInv, FileBehind
<1>6. ASSUME NEW f \in Feeds, ProcessFeed(f) PROVE FeedInv'
  BY <1>0, <1>6, ProcessFeedStep
<1>7. ASSUME NEW f \in Feeds, FetchFeed(f) \/ UpdateIsDue(f) PROVE FeedInv'
  BY <1>0, <1>7, FeedFrame DEF FeedInv, FileBehind, OnlyAddersHold, FetchFeed, UpdateIsDue
<1>8. ASSUME NEW f \in Feeds, NEW i \in Items, AddUrlToQueue(f, i) PROVE FeedInv'
  BY <1>0, <1>8, AddUrlStep
<1>9. ASSUME NEW i \in Items, UrlCompleted(i) PROVE FeedInv'
  BY <1>0, <1>9 DEF UrlCompleted, FeedInv, OnlyAddersHold, UnderWayKnown, QueuedKnown, UnderWayOnce,
     FileBehind, FetchedOnce, KnownItemsQueued
<1>10. CASE UNCHANGED vars
  BY <1>0, <1>10, FeedFrame DEF vars, FeedInv, FileBehind, OnlyAddersHold
<1> QED
  BY <1>1, <1>2, <1>3, <1>4, <1>5, <1>6, <1>7, <1>8, <1>9, <1>10 DEF Next

-------------------------------------------------------------------------------

(***************************************************************************)
(* Feed history and URL queue agree in every state: an item that ProcessFeed *)
(* noted is in the queue, under way, skipped by a first fetch or was caught  *)
(* by a restart.                                                           *)
(***************************************************************************)
THEOREM FeedsAccounted == Spec => []ItemsAccounted
<1>1. FeedInv => ItemsAccounted
  BY DEF FeedInv, ItemsAccounted
<1> QED
  BY <1>1, FeedInit, FeedStep, PTL DEF Spec

(***************************************************************************)
(* No item is handed over twice, however many feeds list it and however    *)
(* their downloads interleave, unless a restart has forgotten it.          *)
(***************************************************************************)
THEOREM FeedsFetchOnce == Spec => []FetchedOnce
<1>1. FeedInv => FetchedOnce
  BY DEF FeedInv
<1> QED
  BY <1>1, FeedInit, FeedStep, PTL DEF Spec
===============================================================================

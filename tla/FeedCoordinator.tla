---------------------------- MODULE FeedCoordinator ----------------------------
(***************************************************************************)
(* feed/FeedCoordinator.cpp: feeds are fetched by threads of their own, at *)
(* intervals or on request; new items are noted in the feed history and    *)
(* handed over to the URL coordinator.  A step under m_downloadsMutex is   *)
(* one action.  The queue saves a URL as it is added.                      *)
(***************************************************************************)
EXTENDS Integers, FiniteSets

CONSTANTS
  Feeds,
  Items,           \* the URLs that feeds list
  FeedItems,       \* the items each feed may list
  Backlog,         \* feeds whose first fetch only fills the history (option Backlog=yes)
  UrlConnections,  \* option UrlConnections
  UrlForce,        \* option UrlForce
  MaxEvents        \* bound on what users, clocks and restarts do

ASSUME FeedOptions ==
  /\ IsFiniteSet(Feeds)
  /\ FeedItems \in [Feeds -> SUBSET Items]
  /\ Backlog \subseteq Feeds
  /\ UrlConnections \in Nat /\ UrlForce \in BOOLEAN /\ MaxEvents \in Nat

VARIABLES
  feed,       \* FeedInfo: m_fetch, is the next update due, was there an update
  fetcher,    \* the step of the feed's FeedDownloader; the feed runs unless "none"
  addedNzbs,  \* the items FeedCompleted still has to hand over
  previews,   \* previews in m_activeDownloads
  force,      \* m_force
  history,    \* m_feedHistory
  backlogged, \* items that a first fetch skipped
  save,       \* m_save
  disk,       \* the file "feeds": history, and the feeds with an update
  queued,     \* items the URL coordinator got
  paused,     \* g_WorkState->GetPauseDownload
  events,     \* what users, clocks and restarts did so far
  lost,       \* items a restart caught between history and queue
  unsaved,    \* items of the history a restart has forgotten
  twice       \* items handed over a second time

vars == <<feed, fetcher, addedNzbs, previews, force, history, backlogged, save, disk, queued,
          paused, events, lost, unsaved, twice>>

TypeOK ==
  /\ feed \in [Feeds -> [fetch : BOOLEAN, due : BOOLEAN, updated : BOOLEAN]]
  /\ fetcher \in [Feeds -> {"none", "running", "erased", "process", "adding"}]
  /\ addedNzbs \in [Feeds -> SUBSET Items]
  /\ previews \in 0..1
  /\ history \in SUBSET Items /\ backlogged \in SUBSET Items
  /\ disk \in [history : SUBSET Items, updated : SUBSET Feeds]
  /\ force \in BOOLEAN /\ save \in BOOLEAN /\ paused \in BOOLEAN
  /\ queued \in SUBSET Items /\ lost \in SUBSET Items
  /\ unsaved \in SUBSET Items /\ twice \in SUBSET Items
  /\ events \in 0..MaxEvents

NewFeed == [fetch |-> FALSE, due |-> TRUE, updated |-> FALSE]

Init ==
  /\ feed = [f \in Feeds |-> NewFeed]
  /\ fetcher = [f \in Feeds |-> "none"]
  /\ addedNzbs = [f \in Feeds |-> {}]
  /\ previews = 0 /\ force = FALSE /\ save = FALSE /\ paused = FALSE /\ events = 0
  /\ history = {} /\ backlogged = {} /\ queued = {}
  /\ disk = [history |-> {}, updated |-> {}]
  /\ lost = {} /\ unsaved = {} /\ twice = {}

Event == events < MaxEvents /\ events' = events + 1

-------------------------------------------------------------------------------
(* The thread of the coordinator *)

\* m_activeDownloads has no room for another download.
Busy == Cardinality({f \in Feeds : fetcher[f] = "running"}) + previews >= UrlConnections

\* Feeds to start.
Due == {f \in Feeds : (feed[f].due \/ feed[f].fetch) /\ fetcher[f] = "none"}

\* mutant: the request for a running feed is not remembered.
StillForcedNever == FALSE

\* m_force is set again for a feed that is asked for while it runs.
StillForced == \E f \in Feeds \ Due : feed[f].fetch

\* One pass of Run.  With free connections all feeds are started that are due.
\* The loop then waits, but never without a timeout.
CheckFeeds ==
  /\ ~paused \/ force \/ UrlForce
  /\ ~Busy
  /\ force' = StillForced
  /\ feed' = [f \in Feeds |-> IF f \in Due THEN [feed[f] EXCEPT !.fetch = FALSE] ELSE feed[f]]
  /\ fetcher' = [f \in Feeds |-> IF f \in Due THEN "running" ELSE fetcher[f]]
  /\ UNCHANGED <<addedNzbs, previews, history, backlogged, save, disk, queued,
                 paused, events, lost, unsaved, twice>>

\* The end of each pass, a critical section of its own.
CheckSaveFeeds ==
  /\ save /\ save' = FALSE
  /\ disk' = [history |-> history, updated |-> {f \in Feeds : feed[f].updated}]
  /\ UNCHANGED <<feed, fetcher, addedNzbs, previews, force, history, backlogged, queued,
                 paused, events, lost, unsaved, twice>>

-------------------------------------------------------------------------------
(* The threads of the downloads *)

\* The downloader leaves m_activeDownloads; the feed still counts as running.
FeedErased(f) ==
  /\ fetcher[f] = "running" /\ fetcher' = [fetcher EXCEPT ![f] = "erased"]
  /\ UNCHANGED <<feed, addedNzbs, previews, force, history, backlogged, save, disk, queued,
                 paused, events, lost, unsaved, twice>>

\* The next update is scheduled.  The download or the feed-script has failed, or
\* the feed can be processed.
SchedulerNextUpdate(f) ==
  /\ fetcher[f] = "erased"
  /\ \E ok \in BOOLEAN : fetcher' = [fetcher EXCEPT ![f] = IF ok THEN "process" ELSE "none"]
  /\ feed' = [feed EXCEPT ![f].due = FALSE]
  /\ UNCHANGED <<addedNzbs, previews, force, history, backlogged, save, disk, queued,
                 paused, events, lost, unsaved, twice>>

\* mutant: only what was already saved counts as known.
NewItemsByFile(f, listed) == IF ~feed[f].updated /\ f \in Backlog THEN {} ELSE listed \ disk.history

\* Which of the listed items are to be downloaded.
NewItems(f, listed) == IF ~feed[f].updated /\ f \in Backlog THEN {} ELSE listed \ history

\* mutant: items that the filter rejects are noted as well.
NotedUnfiltered(f, listed) == FeedItems[f]

\* The items the feed history gets.
Noted(f, listed) == listed

\* CheckSaveFeeds has something to save.
SaveLater == save' = TRUE

\* ProcessFeed: listed are the items the filter accepts, none if the feed
\* cannot be parsed.
ProcessFeed(f) ==
  /\ fetcher[f] = "process" /\ fetcher' = [fetcher EXCEPT ![f] = "adding"]
  /\ \E listed \in SUBSET FeedItems[f] :
       /\ addedNzbs' = [addedNzbs EXCEPT ![f] = NewItems(f, listed)]
       /\ history' = history \union Noted(f, listed)
       /\ backlogged' = backlogged \union (listed \ (history \union NewItems(f, listed)))
  /\ feed' = [feed EXCEPT ![f].updated = TRUE]
  /\ SaveLater
  /\ UNCHANGED <<previews, force, disk, queued, paused, events, lost, unsaved, twice>>

\* The URL coordinator gets the next item, and saves the queue.
AddUrlToQueue(f, i) ==
  /\ i \in addedNzbs[f]
  /\ addedNzbs' = [addedNzbs EXCEPT ![f] = @ \ {i}]
  /\ queued' = queued \union {i}
  /\ twice' = twice \union (queued \intersect {i})
  /\ UNCHANGED <<feed, fetcher, previews, force, history, backlogged, save, disk,
                 paused, events, lost, unsaved>>

FeedFinished(f) ==
  /\ fetcher[f] = "adding" /\ addedNzbs[f] = {}
  /\ fetcher' = [fetcher EXCEPT ![f] = "none"]
  /\ UNCHANGED <<feed, addedNzbs, previews, force, history, backlogged, save, disk, queued,
                 paused, events, lost, unsaved, twice>>

-------------------------------------------------------------------------------
(* Other threads *)

\* DownloadQueueUpdate: a URL was downloaded, whoever added it.
UrlCompleted(i) ==
  /\ i \in queued
  /\ history' = history \union {i} /\ SaveLater
  /\ UNCHANGED <<feed, fetcher, addedNzbs, previews, force, backlogged, disk, queued,
                 paused, events, lost, unsaved, twice>>

FetchFeed(f) ==
  /\ Event
  /\ feed' = [feed EXCEPT ![f].fetch = TRUE]
  /\ force' = TRUE
  /\ UNCHANGED <<fetcher, addedNzbs, previews, history, backlogged, save, disk, queued,
                 paused, lost, unsaved, twice>>

\* A preview downloads a feed without a trace, but needs a connection.
PreviewFeed ==
  /\ Event
  /\ previews = 0 /\ previews' = 1
  /\ force' = TRUE
  /\ UNCHANGED <<feed, fetcher, addedNzbs, history, backlogged, save, disk, queued,
                 paused, lost, unsaved, twice>>

PreviewEnds ==
  /\ previews = 1 /\ previews' = 0
  /\ UNCHANGED <<feed, fetcher, addedNzbs, force, history, backlogged, save, disk, queued,
                 paused, events, lost, unsaved, twice>>

\* The interval of a feed passes.
UpdateIsDue(f) ==
  /\ Event
  /\ ~feed[f].due /\ feed' = [feed EXCEPT ![f].due = TRUE]
  /\ UNCHANGED <<fetcher, addedNzbs, previews, force, history, backlogged, save, disk, queued,
                 paused, lost, unsaved, twice>>

\* Pausing and resuming of downloads wakes the coordinator.
WorkStateUpdate ==
  /\ Event
  /\ paused' = ~paused /\ force' = TRUE
  /\ UNCHANGED <<feed, fetcher, addedNzbs, previews, history, backlogged, save, disk, queued,
                 lost, unsaved, twice>>

\* The program ends, by a crash or without waiting for threads that are past
\* m_activeDownloads, and starts again (LoadFeeds).
Restart ==
  /\ Event
  /\ lost' = lost \union UNION {addedNzbs[f] : f \in Feeds}
  /\ unsaved' = unsaved \union (history \ disk.history)
  /\ feed' = [f \in Feeds |-> [NewFeed EXCEPT !.updated = f \in disk.updated]]
  /\ fetcher' = [f \in Feeds |-> "none"]
  /\ addedNzbs' = [f \in Feeds |-> {}]
  /\ history' = disk.history /\ backlogged' = backlogged \intersect disk.history
  /\ previews' = 0 /\ force' = FALSE /\ save' = FALSE
  /\ UNCHANGED <<disk, queued, paused, twice>>

-------------------------------------------------------------------------------

Next ==
  \/ CheckFeeds \/ CheckSaveFeeds \/ PreviewFeed \/ PreviewEnds \/ WorkStateUpdate \/ Restart
  \/ \E f \in Feeds : \/ FeedErased(f) \/ SchedulerNextUpdate(f) \/ ProcessFeed(f) \/ FeedFinished(f)
                      \/ FetchFeed(f) \/ UpdateIsDue(f)
                      \/ \E i \in Items : AddUrlToQueue(f, i)
  \/ \E i \in Items : UrlCompleted(i)

Spec == Init /\ [][Next]_vars

\* The threads run, and transfers end (ResetHangingDownloads).
FairSpec ==
  /\ Spec
  /\ WF_vars(CheckFeeds) /\ WF_vars(CheckSaveFeeds) /\ WF_vars(PreviewEnds)
  /\ \A f \in Feeds : /\ WF_vars(FeedErased(f)) /\ WF_vars(SchedulerNextUpdate(f))
                      /\ WF_vars(ProcessFeed(f)) /\ WF_vars(FeedFinished(f))
                      /\ \A i \in Items : WF_vars(AddUrlToQueue(f, i))

-------------------------------------------------------------------------------
(* Properties *)

\* An item is handed over once, even if two feeds list it and are fetched at the
\* same time, unless a restart has forgotten that it was fetched: ProcessFeed
\* relies on m_feedHistory alone.
FetchedOnce == twice \subseteq unsaved

\* What the feed history knows was handed over or is about to be: an item that
\* gets into the history on the way and not into the queue is never downloaded.
\* Exempt are items of a first fetch (option Backlog), and items that a restart
\* caught between ProcessFeed and AddUrlToQueue.
KnownItemsQueued ==
  history \subseteq queued \union backlogged \union lost \union UNION {addedNzbs[f] : f \in Feeds}

\* Feed history and URL queue agree in every state.
ItemsAccounted == TypeOK /\ KnownItemsQueued

\* FetchFeed is served even while downloads are paused and even if it comes
\* while the feed is being fetched: m_force must not get lost.
ForcedFetchServed == \A f \in Feeds : feed[f].fetch ~> ~feed[f].fetch

===============================================================================

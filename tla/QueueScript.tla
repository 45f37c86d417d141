------------------------------ MODULE QueueScript ------------------------------
(***************************************************************************)
(* The queue-script coordinator (daemon/extension/QueueScript.cpp).        *)
(*                                                                         *)
(* At most one queue-script runs at a time (m_curItem); the others wait in *)
(* m_queue.  EnqueueScript is called by whoever holds the download queue's *)
(* lock; CheckQueue is called by the thread of a script that has ended.    *)
(* The operators are functions of the coordinator's state, because a       *)
(* handler may enqueue several events in one critical section.             *)
(***************************************************************************)
EXTENDS Naturals, Sequences, SequencesExt, Selection

CONSTANTS
  Scripts,        \* the events each installed queue-script listens to, in order of the scripts
  NoItem          \* m_curItem when no script runs

\* The events, the later one has the higher priority.
Events == <<"FileDownloaded", "UrlCompleted", "NzbMarked", "NzbAdded",
            "NzbNamed", "NzbDownloaded", "NzbDeleted">>

Rank(event) == CHOOSE i \in DOMAIN Events : Events[i] = event

Idle == [cur |-> NoItem, queue |-> <<>>]

\* mutant: the running script is not regarded
HasQueuedJob(s, nzb) == \E i \in DOMAIN s.queue : s.queue[i].nzb = nzb

HasJob(s, nzb) ==
  \/ s.cur # NoItem /\ s.cur.nzb = nzb
  \/ \E i \in DOMAIN s.queue : s.queue[i].nzb = nzb

UsableScript(script, event) == event \in Scripts[script]

\* A script waits at most once for a group's files.
AlreadyQueued(s, nzb, script, event) ==
  /\ event = "FileDownloaded"
  /\ \E i \in DOMAIN s.queue : s.queue[i].nzb = nzb /\ s.queue[i].script = script

\* A complete download drops what is still queued for it; the first new item starts if no
\* script runs.  Option EventInterval is 0: no event about a file is left out.
EnqueueScript(s, nzb, event) ==
  LET kept == IF event = "NzbDownloaded"
              THEN Selected(s.queue, {item \in ToSet(s.queue) : item.nzb # nzb})
              ELSE s.queue
      listening == Selected([i \in DOMAIN Scripts |-> i],
                            {script \in DOMAIN Scripts :
                               UsableScript(script, event) /\ ~AlreadyQueued(s, nzb, script, event)})
      new == [i \in DOMAIN listening |-> [nzb |-> nzb, script |-> listening[i], event |-> event]]
  IN IF s.cur = NoItem /\ new # <<>>
     THEN [cur |-> new[1], queue |-> kept \o Tail(new)]
     ELSE [cur |-> s.cur, queue |-> kept \o new]

\* CheckQueue: forget the finished script and what no longer concerns anyone,
\* then start the first of the items with the highest event.
CheckQueue(s, ignored) ==
  LET queue == Selected(s.queue, ToSet(s.queue) \ ignored)
      Next(i) == /\ \A j \in DOMAIN queue : Rank(queue[j].event) <= Rank(queue[i].event)
                 /\ \A j \in 1..(i - 1) : Rank(queue[j].event) < Rank(queue[i].event)
  IN IF queue = <<>> THEN Idle
     ELSE LET next == CHOOSE i \in DOMAIN queue : Next(i)
          IN [cur |-> queue[next], queue |-> RemoveAt(queue, next)]
===============================================================================

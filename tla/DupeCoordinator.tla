--------------------------- MODULE DupeCoordinator ---------------------------
(***************************************************************************)
(* Duplicates: queue/DupeCoordinator.cpp and the history it works on       *)
(* (queue/HistoryCoordinator.cpp), with option DupeCheck.  A download that *)
(* has a better duplicate waits in the history as its backup and comes     *)
(* back when the better one fails.  Everything happens under the lock of   *)
(* the queue, but between two steps users edit the history, time passes    *)
(* and the deletion of an active download takes its time.                  *)
(*                                                                         *)
(* The operators take and return the lists as a record "s" with fields     *)
(* queue, history (newest first) and nzb, because one operation of the     *)
(* code chains several of them.                                            *)
(***************************************************************************)
EXTENDS Integers, Sequences, FiniteSets, SequencesExt, Selection

CONSTANTS
  Nzbs,
  Attr,       \* name, dupe key, score and mode of the nzb, possible content hashes, and if a feed adds it
  MaxEvents   \* bound on what users and the history's age limit do, and on lost nzb-files

ASSUME DupeOptions ==
  /\ \A n \in Nzbs : /\ Attr[n].score \in Int /\ Attr[n].contents \subseteq Nat \ {0}
                     /\ Attr[n].mode \in {"score", "all", "force"}
                     /\ Attr[n].feed \in BOOLEAN
  /\ MaxEvents \in Nat

VARIABLES
  queue,    \* download queue
  history,  \* recent history (hkNzb) and dup-history (hkDup), newest first
  nzb,      \* what is known of each nzb
  events,   \* what users and the age limit did so far
  byUser,   \* once queued by a user's request, without a duplicate check, or replacing such one
  waived,   \* backups whose better duplicate a user took away, or that came late
  markedBad \* marked bad by a user

vars == <<queue, history, nzb, events, byUser, waived, markedBad>>

NoKey == ""

NewNzb(n) == [key |-> Attr[n].key, score |-> Attr[n].score, content |-> 0, step |-> "out",
              del |-> "none", mark |-> "none", result |-> "none", dup |-> "none", healthy |-> TRUE, readable |-> TRUE]

InQueue == {"queued", "deleting", "post"}

InHistory == {"recent", "hidden"}

NzbInfo == [key     : {Attr[n].key : n \in Nzbs},
            score   : Int,
            content : Nat,
            step    : {"out", "gone"} \union InHistory \union InQueue,
            del     : {"none", "manual", "dupe", "copy", "good", "health", "bad", "scan"},
            mark    : {"none", "bad", "good", "success"},
            result  : {"none", "success", "failure"},
            dup     : {"none", "good", "bad", "success", "dupe", "deleted", "failed"},
            healthy : BOOLEAN,
            readable : BOOLEAN]  \* the nzb-file exists and can be parsed

\* Beyond the types: every nzb is in one place, and once.
TypeOK ==
  /\ nzb \in [Nzbs -> NzbInfo] /\ queue \in Seq(Nzbs) /\ history \in Seq(Nzbs)
  /\ ToSet(queue) = {n \in Nzbs : nzb[n].step \in InQueue} /\ Len(queue) = Cardinality(ToSet(queue))
  /\ ToSet(history) = {n \in Nzbs : nzb[n].step \in InHistory}
  /\ Len(history) = Cardinality(ToSet(history))
  /\ events \in 0..MaxEvents
  /\ byUser \in SUBSET Nzbs /\ waived \in SUBSET Nzbs /\ markedBad \in SUBSET Nzbs

Init ==
  /\ queue = <<>> /\ history = <<>> /\ events = 0
  /\ nzb = [n \in Nzbs |-> NewNzb(n)]
  /\ byUser = {} /\ waived = {} /\ markedBad = {}

Now == [queue |-> queue, history |-> history, nzb |-> nzb]
Become(s) == queue' = s.queue /\ history' = s.history /\ nzb' = s.nzb

Event == events < MaxEvents /\ events' = events + 1

-------------------------------------------------------------------------------
(* Who is a duplicate of whom *)

SameNameOrKey(z, i, j) ==
  IF z[i].key # NoKey /\ z[j].key # NoKey THEN z[i].key = z[j].key ELSE Attr[i].name = Attr[j].name

Duplicates(z, i, j) == Attr[j].mode # "force" /\ SameNameOrKey(z, i, j)

SameContent(z, i, j) == z[i].content > 0 /\ z[i].content = z[j].content

IsDupeSuccess(z, i) ==
  z[i].mark \in {"success", "good"} \/ (z[i].del = "none" /\ z[i].mark # "bad" /\ z[i].result = "success")

\* In the recent history or the dup-history.
KnownGood(z, i) == IF z[i].step = "hidden" THEN z[i].dup = "good" ELSE z[i].mark = "good"
KnownSuccess(z, i) == IF z[i].step = "hidden" THEN z[i].dup \in {"success", "good"} ELSE IsDupeSuccess(z, i)

Usable(z, i) == z[i].step = "recent" /\ z[i].del = "dupe" /\ z[i].healthy /\ z[i].mark # "bad"

-------------------------------------------------------------------------------
(* Moving between queue and history *)

AddToHistory(s, i) ==
  [queue |-> RemoveFirst(s.queue, i), history |-> <<i>> \o s.history, nzb |-> [s.nzb EXCEPT ![i].step = "recent"]]

\* MoveToQueue: the result of the former download is forgotten.
MoveToQueue(s, i, step) ==
  [queue |-> <<i>> \o s.queue, history |-> RemoveFirst(s.history, i),
   nzb |-> [s.nzb EXCEPT ![i].step = step, ![i].del = "none", ![i].mark = "none",
                         ![i].result = "none", ![i].healthy = TRUE]]

Gone(s, i) == [queue |-> RemoveFirst(s.queue, i), history |-> RemoveFirst(s.history, i),
               nzb |-> [s.nzb EXCEPT ![i] = [NewNzb(i) EXCEPT !.step = "gone"]]]

\* What an entry of the recent history becomes in the dup-history.
DupStatus(z, i) ==
  CASE z[i].mark # "none" -> z[i].mark
    [] z[i].mark = "none" /\ z[i].del = "dupe" -> "dupe"
    [] z[i].mark = "none" /\ z[i].del \in {"manual", "good", "copy"} -> "deleted"
    [] OTHER -> IF IsDupeSuccess(z, i) THEN "success" ELSE "failed"

\* Only name, key, score, mode and content are kept with it.
Hidden(z, i) == [z[i] EXCEPT !.step = "hidden", !.dup = DupStatus(z, i), !.del = "none", !.mark = "none",
                             !.result = "none", !.healthy = TRUE]

HistoryHide(s, S) ==
  [s EXCEPT !.nzb = [n \in Nzbs |-> IF n \in S THEN Hidden(s.nzb, n) ELSE @[n]]]

Best(z, S) == {i \in S : \A j \in S : z[i].score >= z[j].score}

\* mutant: duplicates in the queue are not regarded
CandidatesBesideQueue(s, i) ==
  LET better == {h \in ToSet(s.history) : Duplicates(s.nzb, i, h) /\ KnownSuccess(s.nzb, h)}
  IN  {h \in ToSet(s.history) : /\ Duplicates(s.nzb, i, h) /\ Usable(s.nzb, h)
                               /\ \A b \in better : s.nzb[h].score > s.nzb[b].score}

\* The backups that may replace i: better than what succeeded and what is queued.
Candidates(s, i) ==
  LET z == s.nzb
      better == {h \in ToSet(s.history) : Duplicates(z, i, h) /\ KnownSuccess(z, h)}
                \union {q \in ToSet(s.queue) \ {i} : Duplicates(z, i, q)}
  IN  {h \in ToSet(s.history) : Duplicates(z, i, h) /\ Usable(z, h) /\ \A b \in better : z[h].score > z[b].score}

\* HistoryRedownload starts from the nzb-file; without it nothing happens.
Redownloaded(s, i) == IF s.nzb[i].readable THEN MoveToQueue(s, i, "queued") ELSE s

\* Of several best ones the newest, and no other one if that cannot be read.
\* Nothing comes back when one is good.
ReturnBestDupe(s, i) ==
  LET best == Best(s.nzb, Candidates(s, i))
      newest == SelectInSeq(s.history, LAMBDA h : h \in best)
      good == \E h \in ToSet(s.history) : Duplicates(s.nzb, i, h) /\ KnownGood(s.nzb, h)
  IN  IF good \/ newest = 0 THEN s ELSE Redownloaded(s, s.history[newest])

\* mutant: a download aborted by the health check counts as deleted
NzbCompletedNotHealth(s, i) ==
  LET after == AddToHistory(s, i)
  IN  IF s.nzb[i].del \in {"none", "bad", "scan"} /\ Attr[i].mode = "score" /\ ~IsDupeSuccess(s.nzb, i)
      THEN ReturnBestDupe(after, i) ELSE after

\* PrePostProcessor::NzbCompleted and DupeCoordinator::NzbCompleted.
NzbCompleted(s, i) ==
  LET after == AddToHistory(s, i)
  IN  IF s.nzb[i].del \in {"none", "health", "bad", "scan"} /\ Attr[i].mode = "score" /\ ~IsDupeSuccess(s.nzb, i)
      THEN ReturnBestDupe(after, i) ELSE after

-------------------------------------------------------------------------------
(* NzbFound *)

\* A download without key and score takes both from one with the same name.
Inherit(s, n) ==
  LET z == s.nzb
      known == s.queue \o s.history
      from == SelectInSeq(known,
                LAMBDA i : Attr[i].name = Attr[n].name /\ (z[i].key # NoKey \/ z[i].score # 0))
  IN  IF z[n].key = NoKey /\ z[n].score = 0 /\ from # 0
      THEN [s EXCEPT !.nzb[n].key = z[known[from]].key, !.nzb[n].score = z[known[from]].score]
      ELSE s

\* mutant: downloads in post-processing are overlooked
CopyNotInPost(s, n) == \E q \in ToSet(s.queue) : s.nzb[q].step # "post" /\ SameContent(s.nzb, n, q)

CopyQueued(s, n) == \E q \in ToSet(s.queue) : SameContent(s.nzb, n, q)

\* A success in the recent history that is as good.
SucceededAlready(s, n) ==
  \E h \in ToSet(s.history) : /\ s.nzb[h].step = "recent" /\ Duplicates(s.nzb, n, h)
                              /\ s.nzb[n].score <= s.nzb[h].score /\ IsDupeSuccess(s.nzb, h)

\* Where the first entry of the history is that speaks against a download, or 0.
Against(s, n) ==
  LET z == s.nzb
  IN  SelectInSeq(s.history, LAMBDA h :
        \/ SameContent(z, n, h)
        \/ Duplicates(z, n, h) /\ KnownGood(z, h)
        \/ /\ Duplicates(z, n, h) /\ Attr[n].mode = "score" /\ z[h].step = "hidden"
           /\ z[h].dup = "success" /\ z[n].score <= z[h].score)

\* A duplicate in the queue, and one that is as good.
QueuedDupe(s, n, q) == s.nzb[q].del = "none" /\ Duplicates(s.nzb, n, q)
AsGood(s, n, q) == QueuedDupe(s, n, q) /\ s.nzb[n].score <= s.nzb[q].score

\* The delete status a new nzb gets.
Verdict(s, n) ==
  LET z == s.nzb
      against == Against(s, n)
      copy == against # 0 /\ SameContent(z, n, s.history[against])
      good == against # 0 /\ ~copy /\ KnownGood(z, s.history[against])
      skipped(del) == IF Attr[n].feed THEN "manual" ELSE del
      score == Attr[n].mode = "score"
      queued == \E q \in ToSet(s.queue) : AsGood(s, n, q)
  IN  IF Attr[n].mode = "force" THEN z[n].del
      ELSE IF CopyQueued(s, n) THEN skipped("copy")
      ELSE IF score /\ ~copy /\ ~good /\ SucceededAlready(s, n) THEN "dupe"
      ELSE IF against # 0 THEN skipped(IF copy THEN "copy" ELSE "good")
      ELSE IF score /\ queued THEN "dupe"
      ELSE z[n].del

\* Did NzbFound get as far as the queue's duplicates?
ComparesQueue(s, n) ==
  Attr[n].mode = "score" /\ Against(s, n) = 0 /\ ~CopyQueued(s, n) /\ ~SucceededAlready(s, n)

\* Those with a lower score, up to one that is as good, unless they are in
\* post-processing, go to the history.
Replaced(s, n) ==
  LET stop == SelectInSeq(s.queue, LAMBDA q : AsGood(s, n, q))
      before == IF stop = 0 THEN s.queue ELSE SubSeq(s.queue, 1, stop - 1)
  IN  IF ComparesQueue(s, n) THEN {q \in ToSet(before) : QueuedDupe(s, n, q) /\ s.nzb[q].step # "post"} ELSE {}

\* The existing items of lower score go to the history, one after the other.  While
\* one is active its deletion has only begun.
Demote(s, replaced, active, healthy) ==
  LET left == replaced \ active
  IN  [queue   |-> Selected(s.queue, ToSet(s.queue) \ left),
       history |-> Reverse(Selected(s.queue, left)) \o s.history,
       nzb     |-> [q \in Nzbs |->
         CASE q \in left   -> [s.nzb[q] EXCEPT !.del = "dupe", !.step = "recent", !.healthy = healthy]
           [] q \in active -> [s.nzb[q] EXCEPT !.del = "dupe", !.step = "deleting"]
           [] OTHER        -> s.nzb[q]]]

\* AddNzbFileToQueue with the observers of eaNzbFound and eaNzbAdded.
Added(s, n, first, verdict) ==
  CASE verdict = "none"   -> [s EXCEPT !.nzb[n].step = "queued", !.queue = IF first THEN <<n>> \o @ ELSE Append(@, n)]
    [] verdict = "manual" -> Gone(s, n)
    [] OTHER -> NzbCompleted([s EXCEPT !.nzb[n].del = verdict, !.queue = <<n>> \o @], n)

-------------------------------------------------------------------------------
(* Actions *)

\* A new nzb-file.  One that cannot be parsed has no content hash and fails at once.
AddNzb(n) ==
  /\ nzb[n].step = "out"
  /\ \E content \in Attr[n].contents \union {0}, first \in BOOLEAN, healthy \in BOOLEAN :
       LET read == [Now EXCEPT !.nzb[n].content = content, !.nzb[n].readable = content # 0,
                               !.nzb[n].del = IF content = 0 THEN "scan" ELSE "none"]
           found == IF Attr[n].mode = "force" \/ CopyQueued(read, n)
                    THEN read ELSE Inherit(read, n)
           replaced == Replaced(found, n)
           leaving == {q \in replaced : nzb[q].step = "deleting"}
       IN  \E active \in SUBSET replaced :
             /\ leaving \subseteq active
             /\ replaced \subseteq active => healthy
             /\ Become(Added(Demote(found, replaced, active, healthy), n, first, Verdict(found, n)))
  /\ UNCHANGED <<events, byUser, waived, markedBad>>

\* The download ends, by itself, by the health check or by a script that marks it
\* as bad; in any case post-processing follows.
Downloaded(i) ==
  /\ nzb[i].step = "queued"
  /\ \E end \in {"none", "health", "bad"} :
       nzb' = [nzb EXCEPT ![i].step = "post", ![i].del = end, ![i].mark = IF end = "bad" THEN "bad" ELSE @]
  /\ UNCHANGED <<queue, history, events, byUser, waived, markedBad>>

JobCompleted(i) ==
  /\ nzb[i].step = "post"
  /\ \E result \in (IF nzb[i].del = "none" THEN {"success", "failure"} ELSE {"failure"}) :
       Become(NzbCompleted([Now EXCEPT !.nzb[i].result = result], i))
  /\ byUser' = IF i \in byUser THEN byUser \union (ToSet(queue') \ ToSet(queue)) ELSE byUser
  /\ UNCHANGED <<events, waived, markedBad>>

\* Backups that wait for i in the history.
Backups(i) == {h \in ToSet(history) : Usable(nzb, h) /\ SameNameOrKey(nzb, i, h)}

\* NzbDeleted: the deletion of an active download ends.
DeletionEnds(i) ==
  /\ nzb[i].step = "deleting"
  /\ Become(NzbCompleted([Now EXCEPT !.nzb[i].del = IF @ = "none" THEN "manual" ELSE @], i))
  /\ waived' = waived \union {i} \union Backups(i)
  /\ UNCHANGED <<events, byUser, markedBad>>

\* A user deletes a download: to the history, for good, or as a duplicate.
DeleteGroup(i) ==
  /\ Event /\ nzb[i].step = "queued"
  /\ \/ \E del \in {"manual", "dupe"} : Become(NzbCompleted([Now EXCEPT !.nzb[i].del = del], i))
     \/ Become(Gone(Now, i))
     \/ \E del \in {"none", "dupe"} : Become([Now EXCEPT !.nzb[i].step = "deleting", !.nzb[i].del = del])
  /\ waived' = waived \union {i} \union Backups(i)
  /\ UNCHANGED <<byUser, markedBad>>

\* HistoryMark for the good and the successful.
HistoryMark(i, mark) ==
  /\ Event /\ nzb[i].step \in InHistory
  /\ LET marked == IF nzb[i].step = "hidden" THEN [Now EXCEPT !.nzb[i].dup = mark]
                                             ELSE [Now EXCEPT !.nzb[i].mark = mark]
         dupes == {h \in ToSet(history) \ {i} : nzb[h].step = "recent" /\ nzb[h].del = "dupe" /\ Duplicates(nzb, i, h)}
     IN  Become(IF mark = "good" /\ Attr[i].mode # "force" THEN HistoryHide(marked, dupes) ELSE marked)
  /\ markedBad' = markedBad \ {i}
  /\ UNCHANGED <<byUser, waived>>

\* mutant: the entries are marked one after the other
PrepareNothing(s, ids) == s

\* First all of them are marked, so that none brings back another one.
PrepareEdit(s, ids) ==
  [s EXCEPT !.nzb = [n \in Nzbs |-> IF n \in ids /\ @[n].step = "recent" THEN [@[n] EXCEPT !.mark = "bad"]
                                                                                 ELSE @[n]]]

\* One entry of the list; an entry that is in the queue by now is not found.
MarkBad(s, i) ==
  LET marked == IF s.nzb[i].step = "hidden" THEN [s EXCEPT !.nzb[i].dup = "bad"]
                                            ELSE [s EXCEPT !.nzb[i].mark = "bad"]
  IN  IF i \notin ToSet(s.history) THEN s
      ELSE IF Attr[i].mode = "force" THEN marked ELSE ReturnBestDupe(marked, i)

\* A user marks one or two entries as bad.
HistoryMarkBad(i, j) ==
  /\ Event /\ {i, j} \subseteq ToSet(history)
  /\ LET first == MarkBad(PrepareEdit(Now, {i, j}), i)
     IN  Become(IF i = j THEN first ELSE MarkBad(first, j))
  /\ markedBad' = markedBad \union {i, j}
  /\ UNCHANGED <<byUser, waived>>

HistoryDelete(i) ==
  /\ Event /\ nzb[i].step \in InHistory
  /\ \/ /\ Become(Gone(Now, i))
        /\ waived' = waived \union Backups(i)
     \/ nzb[i].step = "recent" /\ Become(HistoryHide(Now, {i})) /\ waived' = waived
  /\ UNCHANGED <<byUser, markedBad>>

\* A user takes an entry back, whatever the duplicates are.
ReturnedByUser(i) ==
  /\ Event /\ nzb[i].step = "recent"
  /\ byUser' = byUser \union {i}
  /\ markedBad' = markedBad \ {i}
  /\ UNCHANGED waived

\* Download again.
HistoryRedownload(i) == nzb[i].readable /\ ReturnedByUser(i) /\ Become(Redownloaded(Now, i))

\* Download remaining files, retry failed articles, or post-process again; which
\* articles are reset does not matter for duplicates.
HistoryRetry(i, reprocess) ==
  ReturnedByUser(i) /\ Become(MoveToQueue(Now, i, IF reprocess THEN "post" ELSE "queued"))

\* What is older than option KeepHistory leaves the recent history.
ServiceWork ==
  /\ Event
  /\ \E k \in DOMAIN history :
       LET old == {h \in ToSet(SubSeq(history, k, Len(history))) : nzb[h].step = "recent"}
       IN  old # {} /\ Become(HistoryHide(Now, old))
  /\ UNCHANGED <<byUser, waived, markedBad>>

\* The nzb-file is deleted or damaged.
SourceLost(i) ==
  /\ Event /\ nzb[i].step \in InQueue \union InHistory /\ nzb[i].readable
  /\ nzb' = [nzb EXCEPT ![i].readable = FALSE]
  /\ UNCHANGED <<queue, history, byUser, waived, markedBad>>

Next ==
  \/ \E i \in Nzbs : \/ AddNzb(i) \/ Downloaded(i) \/ JobCompleted(i) \/ DeletionEnds(i)
                     \/ DeleteGroup(i) \/ HistoryDelete(i) \/ HistoryRedownload(i) \/ SourceLost(i)
                     \/ \E reprocess \in BOOLEAN : HistoryRetry(i, reprocess)
                     \/ \E mark \in {"good", "success"} : HistoryMark(i, mark)
  \/ \E i, j \in Nzbs : HistoryMarkBad(i, j)
  \/ ServiceWork

Spec == Init /\ [][Next]_vars

-------------------------------------------------------------------------------
(* Properties *)

\* Downloads in mode "score" that are not yet in post-processing.
Competing(i, j) ==
  /\ i # j /\ SameNameOrKey(nzb, i, j)
  /\ \A n \in {i, j} : nzb[n].step = "queued" /\ Attr[n].mode = "score" /\ n \notin byUser \union waived

\* Two duplicates are being downloaded only if one is better than the other.
EqualDuplicatesExclusive == \A i, j \in ToSet(queue) : Competing(i, j) => nzb[i].score # nzb[j].score

\* A backup that cannot be read and was chosen before b.
Blocks(u, b) ==
  /\ ~nzb[u].readable /\ Duplicates(nzb, b, u) /\ nzb[u].score >= nzb[b].score
  /\ Usable(nzb, u) \/ nzb[u].step = "hidden"

\* Nothing is forgotten: for every backup a duplicate is in the queue or has
\* succeeded, unless a user took that one away, or the code's choice fell on a
\* backup whose nzb-file cannot be read, after which it tries no other.
BackupNotForgotten ==
  \A b \in ToSet(history) \ waived :
     Usable(nzb, b) /\ Attr[b].mode = "score" =>
       \/ \E q \in ToSet(queue) : Duplicates(nzb, b, q)
       \/ \E h \in ToSet(history) : Duplicates(nzb, b, h) /\ (KnownSuccess(nzb, h) \/ Blocks(h, b))

\* What a user marked as bad is not downloaded again without a user.
MarkedBadStaysAway == markedBad \intersect ToSet(queue) = {}

\* The same content is not in the queue twice, unless a user asked for it.
ContentQueuedOnce ==
  \A i, j \in {n \in ToSet(queue) : Attr[n].mode # "force"} :
     i # j /\ SameContent(nzb, i, j) => {i, j} \intersect byUser # {}

\* A download is in one list at a time, and its content in the queue once.
ListsConsistent == TypeOK /\ ContentQueuedOnce
===============================================================================

-------------------------- MODULE PostProcessorProofs --------------------------
(***************************************************************************)
(* Proofs about the post-processor, for any groups, options, scripts and   *)
(* numbers of edits and restarts: the counter on which its thread sleeps   *)
(* never misses a job, the stages of a group keep clear of each other's    *)
(* and of its direct unpacker's work, and scripts come before stages.      *)
(***************************************************************************)
EXTENDS PostProcessor, FiniteSetTheorems, TLAPS

-----------------------------------------------------------------------------
(* Queue-scripts. *)

LEMMA LeastNumber ==
    ASSUME NEW M \in SUBSET Nat, M # {}
    PROVE  \E m \in M : \A k \in M : m <= k
<1> DEFINE R == OpToRel(<, Nat)
<1>1. IsWellFoundedOn(R, Nat)
  BY NatLessThanWellFounded
<1>2. PICK m \in M : \A k \in M : ~(<<k, m>> \in R)
  <2> HIDE DEF R
  <2> QED BY <1>1, WFMin
<1>3. \A k \in M : ~(k < m)
  BY <1>2 DEF OpToRel
<1> QED BY <1>3

(***************************************************************************)
(* Selected picks members of the sequence that are in the set: the         *)
(* recursive function that computes it exists, and all its values are such *)
(* sequences, for else there would be a first one that is not.             *)
(***************************************************************************)
LEMMA SelectedIs ==
    ASSUME NEW T, NEW s \in Seq(T), NEW S
    PROVE  Selected(s, S) \in Seq(T \cap S)
<1> DEFINE V == T \cap S
           Value(u, n) == IF n = 0 THEN <<>>
                          ELSE IF s[n] \in S THEN Append(u[n - 1], s[n])
                          ELSE u[n - 1]
           Good(m, u) == \A n \in 0..m : u[n] = Value(u, n)
           Upto == CHOOSE u : u = [n \in 0..Len(s) |-> Value(u, n)]
<1>0. Len(s) \in Nat /\ \A n \in 1..Len(s) : s[n] \in T
  OBVIOUS
<1>1. \A m \in 0..Len(s) : \E u \in [0..m -> Seq(V)] : Good(m, u)
  <2> DEFINE None == {m \in 0..Len(s) : ~\E u \in [0..m -> Seq(V)] : Good(m, u)}
  <2> SUFFICES ASSUME None # {} PROVE FALSE
    OBVIOUS
  <2>1. PICK m \in None : \A k \in None : m <= k
    <3>1. None \in SUBSET Nat
      BY <1>0
    <3> HIDE DEF None
    <3> QED BY <3>1, LeastNumber
  <2>2. m \in 0..Len(s) /\ ~\E u \in [0..m -> Seq(V)] : Good(m, u)
    BY <2>1
  <2>3. CASE m = 0
    <3> DEFINE u == [n \in 0..0 |-> <<>>]
    <3>1. u \in [0..m -> Seq(V)] /\ Good(m, u)
      BY <2>3
    <3> QED BY <3>1, <2>2
  <2>4. CASE m # 0
    <3>0. m - 1 \in 0..Len(s) /\ m \in 1..Len(s) /\ m \in Nat
      BY <1>0, <2>2, <2>4
    <3>1. m - 1 \notin None
      <4> HIDE DEF None
      <4> QED BY <2>1, <3>0
    <3>2. PICK u \in [0..(m - 1) -> Seq(V)] : Good(m - 1, u)
      <4> HIDE DEF Good, V
      <4> QED BY <3>0, <3>1
    <3> DEFINE w == [n \in 0..m |-> IF n = m THEN Value(u, m) ELSE u[n]]
    <3>3. Value(u, m) \in Seq(V)
      <4>1. s[m] \in S => s[m] \in V
        BY <1>0, <3>0
      <4>2. u[m - 1] \in Seq(V)
        <5> HIDE DEF V, Good
        <5> QED BY <3>0, <3>2
      <4> HIDE DEF V
      <4> QED BY <4>1, <4>2, <2>4
    <3>4. w \in [0..m -> Seq(V)]
      <4> HIDE DEF V, Value, Good
      <4>1. \A n \in 0..m : n # m => n \in 0..(m - 1)
        BY <3>0
      <4> QED BY <3>2, <3>3, <4>1
    <3>5. ASSUME NEW n \in 0..m PROVE w[n] = Value(w, n)
      <4>1. CASE n = m
        BY <4>1, <3>0
      <4>2. CASE n # m
        <5>1. n \in 0..(m - 1) /\ w[n] = u[n] /\ (n # 0 => w[n - 1] = u[n - 1])
          BY <4>2, <3>0
        <5> QED BY <5>1, <3>2
      <4> QED BY <4>1, <4>2
    <3> HIDE DEF w
    <3> QED BY <2>2, <3>4, <3>5
  <2> QED BY <2>3, <2>4
<1>2. PICK u \in [0..Len(s) -> Seq(V)] : Good(Len(s), u)
  <2> HIDE DEF Good, V
  <2> QED BY <1>0, <1>1
<1>3. u = [n \in 0..Len(s) |-> Value(u, n)]
  BY <1>2
<1>4. Upto = [n \in 0..Len(s) |-> Value(Upto, n)]
  BY <1>3
<1>5. Selected(s, S) = Upto[Len(s)]
  BY DEF Selected
<1> HIDE DEF Upto
<1>6. ASSUME NEW n \in 0..Len(s) PROVE Upto[n] \in Seq(V)
  <2> DEFINE Bad == {k \in 0..Len(s) : Upto[k] \notin Seq(V)}
  <2> SUFFICES ASSUME Bad # {} PROVE FALSE
    OBVIOUS
  <2>1. PICK m \in Bad : \A k \in Bad : m <= k
    <3>1. Bad \in SUBSET Nat
      BY <1>0
    <3> HIDE DEF Bad
    <3> QED BY <3>1, LeastNumber
  <2>2. m \in 0..Len(s) /\ Upto[m] \notin Seq(V) /\ Upto[m] = Value(Upto, m)
    BY <1>4, <2>1
  <2>3. m # 0
    BY <2>2
  <2>4. m \in 1..Len(s) /\ Upto[m - 1] \in Seq(V)
    BY <1>0, <2>1, <2>2, <2>3
  <2>5. s[m] \in S => s[m] \in V
    BY <1>0, <2>4
  <2> QED BY <2>2, <2>3, <2>4, <2>5
<1> QED BY <1>0, <1>5, <1>6

(***************************************************************************)
(* The coordinator's state: scripts wait only while one runs.  A group is  *)
(* announced as long as a script for its complete download waits or runs.  *)
(***************************************************************************)
Coordinator == [cur : Items \union {NoItem}, queue : Seq(Items)]

ScriptsWait(s) == s \in Coordinator /\ (s.queue # <<>> => s.cur # NoItem)

Pending(s) == {item \in Items : item = s.cur \/ item \in Range(s.queue)}

Announced(s) == {g \in Groups : \E item \in Pending(s) :
                                   item.nzb = g /\ item.event = "NzbDownloaded"}

LEMMA SelectedFrom ==
    ASSUME NEW T, NEW q \in Seq(T), NEW S
    PROVE  /\ Selected(q, S) \in Seq(T)
           /\ \A i \in DOMAIN Selected(q, S) : Selected(q, S)[i] \in S /\ Selected(q, S)[i] \in T
<1> DEFINE r == Selected(q, S)
<1>1. r \in Seq(T \cap S)
  BY SelectedIs
<1> HIDE DEF r
<1>2. \A i \in DOMAIN r : r[i] \in T \cap S
  BY <1>1
<1>3. r \in Seq(T)
  <2>1. DOMAIN r = 1..Len(r) /\ Len(r) \in Nat /\ r = [i \in 1..Len(r) |-> r[i]]
    BY <1>1
  <2> QED BY <1>2, <2>1
<1> QED BY <1>2, <1>3 DEF r

LEMMA JoinedFrom ==
    ASSUME NEW T, NEW p \in Seq(T), NEW q \in Seq(T)
    PROVE  p \o q \in Seq(T) /\ Range(p \o q) \subseteq Range(p) \union Range(q)
<1>1. Len(p) \in Nat /\ DOMAIN p = 1..Len(p) /\ Len(q) \in Nat /\ DOMAIN q = 1..Len(q)
  OBVIOUS
<1>2. /\ p \o q \in Seq(T) /\ Len(p \o q) = Len(p) + Len(q)
      /\ \A i \in 1..(Len(p) + Len(q)) :
            (p \o q)[i] = IF i <= Len(p) THEN p[i] ELSE q[i - Len(p)]
  OBVIOUS
<1>3. DOMAIN (p \o q) = 1..(Len(p) + Len(q))
  BY <1>1, <1>2
<1>4. ASSUME NEW i \in 1..(Len(p) + Len(q)) PROVE (p \o q)[i] \in Range(p) \union Range(q)
  <2>1. CASE i <= Len(p)
    BY <1>1, <1>2, <2>1 DEF Range
  <2>2. CASE ~(i <= Len(p))
    <3>1. i - Len(p) \in DOMAIN q /\ (p \o q)[i] = q[i - Len(p)]
      BY <1>1, <1>2, <2>2
    <3> QED BY <3>1 DEF Range
  <2> QED BY <2>1, <2>2
<1> QED BY <1>2, <1>3, <1>4 DEF Range

LEMMA IdleScripts == ScriptsWait(Idle) /\ Announced(Idle) = {}
<1>1. Idle \in Coordinator /\ Idle.queue = <<>> /\ Idle.cur = NoItem
  BY DEF Idle, Coordinator
<1>2. Pending(Idle) = {}
  BY <1>1, ScriptOptions DEF Pending, Range
<1> QED BY <1>1, <1>2 DEF ScriptsWait, Announced

(***************************************************************************)
(* EnqueueScript adds items of the event only.                             *)
(***************************************************************************)
LEMMA EnqueueIs ==
    ASSUME NEW s, ScriptsWait(s), NEW g \in Groups, NEW event \in Range(Events)
    PROVE  /\ ScriptsWait(EnqueueScript(s, g, event))
           /\ \A item \in Pending(EnqueueScript(s, g, event)) :
                 item \in Pending(s) \/ (item.nzb = g /\ item.event = event)
<1> DEFINE kept == IF event = "NzbDownloaded"
                   THEN Selected(s.queue, {item \in ToSet(s.queue) : item.nzb # g})
                   ELSE s.queue
           numbers == [i \in DOMAIN Scripts |-> i]
           wanted == {script \in DOMAIN Scripts :
                        UsableScript(script, event) /\ ~AlreadyQueued(s, g, script, event)}
           listening == Selected(numbers, wanted)
           item(i) == [nzb |-> g, script |-> listening[i], event |-> event]
           new == [i \in DOMAIN listening |-> item(i)]
           result == EnqueueScript(s, g, event)
<1>1. s.cur \in Items \union {NoItem} /\ s.queue \in Seq(Items) /\ (s.queue # <<>> => s.cur # NoItem)
  BY DEF ScriptsWait, Coordinator
<1>2. kept \in Seq(Items) /\ Range(kept) \subseteq Range(s.queue)
  <2>1. CASE event = "NzbDownloaded"
    <3> DEFINE S == {it \in ToSet(s.queue) : it.nzb # g}
    <3>1. S \subseteq Range(s.queue)
      BY DEF ToSet, Range
    <3> HIDE DEF S
    <3>2. Selected(s.queue, S) \in Seq(Items)
          /\ \A i \in DOMAIN Selected(s.queue, S) : Selected(s.queue, S)[i] \in S
      BY <1>1, SelectedFrom
    <3> QED BY <2>1, <3>1, <3>2 DEF Range, S
  <2>2. CASE event # "NzbDownloaded"
    BY <2>2, <1>1
  <2> QED BY <2>1, <2>2
<1>3. listening \in Seq(DOMAIN Scripts)
  <2>1. Scripts \in Seq(SUBSET Range(Events))
    BY ScriptOptions
  <2>2. numbers \in Seq(DOMAIN Scripts)
    BY <2>1
  <2> HIDE DEF numbers, wanted
  <2> QED BY <2>2, SelectedFrom
<1>4. kept # <<>> => s.cur # NoItem
  <2> SUFFICES ASSUME kept # <<>> PROVE s.queue # <<>>
    BY <1>1
  <2> HIDE DEF kept
  <2>1. 1 \in DOMAIN kept
    BY <1>2
  <2>2. kept[1] \in Range(s.queue)
    BY <1>2, <2>1 DEF Range
  <2> QED BY <2>2 DEF Range
<1>5. new \in Seq(Items) /\ \A i \in DOMAIN new : new[i].nzb = g /\ new[i].event = event
  <2>1. DOMAIN listening = 1..Len(listening) /\ Len(listening) \in Nat
        /\ \A i \in DOMAIN listening : listening[i] \in DOMAIN Scripts
    <3> HIDE DEF listening
    <3> QED BY <1>3
  <2> HIDE DEF listening
  <2>2. \A i \in DOMAIN listening : item(i) \in Items /\ item(i).nzb = g /\ item(i).event = event
    BY <2>1 DEF Items
  <2> HIDE DEF item
  <2> QED BY <2>1, <2>2
<1>6. result = IF s.cur = NoItem /\ new # <<>>
               THEN [cur |-> new[1], queue |-> kept \o Tail(new)]
               ELSE [cur |-> s.cur, queue |-> kept \o new]
  BY DEF EnqueueScript
<1> HIDE DEF kept, new, result
<1>7. CASE s.cur = NoItem /\ new # <<>>
  <2>1. result.cur = new[1] /\ result.queue = kept \o Tail(new) /\ result \in [cur : {new[1]}, queue : {kept \o Tail(new)}]
    BY <1>6, <1>7
  <2>2. 1 \in DOMAIN new /\ new[1] \in Items /\ Tail(new) \in Seq(Items) /\ Range(Tail(new)) \subseteq Range(new)
    <3>1. Len(new) \in Nat /\ Len(new) # 0 /\ DOMAIN new = 1..Len(new)
      BY <1>5, <1>7
    <3>2. Tail(new) \in Seq(Items) /\ Len(Tail(new)) = Len(new) - 1
          /\ \A i \in 1..(Len(new) - 1) : Tail(new)[i] = new[i + 1]
      BY <1>5, <3>1
    <3> QED BY <1>5, <3>1, <3>2 DEF Range
  <2>3. kept = <<>>
    BY <1>4, <1>7
  <2>4. kept \o Tail(new) = Tail(new)
    BY <2>2, <2>3
  <2>5. ScriptsWait(result)
    BY <2>1, <2>2, <2>4, ScriptOptions DEF ScriptsWait, Coordinator
  <2>6. \A it \in Pending(result) : \E i \in DOMAIN new : it = new[i]
    BY <2>1, <2>2, <2>4 DEF Pending, Range
  <2> QED BY <1>5, <2>5, <2>6 DEF result
<1>8. CASE ~(s.cur = NoItem /\ new # <<>>)
  <2>1. result.cur = s.cur /\ result.queue = kept \o new /\ result \in [cur : {s.cur}, queue : {kept \o new}]
    BY <1>6, <1>8
  <2>2. kept \o new \in Seq(Items) /\ Range(kept \o new) \subseteq Range(kept) \union Range(new)
    BY <1>2, <1>5, JoinedFrom
  <2>3. kept \o new # <<>> => s.cur # NoItem
    BY <1>2, <1>4, <1>5, <1>8
  <2>5. ScriptsWait(result)
    BY <1>1, <2>1, <2>2, <2>3 DEF ScriptsWait, Coordinator
  <2>6. \A it \in Pending(result) : it \in Pending(s) \/ \E i \in DOMAIN new : it = new[i]
    <3>1. Range(result.queue) \subseteq Range(s.queue) \union Range(new)
      BY <1>2, <2>1, <2>2
    <3>2. \A it \in Range(new) : \E i \in DOMAIN new : it = new[i]
      BY DEF Range
    <3> QED BY <2>1, <3>1, <3>2 DEF Pending
  <2> QED BY <1>5, <2>5, <2>6 DEF result
<1> QED BY <1>7, <1>8

LEMMA AnnouncedEnqueue ==
    ASSUME NEW s, ScriptsWait(s), NEW g \in Groups, NEW event \in Range(Events)
    PROVE  /\ ScriptsWait(EnqueueScript(s, g, event))
           /\ Announced(EnqueueScript(s, g, event)) \subseteq
                 Announced(s) \union (IF event = "NzbDownloaded" THEN {g} ELSE {})
<1> DEFINE result == EnqueueScript(s, g, event)
<1>1. /\ ScriptsWait(result)
      /\ \A item \in Pending(result) :
            item \in Pending(s) \/ (item.nzb = g /\ item.event = event)
  BY EnqueueIs
<1> HIDE DEF result
<1>2. Announced(result) \subseteq Announced(s) \union (IF event = "NzbDownloaded" THEN {g} ELSE {})
  BY <1>1 DEF Announced
<1> QED BY <1>1, <1>2 DEF result

(***************************************************************************)
(* CheckQueue finds the first of the items with the highest event: one     *)
(* with the highest rank exists, and the first of those has a number.      *)
(***************************************************************************)
LEMMA RankIs == \A event \in Range(Events) : Rank(event) \in 1..7
<1>1. DOMAIN Events = 1..7
  BY DEF Events
<1> SUFFICES ASSUME NEW event \in Range(Events) PROVE Rank(event) \in 1..7
  OBVIOUS
<1>2. \E i \in DOMAIN Events : Events[i] = event
  BY DEF Range
<1>3. Rank(event) \in DOMAIN Events
  BY <1>2 DEF Rank
<1> QED BY <1>1, <1>3

LEMMA FirstOfHighest ==
    ASSUME NEW q \in Seq(Items), q # <<>>
    PROVE  \E i \in DOMAIN q : /\ \A j \in DOMAIN q : Rank(q[j].event) <= Rank(q[i].event)
                               /\ \A j \in 1..(i - 1) : Rank(q[j].event) < Rank(q[i].event)
<1> DEFINE rank(i) == Rank(q[i].event)
           Lacks == {7 - rank(i) : i \in DOMAIN q}
<1>1. Len(q) \in Nat /\ DOMAIN q = 1..Len(q) /\ 1 \in DOMAIN q
  OBVIOUS
<1>2. \A i \in DOMAIN q : rank(i) \in 1..7
  <2> TAKE i \in DOMAIN q
  <2>1. q[i] \in Items
    OBVIOUS
  <2>2. q[i].event \in Range(Events)
    BY <2>1 DEF Items
  <2> QED BY <2>2, RankIs
<1> HIDE DEF rank
<1>3. PICK least \in Lacks : \A k \in Lacks : least <= k
  <2>1. Lacks \in SUBSET Nat /\ Lacks # {}
    BY <1>1, <1>2
  <2> HIDE DEF Lacks
  <2> QED BY <2>1, LeastNumber
<1>4. PICK h \in DOMAIN q : least = 7 - rank(h)
  BY <1>3
<1>5. \A j \in DOMAIN q : rank(j) <= rank(h)
  <2> TAKE j \in DOMAIN q
  <2>1. least <= 7 - rank(j)
    BY <1>3
  <2> QED BY <1>2, <1>4, <2>1
<1> DEFINE Highest == {i \in DOMAIN q : rank(i) = rank(h)}
<1>6. PICK i \in Highest : \A k \in Highest : i <= k
  <2>1. Highest \in SUBSET Nat /\ Highest # {}
    BY <1>1, <1>4
  <2> HIDE DEF Highest
  <2> QED BY <2>1, LeastNumber
<1>7. \A j \in 1..(i - 1) : rank(j) < rank(i)
  <2> TAKE j \in 1..(i - 1)
  <2>1. j \in DOMAIN q /\ ~(i <= j)
    BY <1>1, <1>6
  <2>2. rank(j) # rank(h)
    BY <1>6, <2>1
  <2> QED BY <1>2, <1>5, <1>6, <2>1, <2>2
<1>8. \A j \in DOMAIN q : rank(j) <= rank(i)
  BY <1>5, <1>6
<1> QED BY <1>6, <1>7, <1>8 DEF rank

LEMMA AnnouncedCheckQueue ==
    ASSUME NEW s, ScriptsWait(s), NEW ignored
    PROVE  /\ ScriptsWait(CheckQueue(s, ignored))
           /\ Announced(CheckQueue(s, ignored)) \subseteq Announced(s)
<1> DEFINE queue == Selected(s.queue, ToSet(s.queue) \ ignored)
           Highest(i) == /\ \A j \in DOMAIN queue : Rank(queue[j].event) <= Rank(queue[i].event)
                      /\ \A j \in 1..(i - 1) : Rank(queue[j].event) < Rank(queue[i].event)
           next == CHOOSE i \in DOMAIN queue : Highest(i)
           result == CheckQueue(s, ignored)
<1>1. s.queue \in Seq(Items)
  BY DEF ScriptsWait, Coordinator
<1>2. queue \in Seq(Items) /\ Range(queue) \subseteq Range(s.queue)
  <2> DEFINE S == ToSet(s.queue) \ ignored
  <2>1. S \subseteq Range(s.queue)
    BY DEF ToSet, Range
  <2> HIDE DEF S
  <2>2. Selected(s.queue, S) \in Seq(Items)
        /\ \A i \in DOMAIN Selected(s.queue, S) : Selected(s.queue, S)[i] \in S
    BY <1>1, SelectedFrom
  <2> QED BY <2>1, <2>2 DEF Range, S
<1>3. result = IF queue = <<>> THEN Idle ELSE [cur |-> queue[next], queue |-> RemoveAt(queue, next)]
  BY DEF CheckQueue
<1>4. CASE queue = <<>>
  BY <1>3, <1>4, IdleScripts
<1>5. CASE queue # <<>>
  <2> HIDE DEF queue
  <2>1. next \in DOMAIN queue
    <3>1. \E i \in DOMAIN queue : Highest(i)
      BY <1>2, <1>5, FirstOfHighest
    <3> HIDE DEF Highest
    <3> QED BY <3>1
  <2> HIDE DEF next, result
  <2>2. PICK n \in DOMAIN queue : n = next
    BY <2>1
  <2>3. result.cur = queue[n] /\ result.queue = RemoveAt(queue, n)
        /\ result \in [cur : {queue[n]}, queue : {RemoveAt(queue, n)}]
    BY <1>3, <1>5, <2>2
  <2>4. Len(queue) \in Nat /\ DOMAIN queue = 1..Len(queue) /\ n \in Nat /\ n >= 1 /\ n <= Len(queue)
    BY <1>2, <2>2
  <2> DEFINE before == SubSeq(queue, 1, n - 1)
             after == SubSeq(queue, n + 1, Len(queue))
  <2>5. before \in Seq(Items) /\ Range(before) \subseteq Range(queue)
    <3>1. before \in Seq(Items) /\ Len(before) = n - 1 /\ \A i \in 1..(n - 1) : before[i] = queue[i]
      BY <1>2, <2>4
    <3> HIDE DEF before
    <3>2. DOMAIN before = 1..(n - 1)
      BY <3>1
    <3> QED BY <2>4, <3>1, <3>2 DEF Range
  <2>6. after \in Seq(Items) /\ Range(after) \subseteq Range(queue)
    <3>1. after \in Seq(Items) /\ Len(after) = Len(queue) - n
          /\ \A i \in 1..(Len(queue) - n) : after[i] = queue[i + n]
      BY <1>2, <2>4
    <3> HIDE DEF after
    <3>2. DOMAIN after = 1..(Len(queue) - n)
      BY <3>1
    <3> QED BY <2>4, <3>1, <3>2 DEF Range
  <2> HIDE DEF before, after
  <2>7. before \o after \in Seq(Items) /\ Range(before \o after) \subseteq Range(queue)
    BY <2>5, <2>6, JoinedFrom
  <2>8. RemoveAt(queue, n) = before \o after
    BY DEF RemoveAt, before, after
  <2>9. result.queue \in Seq(Items) /\ Range(result.queue) \subseteq Range(s.queue)
    BY <1>2, <2>3, <2>7, <2>8
  <2>10. result.cur \in Items /\ result.cur \in Range(s.queue)
    BY <1>2, <2>2, <2>3 DEF Range
  <2>11. ScriptsWait(result)
    BY <2>3, <2>9, <2>10, ScriptOptions DEF ScriptsWait, Coordinator
  <2>12. Pending(result) \subseteq Pending(s)
    BY <2>9, <2>10 DEF Pending
  <2> QED BY <2>11, <2>12 DEF Announced, result
<1> QED BY <1>4, <1>5

LEMMA JobFields ==
    ASSUME NEW j \in Job
    PROVE  /\ j.in \in BOOLEAN /\ j.stage \in Stages /\ j.working \in BOOLEAN /\ j.deleted \in BOOLEAN
           /\ j.askPar \in BOOLEAN /\ j.needPar \in BOOLEAN /\ j.tried \in BOOLEAN /\ j.repaired \in BOOLEAN
           /\ j.force \in BOOLEAN /\ j.forceFull \in BOOLEAN
           /\ j.parRename \in {"none", "done"} /\ j.rarRename \in {"none", "done"}
           /\ j.par \in {"none", "skipped", "success", "failure", "possible", "manual"}
           /\ j.unpack \in {"none", "skipped", "success", "failure"}
           /\ j.cleanup \in {"none", "done"} /\ j.move \in {"none", "success", "failure"}
           /\ j.rename \in {"none", "done"} /\ j.full \in BOOLEAN /\ j.del \in {"none", "manual", "bad"}
BY DEF Job

LEMMA JobLeft ==
    ASSUME NEW j \in Job
    PROVE  /\ LeavePostProcess(j) \in Job
           /\ ~LeavePostProcess(j).in /\ LeavePostProcess(j).stage = "queued"
           /\ ~LeavePostProcess(j).working /\ ~LeavePostProcess(j).deleted /\ ~LeavePostProcess(j).askPar
           /\ LeavePostProcess(j).par = j.par /\ LeavePostProcess(j).del = j.del
<1> DEFINE i == [j EXCEPT !.in = FALSE, !.stage = "queued", !.working = FALSE, !.deleted = FALSE,
                          !.askPar = FALSE]
<1>1. i \in Job
  BY DEF Job, Stages
<1>2. /\ ~i.in /\ i.stage = "queued" /\ ~i.working /\ ~i.deleted /\ ~i.askPar
      /\ i.par = j.par /\ i.del = j.del
  BY DEF Job
<1>3. LeavePostProcess(j) = [i EXCEPT !.needPar = FALSE, !.tried = FALSE, !.repaired = FALSE,
                                      !.force = FALSE, !.forceFull = FALSE]
  BY DEF LeavePostProcess
<1> HIDE DEF i
<1> DEFINE k == [i EXCEPT !.needPar = FALSE, !.tried = FALSE, !.repaired = FALSE,
                          !.force = FALSE, !.forceFull = FALSE]
<1>4. k \in Job
  BY <1>1, ZenonT(30) DEF Job
<1>5. /\ ~k.in /\ k.stage = "queued" /\ ~k.working /\ ~k.deleted /\ ~k.askPar
      /\ k.par = j.par /\ k.del = j.del
  BY <1>1, <1>2 DEF Job
<1>6. LeavePostProcess(j) = k
  BY <1>3
<1> HIDE DEF k
<1> QED BY <1>4, <1>5, <1>6

LEMMA JobEntered ==
    ASSUME NEW j \in Job
    PROVE  /\ EnterPostProcess(j) \in Job
           /\ EnterPostProcess(j).in /\ EnterPostProcess(j).stage = "queued"
           /\ ~EnterPostProcess(j).working /\ ~EnterPostProcess(j).deleted /\ ~EnterPostProcess(j).askPar
           /\ EnterPostProcess(j).par = j.par /\ EnterPostProcess(j).del = j.del
<1>1. PICK k \in Job : /\ k = LeavePostProcess(j) /\ k.stage = "queued" /\ ~k.working /\ ~k.deleted
                       /\ ~k.askPar /\ k.par = j.par /\ k.del = j.del
  BY JobLeft
<1>2. EnterPostProcess(j) = [k EXCEPT !.in = TRUE]
  BY <1>1 DEF EnterPostProcess
<1>3. [k EXCEPT !.in = TRUE] \in Job
  BY DEF Job
<1>4. /\ [k EXCEPT !.in = TRUE].in /\ [k EXCEPT !.in = TRUE].stage = "queued"
      /\ ~[k EXCEPT !.in = TRUE].working /\ ~[k EXCEPT !.in = TRUE].deleted
      /\ ~[k EXCEPT !.in = TRUE].askPar /\ [k EXCEPT !.in = TRUE].par = j.par
      /\ [k EXCEPT !.in = TRUE].del = j.del
  BY <1>1 DEF Job
<1> QED BY <1>2, <1>3, <1>4
-----------------------------------------------------------------------------
(* The invariant. *)

Running(g)   == thread[g] \notin {"none", "ended"}
ParThread(g) == thread[g] \in {"verify", "request", "mark", "wait", "repair"}
Unpacks(g)   == du[g].status = "running"

\* A job has no files left but par-files; a group that is not in post-processing has no trace
\* of it and still files to download.
JobFits(g) ==
  /\ job[g].in => place[g] = "queue" /\ files[g] \subseteq {"par"}
  /\ ~job[g].in => /\ job[g].stage = "queued" /\ ~job[g].working /\ ~job[g].deleted /\ ~job[g].askPar
                   /\ place[g] = "queue" => files[g] # {}
  /\ job[g].working \/ job[g].deleted => g \in active
  /\ job[g].in /\ g \notin active /\ ParOpen(job[g]) => ~job[g].askPar

\* Threads are those of active jobs.  A thread that outlived its job, as a user may delete one
\* whose par-check was just answered, is alone with a group that is gone.
ThreadFits(g) ==
  /\ runner = "loading" => thread[g] = "none"
  /\ thread[g] # "none" => files[g] \subseteq {"par"}
  /\ Running(g) => g \in active
  /\ ParThread(g) => ~job[g].askPar
  /\ ParThread(g) /\ job[g].in => /\ job[g].stage \in ParStages
                                  /\ ~job[g].working => files[g] = {}
  /\ ParThread(g) /\ ~job[g].in => place[g] # "queue"

\* The direct unpacker works while no stage does.
UnpackFits(g) ==
  /\ Unpacks(g) => ~Running(g) /\ ~job[g].askPar
  /\ du[g].attached => Unpacks(g)
  /\ Unpacks(g) /\ du[g].completed => /\ files[g] \subseteq {"par"}
                                      /\ edits = 0 /\ "par" \in files[g] => parPaused[g]
  /\ Unpacks(g) /\ du[g].pc = "locked" => du[g].completed
  /\ ~Unpacks(g) /\ du[g].pc # "off" =>
       /\ files[g] \subseteq {"par"}
       /\ job[g].in /\ (~job[g].deleted \/ thread[g] # "none" \/ g \notin active) => files[g] = {}

ScriptsFit(g) ==
  g \in Announced(scripts) => \/ thread[g] = "none"
                              \/ job[g].stage = "queued" /\ ~ParThread(g) /\ ~job[g].askPar

Fits(g) == JobFits(g) /\ ThreadFits(g) /\ UnpackFits(g) /\ ScriptsFit(g)

In         == {g \in Groups : job[g].in}
ParJobs    == {g \in active : job[g].stage \in ParStages}
ParThreads == {g \in Groups : ParThread(g)}
Threads    == {g \in Groups : Running(g)}

MaxPars == IF Strategy = "rocket" THEN 2 ELSE 1
MaxThreads == CASE Strategy = "sequential" -> 1 [] Strategy = "balanced" -> 2
                [] Strategy = "aggressive" -> 3 [] Strategy = "rocket" -> 6

Within ==
  /\ Cardinality(ParJobs) <= MaxPars /\ Cardinality(ParThreads) <= MaxPars
  /\ Cardinality(Threads) <= MaxThreads

\* Within the loop of CheckPostQueue all active jobs have their PostInfo.
Turn == lock = "runner" => runner = "idle" /\ \A g \in active : job[g].in

Good == (\A g \in Groups : Fits(g)) /\ Within /\ Turn

\* The counter may be too high by the jobs of the last session that were counted twice.
Books ==
  /\ queuedJobs \in Nat
  /\ runner = "loading" => queuedJobs <= Cardinality(In)
  /\ runner = "idle" => /\ Cardinality(In) <= queuedJobs
                        /\ queuedJobs <= Cardinality(In) + Cardinality(Groups)

\* While memory is still sound the groups are good; what is left when it no longer is.
Announcements ==
  /\ ScriptsWait(scripts)
  /\ \A g \in Announced(scripts) : thread[g] = "none" \/ job[g].stage = "queued"

Types ==
  /\ place \in [Groups -> {"queue", "history"}]
  /\ files \in [Groups -> SUBSET (Volumes \union {"par"})]
  /\ parPaused \in [Groups -> BOOLEAN]
  /\ health \in [Groups -> Healths]
  /\ job \in [Groups -> Job]
  /\ thread \in [Groups -> {"none", "run", "verify", "request", "mark", "wait", "repair", "ended"}]
  /\ stopped \in [Groups -> BOOLEAN]
  /\ more \in [Groups -> [file : BOOLEAN, changed : BOOLEAN, requested : BOOLEAN]]
  /\ du \in [Groups -> DirectUnpack]
  /\ active \subseteq Groups
  /\ runner \in {"loading", "idle"}
  /\ lock \in {"free", "runner", "downloader"}
  /\ pausePost \in BOOLEAN /\ broken \in BOOLEAN /\ edits \in 0..MaxEdits /\ asked \subseteq Groups

Inv == Types /\ Books /\ Announcements /\ LockedByResumeOnly /\ (~broken => Good)

Untouched(h) ==
  /\ place'[h] = place[h] /\ files'[h] = files[h] /\ parPaused'[h] = parPaused[h]
  /\ job'[h] = job[h] /\ thread'[h] = thread[h] /\ du'[h] = du[h]
  /\ h \in active' <=> h \in active
  /\ h \in Announced(scripts') => h \in Announced(scripts)

LEMMA UntouchedFits ==
    ASSUME NEW h \in Groups, Fits(h), Untouched(h), runner' = runner, edits' = 0 => edits = 0
    PROVE  Fits(h)'
<1>1. JobFits(h)'
  BY DEF Fits, JobFits, Untouched, ParOpen
<1>2. ThreadFits(h)'
  BY DEF Fits, ThreadFits, Untouched, Running, ParThread
<1>3. UnpackFits(h)'
  BY DEF Fits, UnpackFits, Untouched, Running, Unpacks
<1>4. ScriptsFit(h)'
  BY DEF Fits, ScriptsFit, Untouched, ParThread
<1> QED BY <1>1, <1>2, <1>3, <1>4 DEF Fits

LEMMA Shrinks ==
    ASSUME NEW A, NEW B, IsFiniteSet(A), B \subseteq A
    PROVE  IsFiniteSet(B) /\ Cardinality(B) \in Nat /\ Cardinality(A) \in Nat
           /\ Cardinality(B) <= Cardinality(A)
BY FS_Subset, FS_CardinalityType

LEMMA LimitsAre == MaxPars \in Nat /\ MaxThreads \in Nat /\ MaxPars >= 1 /\ MaxThreads >= 1
BY PostOptions DEF MaxPars, MaxThreads

LEMMA StillWithin ==
    ASSUME Types, Types', Within, ParJobs' \subseteq ParJobs, ParThreads' \subseteq ParThreads,
           Threads' \subseteq Threads
    PROVE  Within'
<1>1. IsFiniteSet(ParJobs) /\ IsFiniteSet(ParThreads) /\ IsFiniteSet(Threads)
  BY PostOptions, FS_Subset DEF Types, ParJobs, ParThreads, Threads
<1>2. /\ Cardinality(ParJobs)' <= Cardinality(ParJobs) /\ Cardinality(ParThreads)' <= Cardinality(ParThreads)
      /\ Cardinality(Threads)' <= Cardinality(Threads)
      /\ Cardinality(ParJobs)' \in Nat /\ Cardinality(ParThreads)' \in Nat /\ Cardinality(Threads)' \in Nat
      /\ Cardinality(ParJobs) \in Nat /\ Cardinality(ParThreads) \in Nat /\ Cardinality(Threads) \in Nat
  <2> HIDE DEF ParJobs, ParThreads, Threads
  <2> QED BY <1>1, Shrinks
<1> QED BY <1>2, LimitsAre DEF Within

(***************************************************************************)
(* A step that touches one group only.                                     *)
(***************************************************************************)
LEMMA CountChanges ==
    ASSUME NEW A, NEW B, NEW x, IsFiniteSet(A), A \ {x} = B \ {x}
    PROVE  /\ IsFiniteSet(B) /\ Cardinality(A) \in Nat /\ Cardinality(B) \in Nat
           /\ (x \in A <=> x \in B) => Cardinality(B) = Cardinality(A)
           /\ x \notin A /\ x \in B => Cardinality(B) = Cardinality(A) + 1
           /\ x \in A /\ x \notin B => Cardinality(B) = Cardinality(A) - 1
<1>1. CASE x \in A <=> x \in B
  <2>1. A = B
    BY <1>1
  <2> QED BY <2>1, FS_CardinalityType
<1>2. CASE x \notin A /\ x \in B
  <2>1. B = A \union {x}
    BY <1>2
  <2> QED BY <1>2, <2>1, FS_AddElement, FS_CardinalityType
<1>3. CASE x \in A /\ x \notin B
  <2>1. B = A \ {x}
    BY <1>3
  <2> QED BY <1>3, <2>1, FS_RemoveElement, FS_CardinalityType
<1> QED BY <1>1, <1>2, <1>3

LEMMA BooksLocal ==
    ASSUME Types, Types', Books, NEW g \in Groups, runner' = runner,
           \A h \in Groups \ {g} : job'[h].in <=> job[h].in,
           \/ (job'[g].in <=> job[g].in) /\ queuedJobs' = queuedJobs
           \/ ~job[g].in /\ job'[g].in /\ queuedJobs' = queuedJobs + 1
           \/ runner = "idle" /\ job[g].in /\ ~job'[g].in /\ queuedJobs' = queuedJobs - 1
    PROVE  Books'
<1>1. IsFiniteSet(In) /\ In \ {g} = In' \ {g}
  BY PostOptions, FS_Subset DEF In
<1>2. (g \in In <=> job[g].in) /\ (g \in In' <=> job'[g].in)
  BY DEF In
<1>3. Cardinality(Groups) \in Nat
  BY PostOptions, FS_CardinalityType
<1>4. /\ Cardinality(In) \in Nat /\ Cardinality(In)' \in Nat
      /\ (g \in In <=> g \in In') => Cardinality(In)' = Cardinality(In)
      /\ g \notin In /\ g \in In' => Cardinality(In)' = Cardinality(In) + 1
      /\ g \in In /\ g \notin In' => Cardinality(In)' = Cardinality(In) - 1
  <2> DEFINE B == In'
  <2>1. In \ {g} = B \ {g}
    BY <1>1
  <2>2. IsFiniteSet(In)
    BY <1>1
  <2> HIDE DEF B
  <2>3. /\ Cardinality(In) \in Nat /\ Cardinality(B) \in Nat
        /\ (g \in In <=> g \in B) => Cardinality(B) = Cardinality(In)
        /\ g \notin In /\ g \in B => Cardinality(B) = Cardinality(In) + 1
        /\ g \in In /\ g \notin B => Cardinality(B) = Cardinality(In) - 1
    BY <2>1, <2>2, CountChanges
  <2> QED BY <2>3 DEF B
<1> HIDE DEF In
<1>5. CASE (job'[g].in <=> job[g].in) /\ queuedJobs' = queuedJobs
  BY <1>2, <1>3, <1>4, <1>5 DEF Books
<1>6. CASE ~job[g].in /\ job'[g].in /\ queuedJobs' = queuedJobs + 1
  BY <1>2, <1>3, <1>4, <1>6 DEF Books
<1>7. CASE runner = "idle" /\ job[g].in /\ ~job'[g].in /\ queuedJobs' = queuedJobs - 1
  BY <1>2, <1>3, <1>4, <1>7 DEF Books
<1> QED BY <1>5, <1>6, <1>7

LEMMA Local ==
    ASSUME Inv, ~broken, NEW g \in Groups, Types', Books', ScriptsWait(scripts'), LockedByResumeOnly',
           \A h \in Groups \ {g} : Untouched(h), Fits(g)',
           runner' = runner, edits' = 0 => edits = 0,
           g \in ParJobs' => g \in ParJobs, ParThread(g)' => ParThread(g), Running(g)' => Running(g),
           lock' = "runner" => lock = "runner" /\ (g \in active' => job'[g].in)
    PROVE  Inv'
<1>1. \A h \in Groups : Fits(h)'
  BY UntouchedFits DEF Inv, Good
<1>2. Announcements'
  <2>1. ASSUME NEW h \in Announced(scripts)' PROVE (thread[h] = "none" \/ job[h].stage = "queued")'
    <3>1. h \in Groups
      BY <2>1 DEF Announced
    <3> QED BY <1>1, <2>1, <3>1 DEF Fits, ScriptsFit
  <2> QED BY <2>1 DEF Announcements
<1>3. Within'
  <2>1. ParThreads' \subseteq ParThreads /\ Threads' \subseteq Threads
    BY DEF ParThreads, Threads, Untouched, ParThread, Running
  <2>2. ParJobs' \subseteq ParJobs
    BY DEF ParJobs, Untouched, Types
  <2> QED BY <2>1, <2>2, StillWithin DEF Inv, Good
<1>4. Turn'
  BY DEF Turn, Untouched, Inv, Good, Types
<1> QED BY <1>1, <1>2, <1>3, <1>4 DEF Inv, Good

\* The steps that leave scripts and lock alone, and queuedJobs as they leave the job there.
LEMMA LocalRest ==
    ASSUME Inv, ~broken, NEW g \in Groups, Types',
           \A h \in Groups \ {g} : Untouched(h), Fits(g)',
           UNCHANGED <<runner, queuedJobs, lock, scripts>>, edits' = 0 => edits = 0,
           job'[g].in <=> job[g].in, lock = "downloader" => LockedByResumeOnly',
           g \in ParJobs' => g \in ParJobs, ParThread(g)' => ParThread(g), Running(g)' => Running(g),
           g \in active' => g \in active
    PROVE  Inv'
<1>1. Books'
  <2>1. \A h \in Groups \ {g} : job'[h].in <=> job[h].in
    BY DEF Untouched
  <2> QED BY <2>1, BooksLocal DEF Inv
<1>2. ScriptsWait(scripts') /\ LockedByResumeOnly'
  BY DEF Inv, Announcements, LockedByResumeOnly
<1>3. lock' = "runner" => lock = "runner" /\ (g \in active' => job'[g].in)
  BY DEF Inv, Good, Turn
<1> QED BY <1>1, <1>2, <1>3, Local

(***************************************************************************)
(* A thread that ends without its job leaves freed memory behind.          *)
(***************************************************************************)
LEMMA Breaks ==
    ASSUME Inv, Types', NEW g \in Groups, broken', thread[g] # "none",
           \A h \in Groups \ {g} : thread'[h] = thread[h],
           UNCHANGED <<job, place, queuedJobs, runner, scripts>>,
           lock' # "downloader" \/ UNCHANGED <<lock, edits, du, files, parPaused>>
    PROVE  Inv'
<1>1. Books'
  BY DEF Inv, Books, In
<1>2. Announcements'
  <2>1. ASSUME NEW h \in Announced(scripts) PROVE thread'[h] = "none" \/ job[h].stage = "queued"
    <3>1. h \in Groups /\ (thread[h] = "none" \/ job[h].stage = "queued")
      BY <2>1 DEF Announced, Inv, Announcements
    <3> QED BY <3>1
  <2> QED BY <2>1 DEF Inv, Announcements, ScriptsWait, Coordinator
<1>3. LockedByResumeOnly'
  BY DEF Inv, LockedByResumeOnly
<1> QED BY <1>1, <1>2, <1>3 DEF Inv

LEMMA SetIs ==
    ASSUME NEW R, NEW f \in [Groups -> R], NEW g \in Groups, NEW e \in R
    PROVE  /\ Set(f, g, e) \in [Groups -> R] /\ Set(f, g, e)[g] = e
           /\ \A h \in Groups \ {g} : Set(f, g, e)[h] = f[h]
BY DEF Set

LEMMA SetJob ==
    ASSUME NEW g \in Groups, NEW j \in Job, job \in [Groups -> Job], job' = Set(job, g, j)
    PROVE  /\ job' \in [Groups -> Job] /\ job'[g] = j
           /\ \A h \in Groups \ {g} : job'[h] = job[h]
<1>1. /\ Set(job, g, j) \in [Groups -> Job] /\ Set(job, g, j)[g] = j
      /\ \A h \in Groups \ {g} : Set(job, g, j)[h] = job[h]
  BY SetIs
<1> QED BY <1>1

LEMMA SetUnpack ==
    ASSUME NEW g \in Groups, NEW d \in DirectUnpack, du \in [Groups -> DirectUnpack], du' = Set(du, g, d)
    PROVE  /\ du' \in [Groups -> DirectUnpack] /\ du'[g] = d
           /\ \A h \in Groups \ {g} : du'[h] = du[h]
<1>1. /\ Set(du, g, d) \in [Groups -> DirectUnpack] /\ Set(du, g, d)[g] = d
      /\ \A h \in Groups \ {g} : Set(du, g, d)[h] = du[h]
  BY SetIs, SMTT(30)
<1> QED BY <1>1

-----------------------------------------------------------------------------
(* The direct unpacker's thread. *)

LEMMA UnpackFields ==
    ASSUME NEW d \in DirectUnpack
    PROVE  /\ d.pc \in {"off", "loop", "unrar", "missing", "wait", "locked", "cont", "end"}
           /\ d.status \in {"none", "running", "success", "failure"}
           /\ d.attached \in BOOLEAN /\ d.main \in BOOLEAN /\ d.waiting \in BOOLEAN
           /\ d.completed \in BOOLEAN /\ d.processed \in BOOLEAN /\ d.ok \in BOOLEAN /\ d.stop \in BOOLEAN
BY DEF DirectUnpack

\* What its steps but the last have in common; j is what becomes of the group's job.
LEMMA UnpackerKeeps ==
    ASSUME Inv, ~broken, NEW g \in Groups, NEW d \in DirectUnpack, du' = Set(du, g, d),
           UNCHANGED UnpackerRest,
           d.status = du[g].status, d.attached <=> du[g].attached, d.completed <=> du[g].completed,
           d.pc = "locked" => d.completed \/ du[g].pc = "locked", du[g].pc # "off",
           job' = job \/ (lock = "free" /\ job' = Set(job, g, SetIdle(job[g]))),
           lock = "free" \/ du[g].pc # "locked"
    PROVE  Inv'
<1>1. /\ du' \in [Groups -> DirectUnpack] /\ du'[g] = d
      /\ \A h \in Groups \ {g} : du'[h] = du[h]
  <2>1. du \in [Groups -> DirectUnpack]
    BY DEF Inv, Types
  <2> QED BY <2>1, SetIs
<1>2. job[g] \in Job /\ du[g] \in DirectUnpack
  BY DEF Inv, Types
<1>3. PICK j \in Job : /\ j = job'[g] /\ job' \in [Groups -> Job] /\ \A h \in Groups \ {g} : job'[h] = job[h]
                       /\ (j.in <=> job[g].in) /\ j.stage = job[g].stage /\ j.par = job[g].par
                       /\ (j.deleted <=> job[g].deleted) /\ (j.askPar <=> job[g].askPar)
                       /\ j.working => job[g].working
  <2>1. CASE job' = job
    BY <1>2, <2>1 DEF Inv, Types
  <2>2. CASE job' = Set(job, g, SetIdle(job[g]))
    <3>1. PICK j \in Job :
            /\ j = SetIdle(job[g])
            /\ (j.in <=> job[g].in) /\ j.stage = job[g].stage /\ j.par = job[g].par
            /\ (j.deleted <=> job[g].deleted) /\ (j.askPar <=> job[g].askPar)
            /\ j.working => job[g].working
      <4> DEFINE k == [job[g] EXCEPT !.working = FALSE]
      <4>1. k \in Job /\ (k.in <=> job[g].in) /\ k.stage = job[g].stage /\ k.par = job[g].par
            /\ (k.deleted <=> job[g].deleted) /\ (k.askPar <=> job[g].askPar) /\ ~k.working
        BY <1>2 DEF Job
      <4>2. SetIdle(job[g]) = IF job[g].in THEN k ELSE job[g]
        BY DEF SetIdle
      <4> HIDE DEF k
      <4> QED BY <1>2, <4>1, <4>2
    <3>2. job \in [Groups -> Job]
      BY DEF Inv, Types
    <3>3. /\ Set(job, g, j) \in [Groups -> Job] /\ Set(job, g, j)[g] = j
          /\ \A h \in Groups \ {g} : Set(job, g, j)[h] = job[h]
      BY <3>2, SetIs
    <3>4. job' = Set(job, g, j)
      BY <2>2, <3>1
    <3>5. /\ job' \in [Groups -> Job] /\ j = job'[g]
          /\ \A h \in Groups \ {g} : job'[h] = job[h]
      BY <3>3, <3>4
    <3> QED BY <3>1, <3>5
  <2> QED BY <2>1, <2>2
<1>4. Fits(g)
  BY DEF Inv, Good
<1>5. Types'
  BY <1>1, <1>3 DEF Inv, Types, UnpackerRest
<1>6. \A h \in Groups \ {g} : Untouched(h)
  BY <1>1, <1>3 DEF Untouched, UnpackerRest
<1>7. UNCHANGED <<place, files, parPaused, thread, active, runner, scripts, edits, queuedJobs, lock, broken>>
  BY DEF UnpackerRest
<1>8. Fits(g)'
  <2>1. JobFits(g)'
    BY <1>3, <1>4, <1>7 DEF Fits, JobFits, ParOpen
  <2>2. ThreadFits(g)'
    <3>1. ParThread(g) /\ job[g].in /\ job'[g] # job[g] => files[g] = {}
      BY <1>4, <1>3 DEF Fits, UnpackFits, Unpacks, ParThread, Running, SetIdle
    <3>2. job'[g].in <=> job[g].in
      BY <1>3
    <3> QED BY <1>3, <1>4, <1>7, <3>1 DEF Fits, ThreadFits, ParThread, Running
  <2>3. UnpackFits(g)'
    BY <1>1, <1>3, <1>4, <1>7 DEF Fits, UnpackFits, Unpacks, Running
  <2>4. ScriptsFit(g)'
    BY <1>3, <1>4, <1>7 DEF Fits, ScriptsFit, ParThread
  <2> QED BY <2>1, <2>2, <2>3, <2>4 DEF Fits
<1>9. /\ job'[g].in <=> job[g].in
      /\ g \in ParJobs' => g \in ParJobs
      /\ ParThread(g)' => ParThread(g)
      /\ Running(g)' => Running(g)
  BY <1>3, <1>7 DEF ParJobs, ParThread, Running
<1>10. lock = "downloader" => LockedByResumeOnly'
  <2>1. \A h \in Groups : du[h].pc = "locked" /\ lock = "downloader" => du'[h] = du[h]
    BY <1>1
  <2> QED BY <1>7, <2>1 DEF LockedByResumeOnly, Inv
<1> QED BY <1>5, <1>6, <1>7, <1>8, <1>9, <1>10, LocalRest

LEMMA UnpackerEndsStep ==
    ASSUME Inv, NEW g \in Groups, UnpackerEnds(g)
    PROVE  Inv'
<1>1. /\ du[g].pc = "end" /\ lock = "free" /\ ~broken /\ UNCHANGED UnpackerRest
      /\ du[g] \in DirectUnpack /\ job[g] \in Job /\ Fits(g)
      /\ du \in [Groups -> DirectUnpack] /\ job \in [Groups -> Job]
  BY DEF UnpackerEnds, Inv, Types, Good
<1>2. PICK d \in DirectUnpack, j \in Job :
        /\ du' = Set(du, g, d) /\ job' = Set(job, g, j)
        /\ d.pc = "off" /\ ~d.attached /\ ~d.completed
        /\ (j.in <=> job[g].in) /\ j.stage = job[g].stage /\ j.par = job[g].par
        /\ (j.deleted <=> job[g].deleted) /\ (j.askPar <=> job[g].askPar)
        /\ j.working => job[g].working
        /\ d.status = "running" => du[g].status = "running"
        /\ j # job[g] => du[g].attached
  <2>1. CASE place[g] = "queue" /\ du[g].attached
    <3> DEFINE status == IF ~du[g].processed THEN "none"
                         ELSE IF du[g].ok /\ ~du[g].stop THEN "success" ELSE "failure"
               d == [NoUnpack EXCEPT !.status = status]
               k == [job[g] EXCEPT !.working = FALSE]
    <3>1. status \in {"none", "success", "failure"}
      OBVIOUS
    <3> HIDE DEF status
    <3>2. d \in DirectUnpack /\ d.pc = "off" /\ ~d.attached /\ ~d.completed /\ d.status # "running"
      BY <3>1 DEF DirectUnpack, NoUnpack
    <3>3. k \in Job /\ (k.in <=> job[g].in) /\ k.stage = job[g].stage /\ k.par = job[g].par
          /\ (k.deleted <=> job[g].deleted) /\ (k.askPar <=> job[g].askPar) /\ ~k.working
      BY <1>1 DEF Job
    <3>4. du' = Set(du, g, d) /\ job' = Set(job, g, SetIdle(job[g]))
      BY <2>1 DEF UnpackerEnds, status
    <3>5. SetIdle(job[g]) = IF job[g].in THEN k ELSE job[g]
      BY DEF SetIdle
    <3> HIDE DEF d, k
    <3> QED BY <1>1, <2>1, <3>2, <3>3, <3>4, <3>5
  <2>2. CASE ~(place[g] = "queue" /\ du[g].attached)
    <3> DEFINE d == [NoUnpack EXCEPT !.status = du[g].status]
    <3>1. d \in DirectUnpack /\ d.pc = "off" /\ ~d.attached /\ ~d.completed /\ d.status = du[g].status
      <4>1. du[g].status \in {"none", "running", "success", "failure"}
        BY <1>1, UnpackFields
      <4> QED BY <4>1 DEF DirectUnpack, NoUnpack
    <3>2. du' = Set(du, g, d) /\ job' = job
      BY <2>2 DEF UnpackerEnds
    <3>3. job = Set(job, g, job[g])
      BY <1>1 DEF Set
    <3> HIDE DEF d
    <3> QED BY <1>1, <3>1, <3>2, <3>3
  <2> QED BY <2>1, <2>2
<1>3. /\ du' \in [Groups -> DirectUnpack] /\ du'[g] = d
      /\ \A h \in Groups \ {g} : du'[h] = du[h]
  BY <1>1, <1>2, SetIs
<1>4. /\ job' \in [Groups -> Job] /\ job'[g] = j
      /\ \A h \in Groups \ {g} : job'[h] = job[h]
  BY <1>1, <1>2, SetIs
<1>5. Types'
  BY <1>1, <1>3, <1>4 DEF Inv, Types, UnpackerRest
<1>6. \A h \in Groups \ {g} : Untouched(h)
  BY <1>1, <1>3, <1>4 DEF Untouched, UnpackerRest
<1>7. UNCHANGED <<place, files, parPaused, thread, active, runner, scripts, edits, queuedJobs, lock, broken>>
  BY <1>1 DEF UnpackerRest
<1>8. Fits(g)'
  <2>1. JobFits(g)'
    BY <1>1, <1>2, <1>4, <1>7 DEF Fits, JobFits, ParOpen
  <2>2. ThreadFits(g)'
    <3>1. ParThread(g) => j = job[g]
      BY <1>1, <1>2 DEF Fits, UnpackFits, Unpacks, ParThread, Running
    <3> QED BY <1>1, <1>2, <1>4, <1>7, <3>1 DEF Fits, ThreadFits, ParThread, Running
  <2>3. UnpackFits(g)'
    BY <1>1, <1>2, <1>3, <1>4, <1>7 DEF Fits, UnpackFits, Unpacks, Running
  <2>4. ScriptsFit(g)'
    BY <1>1, <1>2, <1>4, <1>7 DEF Fits, ScriptsFit, ParThread
  <2> QED BY <2>1, <2>2, <2>3, <2>4 DEF Fits
<1>9. /\ job'[g].in <=> job[g].in
      /\ g \in ParJobs' => g \in ParJobs
      /\ ParThread(g)' => ParThread(g)
      /\ Running(g)' => Running(g)
  BY <1>2, <1>4, <1>7 DEF ParJobs, ParThread, Running
<1> QED BY <1>1, <1>5, <1>6, <1>7, <1>8, <1>9, LocalRest

LEMMA UnpackerInv ==
    ASSUME Inv, NEW g \in Groups, UnpackerStep(g)
    PROVE  Inv'
<1>1. du[g] \in DirectUnpack
  BY DEF Inv, Types
<1>2. CASE UnpackArchive(g)
  <2> DEFINE d == [du[g] EXCEPT !.pc = "unrar", !.main = FALSE, !.processed = TRUE]
  <2>1. ~broken /\ du[g].pc = "loop" /\ du' = Set(du, g, d) /\ job' = job /\ UNCHANGED UnpackerRest
    BY <1>2 DEF UnpackArchive
  <2>2. d \in DirectUnpack /\ d.status = du[g].status /\ (d.attached <=> du[g].attached)
        /\ (d.completed <=> du[g].completed) /\ d.pc # "locked"
    BY <1>1, <2>1 DEF DirectUnpack
  <2> HIDE DEF d
  <2> QED BY <2>1, <2>2, UnpackerKeeps
<1>3. CASE AskVolume(g)
  <2> DEFINE d == [du[g] EXCEPT !.pc = IF "vol2" \in files[g] THEN "missing" ELSE "cont"]
  <2>1. ~broken /\ du[g].pc = "unrar" /\ du' = Set(du, g, d) /\ job' = job /\ UNCHANGED UnpackerRest
    BY <1>3 DEF AskVolume
  <2>2. d \in DirectUnpack /\ d.status = du[g].status /\ (d.attached <=> du[g].attached)
        /\ (d.completed <=> du[g].completed) /\ d.pc # "locked"
    BY <1>1, <2>1 DEF DirectUnpack
  <2> HIDE DEF d
  <2> QED BY <2>1, <2>2, UnpackerKeeps
<1>4. CASE WaitNextVolume(g)
  <2> DEFINE d == [du[g] EXCEPT !.waiting = TRUE, !.pc = IF du[g].completed THEN "locked" ELSE "wait"]
  <2>1. ~broken /\ du[g].pc = "missing" /\ du' = Set(du, g, d) /\ job' = job /\ UNCHANGED UnpackerRest
    BY <1>4 DEF WaitNextVolume, MissesVolume
  <2>2. d \in DirectUnpack /\ d.status = du[g].status /\ (d.attached <=> du[g].attached)
        /\ (d.completed <=> du[g].completed) /\ (d.pc = "locked" => d.completed)
    BY <1>1, <2>1 DEF DirectUnpack
  <2> HIDE DEF d
  <2> QED BY <2>1, <2>2, UnpackerKeeps
<1>5. CASE StopSelf(g)
  <2> DEFINE d == [[du[g] EXCEPT !.stop = TRUE] EXCEPT !.pc = IF @ = "locked" THEN "wait" ELSE @]
  <2>1. ~broken /\ lock = "free" /\ du[g].pc \in {"locked", "unrar", "cont"} /\ du' = Set(du, g, d)
        /\ (job' = job \/ job' = Set(job, g, SetIdle(job[g]))) /\ UNCHANGED UnpackerRest
    BY <1>5 DEF StopSelf, UnpackStop
  <2>2. d \in DirectUnpack /\ d.status = du[g].status /\ (d.attached <=> du[g].attached)
        /\ (d.completed <=> du[g].completed) /\ d.pc # "locked"
    BY <1>1, <2>1 DEF DirectUnpack
  <2> HIDE DEF d
  <2> QED BY <2>1, <2>2, UnpackerKeeps
<1>6. CASE UnrarEnds(g)
  <2> DEFINE ok == du[g].pc = "cont" /\ ~du[g].stop
             d == [du[g] EXCEPT !.ok = ok, !.pc = IF ok THEN "loop" ELSE "end"]
  <2>1. ~broken /\ du[g].pc \in {"cont", "unrar", "wait"} /\ du' = Set(du, g, d) /\ job' = job
        /\ UNCHANGED UnpackerRest
    BY <1>6 DEF UnrarEnds
  <2>2. ok \in BOOLEAN
    OBVIOUS
  <2> HIDE DEF ok
  <2>3. d \in DirectUnpack /\ d.status = du[g].status /\ (d.attached <=> du[g].attached)
        /\ (d.completed <=> du[g].completed) /\ d.pc # "locked"
    BY <1>1, <2>1, <2>2 DEF DirectUnpack
  <2> HIDE DEF d
  <2> QED BY <2>1, <2>3, UnpackerKeeps
<1>7. CASE LoopEnds(g)
  <2> DEFINE d == [du[g] EXCEPT !.pc = "end"]
  <2>1. ~broken /\ du[g].pc = "loop" /\ du' = Set(du, g, d) /\ job' = job /\ UNCHANGED UnpackerRest
    BY <1>7 DEF LoopEnds
  <2>2. d \in DirectUnpack /\ d.status = du[g].status /\ (d.attached <=> du[g].attached)
        /\ (d.completed <=> du[g].completed) /\ d.pc # "locked"
    BY <1>1, <2>1 DEF DirectUnpack
  <2> HIDE DEF d
  <2> QED BY <2>1, <2>2, UnpackerKeeps
<1>8. CASE UnpackerEnds(g)
  BY <1>8, UnpackerEndsStep
<1> QED BY <1>2, <1>3, <1>4, <1>5, <1>6, <1>7, <1>8 DEF UnpackerStep
-----------------------------------------------------------------------------
(* The threads of the stages. *)

\* What their steps leave alone.
StageFrame(g) ==
  /\ UNCHANGED <<place, files, health, stopped, du, active, queuedJobs, runner, lock, scripts,
                 pausePost, edits>>
  /\ more' \in [Groups -> [file : BOOLEAN, changed : BOOLEAN, requested : BOOLEAN]]
  /\ asked' \subseteq Groups
  /\ parPaused' = parPaused \/ (lock = "free" /\ parPaused' = Set(parPaused, g, FALSE))

LEMMA FrameIs ==
    ASSUME Types, NEW g \in Groups, StageFrame(g)
    PROVE  /\ parPaused' \in [Groups -> BOOLEAN]
           /\ parPaused'[g] => parPaused[g]
           /\ \A h \in Groups \ {g} : parPaused'[h] = parPaused[h]
<1>1. parPaused \in [Groups -> BOOLEAN]
  BY DEF Types
<1>2. CASE parPaused' = parPaused
  BY <1>1, <1>2
<1>3. CASE parPaused' = Set(parPaused, g, FALSE)
  <2>1. /\ Set(parPaused, g, FALSE) \in [Groups -> BOOLEAN] /\ Set(parPaused, g, FALSE)[g] = FALSE
        /\ \A h \in Groups \ {g} : Set(parPaused, g, FALSE)[h] = parPaused[h]
    BY <1>1 DEF Set
  <2> QED BY <1>3, <2>1
<1> QED BY <1>2, <1>3 DEF StageFrame

LEMMA ThreadKeeps ==
    ASSUME Inv, ~broken, UNCHANGED broken, NEW g \in Groups, StageFrame(g), Running(g),
           NEW t \in {"run", "verify", "request", "mark", "wait", "repair", "ended"}, NEW j \in Job,
           thread' = Set(thread, g, t), job' = Set(job, g, j),
           j.in <=> job[g].in, ~j.in => j = job[g],
           j.working => job[g].working, j.deleted <=> job[g].deleted,
           j.stage \in ParStages => job[g].stage \in ParStages,
           job[g].stage = "queued" /\ ~ParThread(g) => j.stage = "queued" /\ (j.askPar <=> job[g].askPar),
           t \in {"verify", "request", "mark", "wait", "repair"} =>
              /\ ParThread(g)
              /\ j.askPar <=> job[g].askPar
              /\ j.working <=> job[g].working
              /\ j.in => j.stage \in ParStages
    PROVE  Inv'
<1>1. /\ thread' \in [Groups -> {"none", "run", "verify", "request", "mark", "wait", "repair", "ended"}]
      /\ thread'[g] = t /\ \A h \in Groups \ {g} : thread'[h] = thread[h]
  <2>1. thread \in [Groups -> {"none", "run", "verify", "request", "mark", "wait", "repair", "ended"}]
    BY DEF Inv, Types
  <2> QED BY <2>1 DEF Set
<1>2. /\ job' \in [Groups -> Job] /\ job'[g] = j
      /\ \A h \in Groups \ {g} : job'[h] = job[h]
  <2>1. job \in [Groups -> Job]
    BY DEF Inv, Types
  <2> QED BY <2>1 DEF Set
<1>3. /\ parPaused' \in [Groups -> BOOLEAN] /\ (parPaused'[g] => parPaused[g])
      /\ \A h \in Groups \ {g} : parPaused'[h] = parPaused[h]
  BY FrameIs DEF Inv
<1>4. Types'
  BY <1>1, <1>2, <1>3 DEF Inv, Types, StageFrame
<1>5. \A h \in Groups \ {g} : Untouched(h)
  BY <1>1, <1>2, <1>3 DEF Untouched, StageFrame
<1>6. Fits(g) /\ job[g] \in Job /\ j \in Job
  BY DEF Inv, Good, Types
<1>7. UNCHANGED <<place, files, du, active, queuedJobs, runner, lock, scripts, edits>>
  BY DEF StageFrame
<1>8. Fits(g)'
  <2>1. JobFits(g)'
    <3>1. g \in active
      BY <1>6 DEF Fits, ThreadFits
    <3> QED BY <1>2, <1>6, <1>7, <3>1 DEF Fits, JobFits
  <2>2. ThreadFits(g)'
    BY <1>1, <1>2, <1>6, <1>7 DEF Fits, ThreadFits, ParThread, Running
  <2>3. UnpackFits(g)'
    BY <1>1, <1>2, <1>6, <1>7 DEF Fits, UnpackFits, Unpacks, Running
  <2>4. ScriptsFit(g)'
    BY <1>1, <1>2, <1>6, <1>7 DEF Fits, ScriptsFit, ParThread, Running
  <2> QED BY <2>1, <2>2, <2>3, <2>4 DEF Fits
<1>9. /\ job'[g].in <=> job[g].in
      /\ g \in ParJobs' => g \in ParJobs
      /\ ParThread(g)' => ParThread(g)
      /\ Running(g)' => Running(g)
  BY <1>1, <1>2, <1>7 DEF ParJobs, ParThread, Running
<1>10. lock = "downloader" => LockedByResumeOnly'
  BY DEF StageFrame, LockedByResumeOnly, Inv
<1> QED BY <1>4, <1>5, <1>7, <1>8, <1>9, <1>10, LocalRest

\* The end of a thread that leaves the job k.
LEMMA EndsKeeps ==
    ASSUME Inv, ~broken, NEW g \in Groups, StageFrame(g), Running(g), NEW k \in Job, Ends(g, k),
           k.in <=> job[g].in, k.deleted <=> job[g].deleted,
           k.stage \in ParStages => job[g].stage \in ParStages,
           job[g].stage = "queued" /\ ~ParThread(g) => k.stage = "queued" /\ (k.askPar <=> job[g].askPar),
           job[g].in \/ UNCHANGED parPaused
    PROVE  Inv'
<1>1. CASE job[g].in
  <2> DEFINE j == [k EXCEPT !.working = FALSE]
  <2>1. thread' = Set(thread, g, "ended") /\ job' = Set(job, g, j) /\ UNCHANGED broken
    BY <1>1 DEF Ends
  <2>2. /\ j \in Job /\ (j.in <=> k.in) /\ ~j.working /\ (j.deleted <=> k.deleted) /\ j.stage = k.stage
        /\ (j.askPar <=> k.askPar)
    BY DEF Job
  <2> HIDE DEF j
  <2> QED BY <1>1, <2>1, <2>2, ThreadKeeps
<1>2. CASE ~job[g].in
  <2>1. thread' = Set(thread, g, "ended") /\ job' = job /\ broken' = TRUE
    BY <1>2 DEF Ends
  <2>2. /\ thread' \in [Groups -> {"none", "run", "verify", "request", "mark", "wait", "repair", "ended"}]
        /\ \A h \in Groups \ {g} : thread'[h] = thread[h]
    <3>1. thread \in [Groups -> {"none", "run", "verify", "request", "mark", "wait", "repair", "ended"}]
      BY DEF Inv, Types
    <3> QED BY <2>1, <3>1 DEF Set
  <2>3. Types'
    BY <2>1, <2>2, <1>2 DEF Inv, Types, StageFrame
  <2>4. thread[g] # "none"
    BY DEF Running
  <2>5. UNCHANGED <<job, place, queuedJobs, runner, scripts, lock, edits, du, files, parPaused>>
    BY <1>2, <2>1 DEF StageFrame
  <2> QED BY <2>1, <2>2, <2>3, <2>4, <2>5, Breaks
<1>3. job[g].in \in BOOLEAN
  BY DEF Inv, Types, Job
<1> QED BY <1>1, <1>2, <1>3

LEMMA StageResultIs ==
    ASSUME NEW g \in Groups, job[g] \in Job, NEW k \in StageResults(g)
    PROVE  /\ k \in Job /\ (k.in <=> job[g].in) /\ (k.deleted <=> job[g].deleted)
           /\ k.stage = job[g].stage \/ k.stage = "finished"
           /\ job[g].stage = "queued" => k = job[g]
<1> DEFINE j == job[g]
           Keeps(r) == /\ r \in Job /\ (r.in <=> j.in) /\ (r.deleted <=> j.deleted)
                       /\ r.stage = j.stage \/ r.stage = "finished"
<1>1. \A m \in {"none", "done"} : Keeps([j EXCEPT !.rarRename = m]) /\ Keeps([j EXCEPT !.cleanup = m])
                                  /\ Keeps([j EXCEPT !.rename = m])
  BY DEF Job
<1>2. \A m \in {"none", "success", "failure"} : Keeps([j EXCEPT !.move = m])
  BY DEF Job
<1>3. Keeps([j EXCEPT !.stage = "finished"])
  BY DEF Job, Stages
<1>4. \A r \in UnpackResult(g) : Keeps(r)
  <2>1. \A m \in {"none", "skipped", "success", "failure"} : Keeps([j EXCEPT !.unpack = m])
    BY DEF Job
  <2>2. \A m \in {"none", "done"} : Keeps([j EXCEPT !.unpack = "success", !.parRename = m])
    BY DEF Job
  <2>3. \A f \in BOOLEAN : Keeps([j EXCEPT !.askPar = TRUE, !.force = f, !.tried = TRUE])
    BY DEF Job
  <2>4. j.parRename \in {"none", "done"}
    BY DEF Job
  <2> DEFINE u == [j EXCEPT !.unpack = "success",
                            !.parRename = IF "parRename" \in Features THEN "none" ELSE @]
  <2>5. Keeps(u)
    <3>1. CASE "parRename" \in Features
      BY <2>2, <3>1
    <3>2. CASE "parRename" \notin Features
      <4> DEFINE m == j.parRename
      <4>1. u = [j EXCEPT !.unpack = "success", !.parRename = m]
        BY <3>2
      <4> HIDE DEF m, u
      <4>2. m \in {"none", "done"}
        BY <2>4 DEF m
      <4> QED BY <2>2, <4>1, <4>2
    <3> QED BY <3>1, <3>2
  <2>6. \A r \in UnpackResult(g) :
          \/ \E m \in {"none", "skipped", "success", "failure"} : r = [j EXCEPT !.unpack = m]
          \/ \E f \in BOOLEAN : r = [j EXCEPT !.askPar = TRUE, !.force = f, !.tried = TRUE]
          \/ r = u
    BY DEF UnpackResult, ParRequested
  <2> HIDE DEF Keeps, u
  <2> QED BY <2>1, <2>3, <2>5, <2>6
<1>5. Keeps(j)
  OBVIOUS
<1>6. Keeps(k)
  <2> HIDE DEF Keeps
  <2> QED BY <1>1, <1>2, <1>3, <1>4, <1>5
        DEF StageResults, RarRenameResult, CleanupResult, MoveResult, RenamerResult, ScriptResult
<1>7. job[g].stage = "queued" => k = job[g]
  BY DEF StageResults
<1> QED BY <1>6, <1>7

LEMMA StageEndsStep ==
    ASSUME Inv, NEW g \in Groups, StageEnds(g)
    PROVE  Inv'
<1>1. ~broken /\ Running(g) /\ job[g] \in Job /\ job[g].stage \in Stages /\ ~ParThread(g)
  BY DEF StageEnds, Running, ParThread, Inv, Types, Job
<1>2. PICK k \in StageResults(g) : Ends(g, k)
  BY DEF StageEnds
<1>3. StageFrame(g) /\ UNCHANGED parPaused
  BY DEF StageEnds, StageFrame, Inv, Types
<1>4. /\ k \in Job /\ (k.in <=> job[g].in) /\ (k.deleted <=> job[g].deleted)
      /\ k.stage = job[g].stage \/ k.stage = "finished"
      /\ job[g].stage = "queued" => k = job[g]
  BY <1>1, StageResultIs
<1>5. "finished" \notin ParStages
  BY DEF ParStages
<1> QED BY <1>1, <1>2, <1>3, <1>4, <1>5, EndsKeeps

LEMMA ParRenameEndsStep ==
    ASSUME Inv, NEW g \in Groups, ParRenameEnds(g)
    PROVE  Inv'
<1>1. ~broken /\ Running(g) /\ job[g] \in Job /\ job[g].stage = "parRename" /\ lock = "free" /\ ~ParThread(g)
  BY DEF ParRenameEnds, Running, ParThread, Inv, Types
<1>2. job[g].in
  BY <1>1 DEF Inv, Good, Fits, JobFits
<1>3. StageFrame(g)
  BY DEF ParRenameEnds, StageFrame, Inv, Types
<1>4. PICK r \in {"none", "done"}, a \in BOOLEAN :
         Ends(g, [job[g] EXCEPT !.parRename = r, !.askPar = a])
  <2>1. PICK damaged \in BOOLEAN, missed \in BOOLEAN :
           Ends(g, [job[g] EXCEPT !.parRename = IF damaged /\ "par" \in files[g] THEN "none" ELSE "done",
                                  !.askPar = @ \/ (missed /\ g \in HasPars /\ ParOpen(job[g]))])
    BY DEF ParRenameEnds
  <2> DEFINE r == IF damaged /\ "par" \in files[g] THEN "none" ELSE "done"
             a == job[g].askPar \/ (missed /\ g \in HasPars /\ ParOpen(job[g]))
  <2>2. r \in {"none", "done"} /\ a \in BOOLEAN
    OBVIOUS
  <2> QED BY <2>1, <2>2
<1> DEFINE k == [job[g] EXCEPT !.parRename = r, !.askPar = a]
<1>5. k \in Job /\ (k.in <=> job[g].in) /\ (k.deleted <=> job[g].deleted) /\ k.stage = job[g].stage
  BY <1>1, ZenonT(30) DEF Job
<1>6. Ends(g, k)
  BY <1>4
<1> HIDE DEF k
<1> QED BY <1>1, <1>2, <1>3, <1>5, <1>6, EndsKeeps

LEMMA ScriptAsksParStep ==
    ASSUME Inv, NEW g \in Groups, ScriptAsksPar(g)
    PROVE  Inv'
<1> DEFINE j == [job[g] EXCEPT !.askPar = TRUE, !.force = TRUE]
<1>1. /\ ~broken /\ Running(g) /\ job[g] \in Job /\ job[g].stage = "script" /\ job[g].in
      /\ ~ParThread(g) /\ thread[g] = "run"
  BY DEF ScriptAsksPar, Running, ParThread, Inv, Types
<1>2. StageFrame(g) /\ UNCHANGED broken
  BY DEF ScriptAsksPar, StageFrame, Inv, Types
<1>3. /\ j \in Job /\ (j.in <=> job[g].in) /\ (j.deleted <=> job[g].deleted) /\ j.stage = job[g].stage
      /\ (j.working <=> job[g].working)
  BY <1>1 DEF Job
<1>4. job' = Set(job, g, j) /\ thread' = Set(thread, g, "run")
  BY <1>1 DEF ScriptAsksPar, Set, Inv, Types
<1> HIDE DEF j
<1> QED BY <1>1, <1>2, <1>3, <1>4, ThreadKeeps
-----------------------------------------------------------------------------
(* The par-checker. *)

LEMMA ParCheckCompletedKeeps ==
    ASSUME Inv, ~broken, NEW g \in Groups, StageFrame(g), ParThread(g), UNCHANGED parPaused,
           NEW result \in {"repaired", "notNeeded", "possible", "failed"}, ParCheckCompleted(g, result)
    PROVE  Inv'
<1> DEFINE par == CASE result \in {"repaired", "notNeeded"} -> "success"
                    [] result = "possible" -> "possible"
                    [] result = "failed" -> "failure"
           repaired == result = "repaired"
<1>1. par \in {"success", "possible", "failure"} /\ repaired \in BOOLEAN
  OBVIOUS
<1>2. PICK p \in {"success", "possible", "failure"}, r \in BOOLEAN, full \in BOOLEAN :
         Ends(g, [job[g] EXCEPT !.par = p, !.repaired = r, !.full = full])
  <2>1. \E full \in BOOLEAN :
           Ends(g, [job[g] EXCEPT !.par = par, !.repaired = repaired, !.full = full])
    BY DEF ParCheckCompleted
  <2> HIDE DEF par, repaired
  <2> QED BY <1>1, <2>1
<1> HIDE DEF par, repaired
<1> DEFINE k == [job[g] EXCEPT !.par = p, !.repaired = r, !.full = full]
<1>3. job[g] \in Job /\ Running(g)
  BY DEF Inv, Types, ParThread, Running
<1>4. k \in Job /\ (k.in <=> job[g].in) /\ (k.deleted <=> job[g].deleted) /\ k.stage = job[g].stage
  <2>1. PICK j \in Job : j = job[g]
    BY <1>3
  <2>2. [j EXCEPT !.par = p, !.repaired = r, !.full = full] \in Job
    BY DEF Job
  <2>3. /\ [j EXCEPT !.par = p, !.repaired = r, !.full = full].in <=> j.in
        /\ [j EXCEPT !.par = p, !.repaired = r, !.full = full].deleted <=> j.deleted
        /\ [j EXCEPT !.par = p, !.repaired = r, !.full = full].stage = j.stage
    BY DEF Job
  <2> QED BY <2>1, <2>2, <2>3
<1>5. Ends(g, k)
  BY <1>2
<1> HIDE DEF k
<1> QED BY <1>3, <1>4, <1>5, EndsKeeps

\* The par-checker goes on without its job being told.
LEMMA ThreadMoves ==
    ASSUME Inv, ~broken, NEW g \in Groups, StageFrame(g), ParThread(g), UNCHANGED <<job, broken>>,
           NEW t \in {"verify", "request", "mark", "wait", "repair"}, thread' = Set(thread, g, t)
    PROVE  Inv'
<1>1. job[g] \in Job /\ Running(g) /\ job' = Set(job, g, job[g])
  BY DEF Inv, Types, ParThread, Running, Set
<1>2. job[g].in => job[g].stage \in ParStages
  BY DEF Inv, Good, Fits, ThreadFits
<1>3. job[g].in \in BOOLEAN
  BY <1>1 DEF Job
<1> QED BY <1>1, <1>2, ThreadKeeps

LEMMA ParCheckerInv ==
    ASSUME Inv, NEW g \in Groups,
           \/ ParVerify(g) \/ ParRepair(g) \/ RequestMorePars(g) \/ ClearChanged(g) \/ LoadMorePars(g)
    PROVE  Inv'
<1>1. /\ ~broken /\ ParThread(g) /\ Running(g) /\ job[g] \in Job
      /\ more \in [Groups -> [file : BOOLEAN, changed : BOOLEAN, requested : BOOLEAN]]
      /\ asked \subseteq Groups
      /\ thread \in [Groups -> {"none", "run", "verify", "request", "mark", "wait", "repair", "ended"}]
  BY DEF ParVerify, ParRepair, RequestMorePars, ClearChanged, LoadMorePars, ParThread, Running, Inv, Types
<1>2. CASE ParVerify(g)
  <2>1. StageFrame(g) /\ UNCHANGED parPaused
    BY <1>1, <1>2 DEF ParVerify, ParCheckerRest, StageFrame
  <2>2. ASSUME NEW result \in {"failed", "notNeeded"}, ParCheckCompleted(g, result)
        PROVE  Inv'
    BY <1>1, <2>1, <2>2, ParCheckCompletedKeeps
  <2>3. ASSUME thread' = Set(thread, g, "repair"), lock = "free", broken' = ~job[g].in,
               job' = IF job[g].in THEN Set(job, g, [job[g] EXCEPT !.stage = "repairing"]) ELSE job
        PROVE  Inv'
    <3>1. CASE job[g].in
      <4> DEFINE j == [job[g] EXCEPT !.stage = "repairing"]
      <4>1. j \in Job /\ (j.in <=> job[g].in) /\ (j.deleted <=> job[g].deleted) /\ j.stage = "repairing"
            /\ (j.working <=> job[g].working) /\ (j.askPar <=> job[g].askPar)
        BY <1>1 DEF Job, Stages, ParStages
      <4>2. job' = Set(job, g, j) /\ UNCHANGED broken
        BY <1>1, <2>3, <3>1 DEF Inv, Types
      <4>3. job[g].stage \in ParStages /\ "repairing" \in ParStages
        BY <1>1, <3>1 DEF Inv, Good, Fits, ThreadFits, ParStages
      <4> HIDE DEF j
      <4> QED BY <1>1, <2>1, <2>3, <3>1, <4>1, <4>2, <4>3, ThreadKeeps
    <3>2. CASE ~job[g].in
      <4>1. /\ thread' \in [Groups -> {"none", "run", "verify", "request", "mark", "wait", "repair", "ended"}]
            /\ \A h \in Groups \ {g} : thread'[h] = thread[h]
        BY <1>1, <2>3 DEF Set
      <4>2. job' = job /\ broken' = TRUE
        BY <2>3, <3>2
      <4>3. Types'
        BY <2>1, <4>1, <4>2 DEF Inv, Types, StageFrame
      <4>4. thread[g] # "none"
        BY <1>1 DEF Running
      <4>5. UNCHANGED <<job, place, queuedJobs, runner, scripts, lock, edits, du, files, parPaused>>
        BY <2>1, <4>2 DEF StageFrame
      <4> QED BY <4>1, <4>2, <4>3, <4>4, <4>5, Breaks
    <3>3. job[g].in \in BOOLEAN
      BY <1>1 DEF Job
    <3> QED BY <3>1, <3>2, <3>3
  <2>4. ASSUME thread' = Set(thread, g, "request"), UNCHANGED <<job, broken>>
        PROVE  Inv'
    BY <1>1, <2>1, <2>4, ThreadMoves
  <2> QED BY <1>2, <2>2, <2>3, <2>4 DEF ParVerify
<1>3. CASE ParRepair(g)
  <2>1. StageFrame(g) /\ UNCHANGED parPaused
    BY <1>1, <1>3 DEF ParRepair, ParCheckerRest, StageFrame
  <2>2. PICK result \in {"repaired", "failed", "possible"} : ParCheckCompleted(g, result)
    BY <1>3 DEF ParRepair
  <2> QED BY <1>1, <2>1, <2>2, ParCheckCompletedKeeps
<1>4. CASE RequestMorePars(g)
  <2> DEFINE m == [more[g] EXCEPT !.requested = "par" \in files[g]]
  <2>0. Set(more, g, m) \in [Groups -> [file : BOOLEAN, changed : BOOLEAN, requested : BOOLEAN]]
    <3>1. \A b \in BOOLEAN : [more[g] EXCEPT !.requested = b]
                               \in [file : BOOLEAN, changed : BOOLEAN, requested : BOOLEAN]
      BY <1>1
    <3>2. ("par" \in files[g]) \in BOOLEAN
      OBVIOUS
    <3>3. m \in [file : BOOLEAN, changed : BOOLEAN, requested : BOOLEAN]
      BY <3>1, <3>2
    <3> HIDE DEF m
    <3> QED BY <1>1, <3>3 DEF Set
  <2> HIDE DEF m
  <2>1. StageFrame(g)
    BY <1>1, <1>4, <2>0 DEF RequestMorePars, StageFrame, m
  <2>2. CASE stopped[g]
    <3>1. ParCheckCompleted(g, "failed") /\ UNCHANGED parPaused
      BY <1>4, <2>2 DEF RequestMorePars
    <3> QED BY <1>1, <2>1, <3>1, ParCheckCompletedKeeps
  <2>3. CASE ~stopped[g]
    <3>1. UNCHANGED <<job, broken>> /\ \E t \in {"wait", "mark"} : thread' = Set(thread, g, t)
      BY <1>4, <2>3 DEF RequestMorePars
    <3> QED BY <1>1, <2>1, <3>1, ThreadMoves
  <2> QED BY <2>2, <2>3
<1>5. CASE ClearChanged(g)
  <2> DEFINE m == [more[g] EXCEPT !.changed = FALSE]
  <2>0. Set(more, g, m) \in [Groups -> [file : BOOLEAN, changed : BOOLEAN, requested : BOOLEAN]]
    <3>1. m \in [file : BOOLEAN, changed : BOOLEAN, requested : BOOLEAN]
      BY <1>1
    <3> HIDE DEF m
    <3> QED BY <1>1, <3>1 DEF Set
  <2> HIDE DEF m
  <2>1. StageFrame(g) /\ UNCHANGED parPaused
    BY <1>1, <1>5, <2>0 DEF ClearChanged, ParCheckerRest, StageFrame, m
  <2>2. CASE thread' = Set(thread, g, "wait") /\ UNCHANGED <<job, broken>>
    BY <1>1, <2>1, <2>2, ThreadMoves
  <2>3. CASE ParCheckCompleted(g, "failed")
    BY <1>1, <2>1, <2>3, ParCheckCompletedKeeps
  <2> QED BY <1>5, <2>2, <2>3 DEF ClearChanged
<1>6. CASE LoadMorePars(g)
  <2> DEFINE m == [more[g] EXCEPT !.file = FALSE]
  <2>0. Set(more, g, m) \in [Groups -> [file : BOOLEAN, changed : BOOLEAN, requested : BOOLEAN]]
    <3>1. m \in [file : BOOLEAN, changed : BOOLEAN, requested : BOOLEAN]
      BY <1>1
    <3> HIDE DEF m
    <3> QED BY <1>1, <3>1 DEF Set
  <2> HIDE DEF m
  <2>1. StageFrame(g) /\ UNCHANGED parPaused
    BY <1>1, <1>6, <2>0 DEF LoadMorePars, ParCheckerRest, StageFrame, m
  <2>2. UNCHANGED <<job, broken>> /\ \E t \in {"verify", "request"} : thread' = Set(thread, g, t)
    BY <1>6 DEF LoadMorePars
  <2> QED BY <1>1, <2>1, <2>2, ThreadMoves
<1> QED BY <1>2, <1>3, <1>4, <1>5, <1>6

LEMMA StageInv ==
    ASSUME Inv, NEW g \in Groups, StageStep(g)
    PROVE  Inv'
BY ParRenameEndsStep, StageEndsStep, ScriptAsksParStep, ParCheckerInv DEF StageStep
-----------------------------------------------------------------------------
(* Steps that touch no group, and a resumed par-file. *)

LEMMA Quiet ==
    ASSUME Inv, ~broken, Types', Books', ScriptsWait(scripts'), LockedByResumeOnly',
           \A h \in Groups : Untouched(h), UNCHANGED <<runner, active>>,
           edits' = 0 => edits = 0, lock' = "runner" => lock = "runner"
    PROVE  Inv'
<1>1. \A h \in Groups : Fits(h)'
  BY UntouchedFits DEF Inv, Good
<1>2. Announcements'
  <2>1. ASSUME NEW h \in Announced(scripts)' PROVE (thread[h] = "none" \/ job[h].stage = "queued")'
    <3>1. h \in Groups
      BY <2>1 DEF Announced
    <3> QED BY <1>1, <2>1, <3>1 DEF Fits, ScriptsFit
  <2> QED BY <2>1 DEF Announcements
<1>3. Within'
  <2>1. ParThreads' \subseteq ParThreads /\ Threads' \subseteq Threads
    BY DEF ParThreads, Threads, Untouched, ParThread, Running
  <2>2. ParJobs' \subseteq ParJobs
    BY DEF ParJobs, Untouched, Inv, Types
  <2> QED BY <2>1, <2>2, StillWithin DEF Inv, Good
<1>4. Turn'
  BY DEF Turn, Untouched, Inv, Good, Types
<1> QED BY <1>1, <1>2, <1>3, <1>4 DEF Inv, Good

LEMMA QueueScriptEndsStep ==
    ASSUME Inv, QueueScriptEnds
    PROVE  Inv'
<1> DEFINE ignored == {item \in ToSet(scripts.queue) :
                          \/ job[item.nzb].del # "none" /\ item.event \notin {"NzbDeleted", "NzbMarked"}
                          \/ job[item.nzb].del = "bad" /\ item.event # "NzbMarked"}
<1>1. /\ scripts' = CheckQueue(scripts, ignored) /\ ~broken /\ lock = "free"
      /\ UNCHANGED <<place, files, parPaused, health, job, thread, stopped, more, du, active,
                     queuedJobs, runner, lock, pausePost, broken, edits, asked>>
  BY DEF QueueScriptEnds
<1> HIDE DEF ignored
<1>2. ScriptsWait(scripts') /\ Announced(scripts') \subseteq Announced(scripts)
  BY <1>1, AnnouncedCheckQueue DEF Inv, Announcements
<1>3. Types' /\ Books' /\ LockedByResumeOnly'
  BY <1>1 DEF Inv, Types, Books, In, LockedByResumeOnly
<1>4. \A h \in Groups : Untouched(h)
  BY <1>1, <1>2 DEF Untouched
<1> QED BY <1>1, <1>2, <1>3, <1>4, Quiet

LEMMA PausePostStep ==
    ASSUME Inv, PausePost
    PROVE  Inv'
<1>1. /\ ~broken /\ lock = "free" /\ edits' = edits + 1 /\ edits < MaxEdits /\ pausePost' \in BOOLEAN
      /\ UNCHANGED <<place, files, parPaused, health, job, thread, stopped, more, du, active, queuedJobs,
                     runner, lock, scripts, broken, asked>>
  BY DEF PausePost, Edit
<1>2. edits' \in 0..MaxEdits /\ edits' # 0
  BY <1>1, PostOptions DEF Inv, Types
<1>3. Types' /\ Books' /\ LockedByResumeOnly' /\ ScriptsWait(scripts')
  BY <1>1, <1>2 DEF Inv, Types, Books, In, LockedByResumeOnly, Announcements
<1>4. \A h \in Groups : Untouched(h)
  BY <1>1 DEF Untouched
<1> QED BY <1>1, <1>2, <1>3, <1>4, Quiet

\* The downloader is blocked only after the par-file of a complete download was resumed.
LEMMA FileCompletedBlocksStep ==
    ASSUME Inv, NEW g \in Groups, NEW f \in Volumes \union {"par"}, FileCompletedBlocks(g, f)
    PROVE  Inv'
<1>1. /\ ~broken /\ lock = "free" /\ lock' = "downloader"
      /\ f \in files[g] /\ (f = "par" => ~parPaused[g]) /\ du[g].pc = "locked" /\ du[g].status = "running"
      /\ UNCHANGED <<place, files, parPaused, health, job, thread, stopped, more, du, active, queuedJobs,
                     runner, scripts, pausePost, broken, edits, asked>>
  BY DEF FileCompletedBlocks
<1>2. /\ du[g].completed /\ files[g] \subseteq {"par"} /\ (edits = 0 /\ "par" \in files[g] => parPaused[g])
  BY <1>1 DEF Inv, Good, Fits, UnpackFits, Unpacks
<1>3. f = "par" /\ edits # 0 /\ edits \in Nat
  BY <1>1, <1>2, PostOptions DEF Inv, Types
<1>4. LockedByResumeOnly'
  BY <1>1, <1>2, <1>3 DEF LockedByResumeOnly
<1>5. Types' /\ Books' /\ ScriptsWait(scripts')
  BY <1>1 DEF Inv, Types, Books, In, Announcements
<1>6. \A h \in Groups : Untouched(h)
  BY <1>1 DEF Untouched
<1> QED BY <1>1, <1>4, <1>5, <1>6, Quiet

LEMMA ResumeParsStep ==
    ASSUME Inv, NEW g \in Groups, ResumePars(g)
    PROVE  Inv'
<1>1. /\ ~broken /\ lock = "free" /\ edits' = edits + 1 /\ edits < MaxEdits
      /\ parPaused' = Set(parPaused, g, FALSE)
      /\ UNCHANGED <<place, files, health, job, thread, stopped, more, du, active, queuedJobs, runner, lock,
                     scripts, pausePost, broken, asked>>
  BY DEF ResumePars, Edit
<1>2. edits' \in 0..MaxEdits /\ edits' # 0
  BY <1>1, PostOptions DEF Inv, Types
<1>3. parPaused' \in [Groups -> BOOLEAN] /\ \A h \in Groups \ {g} : parPaused'[h] = parPaused[h]
  BY <1>1 DEF Inv, Types, Set
<1>4. Types'
  BY <1>1, <1>2, <1>3 DEF Inv, Types
<1>5. \A h \in Groups \ {g} : Untouched(h)
  BY <1>1, <1>3 DEF Untouched
<1>6. Fits(g)'
  <2>1. Fits(g)
    BY <1>1 DEF Inv, Good
  <2>2. JobFits(g)' /\ ThreadFits(g)'
    BY <1>1, <2>1 DEF Fits, JobFits, ThreadFits, ParOpen, ParThread, Running
  <2>3. UnpackFits(g)' /\ ScriptsFit(g)'
    BY <1>1, <1>2, <2>1 DEF Fits, UnpackFits, ScriptsFit, Unpacks, ParThread, Running
  <2> QED BY <2>2, <2>3 DEF Fits
<1>7. /\ g \in ParJobs' => g \in ParJobs
      /\ ParThread(g)' => ParThread(g)
      /\ Running(g)' => Running(g)
  BY <1>1 DEF ParJobs, ParThread, Running
<1> QED BY <1>1, <1>2, <1>4, <1>5, <1>6, <1>7, LocalRest
-----------------------------------------------------------------------------
(* Deleted jobs. *)

LEMMA UnpackDeleted ==
    ASSUME NEW d \in DirectUnpack
    PROVE  /\ UnpackNzbDeleted(d) \in DirectUnpack /\ ~UnpackNzbDeleted(d).attached
           /\ UnpackNzbDeleted(d).status = IF d.attached THEN "failure" ELSE d.status
           /\ UnpackNzbDeleted(d).pc = d.pc /\ (UnpackNzbDeleted(d).completed <=> d.completed)
           /\ (UnpackNzbDeleted(d).waiting <=> d.waiting)
<1> DEFINE e == [d EXCEPT !.attached = FALSE, !.status = "failure"]
           k == [e EXCEPT !.stop = TRUE]
<1>1. e \in DirectUnpack /\ ~e.attached /\ e.status = "failure" /\ e.pc = d.pc /\ (e.completed <=> d.completed)
      /\ (e.waiting <=> d.waiting)
  BY DEF DirectUnpack
<1> HIDE DEF e
<1>2. k \in DirectUnpack /\ ~k.attached /\ k.status = "failure" /\ k.pc = d.pc /\ (k.completed <=> d.completed)
      /\ (k.waiting <=> d.waiting)
  BY <1>1 DEF DirectUnpack
<1>3. UnpackNzbDeleted(d) = IF d.attached THEN k ELSE d
  BY DEF UnpackNzbDeleted, UnpackStop, e
<1> HIDE DEF k
<1>4. d.attached \in BOOLEAN
  BY DEF DirectUnpack
<1> QED BY <1>2, <1>3, <1>4

LEMMA StopPostJobStep ==
    ASSUME Inv, NEW g \in Groups, StopPostJob(g)
    PROVE  Inv'
<1>1. /\ ~broken /\ lock = "free" /\ edits' = edits + 1 /\ edits < MaxEdits
      /\ job[g].in /\ job[g].working
      /\ UNCHANGED <<place, files, parPaused, health, thread, more, active, queuedJobs, runner, lock,
                     scripts, pausePost, broken, asked>>
      /\ job[g] \in Job /\ du[g] \in DirectUnpack /\ Fits(g)
      /\ job \in [Groups -> Job] /\ du \in [Groups -> DirectUnpack]
  BY DEF StopPostJob, Edit, Inv, Types, Good
<1>2. edits' \in 0..MaxEdits /\ edits' # 0
  BY <1>1, PostOptions DEF Inv, Types
<1>3. PICK j \in Job, d \in DirectUnpack :
        /\ job' = Set(job, g, j) /\ du' = Set(du, g, d)
        /\ j.in /\ j.stage = job[g].stage /\ j.par = job[g].par
        /\ j.deleted /\ (j.askPar <=> job[g].askPar)
        /\ thread[g] # "none" => j.working /\ d = du[g]
        /\ thread[g] = "none" => /\ ~d.attached /\ d.pc = du[g].pc /\ (d.completed <=> du[g].completed)
                                 /\ d.status = IF du[g].attached THEN "failure" ELSE du[g].status
        /\ stopped' \in [Groups -> BOOLEAN]
  <2>1. CASE thread[g] # "none"
    <3> DEFINE j == [job[g] EXCEPT !.deleted = TRUE]
    <3>1. /\ j \in Job /\ (j.in <=> job[g].in) /\ j.stage = job[g].stage /\ j.par = job[g].par /\ j.deleted
          /\ (j.askPar <=> job[g].askPar) /\ (j.working <=> job[g].working)
      BY <1>1 DEF Job
    <3>2. job' = Set(job, g, j) /\ du' = du /\ stopped' = Set(stopped, g, TRUE)
      BY <2>1 DEF StopPostJob
    <3>3. du = Set(du, g, du[g]) /\ stopped' \in [Groups -> BOOLEAN]
      BY <1>1, <3>2 DEF Set, Inv, Types
    <3> HIDE DEF j
    <3> QED BY <1>1, <2>1, <3>1, <3>2, <3>3
  <2>2. CASE thread[g] = "none"
    <3> DEFINE w == job[g].working /\ ~du[g].attached
               j == [job[g] EXCEPT !.deleted = TRUE, !.working = w]
               d == UnpackNzbDeleted(du[g])
    <3>0. w \in BOOLEAN
      OBVIOUS
    <3>1. du' = Set(du, g, d) /\ job' = Set(job, g, j) /\ stopped' = stopped
      BY <2>2 DEF StopPostJob
    <3> HIDE DEF w
    <3>2. /\ j \in Job /\ (j.in <=> job[g].in) /\ j.stage = job[g].stage /\ j.par = job[g].par /\ j.deleted
          /\ (j.askPar <=> job[g].askPar)
      BY <1>1, <3>0 DEF Job
    <3>3. /\ d \in DirectUnpack /\ ~d.attached /\ d.pc = du[g].pc /\ (d.completed <=> du[g].completed)
          /\ d.status = IF du[g].attached THEN "failure" ELSE du[g].status
      BY <1>1, UnpackDeleted
    <3>4. stopped' \in [Groups -> BOOLEAN]
      BY <3>1 DEF Inv, Types
    <3> HIDE DEF j, d
    <3> QED BY <1>1, <2>2, <3>1, <3>2, <3>3, <3>4
  <2> QED BY <2>1, <2>2
<1>4. /\ job' \in [Groups -> Job] /\ job'[g] = j /\ \A h \in Groups \ {g} : job'[h] = job[h]
  BY <1>1, <1>3, SetJob
<1>5. /\ du' \in [Groups -> DirectUnpack] /\ du'[g] = d /\ \A h \in Groups \ {g} : du'[h] = du[h]
  BY <1>1, <1>3, SetUnpack
<1>6. Types'
  BY <1>1, <1>2, <1>3, <1>4, <1>5 DEF Inv, Types
<1>7. \A h \in Groups \ {g} : Untouched(h)
  BY <1>1, <1>4, <1>5 DEF Untouched
<1>8. Fits(g)'
  <2>1. JobFits(g)'
    BY <1>1, <1>3, <1>4 DEF Fits, JobFits, ParOpen
  <2>2. ThreadFits(g)'
    BY <1>1, <1>3, <1>4 DEF Fits, ThreadFits, ParThread, Running
  <2>3. UnpackFits(g)'
    <3>1. g \in active /\ files[g] \subseteq {"par"}
      BY <1>1 DEF Fits, JobFits
    <3> QED BY <1>1, <1>2, <1>3, <1>4, <1>5, <3>1 DEF Fits, UnpackFits, Unpacks, Running
  <2>4. ScriptsFit(g)'
    BY <1>1, <1>3, <1>4 DEF Fits, ScriptsFit, ParThread
  <2> QED BY <2>1, <2>2, <2>3, <2>4 DEF Fits
<1>9. /\ job'[g].in <=> job[g].in
      /\ g \in ParJobs' => g \in ParJobs
      /\ ParThread(g)' => ParThread(g)
      /\ Running(g)' => Running(g)
  BY <1>1, <1>3, <1>4 DEF ParJobs, ParThread, Running
<1> QED BY <1>1, <1>2, <1>6, <1>7, <1>8, <1>9, LocalRest

LEMMA DeletePostJobStep ==
    ASSUME Inv, NEW g \in Groups, DeletePostJob(g)
    PROVE  Inv'
<1>1. /\ ~broken /\ lock = "free" /\ edits' = edits + 1 /\ edits < MaxEdits /\ runner = "idle"
      /\ job[g].in /\ ~job[g].working /\ place[g] = "queue"
      /\ job' = Set(job, g, LeavePostProcess(job[g])) /\ queuedJobs' = queuedJobs - 1
      /\ UNCHANGED <<files, parPaused, health, stopped, more, du, active, runner, lock, scripts,
                     pausePost, broken, asked>>
      /\ job[g] \in Job /\ Fits(g) /\ job \in [Groups -> Job]
  BY DEF DeletePostJob, Edit, Inv, Types, Good
<1>2. edits' \in 0..MaxEdits /\ edits' # 0
  BY <1>1, PostOptions DEF Inv, Types
<1>3. PICK j \in Job : /\ j = LeavePostProcess(job[g]) /\ ~j.in /\ j.stage = "queued" /\ ~j.working
                       /\ ~j.deleted /\ ~j.askPar
  BY <1>1, JobLeft
<1>4. /\ job' \in [Groups -> Job] /\ job'[g] = j /\ \A h \in Groups \ {g} : job'[h] = job[h]
  BY <1>1, <1>3, SetJob
<1>5. /\ thread' \in [Groups -> {"none", "run", "verify", "request", "mark", "wait", "repair", "ended"}]
      /\ thread'[g] = IF thread[g] = "ended" THEN "none" ELSE thread[g]
      /\ \A h \in Groups \ {g} : thread'[h] = thread[h]
  BY DEF DeletePostJob, Set, Inv, Types
<1>6. /\ place' \in [Groups -> {"queue", "history"}]
      /\ place'[g] = "queue" => files[g] # {}
      /\ \A h \in Groups \ {g} : place'[h] = place[h]
  BY DEF DeletePostJob, Set, Inv, Types, IsDownloadCompleted
<1>7. Types'
  BY <1>1, <1>2, <1>4, <1>5, <1>6 DEF Inv, Types
<1>8. \A h \in Groups \ {g} : Untouched(h)
  BY <1>1, <1>4, <1>5, <1>6 DEF Untouched
<1>9. Fits(g)'
  <2>1. JobFits(g)'
    BY <1>1, <1>3, <1>4, <1>6 DEF Fits, JobFits
  <2>2. ThreadFits(g)'
    <3>1. files[g] \subseteq {"par"}
      BY <1>1 DEF Fits, JobFits
    <3>2. ParThread(g) => place'[g] # "queue"
      BY <1>1, <1>6 DEF Fits, ThreadFits
    <3> QED BY <1>1, <1>3, <1>4, <1>5, <3>1, <3>2 DEF Fits, ThreadFits, ParThread, Running
  <2>3. UnpackFits(g)'
    BY <1>1, <1>2, <1>3, <1>4, <1>5 DEF Fits, UnpackFits, Unpacks, Running
  <2>4. ScriptsFit(g)'
    BY <1>1, <1>3, <1>4, <1>5 DEF Fits, ScriptsFit, ParThread
  <2> QED BY <2>1, <2>2, <2>3, <2>4 DEF Fits
<1>10. /\ g \in ParJobs' => g \in ParJobs
       /\ ParThread(g)' => ParThread(g)
       /\ Running(g)' => Running(g)
  BY <1>3, <1>4, <1>5 DEF ParJobs, ParStages, ParThread, Running
<1>11. Books'
  BY <1>1, <1>3, <1>4, <1>7, BooksLocal DEF Inv
<1>12. ScriptsWait(scripts') /\ LockedByResumeOnly'
  BY <1>1 DEF Inv, Announcements, LockedByResumeOnly
<1>13. lock' # "runner"
  BY <1>1
<1> QED BY <1>1, <1>2, <1>7, <1>8, <1>9, <1>10, <1>11, <1>12, <1>13, Local
-----------------------------------------------------------------------------
(* A restart of the program. *)

LEMMA RestartStep ==
    ASSUME Inv, Restart
    PROVE  Inv'
<1>1. /\ ~broken /\ lock = "free" /\ runner = "idle" /\ edits' = edits + 1 /\ edits < MaxEdits
      /\ thread' = [g \in Groups |-> "none"] /\ stopped' = [g \in Groups |-> FALSE]
      /\ more' = [g \in Groups |-> NoMore] /\ du' = [g \in Groups |-> NoUnpack]
      /\ active' = {} /\ queuedJobs' = 0 /\ runner' = "loading"
      /\ scripts' = Idle /\ pausePost' = FALSE /\ asked' = {}
      /\ UNCHANGED <<place, files, parPaused, health, lock, broken>>
  BY DEF Restart, Edit
<1>2. edits' \in 0..MaxEdits /\ edits' # 0
  BY <1>1, PostOptions DEF Inv, Types
<1>3. /\ DOMAIN job' = Groups /\ job' = [g \in Groups |-> job'[g]]
      /\ \A g \in Groups : /\ job'[g] \in Job /\ (job'[g].in <=> job[g].in)
                           /\ job'[g].stage \in {"queued", "script", "finished"}
                           /\ ~job'[g].in => job'[g] = job[g]
                           /\ ~job'[g].working /\ ~job'[g].deleted /\ ~job'[g].askPar
  <2> DEFINE Loaded(g) == [EnterPostProcess(job[g]) EXCEPT !.stage = LoadedStage(job[g].stage),
                                  !.force = job[g].force, !.forceFull = job[g].forceFull]
  <2>1. job' = [g \in Groups |-> IF job[g].in THEN Loaded(g) ELSE job[g]]
    BY DEF Restart
  <2>2. ASSUME NEW g \in Groups
        PROVE  /\ job[g] \in Job /\ job[g].in \in BOOLEAN
               /\ ~job[g].in => /\ job[g].stage = "queued" /\ ~job[g].working /\ ~job[g].deleted
                                /\ ~job[g].askPar
    BY <1>1 DEF Inv, Types, Good, Fits, JobFits, Job
  <2>3. ASSUME NEW g \in Groups
        PROVE  /\ Loaded(g) \in Job /\ Loaded(g).in /\ Loaded(g).stage \in {"queued", "script", "finished"}
               /\ ~Loaded(g).working /\ ~Loaded(g).deleted /\ ~Loaded(g).askPar
    <3>1. PICK j \in Job : j = EnterPostProcess(job[g]) /\ j.in /\ ~j.working /\ ~j.deleted /\ ~j.askPar
      BY <2>2, JobEntered
    <3>2. PICK stage \in {"queued", "script", "finished"}, force \in BOOLEAN, full \in BOOLEAN :
             stage = LoadedStage(job[g].stage) /\ force = job[g].force /\ full = job[g].forceFull
      <4>1. LoadedStage(job[g].stage) \in {"queued", "script", "finished"}
        BY DEF LoadedStage
      <4>2. job[g].force \in BOOLEAN /\ job[g].forceFull \in BOOLEAN
        BY <2>2, JobFields
      <4> QED BY <4>1, <4>2
    <3> DEFINE k == [j EXCEPT !.stage = stage, !.force = force, !.forceFull = full]
    <3>3. k \in Job
      BY DEF Job, Stages
    <3>4. k.in /\ k.stage = stage /\ ~k.working /\ ~k.deleted /\ ~k.askPar
      BY <3>1 DEF Job
    <3>5. Loaded(g) = k
      BY <3>1, <3>2
    <3> HIDE DEF Loaded, k
    <3> QED BY <3>3, <3>4, <3>5
  <2> HIDE DEF Loaded
  <2> QED BY <2>1, <2>2, <2>3
<1>4. /\ NoMore \in [file : BOOLEAN, changed : BOOLEAN, requested : BOOLEAN]
      /\ NoUnpack \in DirectUnpack /\ NoUnpack.status = "none" /\ ~NoUnpack.attached /\ NoUnpack.pc = "off"
  BY DEF NoMore, NoUnpack, DirectUnpack
<1>5. Types'
  <2>1. job' \in [Groups -> Job]
    BY <1>3
  <2>2. du' \in [Groups -> DirectUnpack]
    BY <1>1, <1>4
  <2>3. more' \in [Groups -> [file : BOOLEAN, changed : BOOLEAN, requested : BOOLEAN]]
    BY <1>1, <1>4
  <2>4. /\ thread' \in [Groups -> {"none", "run", "verify", "request", "mark", "wait", "repair", "ended"}]
        /\ stopped' \in [Groups -> BOOLEAN]
    BY <1>1
  <2> QED BY <1>1, <1>2, <2>1, <2>2, <2>3, <2>4 DEF Inv, Types
<1>6. ASSUME NEW g \in Groups PROVE Fits(g)'
  <2>1. Fits(g) /\ du'[g] = NoUnpack /\ thread'[g] = "none"
    BY <1>1 DEF Inv, Good
  <2>2. JobFits(g)'
    BY <1>1, <1>3, <2>1 DEF Fits, JobFits
  <2>3. ThreadFits(g)'
    BY <2>1 DEF ThreadFits, ParThread, Running
  <2>4. UnpackFits(g)'
    BY <1>4, <2>1 DEF UnpackFits, Unpacks
  <2>5. ScriptsFit(g)'
    BY <2>1 DEF ScriptsFit
  <2> QED BY <2>2, <2>3, <2>4, <2>5 DEF Fits
<1>7. Within'
  <2>1. ParJobs' \subseteq ParJobs /\ ParThreads' \subseteq ParThreads /\ Threads' \subseteq Threads
    BY <1>1 DEF ParJobs, ParThreads, Threads, ParThread, Running
  <2> QED BY <1>1, <1>5, <2>1, StillWithin DEF Inv, Good
<1>8. Books'
  <2>1. Cardinality(In') \in Nat
    BY PostOptions, FS_Subset, FS_CardinalityType DEF In
  <2> QED BY <1>1, <2>1 DEF Books
<1>9. Announcements' /\ LockedByResumeOnly' /\ Turn'
  BY <1>1, IdleScripts DEF Announcements, LockedByResumeOnly, Turn
<1> QED BY <1>5, <1>6, <1>7, <1>8, <1>9 DEF Inv, Good

LEMMA SanitisePostQueueStep ==
    ASSUME Inv, SanitisePostQueue
    PROVE  Inv'
<1>1. /\ ~broken /\ lock = "free" /\ runner = "loading" /\ runner' = "idle"
      /\ queuedJobs' = queuedJobs + JobsLoaded
      /\ UNCHANGED <<place, files, parPaused, health, thread, stopped, more, du, active, lock, scripts,
                     pausePost, broken, edits, asked>>
  BY DEF SanitisePostQueue
<1>2. /\ DOMAIN job' = Groups /\ job' = [g \in Groups |-> job'[g]]
      /\ \A g \in Groups : /\ job'[g] \in Job /\ (job'[g].in <=> job[g].in) /\ job'[g].par = job[g].par
                           /\ job'[g].stage \in {"queued", "finished"} \/ job'[g] = job[g]
                           /\ ~job'[g].in => job'[g] = job[g]
                           /\ job'[g].working => job[g].working
                           /\ (job'[g].deleted <=> job[g].deleted) /\ (job'[g].askPar <=> job[g].askPar)
  <2> DEFINE Loaded(g) == [job[g] EXCEPT !.stage = IF @ = "script" THEN "finished" ELSE "queued",
                                         !.working = FALSE]
  <2>1. job' = [g \in Groups |-> IF place[g] = "queue" /\ job[g].in THEN Loaded(g) ELSE job[g]]
    BY DEF SanitisePostQueue
  <2>2. \A g \in Groups : job[g] \in Job /\ job[g].in \in BOOLEAN
    BY DEF Inv, Types, Job
  <2>3. ASSUME NEW g \in Groups, job[g].in
        PROVE  /\ Loaded(g) \in Job /\ Loaded(g).in /\ Loaded(g).stage \in {"queued", "finished"}
               /\ ~Loaded(g).working /\ Loaded(g).par = job[g].par
               /\ (Loaded(g).deleted <=> job[g].deleted) /\ (Loaded(g).askPar <=> job[g].askPar)
    <3>1. PICK stage \in {"queued", "finished"} : stage = IF job[g].stage = "script" THEN "finished" ELSE "queued"
      OBVIOUS
    <3> DEFINE k == [job[g] EXCEPT !.stage = stage, !.working = FALSE]
    <3>2. job[g] \in Job
      BY <2>2
    <3>3. k \in Job
      BY <3>2 DEF Job, Stages
    <3>4. k.in /\ k.stage = stage /\ ~k.working /\ k.par = job[g].par
          /\ (k.deleted <=> job[g].deleted) /\ (k.askPar <=> job[g].askPar)
      BY <2>3, <3>2 DEF Job
    <3>5. Loaded(g) = k
      BY <3>1
    <3> HIDE DEF Loaded, k
    <3> QED BY <3>3, <3>4, <3>5
  <2> HIDE DEF Loaded
  <2> QED BY <2>1, <2>2, <2>3
<1>3. Types'
  <2>1. job' \in [Groups -> Job]
    BY <1>2
  <2> QED BY <1>1, <2>1 DEF Inv, Types
<1>4. ASSUME NEW g \in Groups PROVE Fits(g)'
  <2>1. Fits(g) /\ thread[g] = "none" /\ thread'[g] = "none"
    BY <1>1 DEF Inv, Good, Fits, ThreadFits
  <2>2. JobFits(g)'
    BY <1>1, <1>2, <2>1 DEF Fits, JobFits, ParOpen
  <2>3. ThreadFits(g)'
    BY <2>1 DEF ThreadFits, ParThread, Running
  <2>4. UnpackFits(g)'
    BY <1>1, <1>2, <2>1 DEF Fits, UnpackFits, Unpacks, Running
  <2>5. ScriptsFit(g)'
    BY <2>1 DEF ScriptsFit
  <2> QED BY <2>2, <2>3, <2>4, <2>5 DEF Fits
<1>5. Within'
  <2>1. ParJobs' \subseteq ParJobs
    BY <1>1, <1>2 DEF ParJobs, ParStages, Inv, Types
  <2>2. ParThreads' \subseteq ParThreads /\ Threads' \subseteq Threads
    BY <1>1 DEF ParThreads, Threads, ParThread, Running
  <2> QED BY <1>1, <1>3, <2>1, <2>2, StillWithin DEF Inv, Good
<1>6. Books'
  <2>1. In' = In
    BY <1>2 DEF In
  <2>2. JobsLoaded = Cardinality(In)
    <3>1. {g \in Groups : place[g] = "queue" /\ job[g].in} = In
      BY <1>1 DEF In, Inv, Good, Fits, JobFits
    <3> QED BY <3>1 DEF JobsLoaded
  <2>3. Cardinality(In) \in Nat /\ Cardinality(Groups) \in Nat /\ Cardinality(In) <= Cardinality(Groups)
    BY PostOptions, Shrinks DEF In
  <2> HIDE DEF In
  <2> QED BY <1>1, <2>1, <2>2, <2>3 DEF Inv, Books
<1>7. Announcements'
  <2>1. ASSUME NEW g \in Announced(scripts) PROVE thread'[g] = "none"
    <3>1. g \in Groups
      BY DEF Announced
    <3> QED BY <1>1, <3>1 DEF Inv, Good, Fits, ThreadFits
  <2> QED BY <1>1, <2>1 DEF Inv, Announcements
<1>8. LockedByResumeOnly' /\ Turn'
  BY <1>1 DEF LockedByResumeOnly, Turn
<1> QED BY <1>3, <1>4, <1>5, <1>6, <1>7, <1>8 DEF Inv, Good
-----------------------------------------------------------------------------
(* Downloads. *)

\* What the end or the deletion of files leaves alone; left is what the group still has.
DownloadFrame(g, left) ==
  /\ lock = "free" /\ ~broken /\ place[g] = "queue" /\ left \subseteq files[g]
  /\ files' = Set(files, g, left)
  /\ UNCHANGED <<parPaused, health, thread, stopped, runner, lock, pausePost, broken>>
  /\ more' \in [Groups -> [file : BOOLEAN, changed : BOOLEAN, requested : BOOLEAN]]
  /\ asked' \subseteq Groups
  /\ edits' \in 0..MaxEdits /\ (edits' = 0 => edits = 0)

\* What becomes of the direct unpacker: it starts while no stage of the group can run, or it is
\* deleted with the last files.
Told(g, d, left) ==
  /\ d \in DirectUnpack
  /\ d.attached => d.status = "running"
  /\ d.status = "running" =>
       \/ /\ du[g].status = "running" /\ (d.completed <=> du[g].completed)
          /\ d.pc = "locked" => du[g].pc = "locked"
       \/ ~d.completed /\ d.pc = "loop" /\ thread[g] = "none" /\ ~job[g].in
  /\ d.status # "running" /\ d.pc # "off" =>
       left = {} \/ (du[g].status # "running" /\ du[g].pc # "off")

LEMMA FilesLeft ==
    ASSUME Types, NEW g \in Groups, NEW left, DownloadFrame(g, left)
    PROVE  /\ files' \in [Groups -> SUBSET (Volumes \union {"par"})] /\ files'[g] = left
           /\ \A h \in Groups \ {g} : files'[h] = files[h]
BY DEF Types, DownloadFrame, Set

\* The group goes on.
LEMMA DownloadsOn ==
    ASSUME Inv, NEW g \in Groups, NEW left, DownloadFrame(g, left),
           NEW j \in Job, NEW d, Told(g, d, left), NEW s, ScriptsWait(s), Announced(s) \subseteq Announced(scripts),
           job' = Set(job, g, j), du' = Set(du, g, d), scripts' = s,
           UNCHANGED <<active, queuedJobs>>,
           \/ place' = place /\ (~job[g].in => left # {})
           \/ place' = Set(place, g, "history") /\ ~job[g].in /\ left = {},
           j.in <=> job[g].in, j.stage = job[g].stage, j.working <=> job[g].working,
           j.deleted <=> job[g].deleted, j.askPar <=> job[g].askPar, j.par = job[g].par
    PROVE  Inv'
<1>1. /\ Fits(g) /\ job \in [Groups -> Job] /\ du \in [Groups -> DirectUnpack] /\ d \in DirectUnpack
      /\ ~broken /\ lock = "free" /\ place[g] = "queue" /\ left \subseteq files[g]
      /\ UNCHANGED <<parPaused, thread, runner, lock>> /\ (edits' = 0 => edits = 0)
  BY DEF Inv, Good, Types, Told, DownloadFrame
<1>2. /\ job' \in [Groups -> Job] /\ job'[g] = j /\ \A h \in Groups \ {g} : job'[h] = job[h]
  BY <1>1, SetJob
<1>3. /\ du' \in [Groups -> DirectUnpack] /\ du'[g] = d /\ \A h \in Groups \ {g} : du'[h] = du[h]
  BY <1>1, SetUnpack
<1>4. /\ files' \in [Groups -> SUBSET (Volumes \union {"par"})] /\ files'[g] = left
      /\ \A h \in Groups \ {g} : files'[h] = files[h]
  BY FilesLeft DEF Inv
<1>5. /\ place' \in [Groups -> {"queue", "history"}]
      /\ \A h \in Groups \ {g} : place'[h] = place[h]
      /\ job[g].in => place'[g] = "queue"
      /\ ~job[g].in /\ place'[g] = "queue" => left # {}
  <2>1. place \in [Groups -> {"queue", "history"}] /\ place[g] = "queue"
    BY <1>1 DEF Inv, Types
  <2>2. CASE place' = place /\ (~job[g].in => left # {})
    BY <2>1, <2>2
  <2>3. CASE place' = Set(place, g, "history") /\ ~job[g].in /\ left = {}
    BY <2>1, <2>3 DEF Set
  <2> QED BY <2>2, <2>3
<1>6. Types'
  BY <1>2, <1>3, <1>4, <1>5 DEF Inv, Types, DownloadFrame
<1>7. \A h \in Groups \ {g} : Untouched(h)
  BY <1>1, <1>2, <1>3, <1>4, <1>5 DEF Untouched
<1>8. Fits(g)'
  <2>1. JobFits(g)'
    <3>1. ~j.in => j.stage = "queued" /\ ~j.working /\ ~j.deleted /\ ~j.askPar
      BY <1>1 DEF Fits, JobFits
    <3>2. j.in => files[g] \subseteq {"par"}
      BY <1>1 DEF Fits, JobFits
    <3>3. /\ j.working \/ j.deleted => g \in active
          /\ j.in /\ g \notin active /\ j.par \in {"none", "skipped"} => ~j.askPar
      BY <1>1 DEF Fits, JobFits, ParOpen
    <3> QED BY <1>1, <1>2, <1>4, <1>5, <3>1, <3>2, <3>3 DEF JobFits, ParOpen
  <2>2. ThreadFits(g)'
    <3>1. ParThread(g) => job[g].in
      BY <1>1 DEF Fits, ThreadFits
    <3> QED BY <1>1, <1>2, <1>4, <3>1 DEF Fits, ThreadFits, ParThread, Running
  <2>3. UnpackFits(g)'
    <3>1. d.status = "running" => ~Running(g) /\ ~j.askPar
      BY <1>1 DEF Told, Fits, UnpackFits, JobFits, Unpacks, Running
    <3>2. d.status = "running" /\ d.completed =>
            /\ left \subseteq {"par"} /\ (edits' = 0 /\ "par" \in left => parPaused[g])
      BY <1>1 DEF Told, Fits, UnpackFits, Unpacks
    <3>3. d.status = "running" /\ d.pc = "locked" => d.completed
      BY <1>1 DEF Told, Fits, UnpackFits, Unpacks
    <3>4. d.status # "running" /\ d.pc # "off" =>
            /\ left \subseteq {"par"}
            /\ j.in /\ (~j.deleted \/ thread[g] # "none" \/ g \notin active) => left = {}
      BY <1>1 DEF Told, Fits, UnpackFits, Unpacks
    <3> QED BY <1>1, <1>2, <1>3, <1>4, <3>1, <3>2, <3>3, <3>4 DEF Told, UnpackFits, Unpacks, Running
  <2>4. ScriptsFit(g)'
    BY <1>1, <1>2 DEF Fits, ScriptsFit, ParThread
  <2> QED BY <2>1, <2>2, <2>3, <2>4 DEF Fits
<1>9. /\ g \in ParJobs' => g \in ParJobs
      /\ ParThread(g)' => ParThread(g)
      /\ Running(g)' => Running(g)
  BY <1>1, <1>2 DEF ParJobs, ParThread, Running
<1>10. Books'
  <2>1. (job'[g].in <=> job[g].in) /\ \A h \in Groups \ {g} : job'[h].in <=> job[h].in
    BY <1>2
  <2> QED BY <1>1, <1>6, <2>1, BooksLocal DEF Inv
<1>11. LockedByResumeOnly' /\ lock' # "runner"
  BY <1>1 DEF LockedByResumeOnly
<1> QED BY <1>1, <1>6, <1>7, <1>8, <1>9, <1>10, <1>11, Local

\* The group enters post-processing.
LEMMA Enters ==
    ASSUME Inv, NEW g \in Groups, NEW left, DownloadFrame(g, left), left = {} \/ left # files[g],
           IsDownloadCompleted(left, parPaused[g], TRUE), ~job[g].in,
           NEW j \in Job, NEW d, Told(g, d, left),
           NEW s, ScriptsWait(s), Announced(s) \subseteq Announced(scripts) \union {g},
           NzbDownloaded(g, j, d, s)
    PROVE  Inv'
<1>1. /\ Fits(g) /\ job \in [Groups -> Job] /\ du \in [Groups -> DirectUnpack] /\ d \in DirectUnpack
      /\ ~broken /\ lock = "free" /\ place[g] = "queue" /\ left \subseteq files[g]
      /\ UNCHANGED <<parPaused, thread, runner, lock>> /\ (edits' = 0 => edits = 0)
  BY DEF Inv, Good, Types, Told, DownloadFrame
<1>2. left \subseteq {"par"} /\ ("par" \in left => parPaused[g])
  BY DEF IsDownloadCompleted
<1>3. PICK k \in Job : /\ job' = Set(job, g, k)
                       /\ k.in /\ k.stage = "queued" /\ ~k.deleted /\ ~k.askPar
                       /\ k.working => d.attached
  <2>1. PICK i \in Job : i = EnterPostProcess(j) /\ i.in /\ i.stage = "queued" /\ ~i.deleted /\ ~i.askPar
    BY JobEntered
  <2> DEFINE par == IF j.par = "none" /\ ParCheck \notin {"always", "force"} THEN "skipped" ELSE i.par
             working == d.attached /\ ~d.waiting
  <2>2. PICK p \in {"none", "skipped", "success", "failure", "possible", "manual"}, w \in BOOLEAN :
           p = par /\ w = working
    <3>1. i.par \in {"none", "skipped", "success", "failure", "possible", "manual"}
      BY JobFields
    <3> QED BY <3>1
  <2> DEFINE k == [i EXCEPT !.par = p, !.working = w]
  <2>3. k \in Job
    BY ZenonT(30) DEF Job
  <2>4. k.in /\ k.stage = "queued" /\ ~k.deleted /\ ~k.askPar /\ (k.working <=> w)
    BY <2>1 DEF Job
  <2>5. job' = Set(job, g, k)
    BY <2>1, <2>2 DEF NzbDownloaded
  <2> HIDE DEF k, par
  <2> QED BY <2>2, <2>3, <2>4, <2>5
<1>4. PICK e \in DirectUnpack : /\ du' = Set(du, g, e) /\ e.status = d.status /\ e.pc = d.pc
                                /\ (e.attached <=> d.attached)
                                /\ (e.completed <=> d.attached \/ d.completed)
  <2> DEFINE c == [d EXCEPT !.completed = TRUE]
             t == [c EXCEPT !.stop = TRUE]
  <2>1. c \in DirectUnpack /\ c.status = d.status /\ c.pc = d.pc /\ (c.attached <=> d.attached) /\ c.completed
    BY <1>1 DEF DirectUnpack
  <2> HIDE DEF c
  <2>2. t \in DirectUnpack /\ t.status = d.status /\ t.pc = d.pc /\ (t.attached <=> d.attached) /\ t.completed
    BY <2>1 DEF DirectUnpack
  <2>3. du' = Set(du, g, IF d.attached THEN (IF d.waiting THEN t ELSE c) ELSE d)
    BY DEF NzbDownloaded, UnpackNzbDownloaded, UnpackStop, c
  <2> HIDE DEF t
  <2>4. d.attached \in BOOLEAN /\ d.completed \in BOOLEAN
    BY <1>1 DEF DirectUnpack
  <2> QED BY <1>1, <2>1, <2>2, <2>3, <2>4
<1>5. /\ job' \in [Groups -> Job] /\ job'[g] = k /\ \A h \in Groups \ {g} : job'[h] = job[h]
  BY <1>1, <1>3, SetJob
<1>6. /\ du' \in [Groups -> DirectUnpack] /\ du'[g] = e /\ \A h \in Groups \ {g} : du'[h] = du[h]
  BY <1>1, <1>4, SetUnpack
<1>7. /\ files' \in [Groups -> SUBSET (Volumes \union {"par"})] /\ files'[g] = left
      /\ \A h \in Groups \ {g} : files'[h] = files[h]
  BY FilesLeft DEF Inv
<1>8. /\ place' = place /\ queuedJobs' = queuedJobs + 1
      /\ active' = IF d.attached THEN active \union {g} ELSE active
  BY DEF NzbDownloaded, JobAdded
<1>9. ScriptsWait(scripts') /\ Announced(scripts') \subseteq Announced(scripts) \union {g}
  <2>1. "NzbDeleted" \in Range(Events) /\ "NzbDeleted" # "NzbDownloaded"
    <3>1. 7 \in DOMAIN Events /\ Events[7] = "NzbDeleted"
      BY DEF Events
    <3> QED BY <3>1 DEF Range
  <2>2. /\ ScriptsWait(EnqueueScript(s, g, "NzbDeleted"))
        /\ Announced(EnqueueScript(s, g, "NzbDeleted")) \subseteq Announced(s)
    BY <2>1, AnnouncedEnqueue
  <2>3. scripts' = IF j.del = "bad" THEN EnqueueScript(s, g, "NzbDeleted") ELSE s
    BY DEF NzbDownloaded
  <2> QED BY <2>2, <2>3
<1>10. Types'
  <2>1. active' \subseteq Groups
    BY <1>8 DEF Inv, Types
  <2> QED BY <1>5, <1>6, <1>7, <1>8, <2>1 DEF Inv, Types, DownloadFrame
<1>11. \A h \in Groups \ {g} : Untouched(h)
  BY <1>1, <1>5, <1>6, <1>7, <1>8, <1>9 DEF Untouched
<1>12. ~ParThread(g)
  BY <1>1 DEF Fits, ThreadFits
<1>13. (g \in active => g \in active') /\ (d.attached => g \in active')
  BY <1>8
<1>14. Fits(g)'
  <2>1. JobFits(g)'
    BY <1>1, <1>2, <1>3, <1>5, <1>7, <1>8, <1>13 DEF JobFits
  <2>2. ThreadFits(g)'
    BY <1>1, <1>2, <1>7, <1>12, <1>13 DEF Fits, ThreadFits, ParThread, Running
  <2>3. UnpackFits(g)'
    <3>1. d.status = "running" => ~Running(g)
      BY <1>1 DEF Told, Fits, UnpackFits, JobFits, Unpacks, Running
    <3>2. d.status = "running" /\ d.pc = "locked" => e.completed
      BY <1>1, <1>4 DEF Told, Fits, UnpackFits, Unpacks
    <3>3. d.status # "running" /\ d.pc # "off" => left = {}
      BY <1>1 DEF Told, Fits, UnpackFits, Unpacks
    <3> QED BY <1>1, <1>2, <1>3, <1>4, <1>5, <1>6, <1>7, <3>1, <3>2, <3>3
            DEF Told, UnpackFits, Unpacks, Running
  <2>4. ScriptsFit(g)'
    BY <1>1, <1>3, <1>5, <1>12 DEF ScriptsFit, ParThread
  <2> QED BY <2>1, <2>2, <2>3, <2>4 DEF Fits
<1>15. /\ g \in ParJobs' => g \in ParJobs
       /\ ParThread(g)' => ParThread(g)
       /\ Running(g)' => Running(g)
  BY <1>1, <1>3, <1>5 DEF ParJobs, ParStages, ParThread, Running
<1>16. Books'
  <2>1. job'[g].in /\ \A h \in Groups \ {g} : job'[h].in <=> job[h].in
    BY <1>3, <1>5
  <2> QED BY <1>1, <1>8, <1>10, <2>1, BooksLocal DEF Inv
<1>17. LockedByResumeOnly' /\ lock' # "runner"
  BY <1>1 DEF LockedByResumeOnly
<1> QED BY <1>1, <1>9, <1>10, <1>11, <1>14, <1>15, <1>16, <1>17, Local

\* A complete file either starts the unpacker, of a group of which no stage runs, or is told to it;
\* it is stopped only by a volume.
LEMMA FileTold ==
    ASSUME Inv, ~broken, NEW g \in Groups, NEW f \in files[g], NEW left
    PROVE  /\ Told(g, FileToUnpacker(g, f, left), left)
           /\ job[g].in /\ FileToUnpacker(g, f, left).stop => du[g].stop
<1> DEFINE d == FileToUnpacker(g, f, left)
<1>1. du[g] \in DirectUnpack /\ Fits(g)
  BY DEF Inv, Types, Good
<1>2. f \in Volumes => thread[g] = "none" /\ ~job[g].in
  BY <1>1 DEF Volumes, Fits, JobFits, ThreadFits
<1>3. du[g].attached => du[g].status = "running"
  BY <1>1 DEF Fits, UnpackFits, Unpacks
<1>4. CASE StartsUnpack(g, f, left)
  <2> DEFINE main == "vol1" \notin left
             e == [NoUnpack EXCEPT !.pc = "loop", !.status = "running", !.attached = TRUE, !.main = main]
  <2>0. main \in BOOLEAN
    OBVIOUS
  <2> HIDE DEF main
  <2>1. e \in DirectUnpack /\ e.status = "running" /\ e.pc = "loop" /\ ~e.completed /\ ~e.stop
    BY <2>0 DEF NoUnpack, DirectUnpack
  <2>2. d = e
    BY <1>4 DEF FileToUnpacker, main
  <2>3. thread[g] = "none" /\ ~job[g].in
    BY <1>2, <1>4 DEF StartsUnpack
  <2> HIDE DEF d, e
  <2>4. Told(g, d, left) /\ ~d.stop
    BY <2>1, <2>2, <2>3 DEF Told
  <2> QED BY <2>4, <2>3 DEF d
<1>5. CASE ~StartsUnpack(g, f, left) /\ du[g].status = "running"
  <2>1. d = UnpackFile(du[g], g, f)
    BY <1>5 DEF FileToUnpacker
  <2>2. CASE f = "vol2" /\ health[g] # "full"
    <3> DEFINE e == [du[g] EXCEPT !.stop = TRUE]
    <3>1. e \in DirectUnpack /\ e.status = "running" /\ e.pc = du[g].pc /\ (e.completed <=> du[g].completed)
      BY <1>1, <1>5 DEF DirectUnpack
    <3>2. d = e
      BY <2>1, <2>2 DEF UnpackFile, UnpackStop
    <3>3. ~job[g].in
      BY <1>2, <2>2 DEF Volumes
    <3> HIDE DEF d, e
    <3>4. Told(g, d, left)
      BY <1>5, <3>1, <3>2 DEF Told
    <3> QED BY <3>3, <3>4 DEF d
  <2>3. CASE ~(f = "vol2" /\ health[g] # "full")
    <3> DEFINE main == du[g].main \/ f = "vol1"
               waiting == du[g].waiting /\ f # "vol2"
               pc == IF du[g].waiting /\ f = "vol2" /\ du[g].pc = "wait" THEN "cont" ELSE du[g].pc
               e == [du[g] EXCEPT !.main = main, !.waiting = waiting, !.pc = pc]
    <3>0. main \in BOOLEAN /\ waiting \in BOOLEAN /\ (pc = "locked" => du[g].pc = "locked")
          /\ pc \in {"off", "loop", "unrar", "missing", "wait", "locked", "cont", "end"}
      BY <1>1, UnpackFields
    <3>1. d = e
      BY <2>1, <2>3 DEF UnpackFile
    <3> HIDE DEF main, waiting, pc
    <3>2. /\ e \in DirectUnpack /\ e.status = "running" /\ e.pc = pc /\ (e.completed <=> du[g].completed)
          /\ (e.stop <=> du[g].stop)
      BY <1>1, <1>5, <3>0 DEF DirectUnpack
    <3> HIDE DEF d, e
    <3>3. Told(g, d, left) /\ (d.stop <=> du[g].stop)
      BY <1>5, <3>0, <3>1, <3>2 DEF Told
    <3> QED BY <3>3 DEF d
  <2> QED BY <2>2, <2>3
<1>6. CASE ~StartsUnpack(g, f, left) /\ du[g].status # "running"
  <2>1. d = du[g]
    BY <1>6 DEF FileToUnpacker
  <2> HIDE DEF d
  <2>2. Told(g, d, left)
    BY <1>1, <1>3, <1>6, <2>1 DEF Told
  <2> QED BY <2>1, <2>2 DEF d
<1> QED BY <1>4, <1>5, <1>6

LEMMA ToldParChecker ==
    ASSUME Inv, NEW g \in Groups, NEW isFile \in BOOLEAN,
           ToParChecker(g, isFile) \/ UNCHANGED more
    PROVE  more' \in [Groups -> [file : BOOLEAN, changed : BOOLEAN, requested : BOOLEAN]]
<1>1. more \in [Groups -> [file : BOOLEAN, changed : BOOLEAN, requested : BOOLEAN]]
  BY DEF Inv, Types
<1>2. CASE ToParChecker(g, isFile)
  <2> DEFINE file == more[g].file \/ isFile
             m == [more[g] EXCEPT !.changed = TRUE, !.file = file]
  <2>1. file \in BOOLEAN
    OBVIOUS
  <2> HIDE DEF file
  <2>2. m \in [file : BOOLEAN, changed : BOOLEAN, requested : BOOLEAN]
    BY <1>1, <2>1
  <2>3. more' = Set(more, g, m)
    BY <1>2 DEF ToParChecker, file
  <2> HIDE DEF m
  <2> QED BY <1>1, <2>2, <2>3 DEF Set
<1> QED BY <1>1, <1>2

LEMMA FileCompletedStep ==
    ASSUME Inv, NEW g \in Groups, NEW f \in Volumes \union {"par"}, FileCompleted(g, f)
    PROVE  Inv'
<1> DEFINE left == files[g] \ {f}
           s == IF job[g].in THEN scripts ELSE EnqueueScript(scripts, g, "FileDownloaded")
           d == FileToUnpacker(g, f, left)
<1>1. /\ ~broken /\ lock = "free" /\ place[g] = "queue" /\ f \in files[g]
      /\ UNCHANGED <<parPaused, health, thread, stopped, runner, lock, pausePost, broken, edits, asked>>
      /\ files' = Set(files, g, left)
  BY DEF FileCompleted
<1>2. Told(g, d, left) /\ (job[g].in /\ d.stop => du[g].stop)
  BY <1>1, FileTold
<1>3. \/ /\ AddPar(g) /\ ToParChecker(g, TRUE)
         /\ job' = Set(job, g, job[g]) /\ du' = Set(du, g, d) /\ scripts' = s
         /\ UNCHANGED <<place, active, queuedJobs>>
      \/ /\ ~AddPar(g) /\ UNCHANGED more
         /\ IF ~job[g].in /\ IsDownloadCompleted(left, parPaused[g], TRUE)
            THEN NzbDownloaded(g, job[g], d, EnqueueScript(s, g, "NzbDownloaded"))
            ELSE /\ job' = Set(job, g, job[g]) /\ du' = Set(du, g, d) /\ scripts' = s
                 /\ UNCHANGED <<place, active, queuedJobs>>
  <2> HIDE DEF d, s, left
  <2>1. ~((d.stop /\ ~du[g].stop) /\ job[g].in)
    BY <1>2
  <2> QED BY <2>1 DEF FileCompleted, d, s, left
<1>4. more' \in [Groups -> [file : BOOLEAN, changed : BOOLEAN, requested : BOOLEAN]]
  BY <1>3, ToldParChecker
<1>5. DownloadFrame(g, left)
  BY <1>1, <1>4 DEF DownloadFrame, Inv, Types
<1>6. "FileDownloaded" \in Range(Events) /\ "NzbDownloaded" \in Range(Events)
  <2>1. {1, 6} \subseteq DOMAIN Events /\ Events[1] = "FileDownloaded" /\ Events[6] = "NzbDownloaded"
    BY DEF Events
  <2> QED BY <2>1 DEF Range
<1>7. ScriptsWait(s) /\ Announced(s) \subseteq Announced(scripts)
  <2>1. ScriptsWait(scripts)
    BY DEF Inv, Announcements
  <2>2. /\ ScriptsWait(EnqueueScript(scripts, g, "FileDownloaded"))
        /\ Announced(EnqueueScript(scripts, g, "FileDownloaded")) \subseteq Announced(scripts)
    BY <1>6, <2>1, AnnouncedEnqueue
  <2> QED BY <2>1, <2>2
<1>8. job[g] \in Job
  BY DEF Inv, Types
<1> HIDE DEF d, s
<1>9. CASE ~AddPar(g) /\ ~job[g].in /\ IsDownloadCompleted(left, parPaused[g], TRUE)
  <2> DEFINE t == EnqueueScript(s, g, "NzbDownloaded")
  <2>1. ScriptsWait(t) /\ Announced(t) \subseteq Announced(scripts) \union {g}
    <3>1. ScriptsWait(t) /\ Announced(t) \subseteq Announced(s) \union {g}
      BY <1>6, <1>7, AnnouncedEnqueue
    <3> QED BY <1>7, <3>1
  <2>2. NzbDownloaded(g, job[g], d, t)
    BY <1>3, <1>9
  <2>3. left # files[g]
    BY <1>1
  <2> HIDE DEF t, left
  <2> QED BY <1>2, <1>5, <1>8, <1>9, <2>1, <2>2, <2>3, Enters
<1>10. CASE AddPar(g) \/ job[g].in \/ ~IsDownloadCompleted(left, parPaused[g], TRUE)
  <2>1. /\ job' = Set(job, g, job[g]) /\ du' = Set(du, g, d) /\ scripts' = s
        /\ UNCHANGED <<place, active, queuedJobs>>
    BY <1>3, <1>10
  <2>2. ~job[g].in => left # {}
    BY <1>10 DEF AddPar, IsDownloadCompleted
  <2> HIDE DEF left
  <2> QED BY <1>2, <1>5, <1>7, <1>8, <2>1, <2>2, DownloadsOn
<1> QED BY <1>9, <1>10

LEMMA DelSet ==
    ASSUME NEW j \in Job, NEW del \in {"none", "manual", "bad"}
    PROVE  /\ [j EXCEPT !.del = del] \in Job
           /\ [j EXCEPT !.del = del].in <=> j.in
           /\ [j EXCEPT !.del = del].stage = j.stage
           /\ [j EXCEPT !.del = del].working <=> j.working
           /\ [j EXCEPT !.del = del].deleted <=> j.deleted
           /\ [j EXCEPT !.del = del].askPar <=> j.askPar
           /\ [j EXCEPT !.del = del].par = j.par
           /\ [j EXCEPT !.del = del].del = del
BY DEF Job

LEMMA FilesDeletedStep ==
    ASSUME Inv, ~broken, lock = "free", NEW g \in Groups, place[g] = "queue",
           NEW F, F \subseteq files[g], F # {} \/ files[g] = {}, NEW del \in {"none", "manual", "bad"},
           FilesDeleted(g, F, del), edits < MaxEdits, edits' = edits + 1
    PROVE  Inv'
<1> DEFINE left == files[g] \ F
           j == [job[g] EXCEPT !.del = del]
           goneDel == IF del = "none" THEN "manual" ELSE del
           gone == [job[g] EXCEPT !.del = goneDel]
           d == UnpackNzbDeleted(du[g])
<1>0. del \in {"none", "manual", "bad"}
  OBVIOUS
<1>1. /\ job[g] \in Job /\ du[g] \in DirectUnpack /\ Fits(g)
      /\ job \in [Groups -> Job] /\ du \in [Groups -> DirectUnpack] /\ ScriptsWait(scripts)
  BY DEF Inv, Types, Good, Announcements
<1>2. /\ files' = Set(files, g, left)
      /\ IF F # {} /\ AddPar(g) THEN ToParChecker(g, FALSE) ELSE UNCHANGED more
      /\ UNCHANGED <<parPaused, health, thread, stopped, runner, lock, pausePost, broken, asked>>
  BY DEF FilesDeleted
<1>3. more' \in [Groups -> [file : BOOLEAN, changed : BOOLEAN, requested : BOOLEAN]]
  BY <1>2, ToldParChecker
<1>4. edits' \in 0..MaxEdits /\ edits' # 0
  BY PostOptions DEF Inv, Types
<1>5. DownloadFrame(g, left)
  BY <1>2, <1>3, <1>4 DEF DownloadFrame, Inv, Types
<1>6. left = {} \/ left # files[g]
  OBVIOUS
<1>7. IF ~job[g].in /\ left = {}
      THEN NzbDeleted(g, j, du[g], scripts)
      ELSE job' = Set(job, g, j) /\ UNCHANGED <<du, place, scripts, active, queuedJobs>>
  <2>1. IsDownloadCompleted(left, parPaused[g], FALSE) <=> left = {}
    BY DEF IsDownloadCompleted
  <2> HIDE DEF left, j
  <2> QED BY <2>1 DEF FilesDeleted, left, j
<1>8. CASE ~(~job[g].in /\ left = {})
  <2>1. job' = Set(job, g, j) /\ du' = Set(du, g, du[g]) /\ UNCHANGED <<place, scripts, active, queuedJobs>>
    BY <1>1, <1>7, <1>8 DEF Set
  <2>2. Told(g, du[g], left)
    BY <1>1 DEF Told, Fits, UnpackFits, Unpacks
  <2>3. /\ j \in Job /\ (j.in <=> job[g].in) /\ j.stage = job[g].stage /\ (j.working <=> job[g].working)
        /\ (j.deleted <=> job[g].deleted) /\ (j.askPar <=> job[g].askPar) /\ j.par = job[g].par
    BY <1>1, DelSet, ZenonT(30)
  <2> HIDE DEF j, left
  <2> QED BY <1>1, <1>5, <1>8, <2>1, <2>2, <2>3, DownloadsOn
<1>9. CASE ~job[g].in /\ left = {}
  <2>1. NzbDeleted(g, j, du[g], scripts)
    BY <1>7, <1>9
  <2>2. goneDel \in {"none", "manual", "bad"} /\ j.del = del
    BY <1>0, <1>1, DelSet
  <2> HIDE DEF goneDel
  <2>3. /\ gone \in Job /\ (gone.in <=> job[g].in) /\ gone.stage = job[g].stage
        /\ (gone.working <=> job[g].working) /\ (gone.deleted <=> job[g].deleted)
        /\ (gone.askPar <=> job[g].askPar) /\ gone.par = job[g].par /\ gone.del = goneDel
    BY <1>1, <2>2, DelSet
  <2>4. [j EXCEPT !.del = IF @ = "none" THEN "manual" ELSE @] = gone
    <3>1. [j EXCEPT !.del = IF @ = "none" THEN "manual" ELSE @] = [j EXCEPT !.del = goneDel]
      BY <2>2 DEF goneDel
    <3>2. \A x : [[job[g] EXCEPT !.del = del] EXCEPT !.del = x] = [job[g] EXCEPT !.del = x]
      BY <1>1 DEF Job
    <3> QED BY <3>1, <3>2
  <2>5. Told(g, d, left)
    <3>1. /\ d \in DirectUnpack /\ ~d.attached /\ d.pc = du[g].pc /\ (d.completed <=> du[g].completed)
          /\ d.status = IF du[g].attached THEN "failure" ELSE du[g].status
      BY <1>1, UnpackDeleted
    <3> HIDE DEF d
    <3> QED BY <1>9, <3>1 DEF Told
  <2> HIDE DEF j, gone, d
  <2>6. CASE goneDel = "bad"
    <3>1. NzbDownloaded(g, gone, d, scripts)
      BY <2>1, <2>3, <2>4, <2>6 DEF NzbDeleted, d
    <3>2. IsDownloadCompleted(left, parPaused[g], TRUE)
      BY <1>9 DEF IsDownloadCompleted
    <3>3. Announced(scripts) \subseteq Announced(scripts) \union {g}
      OBVIOUS
    <3> HIDE DEF left
    <3> QED BY <1>1, <1>5, <1>6, <1>9, <2>3, <2>5, <3>1, <3>2, <3>3, Enters
  <2>7. CASE goneDel # "bad"
    <3> DEFINE s == DeletedEvent(scripts, g, goneDel)
    <3>1. /\ job' = Set(job, g, gone) /\ du' = Set(du, g, d) /\ place' = Set(place, g, "history")
          /\ scripts' = s /\ UNCHANGED <<active, queuedJobs>>
      BY <2>1, <2>3, <2>4, <2>7 DEF NzbDeleted, d
    <3>2. ScriptsWait(s) /\ Announced(s) \subseteq Announced(scripts)
      <4>1. "NzbDeleted" \in Range(Events) /\ "NzbDeleted" # "NzbDownloaded"
        <5>1. 7 \in DOMAIN Events /\ Events[7] = "NzbDeleted"
          BY DEF Events
        <5> QED BY <5>1 DEF Range
      <4>2. /\ ScriptsWait(EnqueueScript(scripts, g, "NzbDeleted"))
            /\ Announced(EnqueueScript(scripts, g, "NzbDeleted")) \subseteq Announced(scripts)
        BY <1>1, <4>1, AnnouncedEnqueue
      <4> QED BY <1>1, <4>2 DEF DeletedEvent
    <3> HIDE DEF s, left
    <3> QED BY <1>5, <1>9, <2>3, <2>5, <3>1, <3>2, DownloadsOn
  <2> QED BY <2>6, <2>7
<1> QED BY <1>8, <1>9

LEMMA MarkBadStep ==
    ASSUME Inv, NEW g \in Groups, MarkBad(g)
    PROVE  Inv'
<1>1. /\ ~broken /\ lock = "free" /\ place[g] = "queue" /\ edits < MaxEdits /\ edits' = edits + 1
      /\ FilesDeleted(g, files[g], "bad")
  BY DEF MarkBad
<1> QED BY <1>1, FilesDeletedStep

LEMMA DeleteFileStep ==
    ASSUME Inv, NEW g \in Groups, NEW f \in Volumes \union {"par"}, DeleteFile(g, f)
    PROVE  Inv'
<1>1. /\ ~broken /\ lock = "free" /\ place[g] = "queue" /\ edits < MaxEdits /\ edits' = edits + 1
      /\ {f} \subseteq files[g] /\ {f} # {} /\ FilesDeleted(g, {f}, job[g].del)
  BY DEF DeleteFile, Edit
<1>2. job[g].del \in {"none", "manual", "bad"}
  <2>1. job[g] \in Job
    BY DEF Inv, Types
  <2> QED BY <2>1, JobFields
<1> QED BY <1>1, <1>2, FilesDeletedStep
-----------------------------------------------------------------------------
(* CheckPostQueue. *)

LEMMA Requested ==
    ASSUME NEW k \in Job, NEW left
    PROVE  /\ RequestPar(k, left) \in Job
           /\ RequestPar(k, left).in <=> k.in
           /\ RequestPar(k, left).deleted <=> k.deleted
           /\ RequestPar(k, left).stage = k.stage \/ RequestPar(k, left).stage = "finished"
           /\ RequestPar(k, left).working => k.working
           /\ ~k.askPar => RequestPar(k, left) = k
           /\ RequestPar(k, left).askPar => ~ParOpen(RequestPar(k, left))
<1> DEFINE r == RequestPar(k, left)
<1>1. CASE k.askPar /\ ParCheck # "manual" /\ (ParOpen(k) \/ (k.force /\ ~k.full))
  <2> DEFINE force == ~ParOpen(k)
             e == [k EXCEPT !.forceFull = force, !.par = "none", !.askPar = FALSE, !.working = FALSE]
  <2>1. force \in BOOLEAN
    OBVIOUS
  <2>2. r = e
    BY <1>1 DEF RequestPar
  <2> HIDE DEF force
  <2>3. e \in Job
    BY <2>1 DEF Job
  <2>4. (e.in <=> k.in) /\ (e.deleted <=> k.deleted) /\ e.stage = k.stage /\ ~e.working /\ ~e.askPar
    BY DEF Job
  <2> HIDE DEF e, r
  <2>5. /\ r \in Job /\ (r.in <=> k.in) /\ (r.deleted <=> k.deleted) /\ r.stage = k.stage /\ ~r.working
        /\ ~r.askPar
    BY <2>2, <2>3, <2>4
  <2> QED BY <1>1, <2>5 DEF r
<1>2. CASE k.askPar /\ ParCheck = "manual" /\ ParOpen(k)
  <2> DEFINE stage == IF left # {} THEN "finished" ELSE k.stage
             e == [k EXCEPT !.askPar = FALSE, !.par = "manual", !.working = FALSE, !.stage = stage]
  <2>1. stage \in Stages /\ (stage = k.stage \/ stage = "finished")
    BY JobFields DEF Stages
  <2>2. r = e
    BY <1>2 DEF RequestPar
  <2> HIDE DEF stage
  <2>3. e \in Job
    BY <2>1 DEF Job
  <2>4. (e.in <=> k.in) /\ (e.deleted <=> k.deleted) /\ e.stage = stage /\ ~e.working /\ ~e.askPar
    BY DEF Job
  <2> HIDE DEF e, r
  <2>5. /\ r \in Job /\ (r.in <=> k.in) /\ (r.deleted <=> k.deleted) /\ r.stage = stage /\ ~r.working
        /\ ~r.askPar
    BY <2>2, <2>3, <2>4
  <2> QED BY <1>2, <2>1, <2>5 DEF r
<1>3. CASE ~(k.askPar /\ ParCheck # "manual" /\ (ParOpen(k) \/ (k.force /\ ~k.full)))
           /\ ~(k.askPar /\ ParCheck = "manual" /\ ParOpen(k))
  <2>1. r = k
    BY <1>3 DEF RequestPar
  <2>2. k.askPar => ~ParOpen(k)
    BY <1>3
  <2> HIDE DEF r
  <2> QED BY <2>1, <2>2 DEF r
<1> QED BY <1>1, <1>2, <1>3

ParStep(t) == t \in {"verify", "request", "mark", "wait", "repair"}

\* A job k with a thread in step t, among the active ones, before it is cleaned up.
Ready(h, k, t) ==
  /\ k \in Job /\ k.in /\ place[h] = "queue" /\ files[h] \subseteq {"par"}
  /\ t \in {"none", "run", "verify", "request", "mark", "wait", "repair", "ended"}
  /\ ParStep(t) => /\ ~k.askPar /\ k.stage \in ParStages
                   /\ ~k.working => files[h] = {}
  /\ Unpacks(h) => t \in {"none", "ended"} /\ ~k.askPar
  /\ du[h].attached => Unpacks(h)
  /\ Unpacks(h) /\ du[h].completed => (edits = 0 /\ "par" \in files[h] => parPaused[h])
  /\ Unpacks(h) /\ du[h].pc = "locked" => du[h].completed
  /\ ~Unpacks(h) /\ du[h].pc # "off" /\ (~k.deleted \/ t # "none") => files[h] = {}
  /\ h \in Announced(scripts) => t = "none" \/ (k.stage = "queued" /\ ~ParStep(t) /\ ~k.askPar)

LEMMA Cleaned ==
    ASSUME NEW j, NEW t, NEW A \in SUBSET Groups, CleanupJobs(j, t, A), NEW h \in A,
           Ready(h, j[h], t[h]), runner' = "idle", UNCHANGED <<files, du, scripts, edits>>
    PROVE  /\ job'[h] \in Job /\ Fits(h)'
           /\ h \in active' => /\ job'[h].in /\ (j[h].working \/ t[h] \notin {"none", "ended"})
                               /\ job'[h].stage \in ParStages => j[h].stage \in ParStages
           /\ thread'[h] \in {t[h], "none"} /\ place'[h] \in {place[h], "history"}
           /\ job'[h].in <=> h \notin Over(CheckRequestPar(j, A), t, A)
<1> DEFINE k == j[h]
           asked2 == CheckRequestPar(j, A)
           ended == Ended(asked2, t, A)
           over == Over(asked2, t, A)
           paused == ResumedForPar(j, A)
           r == RequestPar(k, files[h])
<1>1. /\ k \in Job /\ k.in /\ place[h] = "queue" /\ files[h] \subseteq {"par"}
      /\ h \in Groups
  BY DEF Ready
<1>2. /\ r \in Job /\ (r.in <=> k.in) /\ (r.deleted <=> k.deleted)
      /\ r.stage = k.stage \/ r.stage = "finished"
      /\ r.working => k.working
      /\ ~k.askPar => r = k
      /\ r.askPar => ~ParOpen(r)
  BY <1>1, Requested
<1>3. asked2[h] = r
  BY <1>1 DEF CheckRequestPar
<1>4. /\ h \in ended <=> ~r.working /\ t[h] \in {"none", "ended"}
      /\ h \in over <=> h \in ended /\ (r.stage = "finished" \/ r.deleted)
  <2> HIDE DEF r, asked2
  <2> QED BY <1>3 DEF Ended, Over
<1>5. paused[h] => parPaused[h]
  BY <1>1 DEF ResumedForPar
<1>6. ~k.askPar => (paused[h] <=> parPaused[h])
  BY <1>1 DEF ResumedForPar
<1>7. /\ job'[h] = IF h \in over THEN LeavePostProcess(r)
                   ELSE IF h \in ended THEN [r EXCEPT !.stage = "queued"] ELSE r
      /\ thread'[h] = IF h \in ended THEN "none" ELSE t[h]
      /\ place'[h] = IF h \in over /\ IsDownloadCompleted(files[h], paused[h], TRUE)
                     THEN "history" ELSE place[h]
      /\ h \in active' <=> h \notin ended
      /\ parPaused'[h] = paused[h]
  <2> HIDE DEF r, asked2, ended, over, paused
  <2> QED BY <1>1, <1>3 DEF CleanupJobs, asked2, ended, over, paused
<1>8. UNCHANGED <<files, du, scripts, edits>> /\ runner' = "idle"
  OBVIOUS
<1>9. /\ (h \in Over(asked2, t, A) <=> h \in over)
      /\ ParStep(t[h]) => ~k.askPar /\ k.stage \in ParStages /\ (~k.working => files[h] = {})
      /\ Unpacks(h) => t[h] \in {"none", "ended"} /\ ~k.askPar
      /\ du[h].attached => Unpacks(h)
      /\ Unpacks(h) /\ du[h].completed => (edits = 0 /\ "par" \in files[h] => parPaused[h])
      /\ Unpacks(h) /\ du[h].pc = "locked" => du[h].completed
      /\ ~Unpacks(h) /\ du[h].pc # "off" /\ (~k.deleted \/ t[h] # "none") => files[h] = {}
      /\ h \in Announced(scripts) => t[h] = "none" \/ (k.stage = "queued" /\ ~ParStep(t[h]) /\ ~k.askPar)
      /\ t[h] \in {"none", "run", "verify", "request", "mark", "wait", "repair", "ended"}
  BY DEF Ready
<1> HIDE DEF k, r, asked2, ended, over, paused
<1>10. CASE h \in over
  <2>1. PICK i \in Job : /\ i = job'[h] /\ ~i.in /\ i.stage = "queued" /\ ~i.working
                         /\ ~i.deleted /\ ~i.askPar
    BY <1>2, <1>7, <1>10, JobLeft
  <2>2. thread'[h] = "none" /\ h \notin active' /\ (place'[h] = "queue" => files[h] # {})
    BY <1>1, <1>4, <1>7, <1>10 DEF IsDownloadCompleted
  <2>3. JobFits(h)'
    BY <1>8, <2>1, <2>2 DEF JobFits
  <2>4. ThreadFits(h)'
    BY <1>8, <2>2 DEF ThreadFits, ParThread, Running
  <2>5. UnpackFits(h)'
    BY <1>1, <1>6, <1>7, <1>8, <1>9, <2>1, <2>2 DEF UnpackFits, Unpacks, Running
  <2>6. ScriptsFit(h)'
    BY <2>2 DEF ScriptsFit
  <2>7. place'[h] \in {place[h], "history"}
    BY <1>7
  <2> QED BY <1>9, <1>10, <2>1, <2>2, <2>3, <2>4, <2>5, <2>6, <2>7 DEF Fits, asked2
<1>11. CASE h \in ended /\ h \notin over
  <2>1. PICK i \in Job : /\ i = job'[h] /\ i.in /\ i.stage = "queued" /\ ~i.working
                         /\ ~i.deleted /\ (i.askPar <=> r.askPar) /\ i.par = r.par
    <3> DEFINE e == [r EXCEPT !.stage = "queued"]
    <3>1. e \in Job
      BY <1>2 DEF Job, Stages
    <3>2. /\ (e.in <=> r.in) /\ e.stage = "queued" /\ (e.working <=> r.working)
          /\ (e.deleted <=> r.deleted) /\ (e.askPar <=> r.askPar) /\ e.par = r.par
      BY <1>2 DEF Job
    <3>3. job'[h] = e
      BY <1>7, <1>11
    <3> HIDE DEF e
    <3> QED BY <1>1, <1>2, <1>4, <1>11, <3>1, <3>2, <3>3
  <2>2. thread'[h] = "none" /\ h \notin active' /\ place'[h] = place[h]
    BY <1>7, <1>11
  <2>3. JobFits(h)'
    BY <1>1, <1>2, <1>8, <2>1, <2>2 DEF JobFits, ParOpen
  <2>4. ThreadFits(h)'
    BY <1>8, <2>2 DEF ThreadFits, ParThread, Running
  <2>5. UnpackFits(h)'
    <3>1. ~k.deleted
      BY <1>2, <1>4, <1>11
    <3>2. ~k.askPar => ~i.askPar
      BY <1>2, <2>1
    <3> QED BY <1>1, <1>6, <1>7, <1>8, <1>9, <2>1, <2>2, <3>1, <3>2 DEF UnpackFits, Unpacks, Running
  <2>6. ScriptsFit(h)'
    BY <2>2 DEF ScriptsFit
  <2> QED BY <1>9, <1>11, <2>1, <2>2, <2>3, <2>4, <2>5, <2>6 DEF Fits, asked2
<1>12. CASE h \notin ended
  <2>1. job'[h] = r /\ thread'[h] = t[h] /\ h \in active' /\ place'[h] = place[h] /\ h \notin over
    BY <1>4, <1>7, <1>12
  <2>2. JobFits(h)'
    BY <1>1, <1>2, <1>8, <2>1 DEF JobFits
  <2>3. ThreadFits(h)'
    <3>1. ParStep(t[h]) => r = k
      BY <1>2, <1>9
    <3> QED BY <1>1, <1>2, <1>8, <1>9, <2>1, <3>1 DEF ThreadFits, ParThread, ParStep, Running
  <2>4. UnpackFits(h)'
    <3>1. ~k.askPar => ~r.askPar
      BY <1>2
    <3> QED BY <1>1, <1>2, <1>6, <1>7, <1>8, <1>9, <2>1, <3>1 DEF UnpackFits, Unpacks, Running
  <2>5. ScriptsFit(h)'
    BY <1>2, <1>8, <1>9, <2>1 DEF ScriptsFit, ParThread, ParStep
  <2>6. /\ job'[h].in /\ (k.working \/ t[h] \notin {"none", "ended"})
        /\ job'[h].stage \in ParStages => k.stage \in ParStages
    BY <1>1, <1>2, <1>4, <1>12, <2>1 DEF ParStages
  <2> QED BY <1>2, <1>9, <2>1, <2>2, <2>3, <2>4, <2>5, <2>6 DEF Fits, asked2, k
<1> QED BY <1>10, <1>11, <1>12

\* The cleanup of the jobs j with the threads t, the ones in A being active; parJobs and threads are
\* bounds on what runs.
LEMMA CleanupStep ==
    ASSUME Inv, ~broken, runner = "idle",
           NEW j \in [Groups -> Job],
           NEW t \in [Groups -> {"none", "run", "verify", "request", "mark", "wait", "repair", "ended"}],
           NEW A \in SUBSET Groups, CleanupJobs(j, t, A),
           \A h \in A : Ready(h, j[h], t[h]),
           \A h \in Groups \ A : h \notin active /\ j[h] = job[h] /\ t[h] = thread[h],
           \A h \in Groups : j[h].in <=> job[h].in,
           UNCHANGED <<files, health, du, runner, scripts, pausePost, broken, edits, asked>>,
           more' \in [Groups -> [file : BOOLEAN, changed : BOOLEAN, requested : BOOLEAN]],
           lock' \in {"free", "runner"},
           NEW parJobs \in SUBSET Groups, Cardinality(parJobs) <= MaxPars,
           \A h \in A : j[h].stage \in ParStages /\ (j[h].working \/ t[h] \notin {"none", "ended"})
                           => h \in parJobs,
           \A h \in Groups : ParStep(t[h]) => h \in parJobs,
           NEW threads \in SUBSET Groups, Cardinality(threads) <= MaxThreads,
           \A h \in Groups : t[h] \notin {"none", "ended"} => h \in threads
    PROVE  Inv'
<1> DEFINE asked2 == CheckRequestPar(j, A)
           ended == Ended(asked2, t, A)
           over == Over(asked2, t, A)
<1>1. over \subseteq ended /\ ended \subseteq A /\ A \subseteq Groups
  BY DEF Ended, Over
<1>2. /\ job' = [g \in Groups |-> job'[g]]
      /\ thread' = [g \in Groups |-> thread'[g]] /\ place' = [g \in Groups |-> place'[g]]
      /\ stopped' = [g \in Groups |-> stopped'[g]] /\ parPaused' = [g \in Groups |-> parPaused'[g]]
      /\ \A g \in Groups : stopped'[g] \in BOOLEAN /\ parPaused'[g] \in BOOLEAN
      /\ queuedJobs' = queuedJobs - Cardinality(over) /\ active' = A \ ended
  BY DEF CleanupJobs, ResumedForPar, Inv, Types
<1>3. ASSUME NEW h \in A
      PROVE  /\ job'[h] \in Job /\ Fits(h)'
             /\ h \in active' => /\ job'[h].in /\ (j[h].working \/ t[h] \notin {"none", "ended"})
                                 /\ job'[h].stage \in ParStages => j[h].stage \in ParStages
             /\ thread'[h] \in {t[h], "none"} /\ place'[h] \in {place[h], "history"}
             /\ job'[h].in <=> h \notin over
  <2>1. runner' = "idle" /\ UNCHANGED <<files, du, scripts, edits>>
    OBVIOUS
  <2> QED BY <2>1, Cleaned
<1>4. ASSUME NEW h \in Groups \ A
      PROVE  /\ job'[h] = job[h] /\ thread'[h] = t[h] /\ place'[h] = place[h] /\ h \notin active'
             /\ h \notin over /\ Fits(h)'
  <2>1. h \notin over /\ h \notin ended /\ h \notin A /\ h \in Groups
    BY <1>1
  <2>2. asked2[h] = j[h]
    BY <2>1 DEF CheckRequestPar
  <2> HIDE DEF asked2, ended, over
  <2>3. job'[h] = job[h] /\ thread'[h] = t[h] /\ place'[h] = place[h] /\ h \notin active'
    BY <2>1, <2>2 DEF CleanupJobs, asked2, ended, over
  <2>4. parPaused'[h] = parPaused[h]
    BY <2>1 DEF CleanupJobs, ResumedForPar, Inv, Types
  <2>5. Untouched(h)
    BY <2>1, <2>3, <2>4 DEF Untouched
  <2>6. Fits(h)'
    BY <2>5, UntouchedFits DEF Inv, Good
  <2> QED BY <2>1, <2>3, <2>6
<1> HIDE DEF asked2, ended, over
<1>5. \A h \in Groups : Fits(h)'
  BY <1>3, <1>4
<1>6. Types'
  <2>1. job' \in [Groups -> Job]
    <3>1. \A h \in Groups : job'[h] \in Job
      BY <1>3, <1>4 DEF Inv, Types
    <3> QED BY <1>2, <3>1
  <2>2. thread' \in [Groups -> {"none", "run", "verify", "request", "mark", "wait", "repair", "ended"}]
    <3>1. \A h \in Groups : thread'[h] \in {"none", "run", "verify", "request", "mark", "wait", "repair", "ended"}
      BY <1>3, <1>4
    <3> QED BY <1>2, <3>1
  <2>3. place' \in [Groups -> {"queue", "history"}]
    <3>1. \A h \in Groups : place'[h] \in {"queue", "history"}
      BY <1>3, <1>4 DEF Inv, Types
    <3> QED BY <1>2, <3>1
  <2>4. stopped' \in [Groups -> BOOLEAN] /\ parPaused' \in [Groups -> BOOLEAN]
    BY <1>2
  <2>5. active' \subseteq Groups
    BY <1>1, <1>2
  <2> QED BY <2>1, <2>2, <2>3, <2>4, <2>5 DEF Inv, Types
<1>7. Within'
  <2>1. ParJobs' \subseteq parJobs
    <3>1. ASSUME NEW h \in active', job'[h].stage \in ParStages PROVE h \in parJobs
      <4>1. h \in A
        BY <1>2
      <4> QED BY <1>3, <3>1, <4>1
    <3> QED BY <3>1 DEF ParJobs
  <2>2. ParThreads' \subseteq parJobs
    <3>1. ASSUME NEW h \in Groups, ParStep(thread'[h]) PROVE h \in parJobs
      <4>1. thread'[h] \in {t[h], "none"}
        BY <1>3, <1>4
      <4>2. ParStep(t[h])
        BY <3>1, <4>1 DEF ParStep
      <4> QED BY <4>2
    <3> QED BY <3>1 DEF ParThreads, ParThread, ParStep
  <2>3. Threads' \subseteq threads
    <3>1. ASSUME NEW h \in Groups, thread'[h] \notin {"none", "ended"} PROVE h \in threads
      <4>1. thread'[h] \in {t[h], "none"}
        BY <1>3, <1>4
      <4> QED BY <3>1, <4>1
    <3> QED BY <3>1 DEF Threads, Running
  <2>4. IsFiniteSet(parJobs) /\ IsFiniteSet(threads)
    BY PostOptions, FS_Subset
  <2>5. /\ Cardinality(ParJobs') <= Cardinality(parJobs) /\ Cardinality(ParThreads') <= Cardinality(parJobs)
        /\ Cardinality(Threads') <= Cardinality(threads)
        /\ Cardinality(ParJobs') \in Nat /\ Cardinality(ParThreads') \in Nat /\ Cardinality(Threads') \in Nat
        /\ Cardinality(parJobs) \in Nat /\ Cardinality(threads) \in Nat
    <3> DEFINE P == ParJobs'
               Q == ParThreads'
               R == Threads'
    <3> HIDE DEF P, Q, R
    <3>1. P \subseteq parJobs /\ Q \subseteq parJobs /\ R \subseteq threads
      BY <2>1, <2>2, <2>3 DEF P, Q, R
    <3>2. /\ Cardinality(P) <= Cardinality(parJobs) /\ Cardinality(Q) <= Cardinality(parJobs)
          /\ Cardinality(R) <= Cardinality(threads)
          /\ Cardinality(P) \in Nat /\ Cardinality(Q) \in Nat /\ Cardinality(R) \in Nat
          /\ Cardinality(parJobs) \in Nat /\ Cardinality(threads) \in Nat
      BY <2>4, <3>1, Shrinks
    <3> QED BY <3>2 DEF P, Q, R
  <2> QED BY <2>5, LimitsAre DEF Within
<1>8. Turn'
  <2>1. ASSUME NEW h \in active' PROVE job'[h].in
    <3>1. h \in A
      BY <1>2
    <3> QED BY <1>3, <3>1
  <2> QED BY <2>1 DEF Turn
<1>9. Books'
  <2>1. In' = In \ over
    <3>1. ASSUME NEW h \in A PROVE job[h].in
      BY DEF Ready
    <3>2. ASSUME NEW h \in Groups PROVE job'[h].in <=> job[h].in /\ h \notin over
      <4>1. CASE h \in A
        BY <1>3, <3>1, <4>1
      <4>2. CASE h \notin A
        BY <1>4, <4>2
      <4> QED BY <4>1, <4>2
    <3> QED BY <3>2 DEF In
  <2>2. over \subseteq In
    BY <1>1 DEF In, Ready
  <2>3. IsFiniteSet(In) /\ IsFiniteSet(over)
    BY <2>2, PostOptions, FS_Subset DEF In
  <2>4. /\ Cardinality(In') = Cardinality(In) - Cardinality(over)
        /\ Cardinality(In) \in Nat /\ Cardinality(over) \in Nat /\ Cardinality(Groups) \in Nat
        /\ Cardinality(over) <= Cardinality(In)
    <3>1. In \cap over = over
      BY <2>2
    <3> HIDE DEF In
    <3>2. Cardinality(In \ over) = Cardinality(In) - Cardinality(In \cap over)
      BY <2>3, FS_Difference
    <3> QED BY <2>1, <2>2, <2>3, <3>1, <3>2, Shrinks, PostOptions, FS_CardinalityType
  <2> HIDE DEF In
  <2> QED BY <1>2, <2>4 DEF Inv, Books
<1>10. Announcements'
  <2>1. ASSUME NEW h \in Announced(scripts)' PROVE (thread[h] = "none" \/ job[h].stage = "queued")'
    <3>1. h \in Groups
      BY <2>1 DEF Announced
    <3> QED BY <1>5, <2>1, <3>1 DEF Fits, ScriptsFit
  <2> QED BY <2>1 DEF Inv, Announcements
<1>11. LockedByResumeOnly'
  BY DEF LockedByResumeOnly
<1> QED BY <1>5, <1>6, <1>7, <1>8, <1>9, <1>10, <1>11 DEF Inv, Good

LEMMA CheckPostQueueStep ==
    ASSUME Inv, CheckPostQueue
    PROVE  Inv'
<1>1. /\ ~broken /\ runner = "idle" /\ (\A g \in active : job[g].in) /\ CleanupJobs(job, thread, active)
      /\ UNCHANGED <<files, health, du, runner, scripts, pausePost, broken, edits, asked>>
      /\ UNCHANGED more /\ lock' \in {"free", "runner"}
  BY DEF CheckPostQueue
<1>2. /\ job \in [Groups -> Job]
      /\ thread \in [Groups -> {"none", "run", "verify", "request", "mark", "wait", "repair", "ended"}]
      /\ active \in SUBSET Groups
      /\ more' \in [Groups -> [file : BOOLEAN, changed : BOOLEAN, requested : BOOLEAN]]
  BY <1>1 DEF Inv, Types
<1>3. ASSUME NEW h \in active PROVE Ready(h, job[h], thread[h])
  <2>1. Fits(h) /\ job[h] \in Job /\ job[h].in
    BY <1>1, <1>2 DEF Inv, Good
  <2> QED BY <1>2, <2>1 DEF Ready, Fits, JobFits, ThreadFits, UnpackFits, ScriptsFit, ParThread, ParStep, Running
<1>4. ParJobs \in SUBSET Groups /\ Threads \in SUBSET Groups
  BY <1>2 DEF ParJobs, Threads
<1>5. Cardinality(ParJobs) <= MaxPars /\ Cardinality(Threads) <= MaxThreads
  BY <1>1 DEF Inv, Good, Within
<1>6. \A h \in active : job[h].stage \in ParStages => h \in ParJobs
  BY DEF ParJobs
<1>7. ASSUME NEW h \in Groups, ParStep(thread[h]) PROVE h \in ParJobs
  <2>1. ThreadFits(h) /\ Running(h) /\ ParThread(h)
    BY <1>1, <1>7 DEF Inv, Good, Fits, Running, ParThread, ParStep
  <2>2. h \in active
    BY <2>1 DEF ThreadFits
  <2> QED BY <1>1, <2>1, <2>2 DEF ThreadFits, ParJobs
<1>8. \A h \in Groups : thread[h] \notin {"none", "ended"} => h \in Threads
  BY DEF Threads, Running
<1>9. \A h \in Groups \ active : h \notin active /\ job[h] = job[h] /\ thread[h] = thread[h]
  OBVIOUS
<1>10. \A h \in Groups : job[h].in <=> job[h].in
  OBVIOUS
<1> HIDE DEF ParJobs, Threads
<1> QED BY <1>1, <1>2, <1>3, <1>4, <1>5, <1>6, <1>7, <1>8, <1>9, <1>10, CleanupStep

LEMMA CheckPostQueueCrashesStep ==
    ASSUME Inv, CheckPostQueueCrashes
    PROVE  Inv'
<1>1. /\ broken' = TRUE
      /\ UNCHANGED <<place, files, parPaused, health, job, thread, stopped, more, du, active, queuedJobs,
                     runner, lock, scripts, pausePost, edits, asked>>
  BY DEF CheckPostQueueCrashes
<1> QED BY <1>1 DEF Inv, Types, Books, In, Announcements, LockedByResumeOnly

LEMMA StepIs ==
    ASSUME NEW g, NEW allowPar
    PROVE  /\ Step(g, allowPar) \in {"noPar", "needPar", "skipPar", "askPar", "parRename", "checking",
                                     "rarRename", "unpack", "cleanup", "move", "rename", "script"}
           /\ Step(g, allowPar) = "checking" => allowPar /\ job[g].par = "none"
BY DEF Step

\* A branch that enters a stage leaves a working job there, any other one none that asks for what
\* the post-processor would not answer at once.
LEMMA StartJobIs ==
    ASSUME NEW g \in Groups, job[g] \in Job, job[g].in, ~job[g].deleted,
           NEW step \in {"noPar", "needPar", "skipPar", "askPar", "parRename", "checking",
                         "rarRename", "unpack", "cleanup", "move", "rename", "script"}
    PROVE  /\ StartJob(g, step) \in Job /\ StartJob(g, step).in /\ ~StartJob(g, step).deleted
           /\ step \in Stages => /\ StartJob(g, step).stage = step /\ StartJob(g, step).working
                                 /\ StartJob(g, step).askPar <=> job[g].askPar
           /\ step \notin Stages => (StartJob(g, step).working <=> job[g].working)
<1> DEFINE j == job[g]
           k == StartJob(g, step)
           Keeps(r) == r \in Job /\ r.in /\ ~r.deleted /\ (r.working <=> j.working)
<1>1. CASE step \in {"noPar", "needPar", "skipPar", "askPar"}
  <2> DEFINE skipped == [j EXCEPT !.par = "skipped"]
             needed == [j EXCEPT !.needPar = TRUE]
             failed == [j EXCEPT !.par = "failure"]
             asks == [j EXCEPT !.askPar = TRUE]
             entered == Entered(g, step)
  <2>1. Keeps(skipped) /\ Keeps(needed) /\ Keeps(failed) /\ Keeps(asks)
    BY DEF Job
  <2>2. k = CASE step = "noPar" -> skipped [] step = "needPar" -> needed [] step = "skipPar" -> failed
              [] step = "askPar" -> asks [] step \in Stages -> entered
    BY DEF StartJob
  <2> HIDE DEF Keeps, k, skipped, needed, failed, asks, entered
  <2>3. step \notin Stages
    BY <1>1 DEF Stages, ParStages
  <2>4. k \in {skipped, needed, failed, asks}
    BY <1>1, <2>2, <2>3
  <2>5. Keeps(k)
    BY <2>1, <2>4
  <2> QED BY <2>3, <2>5 DEF Keeps, k
<1>2. CASE step \notin {"noPar", "needPar", "skipPar", "askPar"}
  <2>1. step \in Stages
    BY <1>2 DEF Stages, ParStages
  <2> DEFINE needPar == j.needPar /\ step # "checking"
             unpack == IF WantsUnpack(j) /\ ParLost(j) /\ step = "script" THEN "skipped" ELSE j.unpack
             e == [j EXCEPT !.working = TRUE, !.stage = step, !.needPar = needPar, !.unpack = unpack]
  <2>2. needPar \in BOOLEAN /\ unpack \in {"none", "skipped", "success", "failure"}
    BY JobFields
  <2>3. k = e
    BY <1>2, <2>1 DEF StartJob, Entered
  <2> HIDE DEF needPar, unpack
  <2>4. e \in Job
    BY <2>1, <2>2 DEF Job
  <2>5. e.in /\ ~e.deleted /\ e.working /\ e.stage = step /\ (e.askPar <=> j.askPar)
    BY DEF Job
  <2> HIDE DEF e, k
  <2>6. k \in Job /\ k.in /\ ~k.deleted /\ k.working /\ k.stage = step /\ (k.askPar <=> j.askPar)
    BY <2>3, <2>4, <2>5
  <2> QED BY <2>1, <2>6 DEF k
<1> QED BY <1>1, <1>2

\* A group without queue-scripts is not announced as complete.
LEMMA NotAnnounced ==
    ASSUME ScriptsWait(scripts), NEW g \in Groups, ~HasJob(scripts, g)
    PROVE  g \notin Announced(scripts)
<1> SUFFICES ASSUME NEW item \in Pending(scripts), item.nzb = g PROVE FALSE
  BY DEF Announced
<1>1. item \in Items /\ item # NoItem
  BY ScriptOptions DEF Pending
<1>2. CASE item = scripts.cur
  BY <1>1, <1>2 DEF HasJob
<1>3. CASE item \in Range(scripts.queue)
  <2>1. PICK i \in DOMAIN scripts.queue : scripts.queue[i] = item
    BY <1>3 DEF Range
  <2> QED BY <2>1 DEF HasJob
<1> QED BY <1>2, <1>3 DEF Pending

\* What CanRunMoreJobs and AllowPar leave room for.
LEMMA StartCounts ==
    ASSUME Inv, Good, CanRunMoreJobs(job, active), NEW g \in Groups, g \notin active
    PROVE  /\ Cardinality(active \union {g}) <= MaxThreads
           /\ AllowPar(job, active) => Cardinality(ParJobs \union {g}) <= MaxPars
<1>1. /\ IsFiniteSet(active) /\ IsFiniteSet(ParJobs) /\ ParJobs \subseteq active
      /\ Cardinality(active) \in Nat /\ Cardinality(ParJobs) \in Nat
      /\ Cardinality(ParJobs) <= Cardinality(active)
  <2>1. IsFiniteSet(active) /\ ParJobs \subseteq active
    BY FS_Subset, PostOptions DEF Inv, Types, ParJobs
  <2> HIDE DEF ParJobs
  <2> QED BY <2>1, Shrinks
<1>2. /\ Cardinality(active \union {g}) = Cardinality(active) + 1
      /\ Cardinality(ParJobs \union {g}) = Cardinality(ParJobs) + 1
  <2>1. g \notin ParJobs
    BY <1>1
  <2> QED BY <1>1, <2>1, FS_AddElement
<1>3. StageJobs(job, active, ParStages) = Cardinality(ParJobs)
  BY DEF StageJobs, ParJobs
<1>4. Cardinality(ParJobs) <= MaxPars
  BY DEF Good, Within
<1>5. active = {} => Cardinality(active) = 0
  BY FS_EmptySet
<1> DEFINE n == Cardinality(active)
           p == Cardinality(ParJobs)
<1>6. /\ Strategy = "sequential" => n = 0
      /\ Strategy = "balanced" => n = p
      /\ Strategy = "aggressive" => n < 3
      /\ Strategy = "rocket" => n < 6
  BY <1>3, <1>5 DEF CanRunMoreJobs
<1>7. AllowPar(job, active) => /\ Strategy = "balanced" => p = 0
                               /\ Strategy = "aggressive" => p < 1
                               /\ Strategy = "rocket" => p < 2
  BY <1>3 DEF AllowPar
<1>8. n \in Nat /\ p \in Nat /\ p <= n /\ p <= MaxPars
  BY <1>1, <1>4
<1> HIDE DEF n, p
<1>9. n + 1 <= MaxThreads
  BY <1>6, <1>8, PostOptions DEF MaxThreads, MaxPars
<1>10. AllowPar(job, active) => p + 1 <= MaxPars
  BY <1>6, <1>7, <1>8, PostOptions DEF MaxPars
<1> QED BY <1>2, <1>9, <1>10 DEF n, p

LEMMA StartNextJobStep ==
    ASSUME Inv, NEW g \in Groups, StartNextJob(g)
    PROVE  Inv'
<1> DEFINE allowPar == AllowPar(job, active)
           step == Step(g, allowPar)
           k == StartJob(g, step)
           j == Set(job, g, k)
           t == IF step \in Stages THEN Set(thread, g, StartThread(step)) ELSE thread
           A == active \union {g}
           pars == IF step = "checking" THEN ParJobs \union {g} ELSE ParJobs
<1>1. /\ lock = "runner" /\ ~broken /\ CanRunMoreJobs(job, active)
      /\ g \in PickNextJob(job, active, allowPar) /\ CleanupJobs(j, t, A)
      /\ UNCHANGED <<files, health, du, runner, scripts, pausePost, broken, edits, asked>>
      /\ lock' \in {"free", "runner"}
      /\ more' = IF step = "checking" THEN Set(more, g, NoMore) ELSE more
  BY DEF StartNextJob
<1>2. /\ job \in [Groups -> Job]
      /\ thread \in [Groups -> {"none", "run", "verify", "request", "mark", "wait", "repair", "ended"}]
      /\ active \in SUBSET Groups
      /\ more \in [Groups -> [file : BOOLEAN, changed : BOOLEAN, requested : BOOLEAN]]
  BY DEF Inv, Types
<1>3. Good /\ runner = "idle" /\ \A h \in active : job[h].in
  BY <1>1 DEF Inv, Good, Turn
<1>4. /\ place[g] = "queue" /\ job[g].in /\ ~job[g].working /\ ~HasJob(scripts, g)
      /\ du[g].status # "running" /\ g \notin active
  BY <1>1 DEF PickNextJob, UnpackerDone
<1>5. /\ Fits(g) /\ job[g] \in Job /\ job[g].working \in BOOLEAN
      /\ ~Running(g) /\ ~job[g].deleted /\ files[g] \subseteq {"par"} /\ g \notin Announced(scripts)
  <2>1. Fits(g) /\ job[g] \in Job /\ ScriptsWait(scripts)
    BY <1>2, <1>3 DEF Good, Inv, Announcements
  <2>2. g \notin Announced(scripts)
    BY <1>4, <2>1, NotAnnounced
  <2> QED BY <1>4, <2>1, <2>2, JobFields DEF Fits, JobFits, ThreadFits
<1>6. /\ step \in {"noPar", "needPar", "skipPar", "askPar", "parRename", "checking",
                   "rarRename", "unpack", "cleanup", "move", "rename", "script"}
      /\ step = "checking" => allowPar /\ job[g].par = "none"
  <2> HIDE DEF allowPar
  <2> QED BY StepIs
<1> HIDE DEF step, allowPar
<1>7. /\ k \in Job /\ k.in /\ ~k.deleted
      /\ step \in Stages => k.stage = step /\ k.working /\ (k.askPar <=> job[g].askPar)
      /\ step \notin Stages => (k.working <=> job[g].working)
  BY <1>4, <1>5, <1>6, StartJobIs
<1> HIDE DEF k
<1>8. /\ j \in [Groups -> Job] /\ j[g] = k /\ \A h \in Groups \ {g} : j[h] = job[h]
  BY <1>2, <1>7 DEF Set
<1>9. /\ t \in [Groups -> {"none", "run", "verify", "request", "mark", "wait", "repair", "ended"}]
      /\ \A h \in Groups \ {g} : t[h] = thread[h]
      /\ step \in Stages => t[g] = StartThread(step)
      /\ step \notin Stages => t[g] = thread[g]
  BY <1>2 DEF Set, StartThread
<1>10. A \in SUBSET Groups /\ pars \in SUBSET Groups
  BY <1>2 DEF ParJobs
<1>11. "checking" \in Stages /\ "checking" \in ParStages
       /\ (step \in ParStages => step = "checking") /\ (step = "checking" => StartThread(step) = "verify")
       /\ (step # "checking" => StartThread(step) = "run")
  BY <1>6 DEF Stages, ParStages, StartThread
<1> HIDE DEF j, t
<1>12. ASSUME NEW h \in A PROVE Ready(h, j[h], t[h])
  <2>1. CASE h = g
    <3>1. /\ t[g] \in {"none", "run", "verify", "request", "mark", "wait", "repair", "ended"}
          /\ ParStep(t[g]) => step = "checking"
      <4>1. ~ParStep(thread[g])
        BY <1>5 DEF ParStep, Running
      <4>2. step \in Stages /\ step # "checking" => ~ParStep(t[g])
        BY <1>9, <1>11 DEF ParStep
      <4> QED BY <1>9, <4>1, <4>2
    <3>2. step = "checking" => ~k.askPar /\ k.stage \in ParStages /\ k.working
      BY <1>4, <1>5, <1>6, <1>7, <1>11 DEF Fits, JobFits, ParOpen
    <3>3. ~Unpacks(g) /\ (du[g].pc # "off" => files[g] = {}) /\ (du[g].attached => Unpacks(g))
      BY <1>4, <1>5 DEF Fits, UnpackFits, Unpacks
    <3> HIDE DEF A, pars
    <3>4. j[h] = k
      BY <1>8, <2>1
    <3> QED BY <1>4, <1>5, <1>7, <2>1, <3>1, <3>2, <3>3, <3>4 DEF Ready
  <2>2. CASE h # g
    <3>1. Fits(h) /\ job[h] \in Job /\ job[h].in /\ h \in active /\ j[h] = job[h] /\ t[h] = thread[h]
      BY <1>2, <1>3, <1>8, <1>9, <2>2 DEF Good
    <3> QED BY <1>2, <3>1 DEF Ready, Fits, JobFits, ThreadFits, UnpackFits, ScriptsFit, ParThread,
                              ParStep, Running
  <2> QED BY <2>1, <2>2
<1>13. \A h \in Groups \ A : h \notin active /\ j[h] = job[h] /\ t[h] = thread[h]
  BY <1>8, <1>9
<1>14. \A h \in Groups : j[h].in <=> job[h].in
  BY <1>4, <1>7, <1>8
<1>15. more' \in [Groups -> [file : BOOLEAN, changed : BOOLEAN, requested : BOOLEAN]]
  BY <1>1, <1>2 DEF Set, NoMore
<1>16. Cardinality(A) <= MaxThreads /\ Cardinality(pars) <= MaxPars
  <2>1. Cardinality(A) <= MaxThreads /\ (allowPar => Cardinality(ParJobs \union {g}) <= MaxPars)
    BY <1>1, <1>3, <1>4, StartCounts DEF allowPar
  <2>2. Cardinality(ParJobs) <= MaxPars
    BY <1>3 DEF Good, Within
  <2> QED BY <1>6, <2>1, <2>2
<1>17. ASSUME NEW h \in A, j[h].stage \in ParStages, j[h].working \/ t[h] \notin {"none", "ended"}
       PROVE  h \in pars
  <2>1. CASE h = g
    <3>1. step \in Stages
      BY <1>4, <1>5, <1>7, <1>8, <1>9, <1>17, <2>1 DEF Running
    <3>2. step = "checking"
      BY <1>7, <1>8, <1>11, <1>17, <2>1, <3>1
    <3> QED BY <2>1, <3>2
  <2>2. CASE h # g
    BY <1>8, <1>10, <1>17, <2>2 DEF ParJobs
  <2> QED BY <2>1, <2>2
<1>18. ASSUME NEW h \in Groups, ParStep(t[h]) PROVE h \in pars
  <2>1. CASE h = g
    <3>1. step = "checking"
      BY <1>5, <1>9, <1>11, <1>18, <2>1 DEF ParStep, Running
    <3> QED BY <2>1, <3>1
  <2>2. CASE h # g
    <3>1. ThreadFits(h) /\ ParThread(h) /\ Running(h)
      BY <1>3, <1>9, <1>18, <2>2 DEF Good, Fits, ParThread, ParStep, Running
    <3>2. h \in active
      BY <3>1 DEF ThreadFits
    <3>3. h \in ParJobs
      BY <1>3, <3>1, <3>2 DEF ThreadFits, ParJobs
    <3> QED BY <3>3
  <2> QED BY <2>1, <2>2
<1>19. ASSUME NEW h \in Groups, t[h] \notin {"none", "ended"} PROVE h \in A
  <2>1. CASE h = g
    BY <2>1
  <2>2. CASE h # g
    BY <1>3, <1>9, <1>19, <2>2 DEF Good, Fits, ThreadFits, Running
  <2> QED BY <2>1, <2>2
<1> HIDE DEF A, pars
<1> QED BY <1>1, <1>3, <1>8, <1>9, <1>10, <1>12, <1>13, <1>14, <1>15, <1>16, <1>17, <1>18, <1>19,
           CleanupStep
-----------------------------------------------------------------------------
(* The invariant, and what it says. *)

LEMMA InitInv ==
    ASSUME Init
    PROVE  Inv
<1>1. /\ place \in [Groups -> {"queue", "history"}]
      /\ files \in [Groups -> {{}} \union {fs \in SUBSET (Volumes \union {"par"}) : "vol2" \in fs}]
      /\ \A g \in Groups : place[g] = "history" <=> files[g] = {}
      /\ parPaused = [g \in Groups |-> ParCheck # "force"]
      /\ health \in [Groups -> Healths]
      /\ job = [g \in Groups |-> NoJob]
      /\ thread = [g \in Groups |-> "none"]
      /\ stopped = [g \in Groups |-> FALSE]
      /\ more = [g \in Groups |-> NoMore]
      /\ du = [g \in Groups |-> NoUnpack]
      /\ active = {} /\ queuedJobs = 0 /\ runner = "loading"
      /\ lock = "free" /\ scripts = Idle
      /\ pausePost = FALSE /\ broken = FALSE /\ edits = 0 /\ asked = {}
  BY DEF Init
<1>2. NoJob \in Job
  BY DEF NoJob, Job, Stages, ParStages
<1>3. NoUnpack \in DirectUnpack
  BY DEF NoUnpack, DirectUnpack
<1>4. NoMore \in [file : BOOLEAN, changed : BOOLEAN, requested : BOOLEAN]
  BY DEF NoMore
<1>5. Types
  <2>1. files \in [Groups -> SUBSET (Volumes \union {"par"})]
    BY <1>1
  <2>2. edits \in 0..MaxEdits
    BY <1>1, PostOptions
  <2>3. job \in [Groups -> Job] /\ du \in [Groups -> DirectUnpack]
        /\ more \in [Groups -> [file : BOOLEAN, changed : BOOLEAN, requested : BOOLEAN]]
    BY <1>1, <1>2, <1>3, <1>4
  <2> QED BY <1>1, <2>1, <2>2, <2>3 DEF Types
<1>6. /\ ~NoJob.in /\ NoJob.stage = "queued" /\ ~NoJob.working /\ ~NoJob.deleted /\ ~NoJob.askPar
      /\ NoUnpack.status = "none" /\ ~NoUnpack.attached /\ NoUnpack.pc = "off"
  BY DEF NoJob, NoUnpack
<1>7. \A h \in Groups : /\ job[h] = NoJob /\ du[h] = NoUnpack /\ thread[h] = "none"
                        /\ (place[h] = "queue" => files[h] # {})
  BY <1>1
<1>8. In = {} /\ ParJobs = {} /\ ParThreads = {} /\ Threads = {}
  BY <1>1, <1>6, <1>7 DEF In, ParJobs, ParThreads, Threads, ParThread, Running
<1>9. Cardinality({}) = 0
  BY FS_EmptySet
<1>10. Books
  BY <1>1, <1>8, <1>9 DEF Books
<1>11. ScriptsWait(scripts) /\ Announced(scripts) = {}
  BY <1>1, IdleScripts
<1>12. Within /\ Turn
  BY <1>1, <1>8, <1>9, LimitsAre DEF Within, Turn
<1>13. ASSUME NEW h \in Groups PROVE Fits(h)
  BY <1>1, <1>6, <1>7, <1>11, <1>13
     DEF Fits, JobFits, ThreadFits, UnpackFits, ScriptsFit, Running, ParThread, Unpacks
<1> QED BY <1>1, <1>5, <1>10, <1>11, <1>12, <1>13 DEF Inv, Announcements, LockedByResumeOnly, Good

LEMMA NextInv ==
    ASSUME Inv, [Next]_vars
    PROVE  Inv'
<1>1. CASE RunnerStep
  BY <1>1, SanitisePostQueueStep, CheckPostQueueStep, CheckPostQueueCrashesStep, StartNextJobStep
     DEF RunnerStep
<1>2. CASE UserStep
  BY <1>2, PausePostStep, RestartStep, StopPostJobStep, DeletePostJobStep, ResumeParsStep, MarkBadStep,
     DeleteFileStep DEF UserStep
<1>3. CASE QueueScriptEnds
  BY <1>3, QueueScriptEndsStep
<1>4. ASSUME NEW g \in Groups, Download(g)
      PROVE  Inv'
  BY <1>4, FileCompletedStep, FileCompletedBlocksStep DEF Download
<1>5. ASSUME NEW g \in Groups, StageStep(g) \/ UnpackerStep(g)
      PROVE  Inv'
  BY <1>5, StageInv, UnpackerInv
<1>6. CASE UNCHANGED vars
  BY <1>6 DEF vars, Inv, Types, Books, Announcements, LockedByResumeOnly, Good, Within, Turn, Fits,
     JobFits, ThreadFits, UnpackFits, ScriptsFit, In, ParJobs, ParThreads, Threads, ParThread, Running, Unpacks
<1> QED BY <1>1, <1>2, <1>3, <1>4, <1>5, <1>6 DEF Next, ProgramStep

LEMMA InvHolds == Spec => []Inv
<1>1. Init => Inv
  BY InitInv
<1>2. Inv /\ [Next]_vars => Inv'
  BY NextInv
<1> QED BY <1>1, <1>2, PTL DEF Spec

\* The post-processor's thread never sleeps over a job: whoever adds, ends, deletes or reloads jobs
\* (JobCompleted, PostQueueDelete, SanitisePostQueue), m_queuedJobs counts at least those there are.
THEOREM PostJobsCounted == Spec => []JobsCounted
<1>1. ASSUME Inv PROVE JobsCounted
  <2> DEFINE waiting == {g \in Groups : place[g] = "queue" /\ job[g].in}
  <2>1. IsFiniteSet(Groups) /\ In \subseteq Groups /\ waiting \subseteq In
    BY PostOptions DEF In
  <2>2. /\ Cardinality(In) \in Nat /\ Cardinality(Groups) \in Nat /\ Cardinality(waiting) \in Nat
        /\ Cardinality(waiting) <= Cardinality(In) /\ Cardinality(In) <= Cardinality(Groups)
    <3> HIDE DEF waiting
    <3>1. IsFiniteSet(In)
      BY <2>1, FS_Subset
    <3> QED BY <2>1, <3>1, Shrinks
  <2>3. queuedJobs \in 0..(2 * Cardinality(Groups))
    BY <1>1, <2>2 DEF Inv, Books, Types
  <2>4. scripts \in [cur : Items \union {NoItem}, queue : Seq(Items)]
    BY <1>1 DEF Inv, Announcements, ScriptsWait, Coordinator
  <2>5. TypeOK
    BY <1>1, <2>3, <2>4 DEF Inv, Types, TypeOK
  <2>6. JobsNotForgotten
    BY <1>1, <2>2 DEF Inv, Books, JobsNotForgotten
  <2> QED BY <2>5, <2>6 DEF JobsCounted
<1> QED BY <1>1, InvHolds, PTL

\* However jobs are started, stopped, deleted and asked to be checked again, while no freed memory was
\* used no stage works beside its group's direct unpacker, and CanRunMoreJobs keeps the number of
\* stages and of par-checks within what PostStrategy allows.
THEOREM PostStagesWithinStrategy == Spec => []StagesWithinStrategy
<1>1. ASSUME Inv, ~broken
      PROVE  LET running == {g \in Groups : thread[g] \notin {"none", "ended"}}
                 pars == {g \in running : thread[g] # "run"}
             IN /\ \A g \in running : du[g].status # "running"
                /\ Cardinality(running) <= MaxThreads
                /\ Cardinality(pars) <= MaxPars
  <2> DEFINE running == {g \in Groups : thread[g] \notin {"none", "ended"}}
             pars == {g \in running : thread[g] # "run"}
  <2>1. \A g \in Groups : Fits(g)
    BY <1>1 DEF Inv, Good
  <2>2. \A g \in running : du[g].status # "running"
    BY <2>1 DEF Fits, UnpackFits, Unpacks, Running
  <2>3. running = Threads
    BY DEF Threads, Running
  <2>4. pars = ParThreads
    BY <1>1 DEF Inv, Types, ParThreads, ParThread
  <2>5. Cardinality(Threads) <= MaxThreads /\ Cardinality(ParThreads) <= MaxPars
    BY <1>1 DEF Inv, Good, Within
  <2> QED BY <2>2, <2>3, <2>4, <2>5
<1>2. ASSUME Inv PROVE StagesWithinStrategy
  BY <1>1, <1>2 DEF StagesWithinStrategy, MaxThreads, MaxPars
<1> QED BY <1>2, InvHolds, PTL

\* A script that learns that a download is complete and may mark it as bad (PickNextJob, HasJob) is
\* not overtaken by a stage of that download's post-processing.
THEOREM PostScriptsBeforeStages == Spec => []ScriptsBeforeStages
<1>1. ASSUME Inv PROVE ScriptsBeforeStages
  <2>1. ScriptsWait(scripts) /\ \A g \in Announced(scripts) : thread[g] = "none" \/ job[g].stage = "queued"
    BY <1>1 DEF Inv, Announcements
  <2>2. ASSUME NEW g \in Groups, scripts.cur # NoItem, scripts.cur.nzb = g,
               scripts.cur.event = "NzbDownloaded"
        PROVE  g \in Announced(scripts)
    <3>1. scripts.cur \in Pending(scripts)
      BY <2>1, <2>2 DEF ScriptsWait, Coordinator, Pending
    <3> QED BY <2>2, <3>1 DEF Announced
  <2> QED BY <2>1, <2>2 DEF ScriptsBeforeStages, ScriptsWait
<1> QED BY <1>1, InvHolds, PTL

\* The queue coordinator, in FileCompleted, and a direct unpacker, in Stop, wait for each other only if
\* par-files of a group were resumed after its download was complete but for them.
THEOREM PostLockedByResumeOnly == Spec => []LockedByResumeOnly
<1>1. Inv => LockedByResumeOnly
  BY DEF Inv
<1> QED BY <1>1, InvHolds, PTL
================================================================================

------------------------- MODULE QueueCoordinatorProofs -------------------------
(***************************************************************************)
(* Proofs about the download queue, for any groups, files and articles,    *)
(* any number of downloaders and of edits.                                 *)
(***************************************************************************)
EXTENDS QueueCoordinator, FiniteSetTheorems, SequenceTheorems, TLAPS

-----------------------------------------------------------------------------
(* Lists and sums. *)

(***************************************************************************)
(* The members of a list are the elements at its positions.                *)
(***************************************************************************)
LEMMA Members ==
    ASSUME NEW T, NEW s \in Seq(T)
    PROVE  /\ Len(s) \in Nat /\ DOMAIN s = 1..Len(s)
           /\ \A i \in 1..Len(s) : s[i] \in T /\ s[i] \in ToSet(s)
           /\ \A e \in ToSet(s) : e \in T /\ \E i \in 1..Len(s) : s[i] = e
BY DEF ToSet

(***************************************************************************)
(* The members of two lists put together are those of both.                *)
(***************************************************************************)
LEMMA JoinedIs ==
    ASSUME NEW T, NEW s \in Seq(T), NEW t \in Seq(T)
    PROVE  s \o t \in Seq(T) /\ ToSet(s \o t) = ToSet(s) \cup ToSet(t)
<1> DEFINE r == s \o t
<1>1. /\ Len(s) \in Nat /\ DOMAIN s = 1..Len(s) /\ Len(t) \in Nat /\ DOMAIN t = 1..Len(t)
      /\ r \in Seq(T) /\ Len(r) = Len(s) + Len(t) /\ DOMAIN r = 1..(Len(s) + Len(t))
      /\ \A i \in 1..(Len(s) + Len(t)) : r[i] = IF i <= Len(s) THEN s[i] ELSE t[i - Len(s)]
  BY Members
<1> HIDE DEF r
<1>2. ASSUME NEW i \in DOMAIN r PROVE r[i] \in ToSet(s) \cup ToSet(t)
  <2>1. CASE i <= Len(s)
    <3>1. r[i] = s[i] /\ i \in DOMAIN s
      BY <1>1, <2>1
    <3> QED BY <3>1 DEF ToSet
  <2>2. CASE ~(i <= Len(s))
    <3>1. r[i] = t[i - Len(s)] /\ i - Len(s) \in DOMAIN t
      BY <1>1, <2>2
    <3> QED BY <3>1 DEF ToSet
  <2> QED BY <2>1, <2>2
<1>3. \A i \in DOMAIN s : i \in DOMAIN r /\ r[i] = s[i]
  BY <1>1
<1>4. ASSUME NEW i \in DOMAIN t PROVE i + Len(s) \in DOMAIN r /\ r[i + Len(s)] = t[i]
  <2>1. /\ i + Len(s) \in 1..(Len(s) + Len(t)) /\ ~(i + Len(s) <= Len(s))
        /\ (i + Len(s)) - Len(s) = i
    BY <1>1
  <2> QED BY <1>1, <2>1
<1>5. ToSet(r) = ToSet(s) \cup ToSet(t)
  BY <1>2, <1>3, <1>4 DEF ToSet
<1> QED BY <1>1, <1>5 DEF r

(***************************************************************************)
(* A list of one element.                                                  *)
(***************************************************************************)
LEMMA SingleIs == ASSUME NEW T, NEW e \in T PROVE <<e>> \in Seq(T) /\ ToSet(<<e>>) = {e}
BY DEF ToSet

(***************************************************************************)
(* A nonempty set of numbers has a least element.                          *)
(***************************************************************************)
LEMMA LeastNumber ==
    ASSUME NEW M \in SUBSET Nat, M # {}
    PROVE  \E m \in M : \A k \in M : m <= k
<1> DEFINE R == OpToRel(<, Nat)
<1>1. IsWellFoundedOn(R, Nat)
  BY NatLessThanWellFounded
<1>2. PICK m \in M : \A k \in M : ~(<<k, m>> \in R)
  <2> HIDE DEF R
  <2> QED BY <1>1, WFMin
<1>3. \A k \in M : ~(k < m)
  BY <1>2 DEF OpToRel
<1> QED BY <1>3

(***************************************************************************)
(* A smallest one among finite sets that share a property.                 *)
(***************************************************************************)
LEMMA SmallestSet ==
    ASSUME NEW F, F # {}, \A s \in F : IsFiniteSet(s)
    PROVE  \E s \in F : \A t \in F : Cardinality(s) <= Cardinality(t)
<1> DEFINE M == {Cardinality(s) : s \in F}
<1>1. M \in SUBSET Nat /\ M # {}
  BY FS_CardinalityType
<1>2. PICK m \in M : \A k \in M : m <= k
  <2> HIDE DEF M
  <2> QED BY <1>1, LeastNumber
<1> QED BY <1>2

(***************************************************************************)
(* A recursive function over the positions of a list exists: the parts of  *)
(* Selected and of BestFiles are the values of one.                        *)
(***************************************************************************)
LEMMA SelectedIs ==
    ASSUME NEW T, NEW s \in Seq(T), NEW S
    PROVE  Selected(s, S) \in Seq(T) /\ ToSet(Selected(s, S)) = ToSet(s) \cap S
<1> DEFINE N == Len(s)
           Value(u, n) == IF n = 0 THEN <<>>
                          ELSE IF s[n] \in S THEN Append(u[n - 1], s[n])
                          ELSE u[n - 1]
           Good(m, u) == \A n \in 0..m : u[n] = Value(u, n)
           Upto == CHOOSE u : u = [n \in 0..N |-> Value(u, n)]
<1>1. N \in Nat /\ DOMAIN s = 1..N /\ \A n \in 1..N : s[n] \in T
  BY Members
<1>2. \A m \in 0..N : \E u \in [0..m -> Seq(T)] : Good(m, u)
  <2> DEFINE None == {m \in 0..N : ~\E u \in [0..m -> Seq(T)] : Good(m, u)}
  <2> SUFFICES ASSUME None # {} PROVE FALSE
    OBVIOUS
  <2>1. PICK m \in None : \A k \in None : m <= k
    <3>1. None \in SUBSET Nat
      BY <1>1
    <3> HIDE DEF None
    <3> QED BY <3>1, LeastNumber
  <2>2. m \in 0..N /\ ~\E u \in [0..m -> Seq(T)] : Good(m, u)
    BY <2>1
  <2>3. CASE m = 0
    <3> DEFINE u == [n \in 0..0 |-> <<>>]
    <3>1. u \in [0..m -> Seq(T)] /\ Good(m, u)
      BY <2>3
    <3> QED BY <3>1, <2>2
  <2>4. CASE m # 0
    <3>0. m - 1 \in 0..N /\ m \in 1..N /\ m \in Nat
      BY <1>1, <2>2, <2>4
    <3>1. m - 1 \notin None
      <4> HIDE DEF None
      <4> QED BY <2>1, <3>0
    <3>2. PICK u \in [0..(m - 1) -> Seq(T)] : Good(m - 1, u)
      <4> HIDE DEF Good
      <4> QED BY <3>0, <3>1
    <3> DEFINE w == [n \in 0..m |-> IF n = m THEN Value(u, m) ELSE u[n]]
    <3>3. Value(u, m) \in Seq(T)
      <4>1. s[m] \in T
        BY <1>1, <3>0
      <4>2. u[m - 1] \in Seq(T)
        <5> HIDE DEF Good
        <5> QED BY <3>0, <3>2
      <4> QED BY <4>1, <4>2, <2>4
    <3>4. w \in [0..m -> Seq(T)]
      <4> HIDE DEF Value, Good
      <4>1. \A n \in 0..m : n # m => n \in 0..(m - 1)
        BY <3>0
      <4> QED BY <3>2, <3>3, <4>1
    <3>5. ASSUME NEW n \in 0..m PROVE w[n] = Value(w, n)
      <4>1. CASE n = m
        BY <4>1, <3>0
      <4>2. CASE n # m
        <5>1. n \in 0..(m - 1) /\ w[n] = u[n] /\ (n # 0 => w[n - 1] = u[n - 1])
          BY <4>2, <3>0
        <5> QED BY <5>1, <3>2
      <4> QED BY <4>1, <4>2
    <3> HIDE DEF w
    <3> QED BY <2>2, <3>4, <3>5
  <2> QED BY <2>3, <2>4
<1>3. PICK u \in [0..N -> Seq(T)] : Good(N, u)
  <2> HIDE DEF Good
  <2> QED BY <1>1, <1>2
<1>4. u = [n \in 0..N |-> Value(u, n)]
  BY <1>3
<1>5. Upto = [n \in 0..N |-> Value(Upto, n)]
  BY <1>4
<1>6. Selected(s, S) = Upto[N]
  BY DEF Selected
<1> HIDE DEF Upto
<1> DEFINE Before(k) == {s[i] : i \in 1..k} \cap S
           Fine(k) == Upto[k] \in Seq(T) /\ ToSet(Upto[k]) = Before(k)
<1>7. ASSUME NEW n \in 0..N PROVE Fine(n)
  <2> DEFINE Bad == {k \in 0..N : ~Fine(k)}
  <2> SUFFICES ASSUME Bad # {} PROVE FALSE
    OBVIOUS
  <2>1. PICK m \in Bad : \A k \in Bad : m <= k
    <3>1. Bad \in SUBSET Nat
      BY <1>1
    <3> HIDE DEF Bad
    <3> QED BY <3>1, LeastNumber
  <2>2. m \in 0..N /\ ~Fine(m) /\ Upto[m] = Value(Upto, m)
    BY <1>5, <2>1
  <2>3. m # 0
    <3>1. Upto[0] = <<>>
      BY <1>1, <1>5
    <3>2. Before(0) = {} /\ ToSet(<<>>) = {}
      BY DEF ToSet
    <3>3. Fine(0)
      BY <3>1, <3>2
    <3> HIDE DEF Fine
    <3> QED BY <2>2, <3>3
  <2>4. m \in 1..N /\ m - 1 \in 0..N /\ Fine(m - 1)
    <3> HIDE DEF Fine
    <3> QED BY <1>1, <2>1, <2>2, <2>3
  <2>5. Before(m) = Before(m - 1) \union ({s[m]} \cap S)
    <3>1. 1..m = 1..(m - 1) \union {m}
      BY <1>1, <2>4
    <3> QED BY <3>1
  <2>6. /\ Upto[m - 1] \in Seq(T) /\ ToSet(Upto[m - 1]) = Before(m - 1)
        /\ Upto[m] = IF s[m] \in S THEN Append(Upto[m - 1], s[m]) ELSE Upto[m - 1]
        /\ s[m] \in T
    BY <1>1, <2>2, <2>3, <2>4
  <2> DEFINE before == Upto[m - 1]
             last == s[m]
  <2>7. /\ Append(before, last) \in Seq(T)
        /\ ToSet(Append(before, last)) = ToSet(before) \cup {last}
    <3>1. before \in Seq(T) /\ last \in T
      BY <2>6
    <3> HIDE DEF before, last
    <3>2. Append(before, last) = before \o <<last>>
      BY <3>1, AppendIsConcat
    <3> DEFINE one == <<last>>
    <3>3. one \in Seq(T) /\ ToSet(one) = {last} /\ Append(before, last) = before \o one
      BY <3>1, <3>2, SingleIs
    <3> HIDE DEF one
    <3> QED BY <3>1, <3>3, JoinedIs
  <2>8. Upto[m] \in Seq(T) /\ ToSet(Upto[m]) = Before(m)
    <3> HIDE DEF Before, Upto
    <3> QED BY <2>5, <2>6, <2>7
  <2>9. Fine(m)
    <3> HIDE DEF Before, Upto
    <3> QED BY <2>8
  <2> HIDE DEF Fine
  <2> QED BY <2>2, <2>9
<1>8. Fine(N)
  <2> HIDE DEF Fine
  <2> QED BY <1>1, <1>7
<1>9. Before(N) = ToSet(s) \cap S
  BY <1>1 DEF ToSet
<1> QED BY <1>6, <1>8, <1>9

(***************************************************************************)
(* A list from which a group was taken has its other members.              *)
(***************************************************************************)
LEMMA WithoutIs ==
    ASSUME NEW s \in Seq(Nzbs), NEW n
    PROVE  Without(s, n) \in Seq(Nzbs) /\ ToSet(Without(s, n)) = ToSet(s) \ {n}
<1>1. ToSet(s) \subseteq Nzbs
  BY Members
<1> QED BY <1>1, SelectedIs DEF Without

(***************************************************************************)
(* A group inserted at any place joins the members of the list.            *)
(***************************************************************************)
LEMMA InsertedIs ==
    ASSUME NEW s \in Seq(Nzbs), NEW n \in Nzbs, NEW i \in 1..(Len(s) + 1)
    PROVE  /\ InsertAt(s, i, n) \in Seq(Nzbs)
           /\ ToSet(InsertAt(s, i, n)) = ToSet(s) \cup {n}
<1> DEFINE a == SubSeq(s, 1, i - 1)
           b == SubSeq(s, i, Len(s))
<1>0. Len(s) \in Nat /\ DOMAIN s = 1..Len(s) /\ \A k \in 1..Len(s) : s[k] \in Nzbs
  BY Members
<1>1. a \in Seq(Nzbs) /\ Len(a) = i - 1 /\ \A k \in 1..(i - 1) : a[k] = s[k]
  BY <1>0
<1>2. /\ b \in Seq(Nzbs) /\ Len(b) = Len(s) - i + 1
      /\ \A k \in 1..(Len(s) - i + 1) : b[k] = s[i + k - 1]
  BY <1>0
<1> HIDE DEF a, b
<1>3. DOMAIN a = 1..(i - 1) /\ DOMAIN b = 1..(Len(s) - i + 1)
  BY <1>1, <1>2
<1>4. ToSet(a) \cup ToSet(b) = ToSet(s)
  <2>1. \A k \in DOMAIN a : k \in DOMAIN s /\ a[k] = s[k]
    BY <1>0, <1>1, <1>3
  <2>2. \A k \in DOMAIN b : i + k - 1 \in DOMAIN s /\ b[k] = s[i + k - 1]
    BY <1>0, <1>2, <1>3
  <2>3. ASSUME NEW k \in DOMAIN s PROVE s[k] \in ToSet(a) \cup ToSet(b)
    <3>1. CASE k < i
      <4>1. k \in DOMAIN a /\ a[k] = s[k]
        BY <1>0, <1>1, <1>3, <3>1
      <4> QED BY <4>1 DEF ToSet
    <3>2. CASE ~(k < i)
      <4>1. k - i + 1 \in 1..(Len(s) - i + 1) /\ i + (k - i + 1) - 1 = k
        BY <1>0, <3>2
      <4>2. k - i + 1 \in DOMAIN b /\ b[k - i + 1] = s[k]
        BY <1>2, <1>3, <4>1
      <4> QED BY <4>2 DEF ToSet
    <3> QED BY <3>1, <3>2
  <2> QED BY <2>1, <2>2, <2>3 DEF ToSet
<1> DEFINE c == <<n>>
<1>5. c \in Seq(Nzbs) /\ ToSet(c) = {n}
  BY SingleIs
<1>8. InsertAt(s, i, n) = (a \o c) \o b
  BY DEF InsertAt, a, b
<1> HIDE DEF c
<1>6. a \o c \in Seq(Nzbs) /\ ToSet(a \o c) = ToSet(a) \cup {n}
  BY <1>1, <1>5, JoinedIs
<1> DEFINE ac == a \o c
<1> HIDE DEF ac
<1>7. ac \o b \in Seq(Nzbs) /\ ToSet(ac \o b) = (ToSet(a) \cup {n}) \cup ToSet(b)
  <2>1. ac \in Seq(Nzbs) /\ ToSet(ac) = ToSet(a) \cup {n}
    BY <1>6 DEF ac
  <2> QED BY <1>2, <2>1, JoinedIs
<1> QED BY <1>4, <1>7, <1>8 DEF ac

(***************************************************************************)
(* A sum of integers is one.                                               *)
(***************************************************************************)
LEMMA SumIsInt ==
    ASSUME NEW S, IsFiniteSet(S), NEW v, \A x \in S : v[x] \in Int
    PROVE  SumFunctionOnSet(v, S) \in Int
<1> DEFINE pick(s) == CHOOSE x \in s : TRUE
           Value(u, s) == IF s = {} THEN 0 ELSE v[pick(s)] + u[s \ {pick(s)}]
           Good(m, u) == \A s \in SUBSET S : Cardinality(s) <= m => u[s] = Value(u, s)
           Upto == CHOOSE u : u = [s \in SUBSET S |-> Value(u, s)]
<1>1. SumFunctionOnSet(v, S) = Upto[S]
  BY DEF SumFunctionOnSet, FoldFunctionOnSet, MapThenFoldSet
<1>2. ASSUME NEW s \in SUBSET S, s # {}
      PROVE  /\ pick(s) \in s /\ s \ {pick(s)} \in SUBSET S /\ v[pick(s)] \in Int
             /\ IsFiniteSet(s) /\ Cardinality(s) \in Nat
             /\ Cardinality(s \ {pick(s)}) = Cardinality(s) - 1
  <2>1. pick(s) \in s /\ IsFiniteSet(s)
    BY <1>2, FS_Subset
  <2> HIDE DEF pick
  <2> QED BY <1>2, <2>1, FS_RemoveElement, FS_CardinalityType
<1>3. \A s \in SUBSET S : IsFiniteSet(s) /\ Cardinality(s) \in Nat /\ (Cardinality(s) = 0 <=> s = {})
  <2> TAKE s \in SUBSET S
  <2>1. IsFiniteSet(s)
    BY FS_Subset
  <2>2. Cardinality(s) \in Nat
    BY <2>1, FS_CardinalityType
  <2>3. Cardinality(s) = 0 <=> s = {}
    BY <2>1, FS_EmptySet
  <2> QED BY <2>1, <2>2, <2>3
<1> HIDE DEF pick
<1>4. ASSUME NEW u \in [SUBSET S -> Int], NEW s \in SUBSET S PROVE Value(u, s) \in Int
  <2>1. CASE s = {}
    BY <2>1
  <2>2. CASE s # {}
    <3>1. v[pick(s)] \in Int /\ s \ {pick(s)} \in SUBSET S
      BY <1>2, <2>2
    <3>2. u[s \ {pick(s)}] \in Int
      BY <3>1
    <3> QED BY <2>2, <3>1, <3>2
  <2> QED BY <2>1, <2>2
<1>5. \A m \in Nat : \E u \in [SUBSET S -> Int] : Good(m, u)
  <2> DEFINE None == {m \in Nat : ~\E u \in [SUBSET S -> Int] : Good(m, u)}
  <2> SUFFICES ASSUME None # {} PROVE FALSE
    OBVIOUS
  <2>1. PICK m \in None : \A k \in None : m <= k
    <3>1. None \in SUBSET Nat
      OBVIOUS
    <3> HIDE DEF None
    <3> QED BY <3>1, LeastNumber
  <2>2. m \in Nat /\ ~\E u \in [SUBSET S -> Int] : Good(m, u)
    BY <2>1
  <2>3. CASE m = 0
    <3> DEFINE u == [s \in SUBSET S |-> 0]
    <3>1. u \in [SUBSET S -> Int]
      OBVIOUS
    <3>2. ASSUME NEW s \in SUBSET S, Cardinality(s) <= m PROVE u[s] = Value(u, s)
      <4>1. s = {}
        BY <1>3, <2>3, <3>2
      <4> QED BY <4>1
    <3> HIDE DEF Value, u
    <3> QED BY <2>2, <3>1, <3>2
  <2>4. CASE m # 0
    <3>1. m - 1 \in Nat /\ ~(m <= m - 1)
      BY <2>2, <2>4
    <3>2. PICK u \in [SUBSET S -> Int] : Good(m - 1, u)
      <4>1. m - 1 \notin None
        <5> HIDE DEF None
        <5> QED BY <2>1, <3>1
      <4> HIDE DEF Good
      <4> QED BY <3>1, <4>1
    <3> DEFINE w == [s \in SUBSET S |-> IF Cardinality(s) <= m - 1 THEN u[s] ELSE Value(u, s)]
    <3>3. w \in [SUBSET S -> Int]
      <4> HIDE DEF Value, Good
      <4> QED BY <1>4, <3>2
    <3>4. ASSUME NEW s \in SUBSET S, Cardinality(s) <= m PROVE w[s] = Value(w, s)
      <4>1. w[s] = Value(u, s)
        <5> HIDE DEF Value
        <5> QED BY <3>2
      <4>2. CASE s = {}
        BY <4>1, <4>2
      <4>3. CASE s # {}
        <5>1. s \ {pick(s)} \in SUBSET S /\ Cardinality(s \ {pick(s)}) <= m - 1
          BY <1>2, <2>2, <3>4, <4>3
        <5>2. w[s \ {pick(s)}] = u[s \ {pick(s)}]
          BY <5>1
        <5> HIDE DEF w
        <5> QED BY <4>1, <4>3, <5>2
      <4> QED BY <4>2, <4>3
    <3> HIDE DEF w, Value
    <3> QED BY <2>2, <3>3, <3>4
  <2> QED BY <2>3, <2>4
<1>6. \E u \in [SUBSET S -> Int] : u = [s \in SUBSET S |-> Value(u, s)]
  <2>1. Cardinality(S) \in Nat /\ \A s \in SUBSET S : Cardinality(s) <= Cardinality(S)
    BY FS_CardinalityType, FS_Subset
  <2>2. PICK u \in [SUBSET S -> Int] : Good(Cardinality(S), u)
    <3> HIDE DEF Good
    <3> QED BY <1>5, <2>1
  <2>3. \A s \in SUBSET S : u[s] = Value(u, s)
    <3> HIDE DEF Value
    <3> QED BY <2>1, <2>2
  <2> HIDE DEF Value
  <2> QED BY <2>3
<1>7. Upto = [s \in SUBSET S |-> Value(Upto, s)]
  BY <1>6
<1> HIDE DEF Upto
<1> DEFINE Bad == {s \in SUBSET S : Upto[s] \notin Int}
<1>8. CASE Bad # {}
  <2>1. PICK s \in Bad : \A t \in Bad : Cardinality(s) <= Cardinality(t)
    <3>1. \A s \in Bad : IsFiniteSet(s)
      BY <1>3
    <3> HIDE DEF Bad
    <3> QED BY <1>8, <3>1, SmallestSet
  <2>2. s \in SUBSET S /\ Upto[s] \notin Int /\ Upto[s] = Value(Upto, s)
    BY <1>7, <2>1
  <2>3. s # {}
    BY <2>2
  <2>4. s \ {pick(s)} \notin Bad
    <3>1. Cardinality(s \ {pick(s)}) < Cardinality(s)
      BY <1>2, <2>2, <2>3
    <3> HIDE DEF Bad
    <3> QED BY <1>2, <1>3, <2>1, <2>2, <2>3, <3>1
  <2>5. Upto[s \ {pick(s)}] \in Int
    BY <1>2, <2>2, <2>3, <2>4
  <2> QED BY <1>2, <2>2, <2>3, <2>5
<1>9. CASE Bad = {}
  BY <1>1, <1>9
<1> QED BY <1>8, <1>9

-----------------------------------------------------------------------------
(* Recursive functions.                                                    *)

(***************************************************************************)
(* What holds of everything of which it holds when it holds of everything  *)
(* of a lower rank, holds of all.                                          *)
(***************************************************************************)
LEMMA RankInduction ==
    ASSUME NEW X, NEW rank \in [X -> Nat], NEW P,
           \A x \in X : (\A y \in X : rank[y] < rank[x] => y \in P) => x \in P
    PROVE  X \subseteq P
<1> DEFINE M == {rank[x] : x \in X \ P}
<1> SUFFICES ASSUME M # {} PROVE FALSE
  OBVIOUS
<1>1. M \in SUBSET Nat
  OBVIOUS
<1>2. PICK m \in M : \A k \in M : m <= k
  <2> HIDE DEF M
  <2> QED BY <1>1, LeastNumber
<1>3. PICK x \in X \ P : rank[x] = m
  BY <1>2
<1>4. \A y \in X : rank[y] < rank[x] => y \in P
  <2> TAKE y \in X
  <2>1. y \notin P => rank[y] \in M
    OBVIOUS
  <2>2. rank[y] \in Nat /\ rank[x] \in Nat
    OBVIOUS
  <2> HIDE DEF M
  <2> QED BY <1>2, <1>3, <2>1, <2>2
<1> QED BY <1>3, <1>4

\* The value G[x, u] at x depends only on the values of the function u at
\* arguments of lower ranks, and ranks are at most B.
Recursive(X, V, rank, B, G) ==
    /\ B \in Nat /\ V # {}
    /\ rank \in [X -> Nat] /\ \A x \in X : rank[x] <= B
    /\ G \in [X \X [X -> V] -> V]
    /\ \A x \in X : \A u, w \in [X -> V] :
          (\A y \in X : rank[y] < rank[x] => u[y] = w[y]) => G[<<x, u>>] = G[<<x, w>>]

Solution(X, V, G, u) == u \in [X -> V] /\ \A x \in X : u[x] = G[<<x, u>>]

(***************************************************************************)
(* A recursive function exists.                                            *)
(***************************************************************************)
LEMMA RecursionExists ==
    ASSUME NEW X, NEW V, NEW rank, NEW B, NEW G, Recursive(X, V, rank, B, G)
    PROVE  \E u : Solution(X, V, G, u)
<1> USE DEF Recursive
<1> DEFINE Good(m, u) == \A x \in X : rank[x] < m => u[x] = G[<<x, u>>]
           None == {m \in Nat : ~\E u \in [X -> V] : Good(m, u)}
<1>0. \A x \in X : rank[x] \in Nat
  OBVIOUS
<1>1. None = {}
  <2> SUFFICES ASSUME None # {} PROVE FALSE
    OBVIOUS
  <2>1. PICK m \in None : \A k \in None : m <= k
    <3>1. None \in SUBSET Nat
      OBVIOUS
    <3> HIDE DEF None
    <3> QED BY <3>1, LeastNumber
  <2>2. m \in Nat /\ ~\E u \in [X -> V] : Good(m, u)
    BY <2>1
  <2>3. m # 0
    <3>1. PICK v \in V : TRUE
      OBVIOUS
    <3> DEFINE u == [x \in X |-> v]
    <3>2. u \in [X -> V] /\ Good(0, u)
      BY <1>0
    <3> HIDE DEF Good
    <3> QED BY <2>2, <3>2
  <2>4. m - 1 \in Nat /\ ~(m <= m - 1)
    BY <2>2, <2>3
  <2>5. m - 1 \notin None
    <3> HIDE DEF None
    <3> QED BY <2>1, <2>4
  <2>6. PICK u \in [X -> V] : Good(m - 1, u)
    <3> HIDE DEF Good
    <3> QED BY <2>4, <2>5
  <2> DEFINE w == [x \in X |-> G[<<x, u>>]]
  <2>7. w \in [X -> V]
    OBVIOUS
  <2>8. ASSUME NEW x \in X, rank[x] < m PROVE w[x] = G[<<x, w>>]
    <3>1. ASSUME NEW y \in X, rank[y] < rank[x] PROVE u[y] = w[y]
      <4>1. rank[y] < m - 1
        BY <1>0, <2>2, <2>8, <3>1
      <4> QED BY <2>6, <4>1
    <3>2. G[<<x, u>>] = G[<<x, w>>]
      <4> HIDE DEF w
      <4> QED BY <2>7, <3>1
    <3> QED BY <3>2
  <2> HIDE DEF w
  <2> QED BY <2>2, <2>7, <2>8
<1>2. PICK u \in [X -> V] : Good(B + 1, u)
  <2>1. B + 1 \in Nat
    OBVIOUS
  <2> HIDE DEF Good
  <2> QED BY <1>1, <2>1
<1>3. \A x \in X : rank[x] < B + 1
  BY <1>0
<1>4. Solution(X, V, G, u)
  BY <1>2, <1>3 DEF Solution
<1> HIDE DEF Recursive
<1> QED BY <1>4

-----------------------------------------------------------------------------
(***************************************************************************)
(* The inductive invariant.  Q is a queue, D what the downloaders do and A *)
(* the groups added so far, so that it can be stated of the values that    *)
(* occur between two calls of a handler.                                   *)
(***************************************************************************)
\* What is assumed of the edits: every merge is a "quietMerge".  It meets no
\* downloader that has read the group and not yet locked the queue, and
\* goes into no group being parked.  Without it the theorems do not hold.
MergesAreQuiet == "merge" \notin EditKinds

Work == [pc : {"idle", "running", "notifying", "completing"},
         file : Files \cup {NoFile}, part : Nat, nzb : Nzbs \cup {NoNzb},
         stopped : BOOLEAN, status : {"none", "finished", "failed", "retry"}]

ActiveIn(D, f) == {d \in Downloaders : D[d].file = f}

ActiveOf(Q, D, n) ==
    {d \in Downloaders : D[d].file # NoFile /\ Q.file[D[d].file].nzb = n}

Fetching(D, d) == D[d].pc \in {"running", "notifying"}

Done(Q, f) ==
    {a \in 1 .. NumArticles[f] : Q.file[f].article[a] \in {"finished", "failed"}}

FilesCounted(Q, D) ==
    \A f \in Files :
        /\ Len(Q.file[f].article) = NumArticles[f]
        /\ Q.file[f].activeDownloads = Cardinality(ActiveIn(D, f))
        /\ Q.file[f].completedArticles = Cardinality(Done(Q, f))
        /\ Q.file[f].remaining = NumArticles[f] - Cardinality(Done(Q, f))

GroupsCounted(Q, D, A) ==
    \A n \in Nzbs :
        /\ InQueue(Q, n) =>
             n \in A /\ Q.nzb[n].activeDownloads = Cardinality(ActiveOf(Q, D, n))
        /\ n \notin A => Q.nzb[n].activeDownloads = 0 /\ ~Q.nzb[n].parking
        /\ Q.nzb[n].parking =>
             \A f \in Files : Q.file[f].nzb = n => Q.file[f].deleted

\* A file that exists belongs to a group in the queue or to one not yet added.
FilesHaveGroups(Q, A) ==
    \A f \in Files :
        Q.file[f].nzb # NoNzb => InQueue(Q, Q.file[f].nzb) \/ Q.file[f].nzb \notin A

DownloaderFine(Q, D, d) ==
    LET f == D[d].file
    IN  /\ D[d].pc = "idle" => f = NoFile
        /\ D[d].pc # "idle" => f \in Files /\ InQueue(Q, Q.file[f].nzb)
        /\ D[d].nzb = IF D[d].pc = "notifying" THEN Q.file[f].nzb ELSE NoNzb
        /\ Fetching(D, d) => /\ D[d].part \in 1 .. NumArticles[f]
                             /\ Q.file[f].article[D[d].part] = "running"
        /\ D[d].pc = "notifying" => D[d].status # "none"

ArticlesOwned(Q, D) ==
    /\ \A d, e \in Downloaders :
          d # e /\ D[d].file = D[e].file /\ Fetching(D, d) /\ Fetching(D, e)
          => D[d].part # D[e].part
    /\ \A f \in Files : \A a \in 1 .. NumArticles[f] :
          Q.file[f].article[a] = "running" =>
              \E d \in ActiveIn(D, f) : Fetching(D, d) /\ D[d].part = a

Core(Q, D, A) ==
    /\ Q \in DownloadQueue /\ D \in [Downloaders -> Work] /\ A \subseteq Nzbs
    /\ FilesCounted(Q, D) /\ GroupsCounted(Q, D, A) /\ FilesHaveGroups(Q, A)
    /\ \A d \in Downloaders : DownloaderFine(Q, D, d)
    /\ ArticlesOwned(Q, D)

NoneLeft(Q, f) == \A a \in 1 .. NumArticles[f] : Q.file[f].article[a] # "undefined"

\* The downloader that joins a file is the last one of it.
JoinsAlone(Q, D, d) ==
    D[d].pc = "completing" =>
        /\ ActiveIn(D, D[d].file) = {d}
        /\ Q.file[D[d].file].deleted \/ NoneLeft(Q, D[d].file)

Sound(Q, D, A) == Core(Q, D, A) /\ \A d \in Downloaders : JoinsAlone(Q, D, d)

QueueInv == Sound(q, dl, added) /\ edits \in 0 .. MaxEdits

(***************************************************************************)
(* What the helpers of the handlers do to a queue as far as the downloaders*)
(* D are concerned: files may be deleted and leave their group when nobody *)
(* works on them, and a group leaves the queue without files.              *)
(***************************************************************************)
Follows(Q, R, D) ==
    /\ R \in DownloadQueue
    /\ \A f \in Files :
          /\ R.file[f].article = Q.file[f].article
          /\ R.file[f].activeDownloads = Q.file[f].activeDownloads
          /\ R.file[f].completedArticles = Q.file[f].completedArticles
          /\ R.file[f].remaining = Q.file[f].remaining
          /\ Q.file[f].deleted => R.file[f].deleted
          /\ \/ R.file[f].nzb = Q.file[f].nzb
             \/ R.file[f].nzb = NoNzb /\ ActiveIn(D, f) = {}
    /\ \A n \in Nzbs :
          /\ R.nzb[n].activeDownloads = Q.nzb[n].activeDownloads
          /\ R.nzb[n].parking =>
               \/ Q.nzb[n].parking
               \/ /\ InQueue(Q, n)
                  /\ \A f \in Files : R.file[f].nzb = n => R.file[f].deleted
          /\ InQueue(R, n) => InQueue(Q, n)
          /\ InQueue(Q, n) => InQueue(R, n) \/ \A f \in Files : R.file[f].nzb # n

-----------------------------------------------------------------------------
(* What GetNextArticle returns.                                            *)

Candidates(checked) == {f \in Files \ checked : Queued(f) /\ ~q.file[f].deleted}

(***************************************************************************)
(* What GetNextArticle chooses among is no file or one of the candidates.  *)
(***************************************************************************)
LEMMA BestFilesAre ==
    ASSUME q \in DownloadQueue, NEW checked
    PROVE  BestFiles(checked) \subseteq {NoFile} \cup Candidates(checked)
<1> DEFINE N == Len(q.queue)
           X == 0 .. N
           V == SUBSET ({NoFile} \cup Candidates(checked))
           Value(i, u) == IF i = 0 THEN {NoFile}
                          ELSE UNION {ScanNzb(b, q.queue[i], checked) : b \in u[i - 1]}
           G == [p \in X \X [X -> V] |-> Value(p[1], p[2])]
           scan == CHOOSE u : u = [i \in X |-> Value(i, u)]
           rank == [i \in X |-> i]
<1>1. q.queue \in Seq(Nzbs) /\ N \in Nat /\ \A i \in 1 .. N : q.queue[i] \in Nzbs
  <2>1. q.queue \in Seq(Nzbs)
    BY DEF DownloadQueue
  <2> QED BY <2>1, Members
<1>2. ASSUME NEW i \in 1 .. N, NEW b \in {NoFile} \cup Candidates(checked)
      PROVE  ScanNzb(b, q.queue[i], checked) \in V
  <2>1. InQueue(q, q.queue[i])
    BY <1>1 DEF InQueue, Contains
  <2>2. {f \in FilesOf(q, q.queue[i]) \ checked : ~q.file[f].deleted} \subseteq Candidates(checked)
    BY <2>1 DEF Candidates, FilesOf, Queued
  <2>3. ScanNzb(b, q.queue[i], checked) \subseteq
          {b} \cup {f \in FilesOf(q, q.queue[i]) \ checked : ~q.file[f].deleted}
    BY DEF ScanNzb
  <2> QED BY <2>2, <2>3
<1>3. ASSUME NEW i \in X, NEW u, i # 0 => u[i - 1] \in V PROVE Value(i, u) \in V
  <2>1. CASE i = 0
    BY <2>1
  <2>2. CASE i # 0
    <3>1. i \in 1 .. N /\ u[i - 1] \subseteq {NoFile} \cup Candidates(checked)
      BY <1>1, <1>3, <2>2
    <3>2. \A b \in u[i - 1] : ScanNzb(b, q.queue[i], checked) \in V
      <4> HIDE DEF V
      <4> QED BY <1>2, <3>1
    <3> QED BY <2>2, <3>2
  <2> QED BY <2>1, <2>2
<1>4. \A i \in X : i # 0 => i - 1 \in X /\ i - 1 < i
  BY <1>1
<1>5. \E u \in [X -> V] : \A i \in X : u[i] = Value(i, u)
  <2>1. G \in [X \X [X -> V] -> V]
    <3>1. ASSUME NEW p \in X \X [X -> V] PROVE Value(p[1], p[2]) \in V
      <4>1. p[1] \in X /\ p[2] \in [X -> V]
        OBVIOUS
      <4>2. p[1] # 0 => p[2][p[1] - 1] \in V
        <5> HIDE DEF X, V
        <5> QED BY <1>4, <4>1
      <4> HIDE DEF X, V, Value
      <4> QED BY <1>3, <4>1, <4>2
    <3> HIDE DEF X, V, Value
    <3> QED BY <3>1
  <2>2. \A i \in X : \A u \in [X -> V] : G[<<i, u>>] = Value(i, u)
    <3> HIDE DEF X, V, Value
    <3> QED OBVIOUS
  <2>3. rank \in [X -> Nat] /\ V # {} /\ \A i \in X : rank[i] <= N
    BY <1>1
  <2>4. ASSUME NEW i \in X, NEW u \in [X -> V], NEW w \in [X -> V],
               \A j \in X : rank[j] < rank[i] => u[j] = w[j]
        PROVE  G[<<i, u>>] = G[<<i, w>>]
    <3>1. i # 0 => u[i - 1] = w[i - 1]
      BY <1>4, <2>4
    <3>2. Value(i, u) = Value(i, w)
      BY <3>1
    <3> HIDE DEF X, V, Value, G
    <3> QED BY <2>2, <3>2
  <2>5. Recursive(X, V, rank, N, G)
    <3>1. N \in Nat
      BY <1>1
    <3> HIDE DEF X, V, G, rank, N
    <3> QED BY <3>1, <2>1, <2>3, <2>4 DEF Recursive
  <2>6. PICK u : Solution(X, V, G, u)
    <3> HIDE DEF X, V, G, rank, N
    <3> QED BY <2>5, RecursionExists
  <2> HIDE DEF X, V, G, Value
  <2> QED BY <2>2, <2>6 DEF Solution
<1>6. scan = [i \in X |-> Value(i, scan)]
  <2>1. \E u : u = [i \in X |-> Value(i, u)]
    <3>1. PICK u \in [X -> V] : \A i \in X : u[i] = Value(i, u)
      <4> HIDE DEF X, V, Value
      <4> QED BY <1>5
    <3>2. u = [i \in X |-> Value(i, u)]
      <4> HIDE DEF X, V, Value
      <4> QED BY <3>1
    <3> HIDE DEF X, V, Value
    <3> QED BY <3>2
  <2> HIDE DEF X, V, Value
  <2> QED BY <2>1
<1>7. BestFiles(checked) = scan[N]
  BY DEF BestFiles
<1> HIDE DEF scan
<1> DEFINE P == {i \in X : scan[i] \in V}
<1>8. ASSUME NEW i \in X, \A j \in X : rank[j] < rank[i] => j \in P PROVE i \in P
  <2>1. i # 0 => scan[i - 1] \in V
    BY <1>4, <1>8
  <2>2. Value(i, scan) \in V
    <3> HIDE DEF X, V, Value
    <3> QED BY <1>3, <2>1
  <2>3. scan[i] = Value(i, scan)
    <3> HIDE DEF X, V, Value
    <3> QED BY <1>6
  <2> HIDE DEF Value, X, V
  <2> QED BY <2>2, <2>3
<1>9. X \subseteq P
  <2>1. rank \in [X -> Nat]
    BY <1>1
  <2> HIDE DEF X, P, rank
  <2> QED BY <1>8, <2>1, RankInduction
<1> QED BY <1>1, <1>7, <1>9

(***************************************************************************)
(* The files that GetNextArticle may return are in the queue, not deleted  *)
(* and have an article left.                                               *)
(***************************************************************************)
LEMMA NextFilesAre ==
    ASSUME q \in DownloadQueue, NEW f \in NextFiles \ {NoFile}
    PROVE  f \in Files /\ Queued(f) /\ ~q.file[f].deleted /\ HasArticles(f)
<1> DEFINE Wanted == {g \in Files : Queued(g) /\ ~q.file[g].deleted /\ HasArticles(g)}
           X == SUBSET Files
           V == SUBSET ({NoFile} \cup Wanted)
           Value(s, u) == UNION {IF g = NoFile \/ HasArticles(g) THEN {g}
                                 ELSE u[s \cup {g}] : g \in BestFiles(s)}
           G == [p \in X \X [X -> V] |-> Value(p[1], p[2])]
           next == CHOOSE u : u = [s \in X |-> Value(s, u)]
           rank == [s \in X |-> Cardinality(Files \ s)]
           N == Cardinality(Files)
<1>1. \A s \in X : Cardinality(Files \ s) \in Nat /\ Cardinality(Files \ s) <= N
  <2> TAKE s \in X
  <2>1. IsFiniteSet(Files) /\ Files \ s \subseteq Files
    BY QueueAssumption
  <2>2. IsFiniteSet(Files \ s) /\ Cardinality(Files \ s) <= N
    BY <2>1, FS_Subset
  <2> QED BY <2>2, FS_CardinalityType
<1>2. \A s \in X : \A g \in BestFiles(s) \ {NoFile} :
         /\ g \in Files /\ Queued(g) /\ ~q.file[g].deleted
         /\ s \cup {g} \in X /\ Cardinality(Files \ (s \cup {g})) < Cardinality(Files \ s)
  <2> TAKE s \in X
  <2> TAKE g \in BestFiles(s) \ {NoFile}
  <2>1. g \in Candidates(s)
    BY BestFilesAre
  <2>2. g \in Files \ s /\ Queued(g) /\ ~q.file[g].deleted
    BY <2>1 DEF Candidates
  <2>3. IsFiniteSet(Files \ s)
    BY QueueAssumption, FS_Difference
  <2>4. Cardinality((Files \ s) \ {g}) = Cardinality(Files \ s) - 1
    BY <2>2, <2>3, FS_RemoveElement
  <2>5. (Files \ s) \ {g} = Files \ (s \cup {g})
    OBVIOUS
  <2>6. Cardinality(Files \ s) \in Nat
    BY <1>1
  <2>7. Cardinality(Files \ (s \cup {g})) < Cardinality(Files \ s)
    <3> DEFINE k == Cardinality(Files \ s)
    <3>1. k - 1 < k
      BY <2>6
    <3> QED BY <2>4, <2>5, <3>1, Zenon
  <2>8. s \cup {g} \in X
    BY <2>2
  <2> QED BY <2>2, <2>7, <2>8
<1>3. ASSUME NEW s \in X, NEW u,
             \A g \in BestFiles(s) \ {NoFile} : u[s \cup {g}] \in V
      PROVE  Value(s, u) \in V
  <2>1. ASSUME NEW g \in BestFiles(s)
        PROVE  (IF g = NoFile \/ HasArticles(g) THEN {g} ELSE u[s \cup {g}]) \in V
    <3>1. g # NoFile => g \in Files /\ Queued(g) /\ ~q.file[g].deleted /\ u[s \cup {g}] \in V
      BY <1>2, <1>3
    <3>2. HasArticles(g) /\ g # NoFile => g \in Wanted
      BY <3>1
    <3> QED BY <3>1, <3>2
  <2> QED BY <2>1
<1>4. rank \in [X -> Nat] /\ \A s \in X : rank[s] = Cardinality(Files \ s)
  BY <1>1
<1> HIDE DEF Value, rank
<1>5. \E u : u = [s \in X |-> Value(s, u)]
  <2>1. G \in [X \X [X -> V] -> V]
    <3>1. ASSUME NEW p \in X \X [X -> V] PROVE Value(p[1], p[2]) \in V
      <4>1. p[1] \in X /\ p[2] \in [X -> V]
        OBVIOUS
      <4>2. \A g \in BestFiles(p[1]) \ {NoFile} : p[2][p[1] \cup {g}] \in V
        <5> HIDE DEF X, V
        <5> QED BY <1>2, <4>1
      <4> HIDE DEF X, V
      <4> QED BY <1>3, <4>1, <4>2
    <3> HIDE DEF X, V
    <3> QED BY <3>1
  <2>2. \A s \in X : \A u \in [X -> V] : G[<<s, u>>] = Value(s, u)
    <3> HIDE DEF X, V
    <3> QED OBVIOUS
  <2>4. ASSUME NEW s \in X, NEW u \in [X -> V], NEW w \in [X -> V],
               \A t \in X : rank[t] < rank[s] => u[t] = w[t]
        PROVE  G[<<s, u>>] = G[<<s, w>>]
    <3>1. ASSUME NEW g \in BestFiles(s) \ {NoFile} PROVE u[s \cup {g}] = w[s \cup {g}]
      <4>1. s \cup {g} \in X /\ Cardinality(Files \ (s \cup {g})) < Cardinality(Files \ s)
        BY <1>2
      <4> HIDE DEF X
      <4>2. rank[s \cup {g}] < rank[s]
        BY <1>4, <4>1
      <4> QED BY <2>4, <4>1, <4>2
    <3>2. \A g \in BestFiles(s) :
             (IF g = NoFile \/ HasArticles(g) THEN {g} ELSE u[s \cup {g}])
             = (IF g = NoFile \/ HasArticles(g) THEN {g} ELSE w[s \cup {g}])
      BY <3>1
    <3>3. Value(s, u) = Value(s, w)
      <4> HIDE DEF X, V
      <4> QED BY <3>2 DEF Value
    <3> HIDE DEF X, V, G
    <3> QED BY <2>2, <3>3
  <2>5. Recursive(X, V, rank, N, G)
    <3>1. N \in Nat
      BY QueueAssumption, FS_CardinalityType
    <3>2. V # {} /\ \A s \in X : rank[s] <= N
      BY <1>1, <1>4
    <3> HIDE DEF X, V, G, N
    <3> QED BY <3>1, <3>2, <1>4, <2>1, <2>4 DEF Recursive
  <2>6. PICK u : Solution(X, V, G, u)
    <3> HIDE DEF X, V, G, N
    <3> QED BY <2>5, RecursionExists
  <2>7. u = [s \in X |-> Value(s, u)]
    <3> HIDE DEF X, V, G
    <3> QED BY <2>2, <2>6 DEF Solution
  <2> HIDE DEF X
  <2> QED BY <2>7
<1>6. next = [s \in X |-> Value(s, next)]
  <2> HIDE DEF X
  <2> QED BY <1>5
<1>7. NextFiles = next[{}]
  BY DEF NextFiles, Value
<1> HIDE DEF next
<1> DEFINE P == {s \in X : next[s] \in V}
<1>8. ASSUME NEW s \in X, \A t \in X : rank[t] < rank[s] => t \in P PROVE s \in P
  <2>1. ASSUME NEW g \in BestFiles(s) \ {NoFile} PROVE next[s \cup {g}] \in V
    <3>1. s \cup {g} \in X /\ Cardinality(Files \ (s \cup {g})) < Cardinality(Files \ s)
      BY <1>2
    <3> HIDE DEF V, X
    <3>2. rank[s \cup {g}] < rank[s]
      BY <1>4, <3>1
    <3>3. s \cup {g} \in P
      BY <1>8, <3>1, <3>2
    <3> QED BY <3>3
  <2>2. Value(s, next) \in V
    <3> HIDE DEF X, V
    <3> QED BY <1>3, <2>1
  <2> HIDE DEF X, V
  <2> QED BY <1>6, <2>2
<1>9. X \subseteq P
  <2> HIDE DEF X, P
  <2> QED BY <1>4, <1>8, RankInduction
<1>10. next[{}] \in V
  BY <1>9
<1> QED BY <1>7, <1>10

-----------------------------------------------------------------------------
(* The parts of a queue and what the helpers do to them.                   *)

(***************************************************************************)
(* The types of the parts of a queue.                                      *)
(***************************************************************************)
LEMMA PartsOfQueue ==
    ASSUME NEW Q \in DownloadQueue
    PROVE  /\ Q.queue \in Seq(Nzbs) /\ Q.history \in SUBSET Nzbs
           /\ Q.nzb \in [Nzbs -> NzbInfo] /\ Q.file \in [Files -> FileInfo]
BY DEF DownloadQueue

With(Q, n, r, F) == [Q EXCEPT !.file = F, !.nzb[n] = r]

(***************************************************************************)
(* A queue with another record of one group and other files.               *)
(***************************************************************************)
LEMMA WithIs ==
    ASSUME NEW Q \in DownloadQueue, NEW n \in Nzbs, NEW r \in NzbInfo,
           NEW F \in [Files -> FileInfo]
    PROVE  /\ With(Q, n, r, F) \in DownloadQueue
           /\ With(Q, n, r, F).queue = Q.queue /\ With(Q, n, r, F).file = F
           /\ \A m \in Nzbs : With(Q, n, r, F).nzb[m] = IF m = n THEN r ELSE Q.nzb[m]
BY DEF With, DownloadQueue

(***************************************************************************)
(* The number of files of any set is an integer.                           *)
(***************************************************************************)
LEMMA CountsAreInts ==
    ASSUME NEW files \in SUBSET Files
    PROVE  Cardinality(files) \in Int
<1>1. IsFiniteSet(files)
  BY QueueAssumption, FS_Subset
<1>2. Cardinality(files) \in Nat
  BY <1>1, FS_CardinalityType
<1> QED BY <1>2

(***************************************************************************)
(* So are the totals of a group that the statistics are computed from.     *)
(***************************************************************************)
LEMMA TotalsAreInts ==
    ASSUME NEW Q \in DownloadQueue, NEW files \in SUBSET Files
    PROVE  /\ Total(Q, files, "remaining") \in Int
           /\ Total(Q, files, "success") \in Int
           /\ Total(Q, files, "failed") \in Int
           /\ TotalSize(files) \in Int /\ TotalMissed(files) \in Int
<1>1. IsFiniteSet(files)
  BY QueueAssumption, FS_Subset
<1>2. \A f \in files : Q.file[f] \in FileInfo
  BY PartsOfQueue
<1> DEFINE remaining == [f \in Files |-> Q.file[f]["remaining"]]
           success == [f \in Files |-> Q.file[f]["success"]]
           failed == [f \in Files |-> Q.file[f]["failed"]]
           size == [f \in Files |-> FileSize(f)]
<1>3. \A f \in files : remaining[f] \in Int /\ success[f] \in Int /\ failed[f] \in Int
  BY <1>2 DEF FileInfo
<1>4. \A f \in files : size[f] \in Int /\ Missed[f] \in Int
  BY QueueAssumption DEF FileSize
<1> HIDE DEF remaining, success, failed, size
<1>5. SumFunctionOnSet(remaining, files) \in Int
  BY <1>1, <1>3, SumIsInt
<1>6. SumFunctionOnSet(success, files) \in Int
  BY <1>1, <1>3, SumIsInt
<1>7. SumFunctionOnSet(failed, files) \in Int
  BY <1>1, <1>3, SumIsInt
<1>8. SumFunctionOnSet(size, files) \in Int
  BY <1>1, <1>4, SumIsInt
<1>9. SumFunctionOnSet(Missed, files) \in Int
  BY <1>1, <1>4, SumIsInt
<1> QED BY <1>5, <1>6, <1>7, <1>8, <1>9 DEF remaining, success, failed, size, Total, TotalSize, TotalMissed

(***************************************************************************)
(* A group is in the queue iff it is a member of the list.                 *)
(***************************************************************************)
LEMMA InQueueIs ==
    ASSUME NEW Q \in DownloadQueue, NEW n
    PROVE  InQueue(Q, n) <=> n \in ToSet(Q.queue)
<1>1. DOMAIN Q.queue = 1 .. Len(Q.queue)
  BY PartsOfQueue
<1> QED BY <1>1 DEF InQueue, Contains, ToSet

(***************************************************************************)
(* A queue that does not change.                                           *)
(***************************************************************************)
LEMMA FollowsItself == ASSUME NEW Q \in DownloadQueue, NEW D PROVE Follows(Q, Q, D)
BY DEF Follows

(***************************************************************************)
(* Two helpers called one after the other.                                 *)
(***************************************************************************)
LEMMA FollowsTransitive ==
    ASSUME NEW Q, NEW R, NEW S, NEW D, Follows(Q, R, D), Follows(R, S, D)
    PROVE  Follows(Q, S, D)
<1> USE DEF Follows
<1>0. S \in DownloadQueue
  OBVIOUS
<1>1. ASSUME NEW f \in Files
      PROVE  /\ S.file[f].article = Q.file[f].article
             /\ S.file[f].activeDownloads = Q.file[f].activeDownloads
             /\ S.file[f].completedArticles = Q.file[f].completedArticles
             /\ S.file[f].remaining = Q.file[f].remaining
             /\ Q.file[f].deleted => S.file[f].deleted
             /\ \/ S.file[f].nzb = Q.file[f].nzb
                \/ S.file[f].nzb = NoNzb /\ ActiveIn(D, f) = {}
  OBVIOUS
<1>2. ASSUME NEW n \in Nzbs
      PROVE  /\ S.nzb[n].activeDownloads = Q.nzb[n].activeDownloads
             /\ S.nzb[n].parking =>
                  \/ Q.nzb[n].parking
                  \/ /\ InQueue(Q, n)
                     /\ \A f \in Files : S.file[f].nzb = n => S.file[f].deleted
             /\ InQueue(S, n) => InQueue(Q, n)
             /\ InQueue(Q, n) => InQueue(S, n) \/ \A f \in Files : S.file[f].nzb # n
  <2>1. \A f \in Files : S.file[f].nzb = n => R.file[f].nzb = n
    BY QueueAssumption
  <2> QED BY <2>1
<1> QED BY <1>0, <1>1, <1>2

\* What matters to the downloaders is the same in both files.
AlikeFiles(a, b) ==
    /\ b.article = a.article /\ b.activeDownloads = a.activeDownloads
    /\ b.completedArticles = a.completedArticles /\ b.remaining = a.remaining
    /\ a.deleted => b.deleted

(***************************************************************************)
(* A helper that changes one group and the files, removing only files on   *)
(* which nobody works.                                                     *)
(***************************************************************************)
LEMMA WithFollows ==
    ASSUME NEW Q \in DownloadQueue, NEW n \in Nzbs, NEW D, NEW r \in NzbInfo,
           r.activeDownloads = Q.nzb[n].activeDownloads,
           r.parking => Q.nzb[n].parking,
           NEW F \in [Files -> FileInfo],
           \A f \in Files : AlikeFiles(Q.file[f], F[f]),
           \A f \in Files : \/ F[f].nzb = Q.file[f].nzb
                            \/ F[f].nzb = NoNzb /\ ActiveIn(D, f) = {}
    PROVE  Follows(Q, With(Q, n, r, F), D)
<1> DEFINE R == With(Q, n, r, F)
<1>1. /\ R \in DownloadQueue /\ R.queue = Q.queue /\ R.file = F
      /\ \A m \in Nzbs : R.nzb[m] = IF m = n THEN r ELSE Q.nzb[m]
  BY WithIs
<1> HIDE DEF R
<1>2. \A m \in Nzbs : /\ R.nzb[m].activeDownloads = Q.nzb[m].activeDownloads
                      /\ R.nzb[m].parking => Q.nzb[m].parking
                      /\ InQueue(R, m) <=> InQueue(Q, m)
  BY <1>1 DEF InQueue
<1> QED BY <1>1, <1>2 DEF R, Follows, AlikeFiles

WithNzb(Q, n, r) == [Q EXCEPT !.nzb[n] = r]

(***************************************************************************)
(* A queue with another record of one group.                               *)
(***************************************************************************)
LEMMA WithNzbIs ==
    ASSUME NEW Q \in DownloadQueue, NEW n \in Nzbs, NEW r \in NzbInfo
    PROVE  /\ WithNzb(Q, n, r) \in DownloadQueue
           /\ WithNzb(Q, n, r).queue = Q.queue /\ WithNzb(Q, n, r).file = Q.file
           /\ \A m \in Nzbs : WithNzb(Q, n, r).nzb[m] = IF m = n THEN r ELSE Q.nzb[m]
BY DEF WithNzb, DownloadQueue

(***************************************************************************)
(* A helper that changes one group but neither its downloaders nor its     *)
(* files.                                                                  *)
(***************************************************************************)
LEMMA WithNzbFollows ==
    ASSUME NEW Q \in DownloadQueue, NEW n \in Nzbs, NEW D, NEW r \in NzbInfo,
           r.activeDownloads = Q.nzb[n].activeDownloads,
           r.parking => Q.nzb[n].parking
    PROVE  Follows(Q, WithNzb(Q, n, r), D)
<1> DEFINE R == WithNzb(Q, n, r)
<1>1. /\ R \in DownloadQueue /\ R.queue = Q.queue /\ R.file = Q.file
      /\ \A m \in Nzbs : R.nzb[m] = IF m = n THEN r ELSE Q.nzb[m]
  BY WithNzbIs
<1> HIDE DEF R
<1>2. \A m \in Nzbs : /\ R.nzb[m].activeDownloads = Q.nzb[m].activeDownloads
                      /\ R.nzb[m].parking => Q.nzb[m].parking
                      /\ InQueue(R, m) <=> InQueue(Q, m)
  BY <1>1 DEF InQueue
<1> QED BY <1>1, <1>2 DEF R, Follows

(***************************************************************************)
(* Pausing and resuming files disturbs no downloader.                      *)
(***************************************************************************)
LEMMA SetPausedFollows ==
    ASSUME NEW Q \in DownloadQueue, NEW n \in Nzbs, NEW files \in SUBSET Files,
           NEW paused \in BOOLEAN, NEW D
    PROVE  Follows(Q, SetPaused(Q, n, files, paused), D)
<1> DEFINE changed == {f \in files : Q.file[f].paused # paused}
           sign == IF paused THEN 1 ELSE -1
           F == [f \in Files |-> IF f \in changed THEN [Q.file[f] EXCEPT !.paused = paused]
                                                  ELSE Q.file[f]]
           r == [Q.nzb[n] EXCEPT
                   !.pausedFileCount = @ + sign * Cardinality(changed),
                   !.pausedSize = @ + sign * Total(Q, changed, "remaining")]
<1>1. Cardinality(changed) \in Int /\ Total(Q, changed, "remaining") \in Int
  <2>1. changed \in SUBSET Files
    OBVIOUS
  <2> HIDE DEF changed
  <2> QED BY <2>1, CountsAreInts, TotalsAreInts
<1>2. Q.nzb[n] \in NzbInfo /\ \A f \in Files : Q.file[f] \in FileInfo
  BY PartsOfQueue
<1>3. SetPaused(Q, n, files, paused) = With(Q, n, r, F)
  BY DEF SetPaused, With
<1>4. /\ F \in [Files -> FileInfo]
      /\ \A f \in Files : AlikeFiles(Q.file[f], F[f]) /\ F[f].nzb = Q.file[f].nzb
  <2>1. ASSUME NEW f \in Files
        PROVE  LET b == [Q.file[f] EXCEPT !.paused = paused]
               IN  b \in FileInfo /\ AlikeFiles(Q.file[f], b) /\ b.nzb = Q.file[f].nzb
    BY <1>2 DEF FileInfo, AlikeFiles
  <2>2. \A f \in Files : AlikeFiles(Q.file[f], Q.file[f])
    BY DEF AlikeFiles
  <2> HIDE DEF changed
  <2> QED BY <1>2, <2>1, <2>2
<1>5. r \in NzbInfo /\ r.activeDownloads = Q.nzb[n].activeDownloads
      /\ r.parking = Q.nzb[n].parking
  <2> DEFINE x == Q.nzb[n].pausedFileCount + sign * Cardinality(changed)
             y == Q.nzb[n].pausedSize + sign * Total(Q, changed, "remaining")
  <2>1. Q.nzb[n].pausedFileCount \in Int /\ Q.nzb[n].pausedSize \in Int /\ sign \in {1, -1}
    BY <1>2 DEF NzbInfo
  <2>2. x \in Int /\ y \in Int
    <3> HIDE DEF changed, sign
    <3> QED BY <1>1, <2>1
  <2>3. r = [Q.nzb[n] EXCEPT !.pausedFileCount = x, !.pausedSize = y]
    OBVIOUS
  <2> HIDE DEF x, y, r
  <2> QED BY <1>2, <2>2, <2>3 DEF NzbInfo
<1> HIDE DEF r, F
<1>6. /\ \A f \in Files : AlikeFiles(Q.file[f], F[f])
      /\ \A f \in Files : \/ F[f].nzb = Q.file[f].nzb
                          \/ F[f].nzb = NoNzb /\ ActiveIn(D, f) = {}
      /\ F \in [Files -> FileInfo]
  BY <1>4
<1>7. r \in NzbInfo /\ r.activeDownloads = Q.nzb[n].activeDownloads
      /\ (r.parking => Q.nzb[n].parking)
  BY <1>5
<1>8. Follows(Q, With(Q, n, r, F), D)
  BY <1>6, <1>7, WithFollows
<1> QED BY <1>3, <1>8

(***************************************************************************)
(* Neither do the statistics of completed and of deleted files.            *)
(***************************************************************************)
LEMMA StatsFollow ==
    ASSUME NEW Q \in DownloadQueue, NEW n \in Nzbs, NEW files \in SUBSET Files, NEW D
    PROVE  /\ Follows(Q, UpdateCompletedStats(Q, n, files), D)
           /\ Follows(Q, UpdateDeletedStats(Q, n, files), D)
<1> DEFINE pars == files \cap ParFiles
           extra == Cardinality(ExtraPriority(Q, files))
           paused == Cardinality(Paused(Q, files))
           missed == TotalMissed(files)
           parMissed == TotalMissed(pars)
           ok == Total(Q, files, "success")
           bad == Total(Q, files, "failed")
           parBad == Total(Q, pars, "failed")
           size == TotalSize(files)
           parSize == TotalSize(pars)
           remaining == Total(Q, files, "remaining")
           pausedSize == Total(Q, Paused(Q, files), "remaining")
           count == Cardinality(files)
           parCount == Cardinality(pars)
           r == Q.nzb[n]
<1>1. /\ {extra, paused, count, parCount} \subseteq Int
      /\ {missed, parMissed, ok, bad, parBad} \subseteq Int
      /\ {size, parSize, remaining, pausedSize} \subseteq Int
  <2>1. /\ pars \in SUBSET Files /\ ExtraPriority(Q, files) \in SUBSET Files
        /\ Paused(Q, files) \in SUBSET Files
    BY DEF ExtraPriority, Paused
  <2> QED BY <2>1, CountsAreInts, TotalsAreInts
<1>2. r \in NzbInfo
  BY PartsOfQueue
<1> HIDE DEF extra, paused, missed, parMissed, ok, bad, parBad, size, parSize, remaining,
             pausedSize, count, parCount, r
<1> DEFINE success == r.success + ok
           failedSize == r.failedSize + bad
           failedArticles == r.failedArticles + bad
           extraPriority == r.extraPriority - extra
           parFailedSize == r.parFailedSize + parBad
           remainingParCount == r.remainingParCount - parCount
           pausedFileCount == r.pausedFileCount - paused
           c == [r EXCEPT
                   !.success = success, !.failedSize = failedSize,
                   !.failedArticles = failedArticles, !.extraPriority = extraPriority,
                   !.parFailedSize = parFailedSize, !.remainingParCount = remainingParCount,
                   !.pausedFileCount = pausedFileCount]
<1>3. UpdateCompletedStats(Q, n, files) = WithNzb(Q, n, c)
  BY DEF UpdateCompletedStats, WithNzb, extra, paused, ok, bad, parBad, parCount, r
<1>4. c \in NzbInfo /\ c.activeDownloads = r.activeDownloads /\ c.parking = r.parking
  <2>1. {success, failedSize, failedArticles, extraPriority, parFailedSize,
         remainingParCount, pausedFileCount} \subseteq Int
    BY <1>1, <1>2 DEF NzbInfo
  <2> HIDE DEF success, failedSize, failedArticles, extraPriority, parFailedSize,
               remainingParCount, pausedFileCount
  <2>2. c \in NzbInfo
    BY <1>2, <2>1, Zenon DEF NzbInfo
  <2>3. c.activeDownloads = r.activeDownloads /\ c.parking = r.parking
    BY <1>2 DEF NzbInfo
  <2> QED BY <2>2, <2>3
<1>5. Follows(Q, UpdateCompletedStats(Q, n, files), D)
  <2> HIDE DEF c
  <2> QED BY <1>3, <1>4, WithNzbFollows DEF r
<1> DEFINE fileCount == r.fileCount - count
           newSize == r.size - size
           newParSize == r.parSize - parSize
           currentSuccess == r.currentSuccess - ok
           failedLeft == r.failedSize - missed
           articlesLeft == r.failedArticles - missed
           parFailedLeft == r.parFailedSize - parMissed
           currentFailed == r.currentFailed - (bad + missed)
           parCurrentFailed == r.parCurrentFailed - (parBad + parMissed)
           newRemaining == r.remaining - remaining
           newPausedSize == r.pausedSize - pausedSize
           d == [r EXCEPT
                   !.fileCount = fileCount, !.size = newSize,
                   !.parSize = newParSize, !.currentSuccess = currentSuccess,
                   !.failedSize = failedLeft, !.failedArticles = articlesLeft,
                   !.parFailedSize = parFailedLeft, !.currentFailed = currentFailed,
                   !.parCurrentFailed = parCurrentFailed, !.remaining = newRemaining,
                   !.extraPriority = extraPriority,
                   !.remainingParCount = remainingParCount,
                   !.pausedFileCount = pausedFileCount, !.pausedSize = newPausedSize]
<1>6. UpdateDeletedStats(Q, n, files) = WithNzb(Q, n, d)
  BY DEF UpdateDeletedStats, WithNzb, extra, paused, missed, parMissed, ok, bad, parBad,
         size, parSize, remaining, pausedSize, count, parCount, r
<1>7. d \in NzbInfo /\ d.activeDownloads = r.activeDownloads /\ d.parking = r.parking
  <2>1. {fileCount, newSize, newParSize, currentSuccess, failedLeft, articlesLeft,
         parFailedLeft, currentFailed, parCurrentFailed, newRemaining, extraPriority,
         remainingParCount, pausedFileCount, newPausedSize} \subseteq Int
    BY <1>1, <1>2 DEF NzbInfo
  <2> HIDE DEF fileCount, newSize, newParSize, currentSuccess, failedLeft, articlesLeft,
               parFailedLeft, currentFailed, parCurrentFailed, newRemaining, extraPriority,
               remainingParCount, pausedFileCount, newPausedSize
  <2>2. d \in NzbInfo
    BY <1>2, <2>1, Zenon DEF NzbInfo
  <2>3. d.activeDownloads = r.activeDownloads /\ d.parking = r.parking
    BY <1>2 DEF NzbInfo
  <2> QED BY <2>2, <2>3
<1>8. Follows(Q, UpdateDeletedStats(Q, n, files), D)
  <2> HIDE DEF d
  <2> QED BY <1>6, <1>7, WithNzbFollows DEF r
<1> QED BY <1>5, <1>8

\* Nobody works on a file of the group, if the group counts nobody.
Unworked(Q, n, D) == \A f \in FilesOf(Q, n) : ActiveIn(D, f) = {}

CountsWork(Q, n, D) == Q.nzb[n].activeDownloads = 0 => Unworked(Q, n, D)

(***************************************************************************)
(* A group without downloaders stays so through the helpers, and its       *)
(* counter stays true.                                                     *)
(***************************************************************************)
LEMMA StillUnworked ==
    ASSUME NEW Q, NEW R, NEW D, NEW n \in Nzbs, Follows(Q, R, D)
    PROVE  /\ Unworked(Q, n, D) => Unworked(R, n, D)
           /\ CountsWork(Q, n, D) => CountsWork(R, n, D)
<1>1. FilesOf(R, n) \subseteq FilesOf(Q, n)
  BY QueueAssumption DEF FilesOf, Follows
<1>2. R.nzb[n].activeDownloads = Q.nzb[n].activeDownloads
  BY DEF Follows
<1> QED BY <1>1, <1>2 DEF Unworked, CountsWork

WithoutGroup(P, n, r, F, history) ==
    [P EXCEPT !.queue = Without(@, n), !.history = history, !.nzb[n] = r, !.file = F]

(***************************************************************************)
(* A group on whose files nobody works may leave the queue with them.      *)
(***************************************************************************)
LEMMA WithoutGroupFollows ==
    ASSUME NEW P \in DownloadQueue, NEW n \in Nzbs, NEW D, NEW r \in NzbInfo,
           NEW history \in SUBSET Nzbs,
           r.activeDownloads = P.nzb[n].activeDownloads, ~r.parking,
           NEW F \in [Files -> FileInfo],
           \A f \in Files : AlikeFiles(P.file[f], F[f]),
           \A f \in Files : IF P.file[f].nzb = n
                            THEN F[f].nzb = NoNzb /\ ActiveIn(D, f) = {}
                            ELSE \/ F[f].nzb = P.file[f].nzb
                                 \/ F[f].nzb = NoNzb /\ ActiveIn(D, f) = {}
    PROVE  Follows(P, WithoutGroup(P, n, r, F, history), D)
<1> DEFINE R == WithoutGroup(P, n, r, F, history)
<1>1. /\ P.queue \in Seq(Nzbs) /\ P.nzb \in [Nzbs -> NzbInfo]
      /\ Without(P.queue, n) \in Seq(Nzbs)
      /\ ToSet(Without(P.queue, n)) = ToSet(P.queue) \ {n}
  BY PartsOfQueue, WithoutIs
<1> DEFINE queue == Without(P.queue, n)
<1> HIDE DEF queue
<1>2. /\ R.queue = queue /\ R.file = F
      /\ \A m \in Nzbs : R.nzb[m] = IF m = n THEN r ELSE P.nzb[m]
  BY <1>1 DEF WithoutGroup, DownloadQueue, queue
<1>3. R \in DownloadQueue
  <2>1. R = [P EXCEPT !.queue = queue, !.history = history, !.nzb[n] = r, !.file = F]
    BY DEF WithoutGroup, queue
  <2>2. queue \in Seq(Nzbs)
    BY <1>1 DEF queue
  <2> HIDE DEF R
  <2> QED BY <2>1, <2>2 DEF DownloadQueue
<1> HIDE DEF R
<1>4. \A m \in Nzbs : InQueue(R, m) <=> InQueue(P, m) /\ m # n
  BY <1>1, <1>2, <1>3, InQueueIs DEF queue
<1>5. ASSUME NEW m \in Nzbs
      PROVE  /\ R.nzb[m].activeDownloads = P.nzb[m].activeDownloads
             /\ R.nzb[m].parking => P.nzb[m].parking
             /\ InQueue(R, m) => InQueue(P, m)
             /\ InQueue(P, m) => InQueue(R, m) \/ \A f \in Files : R.file[f].nzb # m
  BY <1>2, <1>4, QueueAssumption
<1>6. ASSUME NEW f \in Files
      PROVE  /\ AlikeFiles(P.file[f], R.file[f])
             /\ \/ R.file[f].nzb = P.file[f].nzb
                \/ R.file[f].nzb = NoNzb /\ ActiveIn(D, f) = {}
  BY <1>2
<1> QED BY <1>3, <1>5, <1>6 DEF R, Follows, AlikeFiles

(***************************************************************************)
(* NzbCompleted on a group on which nobody works.                          *)
(***************************************************************************)
LEMMA NzbCompletedFollows ==
    ASSUME NEW Q \in DownloadQueue, NEW n \in Nzbs, NEW D, Unworked(Q, n, D)
    PROVE  Follows(Q, NzbCompleted(Q, n), D)
<1> DEFINE files == FilesOf(Q, n)
           add == KeepHistory /\ ~Q.nzb[n].avoidHistory
           P == IF add THEN UpdateCompletedStats(Q, n, files) ELSE Q
           p == P.nzb[n]
           completedFiles == IF DiscardsList(p) THEN {} ELSE p.completedFiles \cup files
           r == [p EXCEPT !.completedFiles = completedFiles,
                          !.remainingParCount = 0, !.parking = FALSE, !.avoidHistory = FALSE]
           F == [f \in Files |-> IF f \in files THEN [P.file[f] EXCEPT !.nzb = NoNzb]
                                                ELSE P.file[f]]
           history == IF add THEN P.history \cup {n} ELSE P.history
<1>1. files \in SUBSET Files /\ \A f \in files : ActiveIn(D, f) = {}
  BY DEF FilesOf, Unworked
<1>2. Follows(Q, P, D) /\ P \in DownloadQueue
  <2>1. Follows(Q, P, D)
    <3> HIDE DEF files
    <3> QED BY <1>1, StatsFollow, FollowsItself
  <2> QED BY <2>1 DEF Follows
<1> HIDE DEF P
<1>3. p \in NzbInfo /\ P.history \in SUBSET Nzbs /\ \A f \in Files : P.file[f] \in FileInfo
  BY <1>2, PartsOfQueue
<1>4. NzbCompleted(Q, n) = WithoutGroup(P, n, r, F, history)
  BY DEF NzbCompleted, WithoutGroup, P
<1>5. r \in NzbInfo /\ r.activeDownloads = p.activeDownloads /\ ~r.parking
  <2>1. completedFiles \in SUBSET Files
    <3>1. p.completedFiles \in SUBSET Files
      BY <1>3 DEF NzbInfo
    <3> QED BY <1>1, <3>1
  <2> HIDE DEF p, completedFiles
  <2> DEFINE none == 0
             no == FALSE
             s == [p EXCEPT !.completedFiles = completedFiles,
                            !.remainingParCount = none, !.parking = no, !.avoidHistory = no]
  <2>a. none \in Int /\ no \in BOOLEAN /\ r = s
    OBVIOUS
  <2> HIDE DEF none, no
  <2>b. s \in NzbInfo
    BY <1>3, <2>1, <2>a, Zenon DEF NzbInfo
  <2>2. r \in NzbInfo
    BY <2>a, <2>b
  <2>3. r.activeDownloads = p.activeDownloads /\ ~r.parking
    BY <1>3 DEF NzbInfo
  <2> QED BY <2>2, <2>3
<1> HIDE DEF r
<1>6. ASSUME NEW f \in Files
      PROVE  /\ F[f] \in FileInfo /\ AlikeFiles(P.file[f], F[f])
             /\ IF P.file[f].nzb = n
                THEN F[f].nzb = NoNzb /\ ActiveIn(D, f) = {}
                ELSE \/ F[f].nzb = P.file[f].nzb
                     \/ F[f].nzb = NoNzb /\ ActiveIn(D, f) = {}
  <2>1. LET b == [P.file[f] EXCEPT !.nzb = NoNzb]
        IN  b \in FileInfo /\ AlikeFiles(P.file[f], b) /\ b.nzb = NoNzb
    BY <1>3 DEF FileInfo, AlikeFiles
  <2>2. AlikeFiles(P.file[f], P.file[f])
    BY DEF AlikeFiles
  <2>3. P.file[f].nzb = n => f \in files
    BY <1>2, QueueAssumption DEF Follows, FilesOf
  <2>4. F[f] = IF f \in files THEN [P.file[f] EXCEPT !.nzb = NoNzb] ELSE P.file[f]
    OBVIOUS
  <2> HIDE DEF F, files
  <2> QED BY <1>1, <1>3, <2>1, <2>2, <2>3, <2>4
<1>7. F \in [Files -> FileInfo]
  <2>1. F = [f \in Files |-> F[f]]
    OBVIOUS
  <2> HIDE DEF F
  <2> QED BY <1>6, <2>1
<1>8. history \in SUBSET Nzbs
  BY <1>3
<1> HIDE DEF F, history
<1>9. Follows(P, NzbCompleted(Q, n), D)
  BY <1>2, <1>4, <1>5, <1>6, <1>7, <1>8, WithoutGroupFollows
<1> QED BY <1>2, <1>9, FollowsTransitive

(***************************************************************************)
(* NzbDownloaded on a group on which nobody works.                         *)
(***************************************************************************)
LEMMA NzbDownloadedFollows ==
    ASSUME NEW Q \in DownloadQueue, NEW n \in Nzbs, NEW D, Unworked(Q, n, D)
    PROVE  Follows(Q, NzbDownloaded(Q, n), D)
<1> DEFINE r == [Q.nzb[n] EXCEPT !.postInfo = TRUE]
<1>1. r \in NzbInfo /\ r.activeDownloads = Q.nzb[n].activeDownloads
      /\ (r.parking => Q.nzb[n].parking)
  <2>1. Q.nzb[n] \in NzbInfo
    BY PartsOfQueue
  <2> QED BY <2>1 DEF NzbInfo
<1>2. [Q EXCEPT !.nzb[n].postInfo = TRUE] = WithNzb(Q, n, r)
  BY DEF WithNzb
<1> HIDE DEF r
<1>3. Follows(Q, WithNzb(Q, n, r), D)
  BY <1>1, WithNzbFollows
<1> QED BY <1>2, <1>3, NzbCompletedFollows DEF NzbDownloaded

(***************************************************************************)
(* NzbDeleted on a group on which nobody works.                            *)
(***************************************************************************)
LEMMA NzbDeletedFollows ==
    ASSUME NEW Q \in DownloadQueue, NEW n \in Nzbs, NEW D, Unworked(Q, n, D)
    PROVE  Follows(Q, NzbDeleted(Q, n), D)
<1> DEFINE status == IF Q.nzb[n].deleteStatus = "none" THEN "manual"
                     ELSE Q.nzb[n].deleteStatus
           r == [Q.nzb[n] EXCEPT !.deleteStatus = status, !.deleting = FALSE]
           marked == [Q EXCEPT !.nzb[n].deleteStatus = status, !.nzb[n].deleting = FALSE]
<1>1. Q.nzb[n] \in NzbInfo /\ status \in {"none", "manual", "dupe", "health"}
  BY PartsOfQueue DEF NzbInfo
<1>2. NzbDeleted(Q, n) = IF status = "health" THEN NzbDownloaded(marked, n)
                                              ELSE NzbCompleted(marked, n)
  BY DEF NzbDeleted
<1> HIDE DEF status
<1>3. r \in NzbInfo /\ r.activeDownloads = Q.nzb[n].activeDownloads
      /\ (r.parking => Q.nzb[n].parking)
  BY <1>1 DEF NzbInfo
<1>4. marked = WithNzb(Q, n, r)
  BY <1>1 DEF WithNzb, DownloadQueue, NzbInfo
<1> HIDE DEF r, marked
<1>5. Follows(Q, marked, D)
  BY <1>3, <1>4, WithNzbFollows
<1>6. marked \in DownloadQueue /\ Unworked(marked, n, D)
  <2>1. Unworked(marked, n, D)
    BY <1>5, StillUnworked
  <2> QED BY <1>5, <2>1 DEF Follows
<1>7. Follows(marked, NzbDeleted(Q, n), D)
  BY <1>2, <1>6, NzbDownloadedFollows, NzbCompletedFollows
<1> QED BY <1>5, <1>7, FollowsTransitive

(***************************************************************************)
(* The event of a completed or deleted file, which may complete its group; *)
(* the counter of active downloads of the group tells that nobody works on *)
(* it.                                                                     *)
(***************************************************************************)
LEMMA FileEventFollows ==
    ASSUME NEW Q \in DownloadQueue, NEW n \in Nzbs, NEW D, CountsWork(Q, n, D),
           NEW dupe, NEW completed
    PROVE  Follows(Q, FileEvent(Q, n, dupe, completed), D)
<1>1. ASSUME NEW ignore, IsDownloadCompleted(Q, n, ignore) PROVE Unworked(Q, n, D)
  BY <1>1 DEF CountsWork, IsDownloadCompleted
<1>2. \/ FileEvent(Q, n, dupe, completed) = Q
      \/ /\ FileEvent(Q, n, dupe, completed) = NzbDownloaded(Q, n)
         /\ IsDownloadCompleted(Q, n, TRUE)
      \/ /\ FileEvent(Q, n, dupe, completed) = NzbDeleted(Q, n)
         /\ IsDownloadCompleted(Q, n, FALSE)
  BY DEF FileEvent
<1>3. CASE FileEvent(Q, n, dupe, completed) = Q
  BY <1>3, FollowsItself
<1>4. CASE /\ FileEvent(Q, n, dupe, completed) = NzbDownloaded(Q, n)
           /\ IsDownloadCompleted(Q, n, TRUE)
  <2>1. Unworked(Q, n, D)
    BY <1>1, <1>4
  <2> QED BY <1>4, <2>1, NzbDownloadedFollows
<1>5. CASE /\ FileEvent(Q, n, dupe, completed) = NzbDeleted(Q, n)
           /\ IsDownloadCompleted(Q, n, FALSE)
  <2>1. Unworked(Q, n, D)
    BY <1>1, <1>5
  <2> QED BY <1>5, <2>1, NzbDeletedFollows
<1> QED BY <1>2, <1>3, <1>4, <1>5

(***************************************************************************)
(* Files on which nobody works may be removed.                             *)
(***************************************************************************)
LEMMA DeleteFileInfoFollows ==
    ASSUME NEW Q \in DownloadQueue, NEW n \in Nzbs, NEW D, CountsWork(Q, n, D),
           NEW files \in SUBSET Files, \A f \in files : ActiveIn(D, f) = {},
           NEW completed
    PROVE  Follows(Q, DeleteFileInfo(Q, n, files, completed), D)
<1>1. CASE files = {}
  BY <1>1, FollowsItself DEF DeleteFileInfo
<1>2. CASE files # {}
  <2> DEFINE deleted == \A f \in files : Q.file[f].deleted
             dupe == \E f \in files : Q.file[f].dupeDeleted
             B == IF completed \/ Q.nzb[n].deleting
                  THEN UpdateCompletedStats(Q, n, files)
                  ELSE UpdateDeletedStats(Q, n, files)
             completedFiles == IF completed \/ Q.nzb[n].parking
                               THEN B.nzb[n].completedFiles \cup files
                               ELSE B.nzb[n].completedFiles
             F == [f \in Files |->
                      IF f \in files THEN [B.file[f] EXCEPT !.deleted = TRUE, !.nzb = NoNzb]
                      ELSE B.file[f]]
             r == [B.nzb[n] EXCEPT !.completedFiles = completedFiles]
             R == [B EXCEPT !.file = F, !.nzb[n].completedFiles = completedFiles]
  <2>1. DeleteFileInfo(Q, n, files, completed) = FileEvent(R, n, dupe, completed /\ ~deleted)
    BY <1>2 DEF DeleteFileInfo
  <2>2. Follows(Q, B, D)
    BY StatsFollow
  <2> HIDE DEF B
  <2>3. B \in DownloadQueue
    BY <2>2 DEF Follows
  <2>4. B.nzb[n] \in NzbInfo /\ \A f \in Files : B.file[f] \in FileInfo
    BY <2>3, PartsOfQueue
  <2>5. completedFiles \in SUBSET Files
    <3>1. B.nzb[n].completedFiles \in SUBSET Files
      BY <2>4 DEF NzbInfo
    <3> QED BY <3>1
  <2> HIDE DEF completedFiles
  <2>6. r \in NzbInfo /\ r.activeDownloads = B.nzb[n].activeDownloads
        /\ (r.parking => B.nzb[n].parking)
    BY <2>4, <2>5 DEF NzbInfo
  <2>7. ASSUME NEW f \in Files
        PROVE  /\ F[f] \in FileInfo /\ AlikeFiles(B.file[f], F[f])
               /\ \/ F[f].nzb = B.file[f].nzb
                  \/ F[f].nzb = NoNzb /\ ActiveIn(D, f) = {}
    <3> DEFINE b == [B.file[f] EXCEPT !.deleted = TRUE, !.nzb = NoNzb]
    <3>1. b \in FileInfo /\ AlikeFiles(B.file[f], b) /\ b.nzb = NoNzb
      BY <2>4 DEF FileInfo, AlikeFiles
    <3>2. AlikeFiles(B.file[f], B.file[f])
      BY DEF AlikeFiles
    <3>3. F[f] = IF f \in files THEN b ELSE B.file[f]
      OBVIOUS
    <3> HIDE DEF F, b
    <3> QED BY <2>4, <3>1, <3>2, <3>3
  <2>8. F \in [Files -> FileInfo]
    <3>1. F = [f \in Files |-> F[f]]
      OBVIOUS
    <3> HIDE DEF F
    <3> QED BY <2>7, <3>1
  <2> HIDE DEF F
  <2>9. R = With(B, n, r, F)
    BY <2>3, <2>4 DEF With, DownloadQueue, NzbInfo
  <2> HIDE DEF r, R
  <2>10. Follows(B, R, D)
    BY <2>3, <2>6, <2>7, <2>8, <2>9, WithFollows
  <2>11. R \in DownloadQueue /\ Follows(Q, R, D)
    <3>1. Follows(Q, R, D)
      BY <2>2, <2>10, FollowsTransitive
    <3> QED BY <3>1 DEF Follows
  <2>12. CountsWork(R, n, D)
    BY <2>11, StillUnworked
  <2> HIDE DEF dupe, deleted
  <2>13. Follows(R, DeleteFileInfo(Q, n, files, completed), D)
    BY <2>1, <2>11, <2>12, FileEventFollows
  <2> QED BY <2>11, <2>13, FollowsTransitive
<1> QED BY <1>1, <1>2

WithFile(Q, F) == [Q EXCEPT !.file = F]

(***************************************************************************)
(* A helper that changes files and leaves them in their groups.            *)
(***************************************************************************)
LEMMA WithFileFollows ==
    ASSUME NEW Q \in DownloadQueue, NEW D, NEW F \in [Files -> FileInfo],
           \A f \in Files : AlikeFiles(Q.file[f], F[f]),
           \A f \in Files : F[f].nzb = Q.file[f].nzb
    PROVE  Follows(Q, WithFile(Q, F), D) /\ WithFile(Q, F).file = F
<1> DEFINE R == WithFile(Q, F)
<1>1. R \in DownloadQueue /\ R.queue = Q.queue /\ R.file = F /\ R.nzb = Q.nzb
  BY DEF WithFile, DownloadQueue
<1> HIDE DEF R
<1>2. \A m \in Nzbs : InQueue(R, m) <=> InQueue(Q, m)
  BY <1>1 DEF InQueue
<1> QED BY <1>1, <1>2 DEF R, Follows, AlikeFiles

(***************************************************************************)
(* DeleteQueueEntry never takes a file from a downloader, and marks all    *)
(* files as deleted.                                                       *)
(***************************************************************************)
LEMMA DeleteQueueEntriesFollows ==
    ASSUME NEW Q \in DownloadQueue, NEW n \in Nzbs, CountsWork(Q, n, dl),
           NEW files \in SUBSET Files
    PROVE  /\ Follows(Q, DeleteQueueEntries(Q, n, files), dl)
           /\ \A f \in files : DeleteQueueEntries(Q, n, files).file[f].deleted
<1> DEFINE F == [f \in Files |-> IF f \in files THEN [Q.file[f] EXCEPT !.deleted = TRUE]
                                                ELSE Q.file[f]]
           flagged == WithFile(Q, F)
           free == {f \in files : ActiveIn(dl, f) = {}}
           R == DeleteFileInfo(flagged, n, free, FALSE)
<1>1. DeleteQueueEntries(Q, n, files) = R
  BY DEF DeleteQueueEntries, WithFile, ActiveOn, ActiveIn
<1>2. ASSUME NEW f \in Files
      PROVE  /\ F[f] \in FileInfo /\ AlikeFiles(Q.file[f], F[f])
             /\ F[f].nzb = Q.file[f].nzb /\ (f \in files => F[f].deleted)
  <2> DEFINE b == [Q.file[f] EXCEPT !.deleted = TRUE]
  <2>1. Q.file[f] \in FileInfo
    BY PartsOfQueue
  <2>2. b \in FileInfo /\ AlikeFiles(Q.file[f], b) /\ b.nzb = Q.file[f].nzb /\ b.deleted
    BY <2>1 DEF FileInfo, AlikeFiles
  <2>3. AlikeFiles(Q.file[f], Q.file[f])
    BY DEF AlikeFiles
  <2>4. F[f] = IF f \in files THEN b ELSE Q.file[f]
    OBVIOUS
  <2> HIDE DEF F, b
  <2> QED BY <2>1, <2>2, <2>3, <2>4
<1>3. F \in [Files -> FileInfo]
  <2>1. F = [f \in Files |-> F[f]]
    OBVIOUS
  <2> HIDE DEF F
  <2> QED BY <1>2, <2>1
<1> HIDE DEF F
<1>4. Follows(Q, flagged, dl) /\ flagged.file = F
  BY <1>2, <1>3, WithFileFollows
<1> HIDE DEF flagged
<1>5. flagged \in DownloadQueue /\ CountsWork(flagged, n, dl)
  BY <1>4, StillUnworked DEF Follows
<1>6. Follows(flagged, R, dl)
  <2>1. free \in SUBSET Files /\ \A f \in free : ActiveIn(dl, f) = {}
    OBVIOUS
  <2> HIDE DEF free
  <2> QED BY <1>5, <2>1, DeleteFileInfoFollows
<1> HIDE DEF R
<1>7. \A f \in files : R.file[f].deleted
  BY <1>2, <1>4, <1>6 DEF Follows
<1> QED BY <1>1, <1>4, <1>6, <1>7, FollowsTransitive

(***************************************************************************)
(* A group is deleted or parked: all its files are marked as deleted.      *)
(***************************************************************************)
LEMMA DeleteGroupFollows ==
    ASSUME NEW Q \in DownloadQueue, NEW n \in Nzbs, CountsWork(Q, n, dl),
           InQueue(Q, n), NEW kind
    PROVE  Follows(Q, DeleteGroup(Q, n, kind), dl)
<1> DEFINE park == kind = "park" /\ KeepHistory /\ Q.nzb[n].currentSuccess > 0
           final == kind = "final"
           status == IF kind = "dupe" THEN "dupe" ELSE Q.nzb[n].deleteStatus
           r == [Q.nzb[n] EXCEPT !.deleting = TRUE, !.parking = park,
                                 !.avoidHistory = final, !.deleteStatus = status]
           flagged == WithNzb(Q, n, r)
           files == {f \in FilesOf(Q, n) : ~Q.file[f].deleted}
           E == DeleteQueueEntries(flagged, n, files)
<1>1. \/ DeleteGroup(Q, n, kind) = E
      \/ DeleteGroup(Q, n, kind) = NzbDeleted(E, n) /\ FilesOf(E, n) = {}
  BY DEF DeleteGroup, WithNzb
<1>2. Q.nzb[n] \in NzbInfo
  BY PartsOfQueue
<1>3. /\ r \in NzbInfo /\ r.activeDownloads = Q.nzb[n].activeDownloads
  <2>1. park \in BOOLEAN /\ final \in BOOLEAN
    OBVIOUS
  <2>2. status \in {"none", "manual", "dupe", "health"}
    BY <1>2 DEF NzbInfo
  <2> HIDE DEF park, final, status
  <2>3. r \in NzbInfo
    BY <1>2, <2>1, <2>2, Zenon DEF NzbInfo
  <2>4. r.activeDownloads = Q.nzb[n].activeDownloads /\ r.parking = park
    BY <1>2 DEF NzbInfo
  <2> QED BY <2>1, <2>3, <2>4
<1> HIDE DEF r
<1>4. /\ flagged \in DownloadQueue /\ flagged.queue = Q.queue /\ flagged.file = Q.file
      /\ \A m \in Nzbs : flagged.nzb[m] = IF m = n THEN r ELSE Q.nzb[m]
  BY <1>3, WithNzbIs
<1> HIDE DEF flagged
<1>5. CountsWork(flagged, n, dl)
  BY <1>3, <1>4 DEF CountsWork, Unworked, FilesOf
<1>6. Follows(flagged, E, dl) /\ \A f \in files : E.file[f].deleted
  <2>1. files \in SUBSET Files
    BY DEF FilesOf
  <2> HIDE DEF files
  <2> QED BY <1>4, <1>5, <2>1, DeleteQueueEntriesFollows
<1> HIDE DEF E
<1>7. \A f \in Files : E.file[f].nzb = n => E.file[f].deleted
  <2> TAKE f \in Files
  <2>1. E.file[f].nzb = n => f \in FilesOf(Q, n)
    BY <1>4, <1>6, QueueAssumption DEF Follows, FilesOf
  <2>2. Q.file[f].deleted => E.file[f].deleted
    BY <1>4, <1>6 DEF Follows
  <2> QED BY <1>6, <2>1, <2>2
<1>8. Follows(Q, E, dl)
  <2>1. ASSUME NEW f \in Files
        PROVE  /\ E.file[f].article = Q.file[f].article
               /\ E.file[f].activeDownloads = Q.file[f].activeDownloads
               /\ E.file[f].completedArticles = Q.file[f].completedArticles
               /\ E.file[f].remaining = Q.file[f].remaining
               /\ Q.file[f].deleted => E.file[f].deleted
               /\ \/ E.file[f].nzb = Q.file[f].nzb
                  \/ E.file[f].nzb = NoNzb /\ ActiveIn(dl, f) = {}
    BY <1>4, <1>6 DEF Follows
  <2>2. ASSUME NEW m \in Nzbs
        PROVE  /\ E.nzb[m].activeDownloads = Q.nzb[m].activeDownloads
               /\ E.nzb[m].parking =>
                    \/ Q.nzb[m].parking
                    \/ /\ InQueue(Q, m)
                       /\ \A f \in Files : E.file[f].nzb = m => E.file[f].deleted
               /\ InQueue(E, m) => InQueue(Q, m)
               /\ InQueue(Q, m) => InQueue(E, m) \/ \A f \in Files : E.file[f].nzb # m
    <3>1. InQueue(flagged, m) <=> InQueue(Q, m)
      BY <1>4 DEF InQueue
    <3>2. flagged.nzb[m].activeDownloads = Q.nzb[m].activeDownloads
      BY <1>3, <1>4
    <3>3. CASE m = n
      <4>1. E.nzb[m].parking =>
              \/ flagged.nzb[m].parking
              \/ /\ InQueue(flagged, m)
                 /\ \A f \in Files : E.file[f].nzb = m => E.file[f].deleted
        BY <1>6 DEF Follows
      <4> QED BY <1>6, <1>7, <3>1, <3>2, <3>3, <4>1 DEF Follows
    <3>4. CASE m # n
      <4>1. flagged.nzb[m] = Q.nzb[m]
        BY <1>4, <3>4
      <4> QED BY <1>6, <3>1, <4>1 DEF Follows
    <3> QED BY <3>3, <3>4
  <2>3. E \in DownloadQueue
    BY <1>6 DEF Follows
  <2> QED BY <2>1, <2>2, <2>3 DEF Follows
<1>9. CASE DeleteGroup(Q, n, kind) = E
  BY <1>8, <1>9
<1>10. CASE DeleteGroup(Q, n, kind) = NzbDeleted(E, n) /\ FilesOf(E, n) = {}
  <2>1. E \in DownloadQueue /\ Unworked(E, n, dl)
    BY <1>8, <1>10 DEF Follows, Unworked
  <2>2. Follows(E, NzbDeleted(E, n), dl)
    BY <2>1, NzbDeletedFollows
  <2> QED BY <1>8, <1>10, <2>2, FollowsTransitive
<1> QED BY <1>1, <1>9, <1>10

(***************************************************************************)
(* The health check pauses, parks or deletes a group without a harm to its *)
(* downloaders.                                                            *)
(***************************************************************************)
LEMMA CheckHealthFollows ==
    ASSUME NEW Q \in DownloadQueue, NEW n \in Nzbs, CountsWork(Q, n, dl), InQueue(Q, n)
    PROVE  Follows(Q, CheckHealth(Q, n), dl)
<1> DEFINE r == [Q.nzb[n] EXCEPT !.healthPaused = TRUE]
           s == [Q.nzb[n] EXCEPT !.deleteStatus = "health"]
           P == WithNzb(Q, n, r)
           B == WithNzb(Q, n, s)
<1>1. \/ CheckHealth(Q, n) = Q
      \/ CheckHealth(Q, n) = PauseGroup(P, n, TRUE)
      \/ CheckHealth(Q, n) = DeleteGroup(B, n, HealthCheck)
  BY DEF CheckHealth, WithNzb
<1>2. Q.nzb[n] \in NzbInfo
  BY PartsOfQueue
<1>3. /\ r \in NzbInfo /\ r.activeDownloads = Q.nzb[n].activeDownloads
      /\ (r.parking => Q.nzb[n].parking)
  BY <1>2 DEF NzbInfo
<1>4. /\ s \in NzbInfo /\ s.activeDownloads = Q.nzb[n].activeDownloads
      /\ (s.parking => Q.nzb[n].parking)
  BY <1>2 DEF NzbInfo
<1> HIDE DEF r, s
<1>5. Follows(Q, P, dl) /\ Follows(Q, B, dl)
  BY <1>3, <1>4, WithNzbFollows
<1>9. InQueue(B, n)
  BY <1>4, WithNzbIs DEF InQueue
<1> HIDE DEF P, B
<1>6. P \in DownloadQueue /\ B \in DownloadQueue /\ CountsWork(B, n, dl)
  BY <1>5, StillUnworked DEF Follows
<1>7. Follows(P, PauseGroup(P, n, TRUE), dl)
  <2>1. FilesOf(P, n) \in SUBSET Files
    BY DEF FilesOf
  <2> QED BY <1>6, <2>1, SetPausedFollows DEF PauseGroup
<1>8. Follows(B, DeleteGroup(B, n, HealthCheck), dl)
  BY <1>6, <1>9, DeleteGroupFollows
<1> QED BY <1>1, <1>5, <1>7, <1>8, FollowsItself, FollowsTransitive

-----------------------------------------------------------------------------
(* The invariant through the helpers.                                      *)

(***************************************************************************)
(* The file of a downloader is in a group of the queue, and the counter of *)
(* a queued group is not zero while somebody works on it.                  *)
(***************************************************************************)
LEMMA GroupsOfWork ==
    ASSUME NEW Q, NEW D, NEW A, Core(Q, D, A)
    PROVE  /\ \A d \in Downloaders, f \in Files :
                 D[d].file = f => Q.file[f].nzb \in Nzbs /\ InQueue(Q, Q.file[f].nzb)
           /\ \A n \in Nzbs : InQueue(Q, n) => CountsWork(Q, n, D)
<1>1. Q \in DownloadQueue /\ \A f \in Files : Q.file[f].nzb \in Nzbs \cup {NoNzb}
  BY PartsOfQueue DEF Core, FileInfo
<1>2. ~InQueue(Q, NoNzb)
  BY <1>1, PartsOfQueue, QueueAssumption, Members, InQueueIs
<1>3. ASSUME NEW d \in Downloaders, NEW f \in Files, D[d].file = f
      PROVE  Q.file[f].nzb \in Nzbs /\ InQueue(Q, Q.file[f].nzb)
  <2>1. D[d].pc # "idle"
    BY <1>3, QueueAssumption DEF Core, DownloaderFine
  <2> QED BY <1>1, <1>2, <1>3, <2>1 DEF Core, DownloaderFine
<1>4. ASSUME NEW n \in Nzbs, InQueue(Q, n), Q.nzb[n].activeDownloads = 0,
             NEW f \in FilesOf(Q, n)
      PROVE  ActiveIn(D, f) = {}
  <2>1. Cardinality(ActiveOf(Q, D, n)) = 0
    BY <1>4 DEF Core, GroupsCounted
  <2>2. IsFiniteSet(ActiveOf(Q, D, n))
    BY CoordinatorAssumption, FS_Subset DEF ActiveOf
  <2>3. ActiveOf(Q, D, n) = {}
    BY <2>1, <2>2, FS_EmptySet
  <2>4. \A d \in ActiveIn(D, f) : d \in ActiveOf(Q, D, n)
    BY QueueAssumption DEF ActiveIn, ActiveOf, FilesOf
  <2> QED BY <2>3, <2>4
<1> QED BY <1>3, <1>4 DEF CountsWork, Unworked

(***************************************************************************)
(* The helpers keep the first part of the invariant.                       *)
(***************************************************************************)
LEMMA CoreFollows ==
    ASSUME NEW Q, NEW R, NEW D, NEW A, Core(Q, D, A), Follows(Q, R, D)
    PROVE  Core(R, D, A)
<1>0. R \in DownloadQueue /\ D \in [Downloaders -> Work] /\ A \subseteq Nzbs
  BY DEF Core, Follows
<1>1. ASSUME NEW f \in Files
      PROVE  /\ R.file[f].article = Q.file[f].article
             /\ R.file[f].activeDownloads = Q.file[f].activeDownloads
             /\ R.file[f].completedArticles = Q.file[f].completedArticles
             /\ R.file[f].remaining = Q.file[f].remaining
             /\ Q.file[f].deleted => R.file[f].deleted
             /\ \/ R.file[f].nzb = Q.file[f].nzb
                \/ R.file[f].nzb = NoNzb /\ ActiveIn(D, f) = {}
  BY DEF Follows
<1>2. \A d \in Downloaders, f \in Files : D[d].file = f => R.file[f].nzb = Q.file[f].nzb
  BY <1>1 DEF ActiveIn
<1>3. FilesCounted(R, D)
  <2>1. \A f \in Files : Done(R, f) = Done(Q, f)
    BY <1>1 DEF Done
  <2> QED BY <1>1, <2>1 DEF Core, FilesCounted
<1>4. GroupsCounted(R, D, A)
  <2>1. ASSUME NEW n \in Nzbs PROVE ActiveOf(R, D, n) = ActiveOf(Q, D, n)
    <3>1. \A d \in Downloaders : D[d].file # NoFile => D[d].file \in Files
      BY <1>0 DEF Work
    <3> QED BY <1>2, <3>1 DEF ActiveOf
  <2>2. ASSUME NEW n \in Nzbs
        PROVE  /\ R.nzb[n].activeDownloads = Q.nzb[n].activeDownloads
               /\ InQueue(R, n) => InQueue(Q, n)
               /\ R.nzb[n].parking =>
                    \/ Q.nzb[n].parking
                    \/ /\ InQueue(Q, n)
                       /\ \A f \in Files : R.file[f].nzb = n => R.file[f].deleted
    BY DEF Follows
  <2>3. ASSUME NEW n \in Nzbs
        PROVE  /\ InQueue(Q, n) =>
                    n \in A /\ Q.nzb[n].activeDownloads = Cardinality(ActiveOf(Q, D, n))
               /\ n \notin A => Q.nzb[n].activeDownloads = 0 /\ ~Q.nzb[n].parking
               /\ Q.nzb[n].parking =>
                    \A f \in Files : Q.file[f].nzb = n => Q.file[f].deleted
    BY DEF Core, GroupsCounted
  <2>4. ASSUME NEW n \in Nzbs, R.nzb[n].parking
        PROVE  \A f \in Files : R.file[f].nzb = n => R.file[f].deleted
    <3>1. CASE Q.nzb[n].parking
      <4>1. \A f \in Files : R.file[f].nzb = n => Q.file[f].nzb = n
        BY <1>1, QueueAssumption
      <4> QED BY <1>1, <2>3, <3>1, <4>1
    <3>2. CASE ~Q.nzb[n].parking
      BY <2>2, <2>4, <3>2
    <3> QED BY <3>1, <3>2
  <2>5. ASSUME NEW n \in Nzbs, n \notin A
        PROVE  R.nzb[n].activeDownloads = 0 /\ ~R.nzb[n].parking
    BY <2>2, <2>3, <2>5
  <2>6. ASSUME NEW n \in Nzbs, InQueue(R, n)
        PROVE  n \in A /\ R.nzb[n].activeDownloads = Cardinality(ActiveOf(R, D, n))
    BY <2>1, <2>2, <2>3, <2>6
  <2> QED BY <2>4, <2>5, <2>6 DEF GroupsCounted
<1>5. FilesHaveGroups(R, A)
  <2> SUFFICES ASSUME NEW f \in Files, R.file[f].nzb # NoNzb
               PROVE  InQueue(R, R.file[f].nzb) \/ R.file[f].nzb \notin A
    BY DEF FilesHaveGroups
  <2>1. R.file[f].nzb = Q.file[f].nzb
    BY <1>1
  <2>2. R.file[f].nzb \in Nzbs
    BY <1>0, PartsOfQueue DEF FileInfo
  <2>3. InQueue(Q, R.file[f].nzb) \/ R.file[f].nzb \notin A
    BY <2>1 DEF Core, FilesHaveGroups
  <2> QED BY <2>2, <2>3 DEF Follows
<1>6. ASSUME NEW d \in Downloaders PROVE DownloaderFine(R, D, d)
  <2>1. DownloaderFine(Q, D, d)
    BY DEF Core
  <2>2. CASE D[d].pc = "idle"
    BY <2>1, <2>2 DEF DownloaderFine, Fetching
  <2>3. CASE D[d].pc # "idle"
    <3> DEFINE f == D[d].file
    <3>1. f \in Files /\ InQueue(Q, Q.file[f].nzb)
      BY <2>1, <2>3 DEF DownloaderFine
    <3>2. R.file[f].nzb = Q.file[f].nzb /\ R.file[f].article = Q.file[f].article
      BY <1>1, <1>2, <3>1
    <3>3. Q.file[f].nzb \in Nzbs
      BY <3>1, GroupsOfWork
    <3>4. InQueue(R, R.file[f].nzb)
      BY <3>1, <3>2, <3>3 DEF Follows
    <3> QED BY <2>1, <3>1, <3>2, <3>4 DEF DownloaderFine
  <2> QED BY <2>2, <2>3
<1>7. ArticlesOwned(R, D)
  BY <1>1 DEF Core, ArticlesOwned
<1> QED BY <1>0, <1>3, <1>4, <1>5, <1>6, <1>7 DEF Core

(***************************************************************************)
(* The helpers keep a file that is being joined to its last downloader.    *)
(***************************************************************************)
LEMMA JoinsAloneFollows ==
    ASSUME NEW Q, NEW R, NEW D, NEW A, NEW d \in Downloaders,
           Core(Q, D, A), Follows(Q, R, D), JoinsAlone(Q, D, d)
    PROVE  JoinsAlone(R, D, d)
<1> SUFFICES ASSUME D[d].pc = "completing"
             PROVE  /\ ActiveIn(D, D[d].file) = {d}
                    /\ R.file[D[d].file].deleted \/ NoneLeft(R, D[d].file)
  BY DEF JoinsAlone
<1>1. D[d].file \in Files
  BY DEF Core, DownloaderFine
<1> QED BY <1>1 DEF JoinsAlone, NoneLeft, Follows

\* The downloaders do the same in D and in E, perhaps they are stopped.
SameWork(D, E) ==
    /\ E \in [Downloaders -> Work]
    /\ \A d \in Downloaders :
          /\ E[d].pc = D[d].pc /\ E[d].file = D[d].file
          /\ E[d].part = D[d].part /\ E[d].nzb = D[d].nzb /\ E[d].status = D[d].status

(***************************************************************************)
(* Changes of the downloaders that concern neither their files nor their   *)
(* groups keep the invariant.                                              *)
(***************************************************************************)
LEMMA CoreSameWork ==
    ASSUME NEW Q, NEW D, NEW E, NEW A, Core(Q, D, A), SameWork(D, E)
    PROVE  /\ Core(Q, E, A)
           /\ \A d \in Downloaders : JoinsAlone(Q, D, d) => JoinsAlone(Q, E, d)
<1>1. \A f : ActiveIn(E, f) = ActiveIn(D, f)
  BY DEF ActiveIn, SameWork
<1>2. \A n : ActiveOf(Q, E, n) = ActiveOf(Q, D, n)
  BY DEF ActiveOf, SameWork
<1>3. \A d \in Downloaders : Fetching(E, d) = Fetching(D, d)
  BY DEF Fetching, SameWork
<1>4. FilesCounted(Q, E) /\ GroupsCounted(Q, E, A)
  BY <1>1, <1>2 DEF Core, FilesCounted, GroupsCounted
<1>5. ASSUME NEW d \in Downloaders PROVE DownloaderFine(Q, E, d)
  <2>1. DownloaderFine(Q, D, d)
    BY DEF Core
  <2> QED BY <1>3, <2>1 DEF DownloaderFine, SameWork
<1>6. ArticlesOwned(Q, E)
  <2>1. \A d \in Downloaders : E[d].file = D[d].file /\ E[d].part = D[d].part
    BY DEF SameWork
  <2>2. ASSUME NEW d \in Downloaders, NEW e \in Downloaders,
               d # e, E[d].file = E[e].file, Fetching(E, d), Fetching(E, e)
        PROVE  E[d].part # E[e].part
    BY <1>3, <2>1, <2>2 DEF Core, ArticlesOwned
  <2>3. ASSUME NEW f \in Files, NEW a \in 1 .. NumArticles[f],
               Q.file[f].article[a] = "running"
        PROVE  \E d \in ActiveIn(E, f) : Fetching(E, d) /\ E[d].part = a
    <3>1. PICK d \in ActiveIn(D, f) : Fetching(D, d) /\ D[d].part = a
      BY <2>3 DEF Core, ArticlesOwned
    <3>2. d \in Downloaders
      BY <3>1 DEF ActiveIn
    <3> QED BY <1>1, <1>3, <2>1, <3>1, <3>2
  <2> QED BY <2>2, <2>3 DEF ArticlesOwned
<1>7. \A d \in Downloaders : JoinsAlone(Q, D, d) => JoinsAlone(Q, E, d)
  BY <1>1 DEF JoinsAlone, SameWork
<1> QED BY <1>4, <1>5, <1>6, <1>7 DEF Core, SameWork

(***************************************************************************)
(* Stopping the downloads of deleted files is such a change.               *)
(***************************************************************************)
LEMMA StopDeletedIsSameWork ==
    ASSUME NEW Q, NEW D \in [Downloaders -> Work]
    PROVE  SameWork(D, StopDeleted(Q, D))
<1>1. \A d \in Downloaders : [D[d] EXCEPT !.stopped = TRUE] \in Work
  BY DEF Work
<1>2. \A d \in Downloaders : \/ StopDeleted(Q, D)[d] = D[d]
                             \/ StopDeleted(Q, D)[d] = [D[d] EXCEPT !.stopped = TRUE]
  BY DEF StopDeleted
<1>3. StopDeleted(Q, D) \in [Downloaders -> Work]
  BY <1>1 DEF StopDeleted
<1> QED BY <1>2, <1>3 DEF SameWork, Work

(***************************************************************************)
(* What an idle downloader has.                                            *)
(***************************************************************************)
LEMMA IdleIs == Idle \in Work /\ Idle.pc = "idle" /\ Idle.file = NoFile /\ Idle.nzb = NoNzb
BY DEF Idle, Work

(***************************************************************************)
(* A downloader whose article is booked leaves.                            *)
(***************************************************************************)
LEMMA DeleteDownloaderKeeps ==
    ASSUME NEW Q, NEW D, NEW A, Core(Q, D, A),
           NEW d \in Downloaders, D[d].pc = "completing",
           NEW fileCompleted \in BOOLEAN,
           fileCompleted => ActiveIn(D, D[d].file) = {d}
    PROVE  /\ Core(DeleteDownloader(Q, D[d].file, fileCompleted), [D EXCEPT ![d] = Idle], A)
           /\ \A e \in Downloaders \ {d} :
                 JoinsAlone(Q, D, e)
                 => JoinsAlone(DeleteDownloader(Q, D[d].file, fileCompleted),
                               [D EXCEPT ![d] = Idle], e)
<1> DEFINE f == D[d].file
           n == Q.file[f].nzb
           E == [D EXCEPT ![d] = Idle]
           last == Q.file[f].activeDownloads <= 1
           b == [Q.file[f] EXCEPT !.activeDownloads = @ - 1]
           r == [Q.nzb[n] EXCEPT !.activeDownloads = @ - 1]
           F == [Q.file EXCEPT ![f] = b]
           left == With(Q, n, r, F)
           removed == DeleteFileInfo(left, n, {f}, fileCompleted)
           gone == fileCompleted \/ (Q.file[f].deleted /\ last)
           R == DeleteDownloader(Q, f, fileCompleted)
<1>1. f \in Files /\ n \in Nzbs /\ InQueue(Q, n) /\ DownloaderFine(Q, D, d)
  <2>1. f \in Files /\ DownloaderFine(Q, D, d)
    BY DEF Core, DownloaderFine
  <2> QED BY <2>1, GroupsOfWork
<1>2. Q \in DownloadQueue /\ D \in [Downloaders -> Work] /\ A \subseteq Nzbs
  BY DEF Core
<1>3. Q.file[f] \in FileInfo /\ Q.nzb[n] \in NzbInfo /\ Q.file \in [Files -> FileInfo]
  BY <1>1, <1>2, PartsOfQueue
<1> DEFINE departed == [Q EXCEPT !.file[f].activeDownloads = @ - 1,
                                  !.nzb[n].activeDownloads = @ - 1]
<1>4. departed = left
  <2> DEFINE file == [Q.file EXCEPT ![f].activeDownloads = @ - 1]
             nzb == [Q.nzb EXCEPT ![n].activeDownloads = @ - 1]
             nzbs == [Q.nzb EXCEPT ![n] = r]
  <2>1. F = file
    BY <1>1, <1>3
  <2>2. nzb = nzbs
    BY <1>1, <1>3
  <2>3. departed = [Q EXCEPT !.file = file, !.nzb = nzb]
    BY <1>2 DEF DownloadQueue
  <2>4. left = [Q EXCEPT !.file = F, !.nzb = nzbs]
    <3> HIDE DEF r, F
    <3> QED BY <1>2 DEF With, DownloadQueue
  <2> HIDE DEF file, nzb, nzbs, F, departed, left
  <2> QED BY <2>1, <2>2, <2>3, <2>4
<1>5. R = IF gone THEN removed ELSE left
  <2>1. R = IF gone THEN DeleteFileInfo(departed, n, {f}, fileCompleted) ELSE departed
    BY DEF DeleteDownloader
  <2> HIDE DEF departed, left, R, gone
  <2> QED BY <1>4, <2>1
<1>6. /\ b \in FileInfo /\ b.activeDownloads = Q.file[f].activeDownloads - 1 /\ b.nzb = n
      /\ b.article = Q.file[f].article /\ b.completedArticles = Q.file[f].completedArticles
      /\ b.remaining = Q.file[f].remaining /\ b.deleted = Q.file[f].deleted
  <2> DEFINE k == Q.file[f].activeDownloads - 1
  <2>1. k \in Int
    BY <1>3 DEF FileInfo
  <2>2. b = [Q.file[f] EXCEPT !.activeDownloads = k]
    OBVIOUS
  <2> HIDE DEF k, b
  <2> QED BY <1>3, <2>1, <2>2 DEF FileInfo, k
<1>7. r \in NzbInfo /\ r.activeDownloads = Q.nzb[n].activeDownloads - 1
      /\ r.parking = Q.nzb[n].parking
  <2> DEFINE g == Q.nzb[n]
             k == g.activeDownloads - 1
  <2>1. g \in NzbInfo
    BY <1>3
  <2>4. k \in Int
    <3> HIDE DEF g
    <3> QED BY <2>1 DEF NzbInfo
  <2>2. r = [g EXCEPT !.activeDownloads = k]
    OBVIOUS
  <2> HIDE DEF k, r, g
  <2>3. r \in NzbInfo /\ r.activeDownloads = k /\ r.parking = g.parking
    BY <2>1, <2>2, <2>4 DEF NzbInfo
  <2> QED BY <2>3 DEF k, g
<1> HIDE DEF b, r
<1>8. F \in [Files -> FileInfo] /\ \A g \in Files : F[g] = IF g = f THEN b ELSE Q.file[g]
  <2> DEFINE file == Q.file
  <2>1. file \in [Files -> FileInfo] /\ f \in Files /\ b \in FileInfo
    BY <1>1, <1>3, <1>6
  <2> HIDE DEF file
  <2> QED BY <2>1 DEF file
<1> HIDE DEF F
<1>9. /\ left \in DownloadQueue /\ left.queue = Q.queue
      /\ \A g \in Files : left.file[g] = IF g = f THEN b ELSE Q.file[g]
      /\ \A m \in Nzbs : left.nzb[m] = IF m = n THEN r ELSE Q.nzb[m]
  <2>1. /\ left \in DownloadQueue /\ left.queue = Q.queue /\ left.file = F
        /\ \A m \in Nzbs : left.nzb[m] = IF m = n THEN r ELSE Q.nzb[m]
    <3>1. /\ Q \in DownloadQueue /\ n \in Nzbs /\ r \in NzbInfo
          /\ F \in [Files -> FileInfo]
      BY <1>1, <1>2, <1>7, <1>8
    <3> HIDE DEF n, f
    <3> QED BY <3>1, WithIs
  <2> QED BY <1>8, <2>1
<1> HIDE DEF left, departed
<1>10. /\ E \in [Downloaders -> Work]
       /\ \A e \in Downloaders : E[e] = IF e = d THEN Idle ELSE D[e]
  BY <1>2, IdleIs
<1> HIDE DEF E
<1>11. \A g \in Files : ActiveIn(E, g) = ActiveIn(D, g) \ {d}
  BY <1>10, IdleIs, QueueAssumption DEF ActiveIn
<1>12. \A g \in Files : g # f => d \notin ActiveIn(D, g)
  BY DEF ActiveIn
<1>13. d \in ActiveIn(D, f) /\ d \in ActiveOf(Q, D, n)
  BY <1>1, QueueAssumption DEF ActiveIn, ActiveOf
<1>14. \A g \in Files : left.file[g].nzb = Q.file[g].nzb
  BY <1>6, <1>9
<1>15. \A m \in Nzbs : ActiveOf(left, E, m) = ActiveOf(Q, D, m) \ {d}
  <2>1. \A e \in Downloaders : D[e].file # NoFile => D[e].file \in Files
    BY <1>2 DEF Work
  <2> QED BY <1>10, <1>14, <2>1, IdleIs DEF ActiveOf
<1>16. \A m \in Nzbs : m # n => d \notin ActiveOf(Q, D, m)
  BY DEF ActiveOf
<1>17. ASSUME NEW S \in SUBSET Downloaders, d \in S
       PROVE  /\ Cardinality(S \ {d}) = Cardinality(S) - 1
              /\ Cardinality(S) \in Nat /\ (Cardinality(S) <= 1 => S = {d})
  <2>1. IsFiniteSet(S)
    BY CoordinatorAssumption, FS_Subset
  <2>2. Cardinality(S \ {d}) = Cardinality(S) - 1 /\ IsFiniteSet(S \ {d})
    BY <1>17, <2>1, FS_RemoveElement
  <2>3. Cardinality(S) \in Nat /\ Cardinality(S \ {d}) \in Nat
    BY <2>1, <2>2, FS_CardinalityType
  <2>4. Cardinality(S \ {d}) = 0 => S \ {d} = {}
    BY <2>2, FS_EmptySet
  <2> QED BY <1>17, <2>2, <2>3, <2>4
<1>18. Core(left, E, A)
  <2>1. FilesCounted(left, E)
    <3> SUFFICES ASSUME NEW g \in Files
                 PROVE  /\ Len(left.file[g].article) = NumArticles[g]
                        /\ left.file[g].activeDownloads = Cardinality(ActiveIn(E, g))
                        /\ left.file[g].completedArticles = Cardinality(Done(left, g))
                        /\ left.file[g].remaining = NumArticles[g] - Cardinality(Done(left, g))
      BY DEF FilesCounted
    <3>1. /\ Len(Q.file[g].article) = NumArticles[g]
          /\ Q.file[g].activeDownloads = Cardinality(ActiveIn(D, g))
          /\ Q.file[g].completedArticles = Cardinality(Done(Q, g))
          /\ Q.file[g].remaining = NumArticles[g] - Cardinality(Done(Q, g))
      BY DEF Core, FilesCounted
    <3>2. /\ left.file[g].article = Q.file[g].article
          /\ left.file[g].completedArticles = Q.file[g].completedArticles
          /\ left.file[g].remaining = Q.file[g].remaining
      BY <1>6, <1>9
    <3>3. Done(left, g) = Done(Q, g)
      BY <3>2 DEF Done
    <3>4. left.file[g].activeDownloads = Cardinality(ActiveIn(E, g))
      <4>1. CASE g = f
        <5>1. ActiveIn(D, f) \in SUBSET Downloaders
          BY DEF ActiveIn
        <5>2. Cardinality(ActiveIn(E, f)) = Cardinality(ActiveIn(D, f)) - 1
          BY <1>1, <1>11, <1>13, <1>17, <5>1
        <5> QED BY <1>6, <1>9, <3>1, <4>1, <5>2
      <4>2. CASE g # f
        <5>1. ActiveIn(E, g) = ActiveIn(D, g)
          BY <1>11, <1>12, <4>2
        <5> QED BY <1>9, <3>1, <4>2, <5>1
      <4> QED BY <4>1, <4>2
    <3> QED BY <3>1, <3>2, <3>3, <3>4
  <2>2. GroupsCounted(left, E, A)
    <3> SUFFICES ASSUME NEW m \in Nzbs
                 PROVE  /\ InQueue(left, m) =>
                             /\ m \in A
                             /\ left.nzb[m].activeDownloads = Cardinality(ActiveOf(left, E, m))
                        /\ m \notin A => left.nzb[m].activeDownloads = 0 /\ ~left.nzb[m].parking
                        /\ left.nzb[m].parking =>
                             /\ \A g \in Files : left.file[g].nzb = m => left.file[g].deleted
      BY DEF GroupsCounted
    <3>1. /\ InQueue(Q, m) =>
               m \in A /\ Q.nzb[m].activeDownloads = Cardinality(ActiveOf(Q, D, m))
          /\ m \notin A => Q.nzb[m].activeDownloads = 0 /\ ~Q.nzb[m].parking
          /\ Q.nzb[m].parking =>
               \A g \in Files : Q.file[g].nzb = m => Q.file[g].deleted
      BY DEF Core, GroupsCounted
    <3>2. InQueue(left, m) <=> InQueue(Q, m)
      BY <1>9 DEF InQueue
    <3>3. left.nzb[m].parking = Q.nzb[m].parking
      BY <1>7, <1>9
    <3>4. \A g \in Files : left.file[g].deleted = Q.file[g].deleted
      BY <1>6, <1>9
    <3>5. n \in A
      BY <1>1 DEF Core, GroupsCounted
    <3>6. m \notin A => left.nzb[m].activeDownloads = Q.nzb[m].activeDownloads
      BY <1>9, <3>5
    <3>7. InQueue(Q, m) => left.nzb[m].activeDownloads = Cardinality(ActiveOf(left, E, m))
      <4>1. CASE m = n
        <5>1. ActiveOf(Q, D, n) \in SUBSET Downloaders
          BY DEF ActiveOf
        <5>2. Cardinality(ActiveOf(left, E, n)) = Cardinality(ActiveOf(Q, D, n)) - 1
          BY <1>1, <1>13, <1>15, <1>17, <5>1
        <5> QED BY <1>7, <1>9, <3>1, <4>1, <5>2
      <4>2. CASE m # n
        <5>1. ActiveOf(left, E, m) = ActiveOf(Q, D, m)
          BY <1>15, <1>16, <4>2
        <5> QED BY <1>9, <3>1, <4>2, <5>1
      <4> QED BY <4>1, <4>2
    <3> QED BY <1>14, <3>1, <3>2, <3>3, <3>4, <3>6, <3>7
  <2>3. FilesHaveGroups(left, A)
    <3>1. FilesHaveGroups(Q, A)
      BY DEF Core
    <3> QED BY <1>9, <1>14, <3>1 DEF FilesHaveGroups, InQueue
  <2>4. ASSUME NEW e \in Downloaders PROVE DownloaderFine(left, E, e)
    <3>1. CASE e = d
      BY <1>10, <3>1, IdleIs DEF DownloaderFine, Fetching
    <3>2. CASE e # d
      <4>1. E[e] = D[e] /\ DownloaderFine(Q, D, e)
        BY <1>10, <3>2 DEF Core
      <4>2. CASE D[e].pc = "idle"
        BY <4>1, <4>2 DEF DownloaderFine, Fetching
      <4>3. CASE D[e].pc # "idle"
        <5>1. D[e].file \in Files
          BY <4>1, <4>3 DEF DownloaderFine
        <5>2. /\ left.file[D[e].file].nzb = Q.file[D[e].file].nzb
              /\ left.file[D[e].file].article = Q.file[D[e].file].article
          BY <1>6, <1>9, <1>14, <5>1
        <5> QED BY <1>9, <4>1, <5>1, <5>2 DEF DownloaderFine, Fetching, InQueue
      <4> QED BY <4>2, <4>3
    <3> QED BY <3>1, <3>2
  <2>5. ArticlesOwned(left, E)
    <3>1. \A g \in Files : left.file[g].article = Q.file[g].article
      BY <1>6, <1>9
    <3>2. \A e \in Downloaders : Fetching(E, e) => e # d /\ E[e] = D[e]
      BY <1>10, IdleIs DEF Fetching
    <3>3. ASSUME NEW e \in Downloaders, NEW h \in Downloaders,
                 e # h, E[e].file = E[h].file, Fetching(E, e), Fetching(E, h)
          PROVE  E[e].part # E[h].part
      BY <3>2, <3>3 DEF Core, ArticlesOwned, Fetching
    <3>4. ASSUME NEW g \in Files, NEW a \in 1 .. NumArticles[g],
                 left.file[g].article[a] = "running"
          PROVE  \E e \in ActiveIn(E, g) : Fetching(E, e) /\ E[e].part = a
      <4>1. PICK e \in ActiveIn(D, g) : Fetching(D, e) /\ D[e].part = a
        BY <3>1, <3>4 DEF Core, ArticlesOwned
      <4>2. e \in Downloaders /\ e # d
        BY <4>1 DEF ActiveIn, Fetching
      <4>3. E[e] = D[e] /\ e \in ActiveIn(E, g)
        BY <1>10, <1>11, <4>1, <4>2
      <4> QED BY <4>1, <4>3 DEF Fetching
    <3> QED BY <3>3, <3>4 DEF ArticlesOwned
  <2> QED BY <1>2, <1>9, <1>10, <2>1, <2>2, <2>3, <2>4, <2>5 DEF Core
<1>19. ASSUME NEW e \in Downloaders \ {d}, JoinsAlone(Q, D, e) PROVE JoinsAlone(left, E, e)
  <2> SUFFICES ASSUME E[e].pc = "completing"
               PROVE  /\ ActiveIn(E, E[e].file) = {e}
                      /\ left.file[E[e].file].deleted \/ NoneLeft(left, E[e].file)
    BY DEF JoinsAlone
  <2>1. E[e] = D[e]
    BY <1>10
  <2>2. ActiveIn(D, D[e].file) = {e}
        /\ (Q.file[D[e].file].deleted \/ NoneLeft(Q, D[e].file))
    BY <1>19, <2>1 DEF JoinsAlone
  <2>3. D[e].file \in Files
    BY <2>1 DEF Core, DownloaderFine
  <2>4. D[e].file # f
    BY <1>13, <2>2
  <2>5. left.file[D[e].file] = Q.file[D[e].file]
    BY <1>9, <2>3, <2>4
  <2> QED BY <1>11, <2>1, <2>2, <2>3, <2>5 DEF NoneLeft
<1> HIDE DEF R
<1>20. CASE ~gone
  <2>1. R = left
    BY <1>5, <1>20
  <2> HIDE DEF gone
  <2> QED BY <1>18, <1>19, <2>1 DEF E, R
<1>21. CASE gone
  <2>1. ActiveIn(E, f) = {}
    <3>1. ActiveIn(D, f) \in SUBSET Downloaders
      BY DEF ActiveIn
    <3>2. Q.file[f].activeDownloads = Cardinality(ActiveIn(D, f))
      BY <1>1 DEF Core, FilesCounted
    <3>3. ActiveIn(D, f) = {d}
      BY <1>13, <1>17, <1>21, <3>1, <3>2
    <3> QED BY <1>1, <1>11, <3>3
  <2>2. CountsWork(left, n, E)
    <3>1. InQueue(left, n)
      BY <1>1, <1>9 DEF InQueue
    <3> QED BY <1>1, <1>18, <3>1, GroupsOfWork
  <2>3. Follows(left, removed, E)
    <3> DEFINE files == {f}
    <3>1. files \in SUBSET Files /\ \A g \in files : ActiveIn(E, g) = {}
      BY <1>1, <2>1
    <3> HIDE DEF files
    <3>2. Follows(left, DeleteFileInfo(left, n, files, fileCompleted), E)
      BY <1>1, <1>9, <2>2, <3>1, DeleteFileInfoFollows
    <3> QED BY <3>2 DEF files
  <2>4. Core(removed, E, A)
    <3> HIDE DEF removed
    <3> QED BY <1>18, <2>3, CoreFollows
  <2>5. \A e \in Downloaders \ {d} : JoinsAlone(Q, D, e) => JoinsAlone(removed, E, e)
    <3> HIDE DEF removed
    <3> QED BY <1>18, <1>19, <2>3, JoinsAloneFollows
  <2>6. R = removed
    BY <1>5, <1>21
  <2> HIDE DEF removed, gone
  <2> QED BY <2>4, <2>5, <2>6 DEF E, R
<1> QED BY <1>20, <1>21

(***************************************************************************)
(* Downloaders that do not change.                                         *)
(***************************************************************************)
LEMMA SameWorkItself ==
    ASSUME NEW D \in [Downloaders -> Work] PROVE SameWork(D, D)
BY DEF SameWork

(***************************************************************************)
(* An operation made of helpers, which may also stop downloads, keeps the  *)
(* invariant.                                                              *)
(***************************************************************************)
LEMMA FollowsKeeps ==
    ASSUME NEW Q, NEW R, NEW D, NEW E, NEW A,
           Sound(Q, D, A), Follows(Q, R, D), SameWork(D, E)
    PROVE  Sound(R, E, A)
<1>1. Core(Q, D, A) /\ \A d \in Downloaders : JoinsAlone(Q, D, d)
  BY DEF Sound
<1>2. Core(R, D, A)
  BY <1>1, CoreFollows
<1>3. \A d \in Downloaders : JoinsAlone(R, D, d)
  BY <1>1, JoinsAloneFollows
<1>4. Core(R, E, A) /\ \A d \in Downloaders : JoinsAlone(R, E, d)
  BY <1>2, <1>3, CoreSameWork
<1> QED BY <1>4 DEF Sound

\* What the handlers find when they lock the queue.
LEMMA SoundIs ==
    ASSUME NEW Q, NEW D, NEW A, Sound(Q, D, A)
    PROVE  /\ Q \in DownloadQueue /\ D \in [Downloaders -> Work]
           /\ \A n : InQueue(Q, n) => n \in Nzbs /\ CountsWork(Q, n, D)
<1>1. Core(Q, D, A) /\ Q \in DownloadQueue /\ D \in [Downloaders -> Work]
  BY DEF Sound, Core
<1>2. ASSUME NEW n, InQueue(Q, n) PROVE n \in Nzbs
  BY <1>1, <1>2, InQueueIs, PartsOfQueue, Members
<1> QED BY <1>1, <1>2, GroupsOfWork

(***************************************************************************)
(* Pausing or resuming a file.                                             *)
(***************************************************************************)
LEMMA PauseUnpauseEntryKeeps ==
    ASSUME Sound(q, dl, added), NEW f \in Files, PauseUnpauseEntry(f)
    PROVE  Sound(q', dl', added')
<1> DEFINE n == q.file[f].nzb
           paused == ~q.file[f].paused
           files == {f}
<1>1. q \in DownloadQueue /\ n \in Nzbs /\ paused \in BOOLEAN /\ files \in SUBSET Files
      /\ SameWork(dl, dl)
  BY SoundIs, SameWorkItself DEF PauseUnpauseEntry, Queued
<1>2. q' = SetPaused(q, n, files, paused) /\ dl' = dl /\ added' = added
  BY DEF PauseUnpauseEntry, Edit
<1> HIDE DEF n, paused, files
<1>3. Follows(q, q', dl)
  BY <1>1, <1>2, SetPausedFollows
<1> QED BY <1>1, <1>2, <1>3, FollowsKeeps

(***************************************************************************)
(* The par-files chosen to be resumed are files.                           *)
(***************************************************************************)
LEMMA ExtraParsAre ==
    ASSUME NEW Q, NEW n, NEW pars \in ExtraPars(Q, n) PROVE pars \in SUBSET Files
<1>1. pars \subseteq FilesOf(Q, n)
  BY DEF ExtraPars
<1> QED BY <1>1 DEF FilesOf

(***************************************************************************)
(* Pausing or resuming a group.                                            *)
(***************************************************************************)
LEMMA PauseUnpauseGroupKeeps ==
    ASSUME Sound(q, dl, added), NEW n \in Nzbs, PauseUnpauseGroup(n)
    PROVE  Sound(q', dl', added')
<1>1. q \in DownloadQueue /\ SameWork(dl, dl) /\ dl' = dl /\ added' = added
  BY SoundIs, SameWorkItself DEF PauseUnpauseGroup, Edit
<1>2. PICK files \in SUBSET Files, paused \in BOOLEAN :
         q' = SetPaused(q, n, files, paused)
  BY ExtraParsAre DEF PauseUnpauseGroup, PauseGroup, FilesOf
<1>3. Follows(q, q', dl)
  BY <1>1, <1>2, SetPausedFollows
<1> QED BY <1>1, <1>3, FollowsKeeps

(***************************************************************************)
(* Raising a file to the extra priority disturbs no downloader.            *)
(***************************************************************************)
LEMMA SetExtraPriorityFollows ==
    ASSUME NEW Q \in DownloadQueue, NEW f \in Files, Q.file[f].nzb \in Nzbs, NEW D
    PROVE  Follows(Q, SetExtraPriority(Q, f), D)
<1> DEFINE n == Q.file[f].nzb
           k == Q.nzb[n].extraPriority + 1
           r == [Q.nzb[n] EXCEPT !.extraPriority = k]
           b == [Q.file[f] EXCEPT !.extraPriority = TRUE]
           F == [Q.file EXCEPT ![f] = b]
<1>1. Q.nzb[n] \in NzbInfo /\ Q.file[f] \in FileInfo /\ Q.file \in [Files -> FileInfo]
  BY PartsOfQueue
<1>2. SetExtraPriority(Q, f) = IF Q.file[f].extraPriority THEN Q ELSE With(Q, n, r, F)
  BY DEF SetExtraPriority, With, DownloadQueue
<1>3. k \in Int
  BY <1>1 DEF NzbInfo
<1>4. b \in FileInfo /\ AlikeFiles(Q.file[f], b) /\ b.nzb = n
  BY <1>1 DEF FileInfo, AlikeFiles
<1> HIDE DEF k
<1>5. r \in NzbInfo /\ r.activeDownloads = Q.nzb[n].activeDownloads
      /\ (r.parking => Q.nzb[n].parking)
  <2> DEFINE g == Q.nzb[n]
  <2>1. g \in NzbInfo
    BY <1>1
  <2> HIDE DEF g
  <2>2. [g EXCEPT !.extraPriority = k] \in NzbInfo
        /\ [g EXCEPT !.extraPriority = k].activeDownloads = g.activeDownloads
        /\ [g EXCEPT !.extraPriority = k].parking = g.parking
    BY <1>3, <2>1 DEF NzbInfo
  <2> QED BY <2>2 DEF g
<1> HIDE DEF b
<1>6. F \in [Files -> FileInfo] /\ \A g \in Files : F[g] = IF g = f THEN b ELSE Q.file[g]
  <2> DEFINE file == Q.file
  <2>1. file \in [Files -> FileInfo] /\ b \in FileInfo
    BY <1>1, <1>4
  <2> HIDE DEF file
  <2> QED BY <2>1 DEF file
<1> HIDE DEF F, r
<1>7. /\ \A g \in Files : AlikeFiles(Q.file[g], F[g])
      /\ \A g \in Files : F[g].nzb = Q.file[g].nzb
  BY <1>4, <1>6 DEF AlikeFiles, n
<1>8. Follows(Q, With(Q, n, r, F), D)
  <2>1. n \in Nzbs
    OBVIOUS
  <2> HIDE DEF n
  <2> QED BY <1>5, <1>6, <1>7, <2>1, WithFollows
<1>9. Follows(Q, Q, D)
  BY FollowsItself
<1> HIDE DEF n
<1> QED BY <1>2, <1>8, <1>9

(***************************************************************************)
(* Resuming the par-files that a repair needs.                             *)
(***************************************************************************)
LEMMA UnpauseParsKeeps ==
    ASSUME Sound(q, dl, added), NEW f \in Files, UnpausePars(f)
    PROVE  Sound(q', dl', added')
<1> DEFINE n == q.file[f].nzb
           files == {f}
           P == SetPaused(q, n, files, FALSE)
<1>1. q \in DownloadQueue /\ n \in Nzbs /\ files \in SUBSET Files /\ SameWork(dl, dl)
  BY SoundIs, SameWorkItself DEF UnpausePars, Queued
<1>2. q' = SetExtraPriority(P, f) /\ dl' = dl /\ added' = added
  BY DEF UnpausePars, Edit
<1>3. Follows(q, P, dl)
  <2> HIDE DEF n, files
  <2> QED BY <1>1, SetPausedFollows
<1>4. P \in DownloadQueue
  BY <1>3 DEF Follows
<1>5. P.file[f].nzb = n
  BY <1>1 DEF SetPaused, DownloadQueue
<1>6. Follows(P, q', dl)
  <2> HIDE DEF P
  <2> QED BY <1>1, <1>2, <1>4, <1>5, SetExtraPriorityFollows
<1>7. Follows(q, q', dl)
  <2> HIDE DEF P
  <2> QED BY <1>3, <1>6, FollowsTransitive
<1> QED BY <1>1, <1>2, <1>7, FollowsKeeps

(***************************************************************************)
(* Deleting a file.                                                        *)
(***************************************************************************)
LEMMA DeleteEntryKeeps ==
    ASSUME Sound(q, dl, added), NEW f \in Files, DeleteEntry(f)
    PROVE  Sound(q', dl', added')
<1> DEFINE n == q.file[f].nzb
           files == {f}
<1>1. q \in DownloadQueue /\ n \in Nzbs /\ CountsWork(q, n, dl) /\ files \in SUBSET Files
      /\ SameWork(dl, StopDeleted(q', dl))
  BY SoundIs, StopDeletedIsSameWork DEF DeleteEntry, Queued
<1>2. /\ q' = DeleteQueueEntries(q, n, files)
      /\ dl' = StopDeleted(q', dl) /\ added' = added
  BY DEF DeleteEntry, Edit
<1> HIDE DEF n, files
<1>3. Follows(q, q', dl)
  BY <1>1, <1>2, DeleteQueueEntriesFollows
<1> QED BY <1>1, <1>2, <1>3, FollowsKeeps

(***************************************************************************)
(* Deleting or parking a group.                                            *)
(***************************************************************************)
LEMMA EditGroupDeleteKeeps ==
    ASSUME Sound(q, dl, added), NEW n \in Nzbs, EditGroupDelete(n)
    PROVE  Sound(q', dl', added')
<1>1. q \in DownloadQueue /\ CountsWork(q, n, dl) /\ InQueue(q, n)
      /\ SameWork(dl, StopDeleted(q', dl))
  BY SoundIs, StopDeletedIsSameWork DEF EditGroupDelete
<1>2. PICK kind \in {"delete", "park", "dupe", "final"} :
         /\ q' = DeleteGroup(q, n, kind) /\ added' = added
         /\ kind \in EditKinds
  BY DEF EditGroupDelete, Edit, EditMade
<1>3. dl' = StopDeleted(q', dl)
  BY DEF EditGroupDelete
<1>4. Follows(q, q', dl)
  BY <1>1, <1>2, DeleteGroupFollows
<1> QED BY <1>1, <1>2, <1>3, <1>4, FollowsKeeps

(***************************************************************************)
(* Changing the priority of a group.                                       *)
(***************************************************************************)
LEMMA SetNzbPriorityKeeps ==
    ASSUME Sound(q, dl, added), NEW n \in Nzbs, SetNzbPriority(n)
    PROVE  Sound(q', dl', added')
<1>1. q \in DownloadQueue /\ SameWork(dl, dl) /\ dl' = dl /\ added' = added
  BY SoundIs, SameWorkItself DEF SetNzbPriority, Edit
<1>2. PICK p \in Priorities : q' = [q EXCEPT !.nzb[n].priority = p]
  BY DEF SetNzbPriority
<1> DEFINE r == [q.nzb[n] EXCEPT !.priority = p]
<1>3. /\ r \in NzbInfo /\ r.activeDownloads = q.nzb[n].activeDownloads
      /\ r.parking => q.nzb[n].parking
  <2>1. q.nzb[n] \in NzbInfo
    BY <1>1, PartsOfQueue
  <2> DEFINE g == q.nzb[n]
  <2> HIDE DEF g
  <2>2. g \in NzbInfo
    BY <2>1 DEF g
  <2>3. p \in Int
    BY CoordinatorAssumption
  <2>4. /\ [g EXCEPT !.priority = p] \in NzbInfo
        /\ [g EXCEPT !.priority = p].activeDownloads = g.activeDownloads
        /\ [g EXCEPT !.priority = p].parking = g.parking
    BY <2>2, <2>3 DEF NzbInfo
  <2> QED BY <2>4 DEF g
<1>4. q' = WithNzb(q, n, r)
  BY <1>2 DEF WithNzb
<1> HIDE DEF r
<1>5. Follows(q, q', dl)
  BY <1>1, <1>3, <1>4, WithNzbFollows
<1> QED BY <1>1, <1>5, FollowsKeeps

(***************************************************************************)
(* A post-processing job ends.                                             *)
(***************************************************************************)
LEMMA JobCompletedKeeps ==
    ASSUME Sound(q, dl, added), NEW n \in Nzbs, JobCompleted(n)
    PROVE  Sound(q', dl', added')
<1>1. /\ q \in DownloadQueue /\ SameWork(dl, dl) /\ dl' = dl /\ added' = added
      /\ CountsWork(q, n, dl)
  BY SoundIs, SameWorkItself DEF JobCompleted
<1> DEFINE r == [q.nzb[n] EXCEPT !.postInfo = FALSE]
           P == WithNzb(q, n, r)
<1>2. q' = IF IsDownloadCompleted(P, n, TRUE) THEN NzbCompleted(P, n) ELSE P
  BY DEF JobCompleted, WithNzb
<1>3. /\ r \in NzbInfo /\ r.activeDownloads = q.nzb[n].activeDownloads
      /\ r.parking => q.nzb[n].parking
  <2>1. q.nzb[n] \in NzbInfo
    BY <1>1, PartsOfQueue
  <2> QED BY <2>1 DEF NzbInfo
<1> HIDE DEF r
<1>4. Follows(q, P, dl)
  BY <1>1, <1>3, WithNzbFollows
<1> HIDE DEF P
<1>5. P \in DownloadQueue /\ CountsWork(P, n, dl)
  BY <1>1, <1>4, StillUnworked DEF Follows
<1>6. IsDownloadCompleted(P, n, TRUE) => Follows(P, NzbCompleted(P, n), dl)
  BY <1>5, NzbCompletedFollows DEF IsDownloadCompleted, CountsWork
<1>7. Follows(q, q', dl)
  BY <1>2, <1>4, <1>6, FollowsTransitive
<1> QED BY <1>1, <1>7, FollowsKeeps

(***************************************************************************)
(* Moving a group in the list.                                             *)
(***************************************************************************)
LEMMA MoveGroupKeeps ==
    ASSUME Sound(q, dl, added), NEW n \in Nzbs, MoveGroup(n)
    PROVE  Sound(q', dl', added')
<1>1. /\ q \in DownloadQueue /\ SameWork(dl, dl) /\ dl' = dl /\ added' = added
      /\ InQueue(q, n)
  BY SoundIs, SameWorkItself DEF MoveGroup, Edit
<1> DEFINE others == Without(q.queue, n)
<1>2. others \in Seq(Nzbs) /\ ToSet(others) = ToSet(q.queue) \ {n}
  BY <1>1, PartsOfQueue, WithoutIs
<1>3. PICK i \in 1 .. Len(others) + 1 : q' = [q EXCEPT !.queue = InsertAt(others, i, n)]
  BY DEF MoveGroup
<1> HIDE DEF others
<1> DEFINE queue == InsertAt(others, i, n)
<1>4. queue \in Seq(Nzbs) /\ ToSet(queue) = ToSet(others) \cup {n}
  BY <1>2, InsertedIs
<1>5. ToSet(queue) = ToSet(q.queue)
  BY <1>1, <1>2, <1>4, InQueueIs
<1> HIDE DEF queue
<1>6. /\ q' \in DownloadQueue /\ q'.queue = queue
      /\ q'.nzb = q.nzb /\ q'.file = q.file
  BY <1>1, <1>3, <1>4 DEF DownloadQueue, queue
<1>7. \A m : InQueue(q', m) <=> InQueue(q, m)
  BY <1>1, <1>5, <1>6, InQueueIs
<1>8. Follows(q, q', dl)
  BY <1>6, <1>7 DEF Follows
<1> QED BY <1>1, <1>8, FollowsKeeps

(***************************************************************************)
(* Restarting a hanging download.                                          *)
(***************************************************************************)
LEMMA ResetHangingDownloadKeeps ==
    ASSUME Sound(q, dl, added), NEW d \in Downloaders, ResetHangingDownload(d)
    PROVE  Sound(q', dl', added')
<1>1. q \in DownloadQueue /\ dl \in [Downloaders -> Work]
  BY SoundIs
<1>2. q' = q /\ dl' = [dl EXCEPT ![d].stopped = TRUE] /\ added' = added
  BY DEF ResetHangingDownload, Edit
<1>3. SameWork(dl, dl')
  BY <1>1, <1>2 DEF SameWork, Work
<1> QED BY <1>1, <1>2, <1>3, FollowsItself, FollowsKeeps

(***************************************************************************)
(* Without downloaders no file is worked on.                               *)
(***************************************************************************)
LEMMA NoneActive ==
    ASSUME NEW D \in [Downloaders -> Work], \A d \in Downloaders : D[d].file = NoFile, NEW f \in Files
    PROVE  ActiveIn(D, f) = {}
BY QueueAssumption DEF ActiveIn

(***************************************************************************)
(* A group as the parser returns it.                                       *)
(***************************************************************************)
LEMMA ParsedNzbIs ==
    ASSUME NEW n \in Nzbs
    PROVE  ParsedNzb(n) \in NzbInfo /\ ParsedNzb(n).activeDownloads = 0 /\ ~ParsedNzb(n).parking
<1> DEFINE home == {f \in Files : HomeOf[f] = n}
           pars == home \cap ParFiles
           missed == TotalMissed(home)
           count == Cardinality(home)
           size == TotalSize(home)
           parSize == TotalSize(pars)
           remaining == size - missed
           parCount == Cardinality(pars)
           parMissed == TotalMissed(pars)
<1>1. home \in SUBSET Files /\ pars \in SUBSET Files
  OBVIOUS
<1> HIDE DEF home, pars
<1>2. count \in Int /\ parCount \in Int
  BY <1>1, CountsAreInts
<1>3. \A files \in SUBSET Files : TotalSize(files) \in Int /\ TotalMissed(files) \in Int
  <2> SUFFICES ASSUME NEW files \in SUBSET Files
               PROVE  TotalSize(files) \in Int /\ TotalMissed(files) \in Int
    OBVIOUS
  <2> DEFINE size1 == [f \in Files |-> FileSize(f)]
  <2>1. IsFiniteSet(files)
    BY QueueAssumption, FS_Subset
  <2>2. \A f \in files : size1[f] \in Int /\ Missed[f] \in Int
    BY QueueAssumption DEF FileSize
  <2> HIDE DEF size1
  <2>3. SumFunctionOnSet(size1, files) \in Int /\ SumFunctionOnSet(Missed, files) \in Int
    BY <2>1, <2>2, SumIsInt
  <2> QED BY <2>3 DEF size1, TotalSize, TotalMissed
<1>4. missed \in Int /\ size \in Int /\ parSize \in Int /\ parMissed \in Int
  BY <1>1, <1>3
<1>5. remaining \in Int
  <2> HIDE DEF size, missed
  <2> QED BY <1>4
<1>6. ParsedNzb(n) = [EmptyNzb EXCEPT
            !.fileCount = count, !.size = size, !.parSize = parSize,
            !.remaining = remaining, !.remainingParCount = parCount,
            !.failedSize = missed, !.failedArticles = missed,
            !.parFailedSize = parMissed, !.currentFailed = missed,
            !.parCurrentFailed = parMissed]
  BY DEF ParsedNzb, home, pars
<1> HIDE DEF count, parCount, missed, size, parSize, parMissed, remaining
<1> DEFINE empty == EmptyNzb
           r == [empty EXCEPT
            !.fileCount = count, !.size = size, !.parSize = parSize,
            !.remaining = remaining, !.remainingParCount = parCount,
            !.failedSize = missed, !.failedArticles = missed,
            !.parFailedSize = parMissed, !.currentFailed = missed,
            !.parCurrentFailed = parMissed]
<1>7. empty \in NzbInfo /\ empty.activeDownloads = 0 /\ ~empty.parking
  BY DEF EmptyNzb, NzbInfo
<1>8. ParsedNzb(n) = r
  BY <1>6
<1> HIDE DEF empty
<1>9. r \in NzbInfo
  <2>1. {count, size, parSize, remaining, parCount, missed, parMissed} \subseteq Int
    BY <1>2, <1>4, <1>5
  <2> QED BY <1>7, <2>1, Zenon DEF NzbInfo
<1>10. r.activeDownloads = empty.activeDownloads /\ r.parking = empty.parking
  BY <1>7 DEF NzbInfo
<1> HIDE DEF r
<1> QED BY <1>7, <1>8, <1>9, <1>10

(***************************************************************************)
(* A file as the parser returns it: no article is started.                 *)
(***************************************************************************)
LEMMA NewFileIs ==
    ASSUME NEW f \in Files
    PROVE  /\ NewFile(f) \in FileInfo /\ Len(NewFile(f).article) = NumArticles[f]
           /\ NewFile(f).activeDownloads = 0 /\ NewFile(f).completedArticles = 0
           /\ NewFile(f).remaining = NumArticles[f] /\ NewFile(f).nzb = HomeOf[f]
           /\ \A a \in 1 .. NumArticles[f] : NewFile(f).article[a] = "undefined"
<1> DEFINE N == NumArticles[f]
           s == [a \in 1 .. N |-> "undefined"]
<1>1. N \in Nat /\ HomeOf[f] \in Nzbs
  BY QueueAssumption
<1> HIDE DEF N
<1>2. s \in Seq(ArticleStatuses) /\ Len(s) = N /\ \A a \in 1 .. N : s[a] = "undefined"
  BY <1>1 DEF ArticleStatuses
<1> HIDE DEF s
<1>3. NewFile(f) = [nzb |-> HomeOf[f], paused |-> FALSE, deleted |-> FALSE,
         dupeDeleted |-> FALSE, extraPriority |-> FALSE, confirmed |-> FALSE,
         activeDownloads |-> 0, completedArticles |-> 0, success |-> 0,
         failed |-> 0, remaining |-> N, article |-> s]
  BY DEF NewFile, N, s
<1> QED BY <1>1, <1>2, <1>3 DEF FileInfo, N

(***************************************************************************)
(* The invariant holds at the start.                                       *)
(***************************************************************************)
LEMMA InitSound == ASSUME Init PROVE Sound(q, dl, added)
<1>1. /\ q.queue = <<>> /\ added = {} /\ dl \in [Downloaders -> Work]
      /\ \A d \in Downloaders : dl[d] = Idle
      /\ \A f \in Files : q.file[f] = NewFile(f)
      /\ \A n \in Nzbs : q.nzb[n] = ParsedNzb(n)
  BY IdleIs DEF Init
<1>2. q \in DownloadQueue
  <2> DEFINE nzb == [n \in Nzbs |-> ParsedNzb(n)]
             file == [f \in Files |-> NewFile(f)]
  <2>1. nzb \in [Nzbs -> NzbInfo] /\ file \in [Files -> FileInfo]
    BY ParsedNzbIs, NewFileIs
  <2>2. q = [queue |-> <<>>, nzb |-> nzb, file |-> file, history |-> {}]
    BY DEF Init
  <2> HIDE DEF nzb, file
  <2> QED BY <2>1, <2>2 DEF DownloadQueue
<1>3. \A n : ~InQueue(q, n)
  BY <1>1, <1>2, InQueueIs DEF ToSet
<1>4. \A f \in Files : ActiveIn(dl, f) = {}
  BY <1>1, IdleIs, NoneActive
<1>5. FilesCounted(q, dl)
  <2> SUFFICES ASSUME NEW f \in Files
               PROVE  /\ Len(q.file[f].article) = NumArticles[f]
                      /\ q.file[f].activeDownloads = Cardinality(ActiveIn(dl, f))
                      /\ q.file[f].completedArticles = Cardinality(Done(q, f))
                      /\ q.file[f].remaining = NumArticles[f] - Cardinality(Done(q, f))
    BY DEF FilesCounted
  <2>1. Done(q, f) = {}
    BY <1>1, NewFileIs DEF Done
  <2>2. Cardinality(ActiveIn(dl, f)) = 0 /\ Cardinality(Done(q, f)) = 0
    BY <1>4, <2>1, FS_EmptySet
  <2>3. NumArticles[f] \in Nat
    BY QueueAssumption
  <2> QED BY <1>1, <2>2, <2>3, NewFileIs
<1>6. GroupsCounted(q, dl, added)
  BY <1>1, <1>3, ParsedNzbIs DEF GroupsCounted
<1>7. FilesHaveGroups(q, added)
  BY <1>1 DEF FilesHaveGroups
<1>8. \A d \in Downloaders : DownloaderFine(q, dl, d) /\ JoinsAlone(q, dl, d)
  BY <1>1, IdleIs DEF DownloaderFine, JoinsAlone, Fetching
<1>9. ArticlesOwned(q, dl)
  <2>1. \A d \in Downloaders : ~Fetching(dl, d)
    BY <1>1, IdleIs DEF Fetching
  <2>2. \A f \in Files : \A a \in 1 .. NumArticles[f] : q.file[f].article[a] # "running"
    BY <1>1, NewFileIs
  <2> QED BY <2>1, <2>2 DEF ArticlesOwned
<1> QED BY <1>1, <1>2, <1>5, <1>6, <1>7, <1>8, <1>9 DEF Sound, Core

(***************************************************************************)
(* The end of a joined file.                                               *)
(***************************************************************************)
LEMMA FileCompletedKeeps ==
    ASSUME Sound(q, dl, added), NEW d \in Downloaders, FileCompleted(d)
    PROVE  Sound(q', dl', added')
<1>1. Core(q, dl, added) /\ \A e \in Downloaders : JoinsAlone(q, dl, e)
  BY DEF Sound
<1>2. /\ dl[d].pc = "completing" /\ q' = DeleteDownloader(q, dl[d].file, TRUE)
      /\ dl' = [dl EXCEPT ![d] = Idle] /\ added' = added
  BY DEF FileCompleted
<1>3. ActiveIn(dl, dl[d].file) = {d}
  BY <1>1, <1>2 DEF JoinsAlone
<1>4. Core(q', dl', added) /\ \A e \in Downloaders \ {d} : JoinsAlone(q', dl', e)
  BY <1>1, <1>2, <1>3, DeleteDownloaderKeeps
<1>5. JoinsAlone(q', dl', d)
  BY <1>1, <1>2, IdleIs DEF Core, JoinsAlone
<1> QED BY <1>2, <1>4, <1>5 DEF Sound

(***************************************************************************)
(* The end of a download.                                                  *)
(***************************************************************************)
LEMMA DownloadEndsKeeps ==
    ASSUME Sound(q, dl, added), NEW d \in Downloaders, DownloadEnds(d)
    PROVE  Sound(q', dl', added')
<1>1. /\ Core(q, dl, added) /\ \A e \in Downloaders : JoinsAlone(q, dl, e)
      /\ q \in DownloadQueue /\ dl \in [Downloaders -> Work]
  BY DEF Sound, Core
<1>2. dl[d].pc = "running" /\ q' = q /\ added' = added
  BY DEF DownloadEnds
<1> DEFINE n == q.file[dl[d].file].nzb
<1>3. PICK status \in {"finished", "failed", "retry"} :
         dl' = [dl EXCEPT ![d].pc = "notifying", ![d].status = status, ![d].nzb = n]
  BY DEF DownloadEnds
<1>4. dl[d].file \in Files /\ n \in Nzbs
  <2>1. dl[d].file \in Files
    BY <1>1, <1>2 DEF Core, DownloaderFine
  <2> QED BY <1>1, <2>1, GroupsOfWork
<1> HIDE DEF n
<1>5. /\ dl' \in [Downloaders -> Work]
      /\ dl'[d].pc = "notifying" /\ dl'[d].status = status /\ dl'[d].nzb = n
      /\ dl'[d].file = dl[d].file /\ dl'[d].part = dl[d].part
      /\ \A e \in Downloaders : e # d => dl'[e] = dl[e]
  BY <1>1, <1>3, <1>4 DEF Work
<1>6. \A e \in Downloaders : /\ dl'[e].file = dl[e].file /\ dl'[e].part = dl[e].part
                             /\ Fetching(dl', e) = Fetching(dl, e)
  BY <1>2, <1>5 DEF Fetching
<1>7. \A f : ActiveIn(dl', f) = ActiveIn(dl, f)
  BY <1>6 DEF ActiveIn
<1>8. \A m : ActiveOf(q, dl', m) = ActiveOf(q, dl, m)
  BY <1>6 DEF ActiveOf
<1>9. FilesCounted(q, dl') /\ GroupsCounted(q, dl', added)
  BY <1>1, <1>7, <1>8 DEF Core, FilesCounted, GroupsCounted
<1>10. ASSUME NEW e \in Downloaders PROVE DownloaderFine(q, dl', e)
  <2>1. DownloaderFine(q, dl, e)
    BY <1>1 DEF Core
  <2>2. CASE e = d
    BY <1>2, <1>5, <2>1, <2>2 DEF DownloaderFine, Fetching, n
  <2>3. CASE e # d
    BY <1>5, <2>1, <2>3 DEF DownloaderFine, Fetching
  <2> QED BY <2>2, <2>3
<1>11. ArticlesOwned(q, dl')
  <2>1. ASSUME NEW e \in Downloaders, NEW g \in Downloaders,
               e # g, dl'[e].file = dl'[g].file, Fetching(dl', e), Fetching(dl', g)
        PROVE  dl'[e].part # dl'[g].part
    BY <1>1, <1>6, <2>1 DEF Core, ArticlesOwned
  <2>2. ASSUME NEW f \in Files, NEW a \in 1 .. NumArticles[f],
               q.file[f].article[a] = "running"
        PROVE  \E e \in ActiveIn(dl', f) : Fetching(dl', e) /\ dl'[e].part = a
    <3>1. PICK e \in ActiveIn(dl, f) : Fetching(dl, e) /\ dl[e].part = a
      BY <1>1, <2>2 DEF Core, ArticlesOwned
    <3>2. e \in Downloaders
      BY <3>1 DEF ActiveIn
    <3> QED BY <1>6, <1>7, <3>1, <3>2
  <2> QED BY <2>1, <2>2 DEF ArticlesOwned
<1>12. ASSUME NEW e \in Downloaders PROVE JoinsAlone(q, dl', e)
  <2>1. CASE e = d
    BY <1>5, <2>1 DEF JoinsAlone
  <2>2. CASE e # d
    BY <1>1, <1>5, <1>7, <2>2 DEF JoinsAlone
  <2> QED BY <2>1, <2>2
<1>13. Sound(q, dl', added)
  BY <1>1, <1>5, <1>9, <1>10, <1>11, <1>12 DEF Sound, Core
<1> QED BY <1>2, <1>13

(***************************************************************************)
(* A group that is not in the queue has no downloaders.                    *)
(***************************************************************************)
LEMMA NoWorkOutside ==
    ASSUME NEW Q, NEW D, NEW A, Core(Q, D, A), NEW n \in Nzbs, ~InQueue(Q, n)
    PROVE  ActiveOf(Q, D, n) = {}
<1>1. ASSUME NEW d \in Downloaders, D[d].file # NoFile, Q.file[D[d].file].nzb = n
      PROVE  FALSE
  <2>1. DownloaderFine(Q, D, d) /\ D[d] \in Work
    BY DEF Core
  <2>2. D[d].pc # "idle"
    BY <1>1, <2>1 DEF DownloaderFine
  <2> QED BY <1>1, <2>1, <2>2 DEF DownloaderFine
<1> QED BY <1>1 DEF ActiveOf

(***************************************************************************)
(* Adding an nzb-file.                                                     *)
(***************************************************************************)
LEMMA AddNzbFileToQueueKeeps ==
    ASSUME Sound(q, dl, added), NEW n \in Nzbs, AddNzbFileToQueue(n)
    PROVE  Sound(q', dl', added')
<1>1. /\ Core(q, dl, added) /\ \A d \in Downloaders : JoinsAlone(q, dl, d)
      /\ q \in DownloadQueue /\ dl \in [Downloaders -> Work] /\ added \subseteq Nzbs
  BY DEF Sound, Core
<1>2. n \notin added /\ dl' = dl /\ added' = added \cup {n}
  BY DEF AddNzbFileToQueue
<1>3. PICK queue \in {<<n>> \o q.queue, q.queue \o <<n>>}, pars \in ExtraPars(q, n) :
         q' = SetPaused([q EXCEPT !.queue = queue], n, pars, TRUE)
  BY DEF AddNzbFileToQueue
<1> DEFINE R == [q EXCEPT !.queue = queue]
<1>4. queue \in Seq(Nzbs) /\ ToSet(queue) = ToSet(q.queue) \cup {n}
  <2> DEFINE s == q.queue
             t == <<n>>
  <2>1. s \in Seq(Nzbs) /\ t \in Seq(Nzbs) /\ ToSet(t) = {n}
    BY <1>1, PartsOfQueue, SingleIs
  <2>2. queue = t \o s \/ queue = s \o t
    BY <1>3
  <2> HIDE DEF s, t
  <2>3. /\ s \o t \in Seq(Nzbs) /\ ToSet(s \o t) = ToSet(s) \cup ToSet(t)
        /\ t \o s \in Seq(Nzbs) /\ ToSet(t \o s) = ToSet(s) \cup ToSet(t)
    BY <2>1, JoinedIs
  <2>4. queue \in Seq(Nzbs) /\ ToSet(queue) = ToSet(s) \cup ToSet(t)
    BY <2>2, <2>3
  <2> QED BY <2>1, <2>4 DEF s
<1>5. R \in DownloadQueue /\ R.queue = queue /\ R.nzb = q.nzb /\ R.file = q.file
  BY <1>1, <1>4 DEF DownloadQueue
<1>6. q' = SetPaused(R, n, pars, TRUE)
  BY <1>3
<1> HIDE DEF R
<1>7. \A m : InQueue(R, m) <=> InQueue(q, m) \/ m = n
  BY <1>1, <1>4, <1>5, InQueueIs
<1>8. ~InQueue(q, n)
  BY <1>1, <1>2 DEF Core, GroupsCounted
<1>9. ActiveOf(q, dl, n) = {} /\ q.nzb[n].activeDownloads = 0 /\ ~q.nzb[n].parking
  BY <1>1, <1>2, <1>8, NoWorkOutside DEF Core, GroupsCounted
<1>10. /\ \A m : ActiveOf(R, dl, m) = ActiveOf(q, dl, m)
       /\ \A f : Done(R, f) = Done(q, f)
  BY <1>5 DEF ActiveOf, Done
<1>11. FilesCounted(R, dl)
  BY <1>1, <1>5, <1>10 DEF Core, FilesCounted
<1>12. GroupsCounted(R, dl, added')
  <2> SUFFICES ASSUME NEW m \in Nzbs
               PROVE  /\ InQueue(R, m) =>
                           /\ m \in added'
                           /\ R.nzb[m].activeDownloads = Cardinality(ActiveOf(R, dl, m))
                      /\ m \notin added' => R.nzb[m].activeDownloads = 0 /\ ~R.nzb[m].parking
                      /\ R.nzb[m].parking =>
                           /\ \A f \in Files : R.file[f].nzb = m => R.file[f].deleted
    BY DEF GroupsCounted
  <2>1. CASE m = n
    <3>1. Cardinality(ActiveOf(R, dl, n)) = 0
      BY <1>9, <1>10, FS_EmptySet
    <3> QED BY <1>2, <1>5, <1>9, <2>1, <3>1
  <2>2. CASE m # n
    BY <1>1, <1>2, <1>5, <1>7, <1>10, <2>2 DEF Core, GroupsCounted
  <2> QED BY <2>1, <2>2
<1>13. FilesHaveGroups(R, added')
  BY <1>1, <1>2, <1>5, <1>7 DEF Core, FilesHaveGroups
<1>14. ASSUME NEW d \in Downloaders
       PROVE  DownloaderFine(R, dl, d) /\ JoinsAlone(R, dl, d)
  <2>1. DownloaderFine(q, dl, d) /\ JoinsAlone(q, dl, d)
    BY <1>1 DEF Core
  <2> QED BY <1>5, <1>7, <2>1 DEF DownloaderFine, JoinsAlone, NoneLeft
<1>15. ArticlesOwned(R, dl)
  BY <1>1, <1>5 DEF Core, ArticlesOwned
<1>16. Sound(R, dl, added')
  BY <1>1, <1>2, <1>5, <1>11, <1>12, <1>13, <1>14, <1>15 DEF Sound, Core
<1>17. Follows(R, q', dl)
  BY <1>5, <1>6, ExtraParsAre, SetPausedFollows
<1> QED BY <1>1, <1>2, <1>16, <1>17, SameWorkItself, FollowsKeeps

\* The article taken is the first one left.
LEMMA FirstLeft ==
    ASSUME NEW M \in SUBSET Nat, M # {}
    PROVE  Min(M) \in M
<1>1. \E m \in M : \A k \in M : m <= k
  BY LeastNumber
<1> QED BY <1>1 DEF Min

(***************************************************************************)
(* Starting the download of an article.                                    *)
(***************************************************************************)
LEMMA StartArticleDownloadKeeps ==
    ASSUME Sound(q, dl, added), NEW d \in Downloaders, StartArticleDownload(d)
    PROVE  Sound(q', dl', added')
<1>1. /\ Core(q, dl, added) /\ \A e \in Downloaders : JoinsAlone(q, dl, e)
      /\ q \in DownloadQueue /\ dl \in [Downloaders -> Work] /\ added \subseteq Nzbs
  BY DEF Sound, Core
<1>2. dl[d].pc = "idle" /\ added' = added
  BY DEF StartArticleDownload
<1>3. PICK f \in NextFiles \ {NoFile} :
         LET a == Min({p \in DOMAIN q.file[f].article :
                          q.file[f].article[p] = "undefined"})
         IN  /\ q' = TakeArticle(f, a)
             /\ dl' = [dl EXCEPT ![d] = [Idle EXCEPT !.pc = "running",
                                            !.file = f, !.part = a]]
  BY DEF StartArticleDownload
<1> DEFINE M == {p \in DOMAIN q.file[f].article : q.file[f].article[p] = "undefined"}
           a == Min(M)
           n == q.file[f].nzb
           s == q.file[f].article
           t == [s EXCEPT ![a] = "running"]
           k == q.file[f].activeDownloads + 1
           l == q.nzb[n].activeDownloads + 1
           b == [q.file[f] EXCEPT !.article = t, !.activeDownloads = k]
           r == [q.nzb[n] EXCEPT !.activeDownloads = l]
           F == [q.file EXCEPT ![f] = b]
           work == [Idle EXCEPT !.pc = "running", !.file = f, !.part = a]
<1>4. f \in Files /\ Queued(f) /\ ~q.file[f].deleted /\ HasArticles(f)
  BY <1>1, <1>3, NextFilesAre
<1>5. n \in Nzbs /\ InQueue(q, n) /\ n \in added
  <2>1. InQueue(q, n)
    BY <1>4 DEF Queued
  <2>2. n \in Nzbs
    BY <2>1, SoundIs
  <2> QED BY <1>1, <2>1, <2>2 DEF Core, GroupsCounted
<1>6. q.file[f] \in FileInfo /\ q.nzb[n] \in NzbInfo /\ q.file \in [Files -> FileInfo]
  BY <1>1, <1>4, <1>5, PartsOfQueue
<1>7. s \in Seq(ArticleStatuses) /\ Len(s) = NumArticles[f] /\ DOMAIN s = 1 .. NumArticles[f]
  <2>1. s \in Seq(ArticleStatuses)
    BY <1>6 DEF FileInfo
  <2>2. Len(s) = NumArticles[f]
    BY <1>1, <1>4 DEF Core, FilesCounted
  <2> HIDE DEF s
  <2> QED BY <2>1, <2>2
<1>8. a \in 1 .. NumArticles[f] /\ s[a] = "undefined"
  <2>1. M # {}
    BY <1>4 DEF HasArticles
  <2>2. M \in SUBSET Nat
    BY <1>7
  <2>3. a \in M
    <3> HIDE DEF M
    <3> QED BY <2>1, <2>2, FirstLeft
  <2> HIDE DEF a
  <2> QED BY <1>7, <2>3
<1>9. q' = With(q, n, r, F)
  <2> DEFINE nzb == [q.nzb EXCEPT ![n].activeDownloads = @ + 1]
             nzbs == [q.nzb EXCEPT ![n] = r]
             c == [q.file[f] EXCEPT !.article[a] = "running", !.activeDownloads = @ + 1]
             file == [q.file EXCEPT ![f] = c]
  <2>1. q' = TakeArticle(f, a)
    BY <1>3
  <2> HIDE DEF a
  <2>2. q' = [q EXCEPT !.file[f] = c, !.nzb[n].activeDownloads = @ + 1]
    BY <2>1 DEF TakeArticle
  <2>3. b = c
    BY <1>6 DEF FileInfo
  <2> HIDE DEF c
  <2>4. q' = [q EXCEPT !.file = file, !.nzb = nzb]
    BY <1>1, <2>2 DEF DownloadQueue
  <2>5. nzb = nzbs
    BY <1>5, <1>6
  <2>6. F = file
    BY <2>3
  <2>7. With(q, n, r, F) = [q EXCEPT !.file = F, !.nzb = nzbs]
    <3> HIDE DEF r, F
    <3> QED BY <1>1 DEF With, DownloadQueue
  <2> HIDE DEF file, nzb, nzbs, F
  <2> QED BY <2>4, <2>5, <2>6, <2>7
<1>10. dl' = [dl EXCEPT ![d] = work]
  BY <1>3
<1>11. work \in Work /\ work.pc = "running" /\ work.file = f /\ work.part = a /\ work.nzb = NoNzb
  <2>1. a \in Nat
    <3> HIDE DEF a
    <3> QED BY <1>8
  <2> HIDE DEF a
  <2> QED BY <1>4, <2>1 DEF Idle, Work
<1> HIDE DEF a, work, M
<1>12. /\ t \in Seq(ArticleStatuses) /\ Len(t) = NumArticles[f]
       /\ \A p \in 1 .. NumArticles[f] : t[p] = IF p = a THEN "running" ELSE s[p]
  <2> HIDE DEF s
  <2> QED BY <1>7, <1>8 DEF ArticleStatuses
<1> HIDE DEF t
<1>13. k \in Int /\ l \in Int
  <2>1. k \in Int
    BY <1>6 DEF FileInfo
  <2> DEFINE g == q.nzb[n]
  <2>2. g \in NzbInfo
    BY <1>6
  <2> HIDE DEF g
  <2>3. g.activeDownloads + 1 \in Int
    BY <2>2 DEF NzbInfo
  <2> QED BY <2>1, <2>3 DEF g
<1> HIDE DEF k, l
<1>14. /\ b \in FileInfo /\ b.activeDownloads = k /\ b.nzb = n /\ b.article = t
       /\ b.completedArticles = q.file[f].completedArticles
       /\ b.remaining = q.file[f].remaining /\ b.deleted = q.file[f].deleted
  BY <1>6, <1>12, <1>13 DEF FileInfo
<1>15. r \in NzbInfo /\ r.activeDownloads = l /\ r.parking = q.nzb[n].parking
  <2> DEFINE g == q.nzb[n]
  <2>1. g \in NzbInfo
    BY <1>6
  <2> HIDE DEF g
  <2>2. LET x == [g EXCEPT !.activeDownloads = l]
        IN  x \in NzbInfo /\ x.activeDownloads = l /\ x.parking = g.parking
    BY <1>13, <2>1 DEF NzbInfo
  <2> QED BY <2>2 DEF g
<1> HIDE DEF b, r
<1>16. F \in [Files -> FileInfo] /\ \A g \in Files : F[g] = IF g = f THEN b ELSE q.file[g]
  <2> DEFINE file == q.file
  <2>1. file \in [Files -> FileInfo]
    BY <1>6
  <2> HIDE DEF file
  <2>2. [file EXCEPT ![f] = b] \in [Files -> FileInfo]
        /\ \A g \in Files : [file EXCEPT ![f] = b][g] = IF g = f THEN b ELSE file[g]
    BY <1>4, <1>14, <2>1
  <2> QED BY <2>2 DEF file
<1> HIDE DEF F
<1>17. /\ q' \in DownloadQueue /\ q'.queue = q.queue
       /\ \A g \in Files : q'.file[g] = IF g = f THEN b ELSE q.file[g]
       /\ \A m \in Nzbs : q'.nzb[m] = IF m = n THEN r ELSE q.nzb[m]
  <2>1. /\ With(q, n, r, F) \in DownloadQueue
        /\ With(q, n, r, F).queue = q.queue /\ With(q, n, r, F).file = F
        /\ \A m \in Nzbs : With(q, n, r, F).nzb[m] = IF m = n THEN r ELSE q.nzb[m]
    <3> HIDE DEF n
    <3> QED BY <1>1, <1>5, <1>15, <1>16, WithIs
  <2> QED BY <1>9, <1>16, <2>1
<1>18. /\ dl' \in [Downloaders -> Work]
       /\ \A e \in Downloaders : dl'[e] = IF e = d THEN work ELSE dl[e]
  BY <1>1, <1>10, <1>11
<1>19. \A e \in Downloaders : Fetching(dl', e) <=> (e = d \/ Fetching(dl, e))
  BY <1>2, <1>11, <1>18 DEF Fetching
<1>20. dl[d].file = NoFile /\ ~Fetching(dl, d)
  BY <1>1, <1>2 DEF Core, DownloaderFine, Fetching
<1>21. \A g \in Files : /\ d \notin ActiveIn(dl, g)
                        /\ ActiveIn(dl', g) = ActiveIn(dl, g) \cup (IF g = f THEN {d} ELSE {})
  BY <1>11, <1>18, <1>20, QueueAssumption DEF ActiveIn
<1>22. \A g \in Files : q'.file[g].nzb = q.file[g].nzb /\ q'.file[g].deleted = q.file[g].deleted
  BY <1>14, <1>17
<1>23. \A m \in Nzbs :
          /\ d \notin ActiveOf(q, dl, m)
          /\ ActiveOf(q', dl', m) = ActiveOf(q, dl, m) \cup (IF m = n THEN {d} ELSE {})
  <2>1. \A e \in Downloaders : dl[e].file # NoFile => dl[e].file \in Files
    BY <1>1 DEF Work
  <2>2. f # NoFile
    BY <1>4, QueueAssumption
  <2>3. ASSUME NEW m \in Nzbs, NEW e \in Downloaders
        PROVE  e \in ActiveOf(q', dl', m) <=> (e \in ActiveOf(q, dl, m) \/ (e = d /\ m = n))
    <3>1. CASE e = d
      <4>1. dl'[e].file = f /\ dl[e].file = NoFile
        BY <1>11, <1>18, <1>20, <3>1
      <4>2. q'.file[f].nzb = n
        BY <1>4, <1>22
      <4> HIDE DEF n
      <4> QED BY <2>2, <3>1, <4>1, <4>2 DEF ActiveOf
    <3>2. CASE e # d
      BY <1>18, <1>22, <2>1, <3>2 DEF ActiveOf
    <3> QED BY <3>1, <3>2
  <2>4. \A m \in Nzbs : ActiveOf(q', dl', m) \subseteq Downloaders
                        /\ ActiveOf(q, dl, m) \subseteq Downloaders
    BY DEF ActiveOf
  <2>5. \A m \in Nzbs : d \notin ActiveOf(q, dl, m)
    BY <1>20 DEF ActiveOf
  <2> HIDE DEF n
  <2> QED BY <2>3, <2>4, <2>5
<1>24. ASSUME NEW S \in SUBSET Downloaders, d \notin S
       PROVE  Cardinality(S \cup {d}) = Cardinality(S) + 1
  <2>1. IsFiniteSet(S)
    BY CoordinatorAssumption, FS_Subset
  <2> QED BY <1>24, <2>1, FS_AddElement
<1>25. \A g \in Files : Done(q', g) = Done(q, g)
  <2>1. Done(q', f) = Done(q, f)
    <3>1. q'.file[f].article = t /\ q.file[f].article = s
      BY <1>4, <1>14, <1>17
    <3> HIDE DEF s
    <3> QED BY <1>8, <1>12, <3>1 DEF Done
  <2>2. ASSUME NEW g \in Files, g # f PROVE Done(q', g) = Done(q, g)
    <3>1. q'.file[g] = q.file[g]
      BY <1>17, <2>2
    <3> QED BY <3>1 DEF Done
  <2> QED BY <2>1, <2>2
<1>26. FilesCounted(q', dl')
  <2> SUFFICES ASSUME NEW g \in Files
               PROVE  /\ Len(q'.file[g].article) = NumArticles[g]
                      /\ q'.file[g].activeDownloads = Cardinality(ActiveIn(dl', g))
                      /\ q'.file[g].completedArticles = Cardinality(Done(q', g))
                      /\ q'.file[g].remaining = NumArticles[g] - Cardinality(Done(q', g))
    BY DEF FilesCounted
  <2>1. /\ Len(q.file[g].article) = NumArticles[g]
        /\ q.file[g].activeDownloads = Cardinality(ActiveIn(dl, g))
        /\ q.file[g].completedArticles = Cardinality(Done(q, g))
        /\ q.file[g].remaining = NumArticles[g] - Cardinality(Done(q, g))
    BY <1>1 DEF Core, FilesCounted
  <2>2. CASE g = f
    <3>1. ActiveIn(dl, f) \in SUBSET Downloaders
      BY DEF ActiveIn
    <3>2. Cardinality(ActiveIn(dl', f)) = Cardinality(ActiveIn(dl, f)) + 1
      BY <1>4, <1>21, <1>24, <3>1
    <3> QED BY <1>4, <1>12, <1>14, <1>17, <1>25, <2>1, <2>2, <3>2 DEF k
  <2>3. CASE g # f
    <3>1. ActiveIn(dl', g) = ActiveIn(dl, g) /\ q'.file[g] = q.file[g]
      BY <1>17, <1>21, <2>3
    <3> QED BY <1>25, <2>1, <3>1
  <2> QED BY <2>2, <2>3
<1>27. GroupsCounted(q', dl', added)
  <2> SUFFICES ASSUME NEW m \in Nzbs
               PROVE  /\ InQueue(q', m) =>
                           m \in added /\ q'.nzb[m].activeDownloads = Cardinality(ActiveOf(q', dl', m))
                      /\ m \notin added => q'.nzb[m].activeDownloads = 0 /\ ~q'.nzb[m].parking
                      /\ q'.nzb[m].parking =>
                           /\ \A g \in Files : q'.file[g].nzb = m => q'.file[g].deleted
    BY DEF GroupsCounted
  <2>1. /\ InQueue(q, m) =>
             m \in added /\ q.nzb[m].activeDownloads = Cardinality(ActiveOf(q, dl, m))
        /\ m \notin added => q.nzb[m].activeDownloads = 0 /\ ~q.nzb[m].parking
        /\ q.nzb[m].parking =>
             \A g \in Files : q.file[g].nzb = m => q.file[g].deleted
    BY <1>1 DEF Core, GroupsCounted
  <2>2. InQueue(q', m) <=> InQueue(q, m)
    BY <1>17 DEF InQueue
  <2>3. CASE m = n
    <3>1. ActiveOf(q, dl, n) \in SUBSET Downloaders
      BY DEF ActiveOf
    <3>2. Cardinality(ActiveOf(q', dl', n)) = Cardinality(ActiveOf(q, dl, n)) + 1
      BY <1>5, <1>23, <1>24, <3>1
    <3>3. q'.nzb[m] = r
      BY <1>5, <1>17, <2>3
    <3>4. q.nzb[m].activeDownloads + 1 = l
      BY <2>3 DEF l
    <3> HIDE DEF n
    <3> QED BY <1>5, <1>15, <1>22, <2>1, <2>2, <2>3, <3>2, <3>3, <3>4
  <2>4. CASE m # n
    <3>1. ActiveOf(q', dl', m) = ActiveOf(q, dl, m) /\ q'.nzb[m] = q.nzb[m]
      BY <1>17, <1>23, <2>4
    <3> HIDE DEF n
    <3> QED BY <1>22, <2>1, <2>2, <3>1
  <2> QED BY <2>3, <2>4
<1>28. FilesHaveGroups(q', added)
  <2>1. FilesHaveGroups(q, added)
    BY <1>1 DEF Core
  <2> QED BY <1>17, <1>22, <2>1 DEF FilesHaveGroups, InQueue
<1>29. ASSUME NEW e \in Downloaders PROVE DownloaderFine(q', dl', e)
  <2>1. CASE e = d
    <3>1. dl'[e] = work
      BY <1>18, <2>1
    <3>2. q'.file[f].article[a] = "running"
      BY <1>4, <1>8, <1>12, <1>14, <1>17
    <3>3. InQueue(q', q'.file[f].nzb)
      BY <1>4, <1>5, <1>17, <1>22 DEF InQueue
    <3> QED BY <1>4, <1>8, <1>11, <3>1, <3>2, <3>3 DEF DownloaderFine, Fetching
  <2>2. CASE e # d
    <3>1. dl'[e] = dl[e] /\ DownloaderFine(q, dl, e)
      BY <1>1, <1>18, <2>2 DEF Core
    <3>2. CASE dl[e].pc = "idle"
      BY <3>1, <3>2 DEF DownloaderFine, Fetching
    <3>3. CASE dl[e].pc # "idle"
      <4>1. dl[e].file \in Files
        BY <3>1, <3>3 DEF DownloaderFine
      <4>2. Fetching(dl, e) => q'.file[dl[e].file].article[dl[e].part] = "running"
        <5>1. CASE dl[e].file = f
          <6>1. q'.file[f].article = t /\ q.file[f].article = s
            BY <1>4, <1>14, <1>17
          <6> QED BY <1>12, <3>1, <5>1, <6>1 DEF DownloaderFine
        <5>2. CASE dl[e].file # f
          BY <1>17, <3>1, <4>1, <5>2 DEF DownloaderFine
        <5> QED BY <5>1, <5>2
      <4> QED BY <1>17, <1>22, <3>1, <4>1, <4>2 DEF DownloaderFine, Fetching, InQueue
    <3> QED BY <3>2, <3>3
  <2> QED BY <2>1, <2>2
<1>30. ArticlesOwned(q', dl')
  <2>1. ASSUME NEW e \in Downloaders, e # d, Fetching(dl, e), dl[e].file = f
        PROVE  dl[e].part # a
    <3>1. DownloaderFine(q, dl, e)
      BY <1>1 DEF Core
    <3>2. s[dl[e].part] = "running"
      BY <2>1, <3>1 DEF DownloaderFine
    <3> QED BY <1>8, <3>2
  <2>2. ASSUME NEW e \in Downloaders, NEW h \in Downloaders,
               e # h, dl'[e].file = dl'[h].file, Fetching(dl', e), Fetching(dl', h)
        PROVE  dl'[e].part # dl'[h].part
    <3>1. CASE e = d
      BY <1>11, <1>18, <1>19, <2>1, <2>2, <3>1
    <3>2. CASE h = d
      BY <1>11, <1>18, <1>19, <2>1, <2>2, <3>2
    <3>3. CASE e # d /\ h # d
      BY <1>1, <1>18, <1>19, <2>2, <3>3 DEF Core, ArticlesOwned
    <3> QED BY <3>1, <3>2, <3>3
  <2>3. ASSUME NEW g \in Files, NEW p \in 1 .. NumArticles[g],
               q'.file[g].article[p] = "running"
        PROVE  \E e \in ActiveIn(dl', g) : Fetching(dl', e) /\ dl'[e].part = p
    <3>1. CASE g = f /\ p = a
      <4>1. d \in ActiveIn(dl', f)
        BY <1>4, <1>21
      <4> QED BY <1>11, <1>18, <1>19, <3>1, <4>1
    <3>2. CASE ~(g = f /\ p = a)
      <4>1. q.file[g].article[p] = "running"
        <5>1. CASE g = f
          <6>1. q'.file[f].article = t /\ q.file[f].article = s
            BY <1>4, <1>14, <1>17
          <6> HIDE DEF s
          <6> QED BY <1>12, <2>3, <3>2, <5>1, <6>1
        <5>2. CASE g # f
          BY <1>17, <2>3, <5>2
        <5> QED BY <5>1, <5>2
      <4>2. PICK e \in ActiveIn(dl, g) : Fetching(dl, e) /\ dl[e].part = p
        BY <1>1, <4>1 DEF Core, ArticlesOwned
      <4>3. e \in Downloaders /\ e # d
        BY <1>20, <4>2 DEF ActiveIn
      <4>4. dl'[e] = dl[e] /\ e \in ActiveIn(dl', g)
        BY <1>18, <1>21, <4>2, <4>3
      <4> QED BY <1>19, <4>2, <4>3, <4>4
    <3> QED BY <3>1, <3>2
  <2> QED BY <2>2, <2>3 DEF ArticlesOwned
<1>31. ASSUME NEW e \in Downloaders PROVE JoinsAlone(q', dl', e)
  <2> SUFFICES ASSUME dl'[e].pc = "completing"
               PROVE  /\ ActiveIn(dl', dl'[e].file) = {e}
                      /\ q'.file[dl'[e].file].deleted \/ NoneLeft(q', dl'[e].file)
    BY DEF JoinsAlone
  <2>1. e # d /\ dl'[e] = dl[e]
    BY <1>11, <1>18
  <2>2. /\ ActiveIn(dl, dl[e].file) = {e}
        /\ q.file[dl[e].file].deleted \/ NoneLeft(q, dl[e].file)
    BY <1>1, <2>1 DEF JoinsAlone
  <2>3. dl[e].file \in Files
    BY <1>1, <2>1 DEF Core, DownloaderFine
  <2>4. ~NoneLeft(q, f)
    <3>1. q.file[f].article[a] = "undefined"
      BY <1>8
    <3> QED BY <1>8, <3>1 DEF NoneLeft
  <2>5. dl[e].file # f
    BY <1>4, <2>2, <2>4
  <2>6. q'.file[dl[e].file] = q.file[dl[e].file] /\ ActiveIn(dl', dl[e].file) = ActiveIn(dl, dl[e].file)
    BY <1>17, <1>21, <2>3, <2>5
  <2> QED BY <2>1, <2>2, <2>6 DEF NoneLeft
<1>32. Sound(q', dl', added)
  BY <1>1, <1>17, <1>18, <1>26, <1>27, <1>28, <1>29, <1>30, <1>31 DEF Sound, Core
<1> QED BY <1>2, <1>32

\* The downloader whose article is booked.
Leaving(D, d) == [D EXCEPT ![d].pc = "completing", ![d].nzb = NoNzb]

(***************************************************************************)
(* Booking an article keeps the counters of its file true, and takes the   *)
(* article from the downloader.                                            *)
(***************************************************************************)
LEMMA BookingKeeps ==
    ASSUME Sound(q, dl, added), NEW d \in Downloaders, dl[d].pc = "notifying",
           NEW named \in BOOLEAN, NEW isDupe \in BOOLEAN,
           NEW B, B = ConfirmFile(BookArticle(q, dl[d].file, dl[d].part, dl[d].nzb, dl[d].status),
                                  dl[d].file, named, isDupe)
    PROVE  /\ Core(B, Leaving(dl, d), added)
           /\ \A e \in Downloaders \ {d} : JoinsAlone(B, Leaving(dl, d), e)
           /\ B.file[dl[d].file].nzb = dl[d].nzb /\ B.queue = q.queue
           /\ B.file[dl[d].file].completedArticles
              = BookArticle(q, dl[d].file, dl[d].part, dl[d].nzb, dl[d].status)
                  .file[dl[d].file].completedArticles
           /\ BookArticle(q, dl[d].file, dl[d].part, dl[d].nzb, dl[d].status)
                .file[dl[d].file].nzb = dl[d].nzb
<1>1. /\ Core(q, dl, added) /\ \A e \in Downloaders : JoinsAlone(q, dl, e)
      /\ q \in DownloadQueue /\ dl \in [Downloaders -> Work] /\ added \subseteq Nzbs
  BY DEF Sound, Core
<1> DEFINE f == dl[d].file
           a == dl[d].part
           n == dl[d].nzb
           status == dl[d].status
           ok == If(status = "finished")
           bad == If(status = "failed")
           done == ok + bad
           st == IF status = "retry" THEN "undefined" ELSE status
           s == q.file[f].article
           t == [s EXCEPT ![a] = st]
           p == q.file[f]
           b == [p EXCEPT !.article[a] = IF status = "retry" THEN "undefined" ELSE status,
                          !.success = @ + ok, !.failed = @ + bad,
                          !.remaining = @ - done, !.completedArticles = @ + done]
           c == [b EXCEPT !.confirmed = @ \/ named, !.dupeDeleted = @ \/ isDupe,
                          !.deleted = @ \/ isDupe]
           g == q.nzb[n]
           r == [g EXCEPT !.currentSuccess = @ + ok, !.currentFailed = @ + bad,
                          !.parCurrentFailed = @ + If(f \in ParFiles) * bad,
                          !.remaining = @ - done,
                          !.pausedSize = @ - (IF q.file[f].paused THEN done ELSE 0)]
           F == [q.file EXCEPT ![f] = c]
           E == Leaving(dl, d)
           booked == BookArticle(q, f, a, n, status)
<1>2. DownloaderFine(q, dl, d) /\ Fetching(dl, d)
  BY <1>1 DEF Core, Fetching
<1>3. /\ f \in Files /\ n = q.file[f].nzb /\ n \in Nzbs /\ InQueue(q, n)
      /\ a \in 1 .. NumArticles[f] /\ s[a] = "running"
      /\ status \in {"finished", "failed", "retry"}
  <2>1. /\ f \in Files /\ n = q.file[f].nzb /\ InQueue(q, n)
        /\ a \in 1 .. NumArticles[f] /\ s[a] = "running" /\ status # "none"
    BY <1>2 DEF DownloaderFine
  <2>2. dl[d] \in Work
    BY <1>1
  <2>3. status \in {"none", "finished", "failed", "retry"}
    BY <2>2 DEF Work
  <2>4. n \in Nzbs
    BY <2>1, SoundIs
  <2> HIDE DEF status
  <2> QED BY <2>1, <2>3, <2>4
<1>4. p \in FileInfo /\ g \in NzbInfo /\ q.file \in [Files -> FileInfo]
  BY <1>1, <1>3, PartsOfQueue
<1>5. s \in Seq(ArticleStatuses) /\ Len(s) = NumArticles[f] /\ DOMAIN s = 1 .. NumArticles[f]
  <2>1. s \in Seq(ArticleStatuses)
    BY <1>4 DEF FileInfo
  <2>2. Len(s) = NumArticles[f]
    BY <1>1, <1>3 DEF Core, FilesCounted
  <2> HIDE DEF s
  <2> QED BY <2>1, <2>2
<1>6. /\ ok \in Int /\ bad \in Int /\ done \in Int
      /\ done = IF status = "retry" THEN 0 ELSE 1
      /\ st \in {"undefined", "finished", "failed"}
      /\ (status = "retry" <=> st = "undefined")
  <2> HIDE DEF status
  <2> QED BY <1>3 DEF If
<1>7. /\ t \in Seq(ArticleStatuses) /\ Len(t) = NumArticles[f]
      /\ \A x \in 1 .. NumArticles[f] : t[x] = IF x = a THEN st ELSE s[x]
  <2> HIDE DEF s, st, a
  <2> QED BY <1>3, <1>5, <1>6 DEF ArticleStatuses
<1>8. /\ c \in FileInfo /\ c.article = t /\ c.nzb = n
      /\ c.activeDownloads = p.activeDownloads
      /\ c.completedArticles = p.completedArticles + done
      /\ c.remaining = p.remaining - done /\ (p.deleted => c.deleted)
      /\ b.completedArticles = c.completedArticles /\ b.nzb = n
  <2> DEFINE success == p.success + ok
             failed == p.failed + bad
             remaining == p.remaining - done
             completed == p.completedArticles + done
             confirmed == p.confirmed \/ named
             dupeDeleted == p.dupeDeleted \/ isDupe
             deleted == p.deleted \/ isDupe
             b1 == [p EXCEPT !.article = t, !.success = success, !.failed = failed,
                             !.remaining = remaining, !.completedArticles = completed]
             c1 == [b1 EXCEPT !.confirmed = confirmed, !.dupeDeleted = dupeDeleted,
                              !.deleted = deleted]
  <2>1. success \in Int /\ failed \in Int /\ remaining \in Int /\ completed \in Int
    <3> HIDE DEF ok, bad, done, p
    <3> QED BY <1>4, <1>6 DEF FileInfo
  <2>2. confirmed \in BOOLEAN /\ dupeDeleted \in BOOLEAN /\ deleted \in BOOLEAN
        /\ (p.deleted => deleted)
    OBVIOUS
  <2>3. p.nzb = n /\ p.article = s
    BY <1>3
  <2>4. b = b1
    <3> HIDE DEF ok, bad, done, a, status
    <3> QED BY <1>4 DEF FileInfo
  <2> HIDE DEF success, failed, remaining, completed, confirmed, dupeDeleted, deleted, p, t, b
  <2>5. /\ b1 \in FileInfo /\ b1.confirmed = p.confirmed /\ b1.dupeDeleted = p.dupeDeleted
        /\ b1.deleted = p.deleted /\ b1.article = t /\ b1.nzb = p.nzb
        /\ b1.activeDownloads = p.activeDownloads
        /\ b1.completedArticles = completed /\ b1.remaining = remaining
    BY <1>4, <1>7, <2>1 DEF FileInfo
  <2> HIDE DEF b1
  <2>6. c = c1
    BY <2>4, <2>5 DEF confirmed, dupeDeleted, deleted
  <2>7. /\ c1 \in FileInfo /\ c1.deleted = deleted /\ c1.article = t /\ c1.nzb = p.nzb
        /\ c1.activeDownloads = p.activeDownloads
        /\ c1.completedArticles = completed /\ c1.remaining = remaining
    BY <2>2, <2>5 DEF FileInfo
  <2> HIDE DEF c, c1
  <2> QED BY <2>2, <2>3, <2>4, <2>5, <2>6, <2>7 DEF completed, remaining
<1>9. r \in NzbInfo /\ r.activeDownloads = g.activeDownloads /\ r.parking = g.parking
  <2> DEFINE success == g.currentSuccess + ok
             failed == g.currentFailed + bad
             parFailed == g.parCurrentFailed + If(f \in ParFiles) * bad
             remaining == g.remaining - done
             pausedSize == g.pausedSize - (IF q.file[f].paused THEN done ELSE 0)
             r1 == [g EXCEPT !.currentSuccess = success, !.currentFailed = failed,
                             !.parCurrentFailed = parFailed, !.remaining = remaining,
                             !.pausedSize = pausedSize]
  <2>1. r = r1
    OBVIOUS
  <2>2. success \in Int /\ failed \in Int /\ parFailed \in Int /\ remaining \in Int
        /\ pausedSize \in Int
    <3>1. If(f \in ParFiles) * bad \in Int
      <4> HIDE DEF bad, f
      <4> QED BY <1>6 DEF If
    <3>2. (IF q.file[f].paused THEN done ELSE 0) \in Int
      <4> HIDE DEF done, f
      <4> QED BY <1>6
    <3> DEFINE x == If(f \in ParFiles) * bad
               y == IF q.file[f].paused THEN done ELSE 0
    <3> HIDE DEF x, y, g, ok, bad, done
    <3>3. x \in Int /\ y \in Int
      BY <3>1, <3>2 DEF x, y, done, bad
    <3>4. /\ g.currentSuccess + ok \in Int /\ g.currentFailed + bad \in Int
          /\ g.parCurrentFailed + x \in Int /\ g.remaining - done \in Int
          /\ g.pausedSize - y \in Int
      BY <1>4, <1>6, <3>3 DEF NzbInfo
    <3> QED BY <3>4 DEF x, y
  <2> HIDE DEF success, failed, parFailed, remaining, pausedSize, g, r
  <2>3. r1 \in NzbInfo
    BY <1>4, <2>2, Zenon DEF NzbInfo
  <2>4. r1.activeDownloads = g.activeDownloads /\ r1.parking = g.parking
    BY <1>4 DEF NzbInfo
  <2> QED BY <2>1, <2>3, <2>4
<1>10. /\ B = With(q, n, r, F) /\ booked.file[f] = b
  <2> DEFINE files == [q.file EXCEPT ![f] = b]
  <2>1. booked = [q EXCEPT !.file[f] = b, !.nzb[n] = r]
    BY DEF BookArticle
  <2>2. B = [booked EXCEPT !.file[f] = [booked.file[f] EXCEPT !.confirmed = @ \/ named,
                 !.dupeDeleted = @ \/ isDupe, !.deleted = @ \/ isDupe]]
    BY DEF ConfirmFile
  <2> HIDE DEF b, r, booked
  <2>3. booked.file = files /\ booked.file[f] = b
    BY <1>1, <1>3, <1>4, <2>1 DEF DownloadQueue
  <2>4. B = [booked EXCEPT !.file[f] = c]
    BY <2>2, <2>3
  <2> HIDE DEF c
  <2> DEFINE nzbs == [q.nzb EXCEPT ![n] = r]
             file == q.file
             confirmed == [files EXCEPT ![f] = c]
  <2>5. booked = [q EXCEPT !.file = files, !.nzb = nzbs]
    BY <1>1, <2>1 DEF DownloadQueue
  <2>6. B = [booked EXCEPT !.file = confirmed]
    BY <2>3, <2>4, <2>5, <1>1 DEF DownloadQueue
  <2>7. confirmed = F
    <3>1. file \in [Files -> FileInfo]
      BY <1>4
    <3>2. files = [file EXCEPT ![f] = b] /\ F = [file EXCEPT ![f] = c]
      OBVIOUS
    <3> HIDE DEF file, files, f
    <3>3. [files EXCEPT ![f] = c] = [file EXCEPT ![f] = c]
      BY <3>1, <3>2
    <3> QED BY <3>2, <3>3
  <2>8. With(q, n, r, F) = [q EXCEPT !.file = F, !.nzb = nzbs]
    <3> HIDE DEF F
    <3> QED BY <1>1 DEF With, DownloadQueue
  <2> HIDE DEF confirmed, F, nzbs, files
  <2>9. B = [q EXCEPT !.file = F, !.nzb = nzbs]
    BY <1>1, <2>5, <2>6, <2>7 DEF DownloadQueue
  <2> QED BY <2>3, <2>8, <2>9
<1> HIDE DEF b, c, r, booked, t
<1>11. F \in [Files -> FileInfo] /\ \A h \in Files : F[h] = IF h = f THEN c ELSE q.file[h]
  <2> DEFINE file == q.file
  <2>1. file \in [Files -> FileInfo]
    BY <1>4
  <2> HIDE DEF file
  <2>2. [file EXCEPT ![f] = c] \in [Files -> FileInfo]
        /\ \A h \in Files : [file EXCEPT ![f] = c][h] = IF h = f THEN c ELSE file[h]
    BY <1>3, <1>8, <2>1
  <2> QED BY <2>2 DEF file
<1> HIDE DEF F
<1>12. /\ B \in DownloadQueue /\ B.queue = q.queue
       /\ \A h \in Files : B.file[h] = IF h = f THEN c ELSE q.file[h]
       /\ \A m \in Nzbs : B.nzb[m] = IF m = n THEN r ELSE q.nzb[m]
  <2>1. /\ With(q, n, r, F) \in DownloadQueue
        /\ With(q, n, r, F).queue = q.queue /\ With(q, n, r, F).file = F
        /\ \A m \in Nzbs : With(q, n, r, F).nzb[m] = IF m = n THEN r ELSE q.nzb[m]
    <3>1. q \in DownloadQueue /\ n \in Nzbs /\ r \in NzbInfo /\ F \in [Files -> FileInfo]
      BY <1>1, <1>3, <1>9, <1>11
    <3> HIDE DEF n, f, g
    <3> QED BY <3>1, WithIs
  <2> QED BY <1>10, <1>11, <2>1
<1>13. /\ E \in [Downloaders -> Work] /\ E[d].pc = "completing" /\ E[d].nzb = NoNzb
       /\ E[d].file = f /\ E[d].part = a
       /\ \A e \in Downloaders : e # d => E[e] = dl[e]
  BY <1>1, QueueAssumption DEF Leaving, Work
<1> HIDE DEF E
<1>14. /\ \A e \in Downloaders : E[e].file = dl[e].file
       /\ \A e \in Downloaders : Fetching(E, e) <=> (e # d /\ Fetching(dl, e))
  BY <1>13 DEF Fetching
<1>15. \A h \in Files : ActiveIn(E, h) = ActiveIn(dl, h)
  BY <1>14 DEF ActiveIn
<1>16. \A h \in Files : B.file[h].nzb = q.file[h].nzb /\ (q.file[h].deleted => B.file[h].deleted)
  <2>1. f \in Files /\ q.file[f].nzb = n /\ c.nzb = n /\ (q.file[f].deleted => c.deleted)
    BY <1>3, <1>8
  <2> HIDE DEF f, n
  <2> QED BY <1>12, <2>1
<1>17. \A m \in Nzbs : ActiveOf(B, E, m) = ActiveOf(q, dl, m)
  <2>1. \A e \in Downloaders : dl[e].file # NoFile => dl[e].file \in Files
    BY <1>1 DEF Work
  <2> QED BY <1>14, <1>16, <2>1 DEF ActiveOf
<1>18. \A h \in Files : h # f => B.file[h] = q.file[h]
  BY <1>12
<1>19. B.file[f] = c
  BY <1>3, <1>12
<1>20. Cardinality(Done(B, f)) = Cardinality(Done(q, f)) + done
  <2>1. a \notin Done(q, f)
    BY <1>3 DEF Done
  <2>2. Done(B, f) = Done(q, f) \cup (IF status = "retry" THEN {} ELSE {a})
    <3>1. B.file[f].article = t /\ q.file[f].article = s
      BY <1>8, <1>19
    <3>2. \A x \in 1 .. NumArticles[f] :
             t[x] \in {"finished", "failed"} <=>
               (s[x] \in {"finished", "failed"} \/ (x = a /\ status # "retry"))
      <4> HIDE DEF s, st, status
      <4> QED BY <1>3, <1>6, <1>7
    <3> HIDE DEF s, status
    <3> QED BY <1>3, <3>1, <3>2 DEF Done
  <2>3. IsFiniteSet(Done(q, f)) /\ Cardinality(Done(q, f)) \in Nat
    <3>1. NumArticles[f] \in Nat
      BY <1>3, QueueAssumption
    <3>2. IsFiniteSet(1 .. NumArticles[f])
      BY <3>1, FS_Interval
    <3>3. IsFiniteSet(Done(q, f))
      BY <3>2, FS_Subset DEF Done
    <3> QED BY <3>3, FS_CardinalityType
  <2>4. Cardinality(Done(q, f) \cup {a}) = Cardinality(Done(q, f)) + 1
    BY <2>1, <2>3, FS_AddElement
  <2> HIDE DEF status, done
  <2>5. CASE status = "retry"
    BY <1>6, <2>2, <2>3, <2>5
  <2>6. CASE status # "retry"
    BY <1>6, <2>2, <2>4, <2>6
  <2> QED BY <2>5, <2>6
<1>21. FilesCounted(B, E)
  <2> SUFFICES ASSUME NEW h \in Files
               PROVE  /\ Len(B.file[h].article) = NumArticles[h]
                      /\ B.file[h].activeDownloads = Cardinality(ActiveIn(E, h))
                      /\ B.file[h].completedArticles = Cardinality(Done(B, h))
                      /\ B.file[h].remaining = NumArticles[h] - Cardinality(Done(B, h))
    BY DEF FilesCounted
  <2>1. /\ Len(q.file[h].article) = NumArticles[h]
        /\ q.file[h].activeDownloads = Cardinality(ActiveIn(dl, h))
        /\ q.file[h].completedArticles = Cardinality(Done(q, h))
        /\ q.file[h].remaining = NumArticles[h] - Cardinality(Done(q, h))
    BY <1>1 DEF Core, FilesCounted
  <2>2. CASE h = f
    <3>1. p.completedArticles \in Int /\ NumArticles[f] \in Int
      <4>1. NumArticles[f] \in Int
        BY <1>3, QueueAssumption
      <4>2. p.completedArticles \in Int
        <5>1. p \in FileInfo
          BY <1>4
        <5> HIDE DEF p
        <5> QED BY <5>1 DEF FileInfo
      <4> QED BY <4>1, <4>2
    <3>2. Cardinality(Done(q, f)) \in Int
      BY <2>1, <2>2, <3>1
    <3> HIDE DEF done
    <3>3. B.file[f].remaining = NumArticles[f] - Cardinality(Done(B, f))
      BY <1>6, <1>8, <1>19, <1>20, <2>1, <2>2, <3>1, <3>2
    <3>4. B.file[f].completedArticles = Cardinality(Done(B, f))
      BY <1>8, <1>19, <1>20, <2>1, <2>2
    <3>5. Len(B.file[f].article) = NumArticles[f]
          /\ B.file[f].activeDownloads = Cardinality(ActiveIn(E, f))
      BY <1>3, <1>7, <1>8, <1>15, <1>19, <2>1, <2>2
    <3> QED BY <2>2, <3>3, <3>4, <3>5
  <2>3. CASE h # f
    <3>1. B.file[h] = q.file[h] /\ Done(B, h) = Done(q, h)
      BY <1>18, <2>3 DEF Done
    <3> QED BY <1>15, <2>1, <3>1
  <2> QED BY <2>2, <2>3
<1>22. GroupsCounted(B, E, added)
  <2> SUFFICES ASSUME NEW m \in Nzbs
               PROVE  /\ InQueue(B, m) =>
                           m \in added /\ B.nzb[m].activeDownloads = Cardinality(ActiveOf(B, E, m))
                      /\ m \notin added => B.nzb[m].activeDownloads = 0 /\ ~B.nzb[m].parking
                      /\ B.nzb[m].parking =>
                           \A h \in Files : B.file[h].nzb = m => B.file[h].deleted
    BY DEF GroupsCounted
  <2>1. /\ InQueue(q, m) =>
             m \in added /\ q.nzb[m].activeDownloads = Cardinality(ActiveOf(q, dl, m))
        /\ m \notin added => q.nzb[m].activeDownloads = 0 /\ ~q.nzb[m].parking
        /\ q.nzb[m].parking =>
             \A h \in Files : q.file[h].nzb = m => q.file[h].deleted
    BY <1>1 DEF Core, GroupsCounted
  <2>2. InQueue(B, m) <=> InQueue(q, m)
    BY <1>12 DEF InQueue
  <2>3. /\ B.nzb[m].activeDownloads = q.nzb[m].activeDownloads
        /\ B.nzb[m].parking = q.nzb[m].parking
    BY <1>9, <1>12
  <2> QED BY <1>16, <1>17, <2>1, <2>2, <2>3
<1>23. FilesHaveGroups(B, added)
  <2>1. FilesHaveGroups(q, added)
    BY <1>1 DEF Core
  <2> QED BY <1>12, <1>16, <2>1 DEF FilesHaveGroups, InQueue
<1>24. ASSUME NEW e \in Downloaders, e # d, Fetching(dl, e), dl[e].file = f
       PROVE  dl[e].part # a
  BY <1>1, <1>2, <1>24 DEF Core, ArticlesOwned
<1>25. ASSUME NEW e \in Downloaders PROVE DownloaderFine(B, E, e)
  <2>1. CASE e = d
    <3>1. InQueue(B, B.file[f].nzb)
      BY <1>3, <1>12, <1>16 DEF InQueue
    <3> HIDE DEF f
    <3> QED BY <1>3, <1>13, <2>1, <3>1 DEF DownloaderFine, Fetching
  <2>2. CASE e # d
    <3>1. E[e] = dl[e] /\ DownloaderFine(q, dl, e)
      BY <1>1, <1>13, <2>2 DEF Core
    <3>2. CASE dl[e].pc = "idle"
      BY <3>1, <3>2 DEF DownloaderFine, Fetching
    <3>3. CASE dl[e].pc # "idle"
      <4>1. dl[e].file \in Files
        BY <3>1, <3>3 DEF DownloaderFine
      <4>2. Fetching(dl, e) => B.file[dl[e].file].article[dl[e].part] = "running"
        <5>1. CASE dl[e].file = f
          <6>1. B.file[f].article = t /\ q.file[f].article = s
            BY <1>8, <1>19
          <6> QED BY <1>7, <1>24, <2>2, <3>1, <5>1, <6>1 DEF DownloaderFine
        <5>2. CASE dl[e].file # f
          BY <1>18, <3>1, <4>1, <5>2 DEF DownloaderFine
        <5> QED BY <5>1, <5>2
      <4>3. /\ B.file[dl[e].file].nzb = q.file[dl[e].file].nzb
            /\ \A m : InQueue(B, m) <=> InQueue(q, m)
        BY <1>12, <1>16, <4>1 DEF InQueue
      <4>4. Fetching(E, e) <=> Fetching(dl, e)
        BY <1>14, <2>2
      <4> QED BY <3>1, <4>1, <4>2, <4>3, <4>4 DEF DownloaderFine
    <3> QED BY <3>2, <3>3
  <2> QED BY <2>1, <2>2
<1>26. ArticlesOwned(B, E)
  <2>1. ASSUME NEW e \in Downloaders, NEW h \in Downloaders,
               e # h, E[e].file = E[h].file, Fetching(E, e), Fetching(E, h)
        PROVE  E[e].part # E[h].part
    BY <1>1, <1>13, <1>14, <2>1 DEF Core, ArticlesOwned
  <2>2. ASSUME NEW h \in Files, NEW x \in 1 .. NumArticles[h],
               B.file[h].article[x] = "running"
        PROVE  \E e \in ActiveIn(E, h) : Fetching(E, e) /\ E[e].part = x
    <3>1. q.file[h].article[x] = "running" /\ ~(h = f /\ x = a)
      <4>1. CASE h = f
        <5>1. B.file[f].article = t /\ q.file[f].article = s
          BY <1>8, <1>19
        <5> HIDE DEF s, st
        <5> QED BY <1>6, <1>7, <2>2, <4>1, <5>1
      <4>2. CASE h # f
        BY <1>18, <2>2, <4>2
      <4> QED BY <4>1, <4>2
    <3>2. PICK e \in ActiveIn(dl, h) : Fetching(dl, e) /\ dl[e].part = x
      BY <1>1, <3>1 DEF Core, ArticlesOwned
    <3>3. e \in Downloaders /\ dl[e].file = h /\ e # d
      BY <3>1, <3>2 DEF ActiveIn
    <3> QED BY <1>13, <1>14, <1>15, <3>2, <3>3
  <2> QED BY <2>1, <2>2 DEF ArticlesOwned
<1>27. Core(B, E, added)
  BY <1>1, <1>12, <1>13, <1>21, <1>22, <1>23, <1>25, <1>26 DEF Core
<1>28. ASSUME NEW e \in Downloaders \ {d} PROVE JoinsAlone(B, E, e)
  <2> SUFFICES ASSUME E[e].pc = "completing"
               PROVE  /\ ActiveIn(E, E[e].file) = {e}
                      /\ B.file[E[e].file].deleted \/ NoneLeft(B, E[e].file)
    BY DEF JoinsAlone
  <2>1. E[e] = dl[e]
    BY <1>13
  <2>2. /\ ActiveIn(dl, dl[e].file) = {e}
        /\ q.file[dl[e].file].deleted \/ NoneLeft(q, dl[e].file)
    BY <1>1, <2>1 DEF JoinsAlone
  <2>3. dl[e].file \in Files
    BY <1>1, <2>1 DEF Core, DownloaderFine
  <2>4. dl[e].file # f
    BY <2>2 DEF ActiveIn
  <2>5. B.file[dl[e].file] = q.file[dl[e].file]
    BY <1>18, <2>3, <2>4
  <2> QED BY <1>15, <2>1, <2>2, <2>3, <2>5 DEF NoneLeft
<1> QED BY <1>8, <1>10, <1>12, <1>19, <1>27, <1>28 DEF E, booked

\* A handler that ran while the downloader was about to leave.
LEMMA LeavingIs ==
    ASSUME NEW D \in [Downloaders -> Work], NEW d \in Downloaders
    PROVE  /\ Leaving(D, d) \in [Downloaders -> Work]
           /\ Leaving(D, d)[d].pc = "completing" /\ Leaving(D, d)[d].nzb = NoNzb
           /\ Leaving(D, d)[d].part = D[d].part /\ Leaving(D, d)[d].status = D[d].status
           /\ \A e \in Downloaders : /\ Leaving(D, d)[e].file = D[e].file
                                     /\ e # d => Leaving(D, d)[e] = D[e]
<1> DEFINE w == [D[d] EXCEPT !.pc = "completing", !.nzb = NoNzb]
           E == Leaving(D, d)
<1>1. D[d] \in Work
  OBVIOUS
<1>2. /\ w \in Work /\ w.pc = "completing" /\ w.nzb = NoNzb /\ w.file = D[d].file
      /\ w.part = D[d].part /\ w.status = D[d].status
  BY <1>1 DEF Work
<1>3. E = [D EXCEPT ![d] = w]
  BY DEF Leaving
<1> HIDE DEF w, E
<1>4. E \in [Downloaders -> Work] /\ E[d] = w /\ \A e \in Downloaders : e # d => E[e] = D[e]
  BY <1>2, <1>3
<1>5. \A e \in Downloaders : E[e].file = D[e].file
  BY <1>2, <1>4
<1> QED BY <1>2, <1>4, <1>5 DEF E

(***************************************************************************)
(* A helper harmless to some downloaders is so to others with the same     *)
(* files.                                                                  *)
(***************************************************************************)
LEMMA FollowsSameFiles ==
    ASSUME NEW Q, NEW R, NEW D, NEW E, \A d \in Downloaders : E[d].file = D[d].file,
           Follows(Q, R, D)
    PROVE  Follows(Q, R, E)
<1>1. \A f : ActiveIn(E, f) = ActiveIn(D, f)
  BY DEF ActiveIn
<1> QED BY <1>1 DEF Follows

\* All articles are in: nobody else works on the file.
LEMMA LastOne ==
    ASSUME NEW Q, NEW D, NEW A, Core(Q, D, A), NEW d \in Downloaders, NEW f \in Files,
           D[d].pc = "completing", D[d].file = f,
           \A e \in Downloaders \ {d} : JoinsAlone(Q, D, e),
           Q.file[f].completedArticles = NumArticles[f]
    PROVE  ActiveIn(D, f) = {d} /\ NoneLeft(Q, f)
<1>1. NumArticles[f] \in Nat
  BY QueueAssumption
<1>2. Done(Q, f) = 1 .. NumArticles[f]
  <2>1. Cardinality(Done(Q, f)) = NumArticles[f]
    BY DEF Core, FilesCounted
  <2>2. IsFiniteSet(1 .. NumArticles[f]) /\ Cardinality(1 .. NumArticles[f]) = NumArticles[f]
    BY <1>1, FS_Interval
  <2>3. Done(Q, f) \subseteq 1 .. NumArticles[f]
    BY DEF Done
  <2> QED BY <2>1, <2>2, <2>3, FS_Subset
<1>3. \A a \in 1 .. NumArticles[f] : Q.file[f].article[a] \in {"finished", "failed"}
  BY <1>2 DEF Done
<1>4. ASSUME NEW e \in ActiveIn(D, f), e # d PROVE FALSE
  <2>1. e \in Downloaders /\ D[e].file = f
    BY DEF ActiveIn
  <2>2. DownloaderFine(Q, D, e) /\ D[e] \in Work
    BY <2>1 DEF Core
  <2>3. D[e].pc # "idle"
    BY <2>1, <2>2, QueueAssumption DEF DownloaderFine
  <2>4. CASE Fetching(D, e)
    BY <1>3, <2>1, <2>2, <2>4 DEF DownloaderFine
  <2>5. CASE D[e].pc = "completing"
    <3>1. ActiveIn(D, f) = {e}
      BY <1>4, <2>1, <2>5 DEF JoinsAlone
    <3>2. d \in ActiveIn(D, f)
      BY DEF ActiveIn
    <3> QED BY <1>4, <3>1, <3>2
  <2> QED BY <2>2, <2>3, <2>4, <2>5 DEF Fetching, Work
<1>5. d \in ActiveIn(D, f)
  BY DEF ActiveIn
<1> QED BY <1>3, <1>4, <1>5 DEF NoneLeft

\* The last one on a file of a group that is being parked.
LEMMA LastParked ==
    ASSUME NEW Q, NEW D, NEW A, Core(Q, D, A), NEW d \in Downloaders, NEW f \in Files,
           D[d].file = f, Q.file[f].activeDownloads = 1,
           NEW n \in Nzbs, Q.file[f].nzb = n, Q.nzb[n].parking
    PROVE  ActiveIn(D, f) = {d} /\ Q.file[f].deleted
<1>1. Q.file[f].deleted
  BY DEF Core, GroupsCounted
<1>2. d \in ActiveIn(D, f) /\ Cardinality(ActiveIn(D, f)) = 1
  BY DEF ActiveIn, Core, FilesCounted
<1>3. IsFiniteSet(ActiveIn(D, f))
  BY CoordinatorAssumption, FS_Subset DEF ActiveIn
<1>4. ActiveIn(D, f) \ {d} = {}
  <2>1. IsFiniteSet(ActiveIn(D, f) \ {d}) /\ Cardinality(ActiveIn(D, f) \ {d}) = 0
    BY <1>2, <1>3, FS_RemoveElement
  <2> QED BY <2>1, FS_EmptySet
<1> QED BY <1>1, <1>2, <1>4

(***************************************************************************)
(* Booking an article, with all that it may lead to: the next par-files,   *)
(* the health check, the deletion of the last article of a deleted file,   *)
(* the event of a deleted file, and the completion of the group.           *)
(***************************************************************************)
LEMMA ArticleCompletedKeeps ==
    ASSUME Sound(q, dl, added), NEW d \in Downloaders, ArticleCompleted(d)
    PROVE  Sound(q', dl', added')
<1> DEFINE f == dl[d].file
           n == dl[d].nzb
           status == dl[d].status
           booked == BookArticle(q, f, dl[d].part, n, status)
           allIn == /\ status # "retry"
                    /\ booked.file[f].completedArticles = NumArticles[f]
           named == status = "finished" /\ ~q.file[f].confirmed
           Complete(H, parking, isDupe) ==
               /\ \/ allIn /\ ~isDupe
                  \/ parking /\ LastOfParked(H, f)
               /\ ~H.file[f].deleted \/ parking
           Healthy(isDupe) == CheckHealth(ConfirmFile(booked, f, named, isDupe),
                                          booked.file[f].nzb)
<1>1. /\ Core(q, dl, added) /\ \A e \in Downloaders : JoinsAlone(q, dl, e)
      /\ q \in DownloadQueue /\ dl \in [Downloaders -> Work]
      /\ dl[d].pc = "notifying" /\ added' = added
  BY DEF Sound, Core, ArticleCompleted
<1>2. f \in Files /\ n = q.file[f].nzb /\ n \in Nzbs /\ InQueue(q, n)
  <2>1. DownloaderFine(q, dl, d)
    BY <1>1 DEF Core
  <2>2. f \in Files /\ n = q.file[f].nzb /\ InQueue(q, n)
    BY <1>1, <2>1 DEF DownloaderFine
  <2> QED BY <2>2, SoundIs
<1>3. PICK isDupe \in BOOLEAN :
         LET H == Healthy(isDupe)
             complete == Complete(H, H.nzb[n].parking, isDupe)
         IN  IF complete
             THEN /\ q' = H
                  /\ dl' = [StopDeleted(H, dl) EXCEPT
                              ![d].pc = "completing", ![d].nzb = NoNzb]
             ELSE /\ q' = DeleteDownloader(H, f, FALSE)
                  /\ dl' = [StopDeleted(H, dl) EXCEPT ![d] = Idle]
  <2>1. \E freed \in (IF InQueue(q, n) THEN {FALSE} ELSE BOOLEAN),
           isDupe \in (IF DupeCheck /\ named THEN BOOLEAN ELSE {FALSE}) :
          \E healthy \in {Healthy(isDupe)} :
            LET parking == IF InQueue(q, n) THEN healthy.nzb[n].parking ELSE freed
                isComplete == \/ allIn /\ ~isDupe
                              \/ parking /\ LastOfParked(healthy, f)
                complete == isComplete /\ (~healthy.file[f].deleted \/ parking)
            IN  IF complete
                THEN /\ q' = healthy
                     /\ dl' = [StopDeleted(healthy, dl) EXCEPT
                                 ![d].pc = "completing", ![d].nzb = NoNzb]
                ELSE /\ q' = DeleteDownloader(healthy, f, FALSE)
                     /\ dl' = [StopDeleted(healthy, dl) EXCEPT ![d] = Idle]
    BY DEF ArticleCompleted
  <2>2. InQueue(q, n)
    BY <1>2
  <2> HIDE DEF n, f, named, allIn, Healthy
  <2> QED BY <2>1, <2>2
<1> DEFINE B == ConfirmFile(booked, f, named, isDupe)
           D == Leaving(dl, d)
           H == CheckHealth(B, n)
           S == StopDeleted(H, dl)
           parking == H.nzb[n].parking
           complete == Complete(H, parking, isDupe)
<1>4. /\ Core(B, D, added) /\ \A e \in Downloaders \ {d} : JoinsAlone(B, D, e)
      /\ B.file[f].nzb = n /\ B.queue = q.queue /\ booked.file[f].nzb = n
      /\ B.file[f].completedArticles = booked.file[f].completedArticles
  <2>1. named \in BOOLEAN
    OBVIOUS
  <2> HIDE DEF named
  <2>2. B = ConfirmFile(BookArticle(q, dl[d].file, dl[d].part, dl[d].nzb, dl[d].status),
                        dl[d].file, named, isDupe)
    OBVIOUS
  <2> HIDE DEF B
  <2> QED BY <1>1, <2>1, <2>2, BookingKeeps
<1>5. IF complete
      THEN q' = H /\ dl' = [S EXCEPT ![d].pc = "completing", ![d].nzb = NoNzb]
      ELSE q' = DeleteDownloader(H, f, FALSE) /\ dl' = [S EXCEPT ![d] = Idle]
  <2>1. Healthy(isDupe) = H
    BY <1>4
  <2> QED BY <1>3, <2>1
<1> HIDE DEF B, D
<1>6. /\ D \in [Downloaders -> Work] /\ D[d].pc = "completing" /\ D[d].nzb = NoNzb
      /\ D[d].part = dl[d].part /\ D[d].status = dl[d].status
      /\ \A e \in Downloaders : D[e].file = dl[e].file /\ (e # d => D[e] = dl[e])
  BY <1>1, LeavingIs DEF D
<1>7. B \in DownloadQueue /\ InQueue(B, n)
  <2>1. B \in DownloadQueue
    BY <1>4 DEF Core
  <2> QED BY <1>2, <1>4, <2>1 DEF InQueue
<1>8. Follows(B, H, D)
  <2>1. CountsWork(B, n, D)
    BY <1>2, <1>4, <1>7, GroupsOfWork
  <2>2. CountsWork(B, n, dl)
    BY <1>6, <2>1 DEF CountsWork, Unworked, ActiveIn
  <2>3. Follows(B, H, dl)
    <3> HIDE DEF n
    <3> QED BY <1>2, <1>7, <2>2, CheckHealthFollows
  <2> HIDE DEF H
  <2> QED BY <1>6, <2>3, FollowsSameFiles
<1> HIDE DEF H
<1>9. Core(H, D, added) /\ \A e \in Downloaders \ {d} : JoinsAlone(H, D, e)
  BY <1>4, <1>8, CoreFollows, JoinsAloneFollows
<1>10. H.file[f].nzb = n /\ H.file[f].completedArticles = B.file[f].completedArticles
  <2>1. d \in ActiveIn(D, f)
    BY <1>6 DEF ActiveIn
  <2> QED BY <1>2, <1>4, <1>8, <2>1 DEF Follows
<1>11. SameWork(dl, S)
  BY <1>1, StopDeletedIsSameWork
<1> HIDE DEF S
<1>12. CASE complete
  <2>1. ActiveIn(D, f) = {d} /\ (H.file[f].deleted \/ NoneLeft(H, f))
    <3>1. CASE allIn
      <4>1. H.file[f].completedArticles = NumArticles[f]
        BY <1>4, <1>10, <3>1
      <4>2. D[d].file = f
        BY <1>6
      <4> HIDE DEF f
      <4> QED BY <1>2, <1>6, <1>9, <4>1, <4>2, LastOne
    <3>2. CASE parking /\ LastOfParked(H, f)
      <4>1. D[d].file = f /\ H.file[f].activeDownloads = 1 /\ H.nzb[n].parking
        BY <1>6, <3>2 DEF LastOfParked
      <4>2. f \in Files /\ n \in Nzbs /\ Core(H, D, added) /\ H.file[f].nzb = n
        BY <1>2, <1>9, <1>10
      <4> HIDE DEF f, n
      <4> QED BY <4>1, <4>2, LastParked
    <3> QED BY <1>12, <3>1, <3>2
  <2>2. JoinsAlone(H, D, d)
    <3>1. D[d].file = f
      BY <1>6
    <3> QED BY <2>1, <3>1 DEF JoinsAlone
  <2>3. SameWork(D, [S EXCEPT ![d].pc = "completing", ![d].nzb = NoNzb])
    <3> DEFINE E == [S EXCEPT ![d].pc = "completing", ![d].nzb = NoNzb]
    <3>1. S \in [Downloaders -> Work]
      BY <1>11 DEF SameWork
    <3>2. E = Leaving(S, d)
      BY DEF Leaving
    <3> HIDE DEF E
    <3>3. /\ E \in [Downloaders -> Work] /\ E[d].pc = "completing" /\ E[d].nzb = NoNzb
          /\ E[d].part = S[d].part /\ E[d].status = S[d].status
          /\ \A e \in Downloaders : E[e].file = S[e].file /\ (e # d => E[e] = S[e])
      BY <3>1, <3>2, LeavingIs
    <3>4. SameWork(D, E)
      BY <1>6, <1>11, <3>3 DEF SameWork
    <3> QED BY <3>4 DEF E
  <2>4. q' = H /\ SameWork(D, dl')
    BY <1>5, <1>12, <2>3
  <2> HIDE DEF complete
  <2>5. Core(H, dl', added) /\ \A e \in Downloaders : JoinsAlone(H, dl', e)
    BY <1>9, <2>2, <2>4, CoreSameWork
  <2> QED BY <1>1, <2>4, <2>5 DEF Sound
<1>13. CASE ~complete
  <2> DEFINE E == [D EXCEPT ![d] = Idle]
             R == DeleteDownloader(H, f, FALSE)
  <2>1. Core(R, E, added) /\ \A e \in Downloaders \ {d} : JoinsAlone(R, E, e)
    <3>1. D[d].file = f
      BY <1>6
    <3>2. /\ Core(DeleteDownloader(H, D[d].file, FALSE), E, added)
          /\ \A e \in Downloaders \ {d} : JoinsAlone(DeleteDownloader(H, D[d].file, FALSE), E, e)
      BY <1>6, <1>9, DeleteDownloaderKeeps
    <3> QED BY <3>1, <3>2
  <2>2. JoinsAlone(R, E, d)
    BY <1>6, IdleIs DEF JoinsAlone
  <2>3. SameWork(E, [S EXCEPT ![d] = Idle])
    BY <1>6, <1>11, IdleIs DEF SameWork
  <2>4. q' = R /\ SameWork(E, dl')
    BY <1>5, <1>13, <2>3
  <2> HIDE DEF complete, E, R
  <2>5. Core(R, dl', added) /\ \A e \in Downloaders : JoinsAlone(R, dl', e)
    BY <2>1, <2>2, <2>4, CoreSameWork
  <2> QED BY <1>1, <2>4, <2>5 DEF Sound
<1> QED BY <1>12, <1>13

(***************************************************************************)
(* Files may change their group as long as the counters of the groups and  *)
(* the groups read by ending downloaders stay true.                        *)
(***************************************************************************)
LEMMA RegroupedKeeps ==
    ASSUME NEW Q, NEW R, NEW D, NEW A, NEW B, Sound(Q, D, A),
           R \in DownloadQueue, B \subseteq Nzbs,
           \A f \in Files : AlikeFiles(Q.file[f], R.file[f]),
           GroupsCounted(R, D, B), FilesHaveGroups(R, B),
           \A d \in Downloaders :
              D[d].pc # "idle" => InQueue(R, R.file[D[d].file].nzb),
           \A d \in Downloaders :
              D[d].pc = "notifying" => R.file[D[d].file].nzb = Q.file[D[d].file].nzb
    PROVE  Sound(R, D, B)
<1>1. /\ Core(Q, D, A) /\ \A d \in Downloaders : JoinsAlone(Q, D, d)
      /\ D \in [Downloaders -> Work]
  BY DEF Sound, Core
<1>2. \A f \in Files :
         /\ R.file[f].article = Q.file[f].article
         /\ R.file[f].activeDownloads = Q.file[f].activeDownloads
         /\ R.file[f].completedArticles = Q.file[f].completedArticles
         /\ R.file[f].remaining = Q.file[f].remaining
         /\ Q.file[f].deleted => R.file[f].deleted
  BY DEF AlikeFiles
<1>3. \A f \in Files : Done(R, f) = Done(Q, f) /\ (NoneLeft(Q, f) => NoneLeft(R, f))
  BY <1>2 DEF Done, NoneLeft
<1>4. FilesCounted(R, D)
  BY <1>1, <1>2, <1>3 DEF Core, FilesCounted
<1>5. ASSUME NEW d \in Downloaders PROVE DownloaderFine(R, D, d) /\ JoinsAlone(R, D, d)
  <2>1. DownloaderFine(Q, D, d) /\ JoinsAlone(Q, D, d)
    BY <1>1 DEF Core
  <2>2. CASE D[d].pc = "idle"
    BY <2>1, <2>2 DEF DownloaderFine, JoinsAlone, Fetching
  <2>3. CASE D[d].pc # "idle"
    <3>1. D[d].file \in Files
      BY <2>1, <2>3 DEF DownloaderFine
    <3>2. DownloaderFine(R, D, d)
      BY <1>2, <2>1, <2>3, <3>1 DEF DownloaderFine, Fetching
    <3>3. JoinsAlone(R, D, d)
      BY <1>2, <1>3, <2>1, <3>1 DEF JoinsAlone
    <3> QED BY <3>2, <3>3
  <2> QED BY <2>2, <2>3
<1>6. ArticlesOwned(R, D)
  BY <1>1, <1>2 DEF Core, ArticlesOwned
<1> QED BY <1>1, <1>4, <1>5, <1>6 DEF Sound, Core

(***************************************************************************)
(* Merging two groups.  Here the hypothesis is needed: a downloader may    *)
(* remember the merged group, and a parking group expects all of its files *)
(* to be deleted.                                                          *)
(***************************************************************************)
LEMMA MergeQueueEntriesKeeps ==
    ASSUME MergesAreQuiet, Sound(q, dl, added), NEW dest \in Nzbs, NEW src \in Nzbs,
           MergeQueueEntries(dest, src)
    PROVE  Sound(q', dl', added')
<1>1. /\ Core(q, dl, added) /\ q \in DownloadQueue /\ dl \in [Downloaders -> Work]
      /\ added \subseteq Nzbs
  BY DEF Sound, Core
<1>2. /\ dest # src /\ InQueue(q, dest) /\ InQueue(q, src) /\ dl' = dl /\ added' = added
      /\ \A d \in Downloaders : dl[d].nzb # src
      /\ ~q.nzb[dest].parking
  BY DEF MergeQueueEntries, Edit, EditMade, MergesAreQuiet
<1> DEFINE g == q.nzb[dest]
           s == q.nzb[src]
           fileCount == g.fileCount + s.fileCount
           activeDownloads == g.activeDownloads + s.activeDownloads
           size == g.size + s.size
           parSize == g.parSize + s.parSize
           remaining == g.remaining + s.remaining
           pausedFileCount == g.pausedFileCount + s.pausedFileCount
           pausedSize == g.pausedSize + s.pausedSize
           remainingParCount == g.remainingParCount + s.remainingParCount
           success == g.success + s.success
           failedSize == g.failedSize + s.failedSize
           failedArticles == g.failedArticles + s.failedArticles
           parFailedSize == g.parFailedSize + s.parFailedSize
           currentSuccess == g.currentSuccess + s.currentSuccess
           currentFailed == g.currentFailed + s.currentFailed
           parCurrentFailed == g.parCurrentFailed + s.parCurrentFailed
           completedFiles == g.completedFiles \cup s.completedFiles
           r == [g EXCEPT
                   !.fileCount = fileCount, !.activeDownloads = activeDownloads,
                   !.size = size, !.parSize = parSize, !.remaining = remaining,
                   !.pausedFileCount = pausedFileCount, !.pausedSize = pausedSize,
                   !.remainingParCount = remainingParCount, !.success = success,
                   !.failedSize = failedSize, !.failedArticles = failedArticles,
                   !.parFailedSize = parFailedSize, !.currentSuccess = currentSuccess,
                   !.currentFailed = currentFailed,
                   !.parCurrentFailed = parCurrentFailed,
                   !.completedFiles = completedFiles]
           F == [f \in Files |-> IF q.file[f].nzb = src
                                 THEN [q.file[f] EXCEPT !.nzb = dest] ELSE q.file[f]]
           queue == Without(q.queue, src)
           nzbs == [q.nzb EXCEPT ![dest] = r]
<1>3. q' = [q EXCEPT !.file = F, !.nzb[dest] = r, !.queue = queue]
  BY DEF MergeQueueEntries
<1>4. g \in NzbInfo /\ s \in NzbInfo /\ q.nzb \in [Nzbs -> NzbInfo]
      /\ q.file \in [Files -> FileInfo] /\ q.queue \in Seq(Nzbs)
  BY <1>1, PartsOfQueue
<1>5. /\ {fileCount, activeDownloads, size, parSize, remaining, pausedFileCount,
          pausedSize, remainingParCount, success, failedSize, failedArticles,
          parFailedSize, currentSuccess, currentFailed, parCurrentFailed} \subseteq Int
      /\ completedFiles \in SUBSET Files
  <2>1. g \in NzbInfo /\ s \in NzbInfo
    BY <1>4
  <2> HIDE DEF g, s
  <2>2. {fileCount, activeDownloads, size, parSize, remaining} \subseteq Int
    BY <2>1 DEF NzbInfo
  <2>3. {pausedFileCount, pausedSize, remainingParCount, success, failedSize} \subseteq Int
    BY <2>1 DEF NzbInfo
  <2>4. {failedArticles, parFailedSize, currentSuccess, currentFailed,
         parCurrentFailed} \subseteq Int
    BY <2>1 DEF NzbInfo
  <2>5. completedFiles \in SUBSET Files
    BY <2>1 DEF NzbInfo
  <2> HIDE DEF fileCount, activeDownloads, size, parSize, remaining, pausedFileCount,
               pausedSize, remainingParCount, success, failedSize, failedArticles,
               parFailedSize, currentSuccess, currentFailed, parCurrentFailed, completedFiles
  <2> QED BY <2>2, <2>3, <2>4, <2>5
<1>6. activeDownloads = g.activeDownloads + s.activeDownloads
  OBVIOUS
<1> HIDE DEF fileCount, activeDownloads, size, parSize, remaining, pausedFileCount,
             pausedSize, remainingParCount, success, failedSize, failedArticles,
             parFailedSize, currentSuccess, currentFailed, parCurrentFailed, completedFiles
<1>7. r \in NzbInfo
  <2>1. g \in NzbInfo
    BY <1>4
  <2> HIDE DEF g
  <2> QED BY <1>5, <2>1, ZenonT(60) DEF NzbInfo
<1>8. r.activeDownloads = activeDownloads /\ r.parking = g.parking
  <2> HIDE DEF g
  <2> QED BY <1>4 DEF NzbInfo
<1> HIDE DEF r
<1>9. queue \in Seq(Nzbs) /\ ToSet(queue) = ToSet(q.queue) \ {src}
  BY <1>4, WithoutIs
<1> HIDE DEF queue
<1>10. ASSUME NEW f \in Files
       PROVE  /\ F[f] \in FileInfo /\ AlikeFiles(q.file[f], F[f])
              /\ F[f].nzb = IF q.file[f].nzb = src THEN dest ELSE q.file[f].nzb
              /\ F[f].deleted = q.file[f].deleted
  <2>1. q.file[f] \in FileInfo
    BY <1>4
  <2> QED BY <2>1 DEF FileInfo, AlikeFiles
<1>11. F \in [Files -> FileInfo]
  <2>1. F = [f \in Files |-> F[f]]
    OBVIOUS
  <2> HIDE DEF F
  <2> QED BY <1>10, <2>1
<1> HIDE DEF F
<1>12. nzbs \in [Nzbs -> NzbInfo] /\ \A m \in Nzbs : nzbs[m] = IF m = dest THEN r ELSE q.nzb[m]
  BY <1>4, <1>7
<1>13. q' = [q EXCEPT !.file = F, !.nzb = nzbs, !.queue = queue]
  BY <1>1, <1>3 DEF DownloadQueue
<1> HIDE DEF nzbs
<1>14. q' \in DownloadQueue /\ q'.queue = queue /\ q'.file = F /\ q'.nzb = nzbs
  BY <1>1, <1>9, <1>11, <1>12, <1>13 DEF DownloadQueue
<1>15. \A m : InQueue(q', m) <=> InQueue(q, m) /\ m # src
  BY <1>1, <1>9, <1>14, InQueueIs
<1>16. dest \in added /\ src \in added
  BY <1>1, <1>2 DEF Core, GroupsCounted
<1>17. \A e \in Downloaders : dl[e].file # NoFile => dl[e].file \in Files
  BY <1>1 DEF Work
<1>18. ActiveOf(q', dl, dest) = ActiveOf(q, dl, dest) \cup ActiveOf(q, dl, src)
       /\ \A m \in Nzbs : m \notin {dest, src} => ActiveOf(q', dl, m) = ActiveOf(q, dl, m)
  <2>1. \A f \in Files : q'.file[f].nzb = IF q.file[f].nzb = src THEN dest ELSE q.file[f].nzb
    BY <1>10, <1>14
  <2> QED BY <1>2, <1>17, <2>1 DEF ActiveOf
<1>19. Cardinality(ActiveOf(q', dl, dest))
         = Cardinality(ActiveOf(q, dl, dest)) + Cardinality(ActiveOf(q, dl, src))
  <2>1. IsFiniteSet(ActiveOf(q, dl, dest)) /\ IsFiniteSet(ActiveOf(q, dl, src))
    BY CoordinatorAssumption, FS_Subset DEF ActiveOf
  <2>2. ActiveOf(q, dl, dest) \cap ActiveOf(q, dl, src) = {}
    BY <1>2 DEF ActiveOf
  <2>3. Cardinality(ActiveOf(q, dl, dest)) \in Nat /\ Cardinality(ActiveOf(q, dl, src)) \in Nat
    BY <2>1, FS_CardinalityType
  <2>4. Cardinality(ActiveOf(q, dl, dest) \cup ActiveOf(q, dl, src))
          = Cardinality(ActiveOf(q, dl, dest)) + Cardinality(ActiveOf(q, dl, src)) - Cardinality({})
    BY <2>1, <2>2, FS_Union
  <2> QED BY <1>18, <2>3, <2>4, FS_EmptySet
<1>20. GroupsCounted(q', dl, added)
  <2> SUFFICES ASSUME NEW m \in Nzbs
               PROVE  /\ InQueue(q', m) =>
                           m \in added /\ q'.nzb[m].activeDownloads = Cardinality(ActiveOf(q', dl, m))
                      /\ m \notin added => q'.nzb[m].activeDownloads = 0 /\ ~q'.nzb[m].parking
                      /\ q'.nzb[m].parking =>
                           \A h \in Files : q'.file[h].nzb = m => q'.file[h].deleted
    BY DEF GroupsCounted
  <2>1. \A k \in Nzbs :
           /\ InQueue(q, k) =>
                k \in added /\ q.nzb[k].activeDownloads = Cardinality(ActiveOf(q, dl, k))
           /\ k \notin added => q.nzb[k].activeDownloads = 0 /\ ~q.nzb[k].parking
           /\ q.nzb[k].parking => \A h \in Files : q.file[h].nzb = k => q.file[h].deleted
    BY <1>1 DEF Core, GroupsCounted
  <2>2. CASE m = dest
    BY <1>2, <1>6, <1>8, <1>12, <1>14, <1>16, <1>19, <2>1, <2>2
  <2>3. CASE m # dest
    BY <1>10, <1>12, <1>14, <1>15, <1>18, <2>1, <2>3
  <2> QED BY <2>2, <2>3
<1>21. FilesHaveGroups(q', added)
  <2>1. FilesHaveGroups(q, added)
    BY <1>1 DEF Core
  <2> QED BY <1>2, <1>10, <1>14, <1>15, <1>16, <2>1 DEF FilesHaveGroups
<1>22. ASSUME NEW d \in Downloaders, dl[d].pc # "idle"
       PROVE  /\ InQueue(q', q'.file[dl[d].file].nzb)
              /\ dl[d].pc = "notifying" => q'.file[dl[d].file].nzb = q.file[dl[d].file].nzb
  <2>1. DownloaderFine(q, dl, d)
    BY <1>1 DEF Core
  <2>2. dl[d].file \in Files /\ InQueue(q, q.file[dl[d].file].nzb)
        /\ (dl[d].pc = "notifying" => dl[d].nzb = q.file[dl[d].file].nzb)
    BY <1>22, <2>1 DEF DownloaderFine
  <2> QED BY <1>2, <1>10, <1>14, <1>15, <2>2
<1>23. \A f \in Files : AlikeFiles(q.file[f], q'.file[f])
  BY <1>10, <1>14
<1>24. Sound(q', dl, added)
  BY <1>1, <1>14, <1>20, <1>21, <1>22, <1>23, RegroupedKeeps
<1> QED BY <1>2, <1>24

(***************************************************************************)
(* What SplitFiles does to the files, and to the groups as far as their    *)
(* downloaders are concerned.                                              *)
(***************************************************************************)
LEMMA SplitFilesIs ==
    ASSUME NEW Q \in DownloadQueue, NEW files \in SUBSET Files,
           NEW src \in Nzbs, NEW n \in Nzbs, src # n
    PROVE  LET R == SplitFiles(Q, files, src, n)
           IN  /\ R \in DownloadQueue /\ R.queue = Q.queue
               /\ \A f \in Files :
                     /\ AlikeFiles(Q.file[f], R.file[f])
                     /\ R.file[f].nzb = IF f \in files THEN n ELSE Q.file[f].nzb
                     /\ R.file[f].deleted = Q.file[f].deleted
               /\ \A m \in Nzbs : /\ R.nzb[m].activeDownloads = Q.nzb[m].activeDownloads
                                  /\ R.nzb[m].parking = Q.nzb[m].parking
<1> DEFINE pars == files \cap ParFiles
           paused == Cardinality(Paused(Q, files))
           missed == TotalMissed(files)
           parMissed == TotalMissed(pars)
           count == Cardinality(files)
           size == TotalSize(files)
           remaining == Total(Q, files, "remaining")
           ok == Total(Q, files, "success")
           bad == Total(Q, files, "failed")
           parSize == TotalSize(pars)
           parBad == Total(Q, pars, "failed")
           parCount == Cardinality(pars)
           pausedSize == Total(Q, Paused(Q, files), "remaining")
           Shift(nzb, sign) == [nzb EXCEPT
            !.fileCount = @ + sign * count,
            !.size = @ + sign * size,
            !.remaining = @ + sign * remaining,
            !.currentSuccess = @ + sign * ok,
            !.currentFailed = @ + sign * (bad + missed),
            !.failedArticles = @ + sign * missed,
            !.parSize = @ + sign * parSize,
            !.parCurrentFailed = @ + sign * (parBad + parMissed),
            !.remainingParCount = @ + sign * parCount,
            !.pausedSize = @ + sign * pausedSize]
           left == Q.nzb[src].pausedFileCount - paused
           more == IF paused > 0 THEN left + 1 ELSE Shift(Q.nzb[n], 1).pausedFileCount
           r == [Shift(Q.nzb[src], -1) EXCEPT !.pausedFileCount = left]
           t == [Shift(Q.nzb[n], 1) EXCEPT !.pausedFileCount = more]
           F == [f \in Files |-> IF f \in files THEN [Q.file[f] EXCEPT !.nzb = n] ELSE Q.file[f]]
           R == SplitFiles(Q, files, src, n)
<1>1. R = [Q EXCEPT !.file = F, !.nzb[src] = r, !.nzb[n] = t]
  BY DEF SplitFiles
<1>2. {paused, missed, parMissed, count, size, remaining, ok, bad, parSize, parBad,
       parCount, pausedSize} \subseteq Int
  <2>1. pars \in SUBSET Files /\ Paused(Q, files) \in SUBSET Files
    BY DEF Paused
  <2> QED BY <2>1, CountsAreInts, TotalsAreInts
<1> HIDE DEF paused, missed, parMissed, count, size, remaining, ok, bad, parSize, parBad,
             parCount, pausedSize
<1>3. Q.nzb[src] \in NzbInfo /\ Q.nzb[n] \in NzbInfo /\ Q.nzb \in [Nzbs -> NzbInfo]
      /\ Q.file \in [Files -> FileInfo]
  BY PartsOfQueue
<1>4. ASSUME NEW g \in NzbInfo, NEW sign \in {-1, 1}
      PROVE  /\ Shift(g, sign) \in NzbInfo
             /\ Shift(g, sign).activeDownloads = g.activeDownloads
             /\ Shift(g, sign).parking = g.parking
  <2> DEFINE a == g.fileCount + sign * count
             b == g.size + sign * size
             c == g.remaining + sign * remaining
             d == g.currentSuccess + sign * ok
             e == g.currentFailed + sign * (bad + missed)
             h == g.failedArticles + sign * missed
             i == g.parSize + sign * parSize
             j == g.parCurrentFailed + sign * (parBad + parMissed)
             k == g.remainingParCount + sign * parCount
             l == g.pausedSize + sign * pausedSize
             s == [g EXCEPT !.fileCount = a, !.size = b, !.remaining = c,
                            !.currentSuccess = d, !.currentFailed = e,
                            !.failedArticles = h, !.parSize = i, !.parCurrentFailed = j,
                            !.remainingParCount = k, !.pausedSize = l]
  <2>1. Shift(g, sign) = s
    OBVIOUS
  <2>2. a \in Int /\ b \in Int /\ c \in Int /\ d \in Int /\ e \in Int
    BY <1>2 DEF NzbInfo
  <2>3. h \in Int /\ i \in Int /\ j \in Int /\ k \in Int /\ l \in Int
    BY <1>2 DEF NzbInfo
  <2> HIDE DEF Shift, a, b, c, d, e, h, i, j, k, l
  <2>4. s \in NzbInfo
    BY <2>2, <2>3, ZenonT(60) DEF NzbInfo
  <2>5. s.activeDownloads = g.activeDownloads /\ s.parking = g.parking
    BY DEF NzbInfo
  <2> QED BY <2>1, <2>4, <2>5
<1> HIDE DEF Shift
<1>5. left \in Int /\ more \in Int
  <2> DEFINE g == Q.nzb[src]
             h == Shift(Q.nzb[n], 1)
  <2>1. g \in NzbInfo /\ h \in NzbInfo
    BY <1>3, <1>4
  <2> HIDE DEF g, h
  <2>2. g.pausedFileCount \in Int /\ h.pausedFileCount \in Int
    BY <2>1 DEF NzbInfo
  <2> QED BY <1>2, <2>2 DEF g, h
<1> HIDE DEF left, more
<1>6. \A g \in NzbInfo, k \in Int :
         LET s == [g EXCEPT !.pausedFileCount = k]
         IN  s \in NzbInfo /\ s.activeDownloads = g.activeDownloads /\ s.parking = g.parking
  BY DEF NzbInfo
<1>7. /\ r \in NzbInfo /\ r.activeDownloads = Q.nzb[src].activeDownloads
      /\ r.parking = Q.nzb[src].parking
  <2> DEFINE g == Shift(Q.nzb[src], -1)
  <2>1. /\ g \in NzbInfo /\ g.activeDownloads = Q.nzb[src].activeDownloads
        /\ g.parking = Q.nzb[src].parking
    BY <1>3, <1>4
  <2> HIDE DEF g
  <2>2. LET s == [g EXCEPT !.pausedFileCount = left]
        IN  s \in NzbInfo /\ s.activeDownloads = g.activeDownloads /\ s.parking = g.parking
    BY <1>5, <1>6, <2>1
  <2> QED BY <2>1, <2>2 DEF g
<1>8. /\ t \in NzbInfo /\ t.activeDownloads = Q.nzb[n].activeDownloads
      /\ t.parking = Q.nzb[n].parking
  <2> DEFINE g == Shift(Q.nzb[n], 1)
  <2>1. /\ g \in NzbInfo /\ g.activeDownloads = Q.nzb[n].activeDownloads
        /\ g.parking = Q.nzb[n].parking
    BY <1>3, <1>4
  <2> HIDE DEF g
  <2>2. LET s == [g EXCEPT !.pausedFileCount = more]
        IN  s \in NzbInfo /\ s.activeDownloads = g.activeDownloads /\ s.parking = g.parking
    BY <1>5, <1>6, <2>1
  <2> QED BY <2>1, <2>2 DEF g
<1> HIDE DEF r, t
<1>9. ASSUME NEW f \in Files
      PROVE  /\ F[f] \in FileInfo /\ AlikeFiles(Q.file[f], F[f])
             /\ F[f].nzb = IF f \in files THEN n ELSE Q.file[f].nzb
             /\ F[f].deleted = Q.file[f].deleted
  <2>1. Q.file[f] \in FileInfo
    BY <1>3
  <2> QED BY <2>1 DEF FileInfo, AlikeFiles
<1>10. F \in [Files -> FileInfo]
  <2>1. F = [f \in Files |-> F[f]]
    OBVIOUS
  <2> HIDE DEF F
  <2> QED BY <1>9, <2>1
<1> HIDE DEF F
<1> DEFINE nzbs == [[Q.nzb EXCEPT ![src] = r] EXCEPT ![n] = t]
<1>11. R = [Q EXCEPT !.file = F, !.nzb = nzbs]
  BY <1>1, <1>3 DEF DownloadQueue
<1>12. nzbs \in [Nzbs -> NzbInfo]
       /\ \A m \in Nzbs : nzbs[m] = IF m = n THEN t ELSE IF m = src THEN r ELSE Q.nzb[m]
  <2> DEFINE nzb == Q.nzb
  <2> HIDE DEF nzb
  <2>1. nzb \in [Nzbs -> NzbInfo]
    BY <1>3 DEF nzb
  <2>2. [[nzb EXCEPT ![src] = r] EXCEPT ![n] = t] \in [Nzbs -> NzbInfo]
        /\ \A m \in Nzbs : [[nzb EXCEPT ![src] = r] EXCEPT ![n] = t][m]
                             = IF m = n THEN t ELSE IF m = src THEN r ELSE nzb[m]
    BY <1>7, <1>8, <2>1
  <2> QED BY <2>2 DEF nzb
<1> HIDE DEF nzbs, R
<1>13. R \in DownloadQueue /\ R.queue = Q.queue /\ R.file = F /\ R.nzb = nzbs
  BY <1>10, <1>11, <1>12 DEF DownloadQueue
<1>14. \A m \in Nzbs : /\ R.nzb[m].activeDownloads = Q.nzb[m].activeDownloads
                       /\ R.nzb[m].parking = Q.nzb[m].parking
  BY <1>7, <1>8, <1>12, <1>13
<1> QED BY <1>9, <1>13, <1>14 DEF R

(***************************************************************************)
(* Splitting files off a group.                                            *)
(***************************************************************************)
LEMMA SplitQueueEntriesKeeps ==
    ASSUME Sound(q, dl, added), NEW src \in Nzbs, SplitQueueEntries(src)
    PROVE  Sound(q', dl', added')
<1>1. /\ Core(q, dl, added) /\ q \in DownloadQueue /\ dl \in [Downloaders -> Work]
      /\ added \subseteq Nzbs
  BY DEF Sound, Core
<1>2. InQueue(q, src) /\ dl' = dl
  BY DEF SplitQueueEntries
<1> DEFINE P(n) == [q EXCEPT !.nzb[n].priority = q.nzb[src].priority]
           Moved(n, files) == SplitFiles(P(n), files, src, n)
           Left(n, files) == IF SourceIsEmpty(Moved(n, files), src)
                             THEN Without(q.queue, src) ELSE q.queue
<1>3. PICK n \in Nzbs \ added, files \in (SUBSET FilesOf(q, src)) \ {{}} :
         /\ \A f \in files : q.file[f].activeDownloads = 0
         /\ q' = [Moved(n, files) EXCEPT !.queue = Left(n, files) \o <<n>>]
         /\ added' = added \cup {n}
  BY DEF SplitQueueEntries
<1> DEFINE p == P(n)
           moved == Moved(n, files)
           queue == Left(n, files) \o <<n>>
           g == [q.nzb[n] EXCEPT !.priority = q.nzb[src].priority]
<1>4. files \in SUBSET Files /\ \A f \in files : q.file[f].nzb = src
  BY DEF FilesOf
<1>5. src \in added /\ src # n
  BY <1>1, <1>2, <1>3 DEF Core, GroupsCounted
<1>6. p = WithNzb(q, n, g)
  BY DEF WithNzb
<1>7. g \in NzbInfo /\ g.activeDownloads = q.nzb[n].activeDownloads /\ g.parking = q.nzb[n].parking
  <2> DEFINE x == q.nzb[n]
             y == q.nzb[src]
  <2>1. x \in NzbInfo /\ y \in NzbInfo
    BY <1>1, PartsOfQueue
  <2> HIDE DEF x, y
  <2>2. y.priority \in Int
    BY <2>1 DEF NzbInfo
  <2>3. LET z == [x EXCEPT !.priority = y.priority]
        IN  z \in NzbInfo /\ z.activeDownloads = x.activeDownloads /\ z.parking = x.parking
    BY <2>1, <2>2 DEF NzbInfo
  <2> QED BY <2>3 DEF x, y
<1> HIDE DEF g, P
<1>8. /\ p \in DownloadQueue /\ p.queue = q.queue /\ p.file = q.file
      /\ \A m \in Nzbs : /\ p.nzb[m].activeDownloads = q.nzb[m].activeDownloads
                         /\ p.nzb[m].parking = q.nzb[m].parking
  <2> HIDE DEF p
  <2> QED BY <1>1, <1>6, <1>7, WithNzbIs
<1>9. /\ moved \in DownloadQueue /\ moved.queue = q.queue
      /\ \A f \in Files :
            /\ AlikeFiles(q.file[f], moved.file[f])
            /\ moved.file[f].nzb = IF f \in files THEN n ELSE q.file[f].nzb
            /\ moved.file[f].deleted = q.file[f].deleted
      /\ \A m \in Nzbs : /\ moved.nzb[m].activeDownloads = q.nzb[m].activeDownloads
                         /\ moved.nzb[m].parking = q.nzb[m].parking
  <2>1. moved = SplitFiles(p, files, src, n)
    OBVIOUS
  <2> HIDE DEF p, moved
  <2>2. /\ moved \in DownloadQueue /\ moved.queue = p.queue
        /\ \A f \in Files :
              /\ AlikeFiles(p.file[f], moved.file[f])
              /\ moved.file[f].nzb = IF f \in files THEN n ELSE p.file[f].nzb
              /\ moved.file[f].deleted = p.file[f].deleted
        /\ \A m \in Nzbs : /\ moved.nzb[m].activeDownloads = p.nzb[m].activeDownloads
                           /\ moved.nzb[m].parking = p.nzb[m].parking
    <3>1. p \in DownloadQueue /\ n \in Nzbs
      BY <1>8
    <3> DEFINE R == SplitFiles(p, files, src, n)
    <3>2. /\ R \in DownloadQueue /\ R.queue = p.queue
          /\ \A f \in Files :
                /\ AlikeFiles(p.file[f], R.file[f])
                /\ R.file[f].nzb = IF f \in files THEN n ELSE p.file[f].nzb
                /\ R.file[f].deleted = p.file[f].deleted
          /\ \A m \in Nzbs : /\ R.nzb[m].activeDownloads = p.nzb[m].activeDownloads
                             /\ R.nzb[m].parking = p.nzb[m].parking
      BY <1>4, <1>5, <3>1, SplitFilesIs
    <3>3. moved = R
      BY <2>1
    <3> HIDE DEF R
    <3> QED BY <3>2, <3>3
  <2> QED BY <1>8, <2>2
<1>10. q' = [moved EXCEPT !.queue = queue]
  BY <1>3
<1>11. /\ queue \in Seq(Nzbs)
       /\ ToSet(queue) = (IF FilesOf(moved, src) = {} THEN ToSet(q.queue) \ {src}
                          ELSE ToSet(q.queue)) \cup {n}
  <2> DEFINE s == Left(n, files)
             t == <<n>>
  <2>1. t \in Seq(Nzbs) /\ ToSet(t) = {n}
    BY SingleIs
  <2>2. q.queue \in Seq(Nzbs)
    BY <1>1, PartsOfQueue
  <2> HIDE DEF t, moved
  <2>3. s = IF FilesOf(moved, src) = {} THEN Without(q.queue, src) ELSE q.queue
    BY DEF SourceIsEmpty, moved
  <2>4. /\ s \in Seq(Nzbs)
        /\ ToSet(s) = IF FilesOf(moved, src) = {} THEN ToSet(q.queue) \ {src} ELSE ToSet(q.queue)
    BY <2>2, <2>3, WithoutIs
  <2> HIDE DEF s
  <2>5. s \o t \in Seq(Nzbs) /\ ToSet(s \o t) = ToSet(s) \cup ToSet(t)
    BY <2>1, <2>4, JoinedIs
  <2> QED BY <2>1, <2>4, <2>5 DEF s, t
<1> HIDE DEF moved, queue
<1>12. q' \in DownloadQueue /\ q'.queue = queue /\ q'.file = moved.file /\ q'.nzb = moved.nzb
  BY <1>9, <1>10, <1>11 DEF DownloadQueue
<1>13. \A m : InQueue(q', m) <=>
              (m = n \/ (InQueue(q, m) /\ (m # src \/ FilesOf(moved, src) # {})))
  BY <1>1, <1>5, <1>11, <1>12, InQueueIs
<1>14. \A f \in files : ActiveIn(dl, f) = {}
  <2> SUFFICES ASSUME NEW f \in files PROVE ActiveIn(dl, f) = {}
    OBVIOUS
  <2>1. Cardinality(ActiveIn(dl, f)) = 0
    BY <1>1, <1>3, <1>4 DEF Core, FilesCounted
  <2>2. IsFiniteSet(ActiveIn(dl, f))
    BY CoordinatorAssumption, FS_Subset DEF ActiveIn
  <2> QED BY <2>1, <2>2, FS_EmptySet
<1>15. ASSUME NEW d \in Downloaders, dl[d].file # NoFile
       PROVE  dl[d].file \in Files /\ q'.file[dl[d].file].nzb = q.file[dl[d].file].nzb
  <2>1. dl[d].file \in Files
    BY <1>1, <1>15 DEF Work
  <2>2. dl[d].file \notin files
    BY <1>14 DEF ActiveIn
  <2> QED BY <1>9, <1>12, <2>1, <2>2
<1>16. \A m : ActiveOf(q', dl, m) = ActiveOf(q, dl, m)
  BY <1>15 DEF ActiveOf
<1>17. ~InQueue(q, n)
  BY <1>1, <1>3 DEF Core, GroupsCounted
<1>18. GroupsCounted(q', dl, added')
  <2> SUFFICES ASSUME NEW m \in Nzbs
               PROVE  /\ InQueue(q', m) =>
                           m \in added' /\ q'.nzb[m].activeDownloads = Cardinality(ActiveOf(q', dl, m))
                      /\ m \notin added' => q'.nzb[m].activeDownloads = 0 /\ ~q'.nzb[m].parking
                      /\ q'.nzb[m].parking =>
                           \A h \in Files : q'.file[h].nzb = m => q'.file[h].deleted
    BY DEF GroupsCounted
  <2>1. /\ InQueue(q, m) =>
             m \in added /\ q.nzb[m].activeDownloads = Cardinality(ActiveOf(q, dl, m))
        /\ m \notin added => q.nzb[m].activeDownloads = 0 /\ ~q.nzb[m].parking
        /\ q.nzb[m].parking =>
             \A h \in Files : q.file[h].nzb = m => q.file[h].deleted
    BY <1>1 DEF Core, GroupsCounted
  <2>2. CASE m = n
    <3>1. Cardinality(ActiveOf(q', dl, n)) = 0
      <4>1. ActiveOf(q, dl, n) = {}
        BY <1>1, <1>17, NoWorkOutside
      <4> QED BY <1>16, <4>1, FS_EmptySet
    <3>2. n \notin added /\ n \in added'
      BY <1>3
    <3> QED BY <1>9, <1>12, <2>1, <2>2, <3>1, <3>2
  <2>3. CASE m # n
    <3>1. /\ q'.nzb[m].activeDownloads = q.nzb[m].activeDownloads
          /\ q'.nzb[m].parking = q.nzb[m].parking
          /\ \A h \in Files : q'.file[h].nzb = m => q.file[h].nzb = m
          /\ \A h \in Files : q'.file[h].deleted = q.file[h].deleted
      BY <1>9, <1>12, <2>3
    <3> QED BY <1>3, <1>13, <1>16, <2>1, <2>3, <3>1
  <2> QED BY <2>2, <2>3
<1>19. FilesHaveGroups(q', added')
  <2> SUFFICES ASSUME NEW f \in Files, q'.file[f].nzb # NoNzb
               PROVE  InQueue(q', q'.file[f].nzb) \/ q'.file[f].nzb \notin added'
    BY DEF FilesHaveGroups
  <2>1. CASE q'.file[f].nzb = n
    BY <1>13, <2>1
  <2>2. CASE q'.file[f].nzb # n
    <3>1. q'.file[f].nzb = q.file[f].nzb /\ moved.file[f].nzb = q.file[f].nzb
      BY <1>9, <1>12, <2>2
    <3>2. InQueue(q, q.file[f].nzb) \/ q.file[f].nzb \notin added
      BY <1>1, <3>1 DEF Core, FilesHaveGroups
    <3>3. q.file[f].nzb = src => FilesOf(moved, src) # {}
      BY <3>1 DEF FilesOf
    <3> DEFINE m == q.file[f].nzb
    <3>4. m # n /\ q'.file[f].nzb = m
      BY <2>2, <3>1
    <3>5. (InQueue(q, m) \/ m \notin added) /\ (m = src => FilesOf(moved, src) # {})
      BY <3>2, <3>3
    <3> HIDE DEF m
    <3>6. InQueue(q', m) \/ m \notin added'
      <4>1. added' = added \cup {n}
        BY <1>3
      <4>2. CASE m \notin added
        BY <3>4, <4>1, <4>2
      <4>3. CASE InQueue(q, m)
        <5>1. m # src \/ FilesOf(moved, src) # {}
          BY <3>5
        <5> QED BY <1>13, <4>3, <5>1
      <4> QED BY <3>5, <4>2, <4>3
    <3> QED BY <3>4, <3>6
  <2> QED BY <2>1, <2>2
<1>20. ASSUME NEW d \in Downloaders, dl[d].pc # "idle"
       PROVE  /\ InQueue(q', q'.file[dl[d].file].nzb)
              /\ q'.file[dl[d].file].nzb = q.file[dl[d].file].nzb
  <2>1. dl[d].file \in Files /\ InQueue(q, q.file[dl[d].file].nzb)
    BY <1>1, <1>20 DEF Core, DownloaderFine
  <2>2. dl[d].file # NoFile
    BY <2>1, QueueAssumption
  <2>3. q'.file[dl[d].file].nzb = q.file[dl[d].file].nzb
    BY <1>15, <2>2
  <2>4. q.file[dl[d].file].nzb = src => FilesOf(moved, src) # {}
    BY <1>12, <2>1, <2>3 DEF FilesOf
  <2> QED BY <1>13, <2>1, <2>3, <2>4
<1>21. \A f \in Files : AlikeFiles(q.file[f], q'.file[f])
  BY <1>9, <1>12
<1>22. added' \subseteq Nzbs
  BY <1>1, <1>3
<1>23. Sound(q', dl, added')
  BY <1>12, <1>18, <1>19, <1>20, <1>21, <1>22, RegroupedKeeps
<1> QED BY <1>2, <1>23

(***************************************************************************)
(* Every step keeps the invariant.                                         *)
(***************************************************************************)
LEMMA StepKeepsSound ==
    ASSUME MergesAreQuiet, Sound(q, dl, added), [Next]_vars
    PROVE  Sound(q', dl', added')
<1>1. ASSUME NEW d \in Downloaders, StartArticleDownload(d) PROVE Sound(q', dl', added')
  BY <1>1, StartArticleDownloadKeeps
<1>2. ASSUME NEW d \in Downloaders, DownloadEnds(d) PROVE Sound(q', dl', added')
  BY <1>2, DownloadEndsKeeps
<1>3. ASSUME NEW d \in Downloaders, ArticleCompleted(d) PROVE Sound(q', dl', added')
  BY <1>3, ArticleCompletedKeeps
<1>4. ASSUME NEW d \in Downloaders, FileCompleted(d) PROVE Sound(q', dl', added')
  BY <1>4, FileCompletedKeeps
<1>5. ASSUME NEW d \in Downloaders, ResetHangingDownload(d) PROVE Sound(q', dl', added')
  BY <1>5, ResetHangingDownloadKeeps
<1>6. ASSUME NEW n \in Nzbs, AddNzbFileToQueue(n) PROVE Sound(q', dl', added')
  BY <1>6, AddNzbFileToQueueKeeps
<1>7. ASSUME NEW n \in Nzbs, JobCompleted(n) PROVE Sound(q', dl', added')
  BY <1>7, JobCompletedKeeps
<1>8. ASSUME NEW n \in Nzbs, PauseUnpauseGroup(n) PROVE Sound(q', dl', added')
  BY <1>8, PauseUnpauseGroupKeeps
<1>9. ASSUME NEW n \in Nzbs, EditGroupDelete(n) PROVE Sound(q', dl', added')
  BY <1>9, EditGroupDeleteKeeps
<1>10. ASSUME NEW n \in Nzbs, SetNzbPriority(n) PROVE Sound(q', dl', added')
  BY <1>10, SetNzbPriorityKeeps
<1>11. ASSUME NEW n \in Nzbs, MoveGroup(n) PROVE Sound(q', dl', added')
  BY <1>11, MoveGroupKeeps
<1>12. ASSUME NEW n \in Nzbs, SplitQueueEntries(n) PROVE Sound(q', dl', added')
  BY <1>12, SplitQueueEntriesKeeps
<1>13. ASSUME NEW f \in Files, PauseUnpauseEntry(f) PROVE Sound(q', dl', added')
  BY <1>13, PauseUnpauseEntryKeeps
<1>14. ASSUME NEW f \in Files, UnpausePars(f) PROVE Sound(q', dl', added')
  BY <1>14, UnpauseParsKeeps
<1>15. ASSUME NEW f \in Files, DeleteEntry(f) PROVE Sound(q', dl', added')
  BY <1>15, DeleteEntryKeeps
<1>16. ASSUME NEW dest \in Nzbs, NEW src \in Nzbs, MergeQueueEntries(dest, src)
       PROVE  Sound(q', dl', added')
  BY <1>16, MergeQueueEntriesKeeps
<1>17. CASE UNCHANGED vars
  BY <1>17 DEF vars
<1> QED
  BY <1>1, <1>2, <1>3, <1>4, <1>5, <1>6, <1>7, <1>8, <1>9, <1>10, <1>11, <1>12, <1>13,
     <1>14, <1>15, <1>16, <1>17 DEF Next

(***************************************************************************)
(* The number of edits stays within the bound of the model.                *)
(***************************************************************************)
LEMMA EditsAreBounded ==
    ASSUME edits \in 0 .. MaxEdits, [Next]_vars
    PROVE  edits' \in 0 .. MaxEdits
<1>1. edits' = edits \/ (edits < MaxEdits /\ edits' = edits + 1)
  BY DEF Next, vars, StartArticleDownload, DownloadEnds, ArticleCompleted, FileCompleted,
         ResetHangingDownload, AddNzbFileToQueue, JobCompleted, PauseUnpauseGroup,
         EditGroupDelete, SetNzbPriority, MoveGroup, SplitQueueEntries, PauseUnpauseEntry,
         UnpausePars, DeleteEntry, MergeQueueEntries, Edit, EditMade
<1> QED BY <1>1, CoordinatorAssumption

(***************************************************************************)
(* The inductive invariant holds: what the threads do, the counters of the *)
(* files and groups they work on, and the articles agree at all times, as  *)
(* long as every merge is quiet.                                           *)
(***************************************************************************)
THEOREM QueueInvKept == ASSUME MergesAreQuiet PROVE Spec => []QueueInv
<1>1. Init => QueueInv
  <2> SUFFICES ASSUME Init PROVE QueueInv
    OBVIOUS
  <2>1. Sound(q, dl, added)
    BY InitSound
  <2>2. edits \in 0 .. MaxEdits
    BY CoordinatorAssumption DEF Init
  <2> QED BY <2>1, <2>2 DEF QueueInv
<1>2. QueueInv /\ [Next]_vars => QueueInv'
  <2> SUFFICES ASSUME QueueInv, [Next]_vars PROVE QueueInv'
    OBVIOUS
  <2>1. Sound(q, dl, added) /\ edits \in 0 .. MaxEdits
    BY DEF QueueInv
  <2>2. Sound(q', dl', added')
    BY <2>1, StepKeepsSound
  <2>3. edits' \in 0 .. MaxEdits
    BY <2>1, EditsAreBounded
  <2> QED BY <2>2, <2>3 DEF QueueInv
<1> QED BY <1>1, <1>2, PTL DEF Spec

-----------------------------------------------------------------------------
\* A file has no more downloaders than articles.
LEMMA DownloadersFit ==
    ASSUME Sound(q, dl, added), NEW f \in Files
    PROVE  Cardinality(ActiveIn(dl, f)) \in 0 .. NumArticles[f]
<1> DEFINE S == ActiveIn(dl, f)
           T == 1 .. NumArticles[f]
           part == [d \in S |-> dl[d].part]
<1>1. IsFiniteSet(S) /\ Cardinality(S) \in Nat
  <2>1. IsFiniteSet(S)
    BY CoordinatorAssumption, FS_Subset DEF ActiveIn
  <2> QED BY <2>1, FS_CardinalityType
<1>2. NumArticles[f] \in Nat \ {0}
  BY QueueAssumption
<1>3. IsFiniteSet(T) /\ Cardinality(T) = NumArticles[f]
  BY <1>2, FS_Interval
<1>4. ASSUME NEW d \in S PROVE /\ d \in Downloaders /\ dl[d].file = f /\ DownloaderFine(q, dl, d)
                               /\ JoinsAlone(q, dl, d)
                               /\ Fetching(dl, d) \/ dl[d].pc = "completing"
  <2>1. /\ d \in Downloaders /\ dl[d].file = f /\ DownloaderFine(q, dl, d)
        /\ JoinsAlone(q, dl, d) /\ dl[d] \in Work
    BY DEF ActiveIn, Sound, Core
  <2>2. dl[d].pc # "idle"
    BY <2>1, QueueAssumption DEF DownloaderFine
  <2> QED BY <2>1, <2>2 DEF Fetching, Work
<1>5. CASE \E d \in S : dl[d].pc = "completing"
  <2>1. PICK d \in S : dl[d].pc = "completing"
    BY <1>5
  <2>2. S = {d}
    BY <1>4, <2>1 DEF JoinsAlone
  <2>3. Cardinality(S) = 1
    BY <2>2, FS_Singleton
  <2> QED BY <1>2, <2>3
<1>6. CASE \A d \in S : dl[d].pc # "completing"
  <2>1. \A d \in S : Fetching(dl, d) /\ part[d] \in T
    BY <1>4, <1>6 DEF DownloaderFine
  <2>2. \A d, e \in S : d # e => part[d] # part[e]
    <3> SUFFICES ASSUME NEW d \in S, NEW e \in S, d # e PROVE dl[d].part # dl[e].part
      OBVIOUS
    <3>1. d \in Downloaders /\ e \in Downloaders /\ dl[d].file = dl[e].file
      BY <1>4
    <3> QED BY <2>1, <3>1 DEF Sound, Core, ArticlesOwned
  <2>3. part \in [S -> T]
    BY <2>1
  <2>4. part \in Injection(S, T)
    BY <2>2, <2>3 DEF Injection, IsInjective
  <2>5. Cardinality(S) <= Cardinality(T)
    <3> HIDE DEF S, T, part
    <3> QED BY <1>3, <2>4, FS_Injection
  <2> QED BY <1>1, <1>2, <1>3, <2>5
<1> QED BY <1>5, <1>6

(***************************************************************************)
(* The invariant implies the types.                                        *)
(***************************************************************************)
LEMMA SoundIsTyped ==
    ASSUME QueueInv
    PROVE  TypeOK
<1>1. /\ Sound(q, dl, added) /\ Core(q, dl, added) /\ q \in DownloadQueue
      /\ dl \in [Downloaders -> Work] /\ added \subseteq Nzbs /\ edits \in 0 .. MaxEdits
  BY DEF QueueInv, Sound, Core
<1>2. ASSUME NEW f \in Files
      PROVE  /\ Len(q.file[f].article) = NumArticles[f]
             /\ {q.file[f].activeDownloads, q.file[f].completedArticles,
                 q.file[f].remaining} \subseteq 0 .. NumArticles[f]
  <2>1. /\ Len(q.file[f].article) = NumArticles[f]
        /\ q.file[f].activeDownloads = Cardinality(ActiveIn(dl, f))
        /\ q.file[f].completedArticles = Cardinality(Done(q, f))
        /\ q.file[f].remaining = NumArticles[f] - Cardinality(Done(q, f))
    BY <1>1 DEF Core, FilesCounted
  <2>2. NumArticles[f] \in Nat
    BY QueueAssumption
  <2>3. Cardinality(Done(q, f)) \in 0 .. NumArticles[f]
    <3>1. IsFiniteSet(1 .. NumArticles[f]) /\ Cardinality(1 .. NumArticles[f]) = NumArticles[f]
      BY <2>2, FS_Interval
    <3>2. Done(q, f) \subseteq 1 .. NumArticles[f]
      BY DEF Done
    <3>3. IsFiniteSet(Done(q, f)) /\ Cardinality(Done(q, f)) <= NumArticles[f]
      BY <3>1, <3>2, FS_Subset
    <3>4. Cardinality(Done(q, f)) \in Nat
      BY <3>3, FS_CardinalityType
    <3> QED BY <2>2, <3>3, <3>4
  <2>4. Cardinality(ActiveIn(dl, f)) \in 0 .. NumArticles[f]
    BY <1>1, DownloadersFit
  <2>5. NumArticles[f] - Cardinality(Done(q, f)) \in 0 .. NumArticles[f]
    BY <2>2, <2>3
  <2> QED BY <2>1, <2>3, <2>4, <2>5
<1> QED BY <1>1, <1>2 DEF TypeOK, Work

(***************************************************************************)
(* The invariant implies that every running article has exactly one        *)
(* downloader, and every other none.                                       *)
(***************************************************************************)
LEMMA SoundHasOneEach == ASSUME QueueInv PROVE OneDownloaderPerArticle
<1>1. Sound(q, dl, added) /\ Core(q, dl, added)
  BY DEF QueueInv, Sound
<1> SUFFICES ASSUME NEW f \in Files, NEW a \in 1 .. NumArticles[f]
             PROVE  (q.file[f].article[a] = "running") =
                      (Cardinality({d \in ActiveOn(f) : dl[d].part = a
                                      /\ dl[d].pc \in {"running", "notifying"}}) = 1)
  BY DEF OneDownloaderPerArticle
<1> DEFINE S == {d \in ActiveOn(f) : dl[d].part = a /\ dl[d].pc \in {"running", "notifying"}}
<1>2. S = {d \in Downloaders : dl[d].file = f /\ dl[d].part = a /\ Fetching(dl, d)}
  BY DEF ActiveOn, Fetching
<1> HIDE DEF S
<1>3. IsFiniteSet(S)
  BY <1>2, CoordinatorAssumption, FS_Subset
<1>4. \A d, e \in S : d = e
  BY <1>1, <1>2 DEF Core, ArticlesOwned
<1>5. q.file[f].article[a] = "running" => S # {}
  <2>1. ASSUME q.file[f].article[a] = "running"
        PROVE  \E d \in ActiveIn(dl, f) : Fetching(dl, d) /\ dl[d].part = a
    BY <1>1, <2>1 DEF Core, ArticlesOwned
  <2> QED BY <1>2, <2>1 DEF ActiveIn
<1>6. ASSUME NEW d \in S PROVE q.file[f].article[a] = "running"
  <2>1. DownloaderFine(q, dl, d)
    BY <1>1, <1>2 DEF Core
  <2> QED BY <1>2, <2>1 DEF DownloaderFine
<1>7. S # {} <=> Cardinality(S) = 1
  <2>1. Cardinality(S) = 1 <=> \E x : S = {x}
    BY <1>3, FS_Singleton
  <2> QED BY <1>4, <2>1
<1> QED BY <1>5, <1>6, <1>7 DEF S

(***************************************************************************)
(* The queue and the downloaders have their types, no counter of a file is *)
(* negative or exceeds its articles, and every article that is running has *)
(* exactly one downloader, as long as every merge is quiet.                *)
(***************************************************************************)
THEOREM QueueArticlesConsistent == ASSUME MergesAreQuiet PROVE Spec => []ArticlesConsistent
<1>1. QueueInv => ArticlesConsistent
  BY SoundIsTyped, SoundHasOneEach DEF ArticlesConsistent
<1> QED BY <1>1, QueueInvKept, PTL

(***************************************************************************)
(* As long as every merge is quiet, a downloader never works on a          *)
(* destroyed file, and the files that are in the queue count their         *)
(* downloaders.  A merge into a group being parked breaks it.              *)
(***************************************************************************)
THEOREM QueueDownloadersHaveFiles == ASSUME MergesAreQuiet PROVE Spec => []DownloaderFileExists
<1>1. QueueInv => DownloaderFileExists
  <2> SUFFICES ASSUME QueueInv PROVE DownloaderFileExists
    OBVIOUS
  <2>1. Core(q, dl, added)
    BY DEF QueueInv, Sound
  <2>2. \A d \in Downloaders : dl[d].pc # "idle" => Queued(dl[d].file)
    BY <2>1 DEF Core, DownloaderFine, Queued
  <2>3. \A f \in Files : q.file[f].activeDownloads = Cardinality(ActiveOn(f))
    BY <2>1 DEF Core, FilesCounted, ActiveOn, ActiveIn
  <2> QED BY <2>2, <2>3 DEF DownloaderFileExists
<1> QED BY <1>1, QueueInvKept, PTL

(***************************************************************************)
(* As long as every merge is quiet, CompleteFileParts joins a file outside *)
(* the lock only as the last downloader of it, and none is started         *)
(* meanwhile.  A merge into a group being parked breaks it.                *)
(***************************************************************************)
THEOREM QueueCompletingAlone == ASSUME MergesAreQuiet PROVE Spec => []CompletingAlone
<1>1. QueueInv => CompletingAlone
  <2> SUFFICES ASSUME QueueInv, NEW d \in Downloaders, dl[d].pc = "completing"
               PROVE  /\ ActiveOn(dl[d].file) = {d}
                      /\ q.file[dl[d].file].deleted \/ ~HasArticles(dl[d].file)
    BY DEF CompletingAlone
  <2> DEFINE f == dl[d].file
  <2>1. Core(q, dl, added) /\ JoinsAlone(q, dl, d)
    BY DEF QueueInv, Sound
  <2>2. ActiveIn(dl, f) = {d} /\ (q.file[f].deleted \/ NoneLeft(q, f))
    BY <2>1 DEF JoinsAlone
  <2>3. f \in Files /\ q \in DownloadQueue
    BY <2>1 DEF Core, DownloaderFine
  <2>4. Len(q.file[f].article) = NumArticles[f]
    BY <2>1, <2>3 DEF Core, FilesCounted
  <2>5. q.file[f] \in FileInfo
    BY <2>3, PartsOfQueue
  <2> DEFINE s == q.file[f].article
  <2>6. s \in Seq(ArticleStatuses)
    BY <2>5 DEF FileInfo
  <2> HIDE DEF f
  <2>7. DOMAIN s = 1 .. NumArticles[f]
    <3>1. Len(s) = NumArticles[f]
      BY <2>4
    <3> HIDE DEF s
    <3> QED BY <2>6, <3>1
  <2>8. NoneLeft(q, f) => ~HasArticles(f)
    BY <2>7 DEF NoneLeft, HasArticles
  <2>9. ActiveOn(f) = ActiveIn(dl, f)
    BY DEF ActiveOn, ActiveIn
  <2> QED BY <2>2, <2>8, <2>9 DEF f
<1> QED BY <1>1, QueueInvKept, PTL

-----------------------------------------------------------------------------
(* No group stays in the queue without files. *)

Occupied(Q) ==
    \A n \in Nzbs : InQueue(Q, n) /\ ~Q.nzb[n].postInfo => FilesOf(Q, n) # {}

\* The files of an nzb-file that was not added yet are still its own.
Untouched(A) == \A f \in Files : HomeOf[f] \notin A => q.file[f].nzb = HomeOf[f]

OccupiedInv == QueueInv /\ Occupied(q) /\ Untouched(added)

(***************************************************************************)
(* What the helpers do as far as the members of groups are concerned: they *)
(* take files only from groups in the queue, and the last file of a group  *)
(* only with the group, or when it goes to post-processing.                *)
(***************************************************************************)
Retains(Q, R) ==
    /\ \A n : InQueue(R, n) => InQueue(Q, n)
    /\ \A n \in Nzbs : InQueue(R, n) /\ ~R.nzb[n].postInfo =>
          ~Q.nzb[n].postInfo /\ (FilesOf(Q, n) # {} => FilesOf(R, n) # {})
    /\ \A f \in Files : R.file[f].nzb # Q.file[f].nzb =>
          InQueue(Q, Q.file[f].nzb) /\ R.file[f].nzb = NoNzb

\* A group is no longer there to be filled.
Gone(Q, n) == ~InQueue(Q, n) \/ Q.nzb[n].postInfo

(***************************************************************************)
(* Two helpers called one after the other.                                 *)
(***************************************************************************)
LEMMA RetainsTransitive ==
    ASSUME NEW Q, NEW R, NEW S, Retains(Q, R), Retains(R, S)
    PROVE  Retains(Q, S)
<1>1. \A n : InQueue(S, n) => InQueue(Q, n)
  BY DEF Retains
<1>2. ASSUME NEW n \in Nzbs, InQueue(S, n), ~S.nzb[n].postInfo
      PROVE  ~Q.nzb[n].postInfo /\ (FilesOf(Q, n) # {} => FilesOf(S, n) # {})
  <2>1. InQueue(R, n) /\ ~R.nzb[n].postInfo /\ (FilesOf(R, n) # {} => FilesOf(S, n) # {})
    BY <1>2 DEF Retains
  <2> QED BY <2>1 DEF Retains
<1>3. ASSUME NEW f \in Files, S.file[f].nzb # Q.file[f].nzb
      PROVE  InQueue(Q, Q.file[f].nzb) /\ S.file[f].nzb = NoNzb
  <2>1. CASE R.file[f].nzb = Q.file[f].nzb
    BY <1>3, <2>1 DEF Retains
  <2>2. CASE R.file[f].nzb # Q.file[f].nzb
    BY <1>3, <2>2 DEF Retains
  <2> QED BY <2>1, <2>2
<1> QED BY <1>1, <1>2, <1>3 DEF Retains

(***************************************************************************)
(* A helper that moves nothing.                                            *)
(***************************************************************************)
LEMMA SameRetains ==
    ASSUME NEW Q, NEW R, R.queue = Q.queue,
           \A n \in Nzbs : R.nzb[n].postInfo = Q.nzb[n].postInfo,
           \A f \in Files : R.file[f].nzb = Q.file[f].nzb
    PROVE  Retains(Q, R)
<1>1. \A n : InQueue(R, n) <=> InQueue(Q, n)
  BY DEF InQueue
<1>2. \A n : FilesOf(R, n) = FilesOf(Q, n)
  BY DEF FilesOf
<1> QED BY <1>1, <1>2 DEF Retains

(***************************************************************************)
(* A group without work is counted as such through the helpers.            *)
(***************************************************************************)
Rests(Q, n, D) == Unworked(Q, n, D) => Q.nzb[n].activeDownloads = 0

\* A helper keeps a group at rest.
LEMMA RestsFollows ==
    ASSUME NEW Q, NEW R, NEW D, NEW n \in Nzbs, Follows(Q, R, D), Rests(Q, n, D)
    PROVE  Rests(R, n, D)
<1>1. Unworked(R, n, D) => Unworked(Q, n, D)
  BY DEF Follows, Unworked, FilesOf
<1>2. R.nzb[n].activeDownloads = Q.nzb[n].activeDownloads
  BY DEF Follows
<1> QED BY <1>1, <1>2 DEF Rests

(***************************************************************************)
(* The groups in the queue count their downloaders.                        *)
(***************************************************************************)
LEMMA GroupsRest ==
    ASSUME NEW Q, NEW D, NEW A, Core(Q, D, A), NEW n \in Nzbs, InQueue(Q, n)
    PROVE  Rests(Q, n, D)
<1> SUFFICES ASSUME Unworked(Q, n, D) PROVE Q.nzb[n].activeDownloads = 0
  BY DEF Rests
<1>1. Q.nzb[n].activeDownloads = Cardinality(ActiveOf(Q, D, n))
  BY DEF Core, GroupsCounted
<1>2. ASSUME NEW d \in Downloaders, D[d].file # NoFile, Q.file[D[d].file].nzb = n PROVE FALSE
  <2>1. D[d].file \in Files
    BY <1>2 DEF Core, Work
  <2>2. D[d].file \in FilesOf(Q, n) /\ d \in ActiveIn(D, D[d].file)
    BY <1>2, <2>1 DEF FilesOf, ActiveIn
  <2> QED BY <2>2 DEF Unworked
<1>3. ActiveOf(Q, D, n) = {}
  BY <1>2 DEF ActiveOf
<1> QED BY <1>1, <1>3, FS_EmptySet

(***************************************************************************)
(* Helpers that book, pause or mark.                                       *)
(***************************************************************************)
LEMMA SetPausedRetains ==
    ASSUME NEW Q \in DownloadQueue, NEW n \in Nzbs, NEW files, NEW paused
    PROVE  Retains(Q, SetPaused(Q, n, files, paused))
<1> DEFINE R == SetPaused(Q, n, files, paused)
<1>1. /\ Q.nzb \in [Nzbs -> NzbInfo] /\ Q.file \in [Files -> FileInfo]
  BY PartsOfQueue
<1>2. R.queue = Q.queue
  BY DEF SetPaused, DownloadQueue
<1>3. \A m \in Nzbs : R.nzb[m].postInfo = Q.nzb[m].postInfo
  BY <1>1 DEF SetPaused, DownloadQueue, NzbInfo
<1>4. \A f \in Files : R.file[f].nzb = Q.file[f].nzb
  BY <1>1 DEF SetPaused, DownloadQueue, FileInfo
<1> HIDE DEF R
<1>5. Retains(Q, R)
  BY <1>2, <1>3, <1>4, SameRetains
<1> QED BY <1>5 DEF R

\* Raising a file to the extra priority moves nothing.
LEMMA SetExtraPriorityRetains ==
    ASSUME NEW Q \in DownloadQueue, NEW f \in Files, Q.file[f].nzb \in Nzbs
    PROVE  Retains(Q, SetExtraPriority(Q, f))
<1> DEFINE R == SetExtraPriority(Q, f)
<1>1. /\ Q.nzb \in [Nzbs -> NzbInfo] /\ Q.file \in [Files -> FileInfo]
  BY PartsOfQueue
<1>2. R.queue = Q.queue
  BY DEF SetExtraPriority, DownloadQueue
<1>3. \A m \in Nzbs : R.nzb[m].postInfo = Q.nzb[m].postInfo
  <2> DEFINE n == Q.file[f].nzb
             r == [Q.nzb[n] EXCEPT !.extraPriority = Q.nzb[n].extraPriority + 1]
  <2>1. \/ R.nzb = Q.nzb
        \/ R.nzb = [Q.nzb EXCEPT ![n] = r]
    BY DEF SetExtraPriority, DownloadQueue
  <2>2. r.postInfo = Q.nzb[n].postInfo
    BY <1>1 DEF NzbInfo
  <2> HIDE DEF r, n, R
  <2> QED BY <1>1, <2>1, <2>2
<1>4. \A g \in Files : R.file[g].nzb = Q.file[g].nzb
  BY <1>1 DEF SetExtraPriority, DownloadQueue, FileInfo
<1> HIDE DEF R
<1>5. Retains(Q, R)
  BY <1>2, <1>3, <1>4, SameRetains
<1> QED BY <1>5 DEF R

\* Changing a group but not its post-processing moves nothing.
LEMMA WithNzbRetains ==
    ASSUME NEW Q \in DownloadQueue, NEW n \in Nzbs, NEW r \in NzbInfo,
           r.postInfo = Q.nzb[n].postInfo
    PROVE  Retains(Q, WithNzb(Q, n, r))
<1> DEFINE R == WithNzb(Q, n, r)
<1>1. /\ R.queue = Q.queue /\ R.file = Q.file
      /\ \A m \in Nzbs : R.nzb[m] = IF m = n THEN r ELSE Q.nzb[m]
  BY WithNzbIs
<1> HIDE DEF R
<1>2. Retains(Q, R)
  BY <1>1, SameRetains
<1> QED BY <1>2 DEF R

\* Booking files moves nothing.
LEMMA StatsRetain ==
    ASSUME NEW Q \in DownloadQueue, NEW n \in Nzbs, NEW files
    PROVE  /\ Retains(Q, UpdateCompletedStats(Q, n, files))
           /\ Retains(Q, UpdateDeletedStats(Q, n, files))
<1> DEFINE R == UpdateCompletedStats(Q, n, files)
           S == UpdateDeletedStats(Q, n, files)
<1>1. Q.nzb \in [Nzbs -> NzbInfo]
  BY PartsOfQueue
<1>2. R.queue = Q.queue /\ S.queue = Q.queue /\ R.file = Q.file /\ S.file = Q.file
  BY DEF UpdateCompletedStats, UpdateDeletedStats, DownloadQueue
<1>3. \A m \in Nzbs : R.nzb[m].postInfo = Q.nzb[m].postInfo
  BY <1>1 DEF UpdateCompletedStats, DownloadQueue, NzbInfo
<1>4. \A m \in Nzbs : S.nzb[m].postInfo = Q.nzb[m].postInfo
  BY <1>1 DEF UpdateDeletedStats, DownloadQueue, NzbInfo
<1> HIDE DEF R, S
<1>5. Retains(Q, R) /\ Retains(Q, S)
  BY <1>2, <1>3, <1>4, SameRetains
<1> QED BY <1>5 DEF R, S

(***************************************************************************)
(* A group leaves the queue with its files.                                *)
(***************************************************************************)
LEMMA NzbCompletedRetains ==
    ASSUME NEW Q \in DownloadQueue, NEW n \in Nzbs, InQueue(Q, n)
    PROVE  Retains(Q, NzbCompleted(Q, n)) /\ Gone(NzbCompleted(Q, n), n)
<1> DEFINE files == FilesOf(Q, n)
           add == KeepHistory /\ ~Q.nzb[n].avoidHistory
           P == IF add THEN UpdateCompletedStats(Q, n, files) ELSE Q
           p == P.nzb[n]
           completedFiles == IF DiscardsList(p) THEN {} ELSE p.completedFiles \cup files
           r == [p EXCEPT !.completedFiles = completedFiles,
                          !.remainingParCount = 0, !.parking = FALSE, !.avoidHistory = FALSE]
           F == [f \in Files |-> IF f \in files THEN [P.file[f] EXCEPT !.nzb = NoNzb]
                                                ELSE P.file[f]]
           history == IF add THEN P.history \cup {n} ELSE P.history
           R == NzbCompleted(Q, n)
<1>1. files \in SUBSET Files
  BY DEF FilesOf
<1>2. P \in DownloadQueue
  <2>1. Follows(Q, P, dl)
    <3> HIDE DEF files
    <3> QED BY <1>1, StatsFollow, FollowsItself
  <2> QED BY <2>1 DEF Follows
<1>3. /\ P.queue = Q.queue
      /\ \A m \in Nzbs : P.nzb[m].postInfo = Q.nzb[m].postInfo
      /\ P.file = Q.file
  <2>1. Q.nzb \in [Nzbs -> NzbInfo]
    BY PartsOfQueue
  <2>2. LET S == UpdateCompletedStats(Q, n, files)
        IN  /\ S.queue = Q.queue /\ S.file = Q.file
            /\ \A m \in Nzbs : S.nzb[m].postInfo = Q.nzb[m].postInfo
    BY <2>1 DEF UpdateCompletedStats, DownloadQueue, NzbInfo
  <2> QED BY <2>2
<1> HIDE DEF P
<1>4. R = WithoutGroup(P, n, r, F, history)
  BY DEF NzbCompleted, WithoutGroup, P
<1> HIDE DEF r, F, R
<1>5. /\ R.queue = Without(P.queue, n) /\ R.file = F
      /\ \A m \in Nzbs \ {n} : R.nzb[m] = P.nzb[m]
  <2>1. P.nzb \in [Nzbs -> NzbInfo]
    BY <1>2, PartsOfQueue
  <2> QED BY <1>2, <1>4, <2>1 DEF WithoutGroup, DownloadQueue
<1>6. \A f \in Files : F[f].nzb = IF Q.file[f].nzb = n THEN NoNzb ELSE Q.file[f].nzb
  <2> TAKE f \in Files
  <2>1. Q.file[f] \in FileInfo
    BY PartsOfQueue
  <2> QED BY <1>3, <2>1 DEF F, FilesOf, FileInfo
<1>7. \A m : InQueue(R, m) <=> InQueue(Q, m) /\ m # n
  <2>1. Q.queue \in Seq(Nzbs)
    BY PartsOfQueue
  <2>2. ToSet(Without(Q.queue, n)) = ToSet(Q.queue) \ {n}
    BY <2>1, WithoutIs
  <2>3. ToSet(R.queue) = ToSet(Q.queue) \ {n} /\ R.queue \in Seq(Nzbs)
    BY <1>3, <1>5, <2>1, <2>2, WithoutIs
  <2>4. \A m : InQueue(R, m) <=> m \in ToSet(R.queue)
    BY <2>3 DEF InQueue, Contains, ToSet
  <2>5. \A m : InQueue(Q, m) <=> m \in ToSet(Q.queue)
    BY <2>1 DEF InQueue, Contains, ToSet
  <2> QED BY <2>3, <2>4, <2>5
<1>8. ASSUME NEW m \in Nzbs, m # n
      PROVE  R.nzb[m].postInfo = Q.nzb[m].postInfo /\ FilesOf(R, m) = FilesOf(Q, m)
  <2>1. FilesOf(R, m) = FilesOf(Q, m)
    BY <1>5, <1>6, <1>8, QueueAssumption DEF FilesOf
  <2> QED BY <1>3, <1>5, <1>8, <2>1
<1>9. Retains(Q, R) /\ Gone(R, n)
  BY <1>5, <1>6, <1>7, <1>8 DEF Retains, Gone
<1> QED BY <1>9 DEF R

(***************************************************************************)
(* A downloaded group goes to post-processing.                             *)
(***************************************************************************)
LEMMA NzbDownloadedRetains ==
    ASSUME NEW Q \in DownloadQueue, NEW n \in Nzbs, InQueue(Q, n)
    PROVE  Retains(Q, NzbDownloaded(Q, n)) /\ Gone(NzbDownloaded(Q, n), n)
<1> DEFINE R == [Q EXCEPT !.nzb[n].postInfo = TRUE]
<1>1. Q.nzb \in [Nzbs -> NzbInfo]
  BY PartsOfQueue
<1>2. R.queue = Q.queue /\ R.file = Q.file
  BY DEF DownloadQueue
<1>3. \A m \in Nzbs : R.nzb[m].postInfo = (m = n \/ Q.nzb[m].postInfo)
  <2> DEFINE r == [Q.nzb[n] EXCEPT !.postInfo = TRUE]
  <2>1. r.postInfo = TRUE /\ \A m \in Nzbs : Q.nzb[m].postInfo \in BOOLEAN
    BY <1>1 DEF NzbInfo
  <2>2. R.nzb = [Q.nzb EXCEPT ![n] = r]
    BY DEF DownloadQueue
  <2> HIDE DEF r, R
  <2> QED BY <1>1, <2>1, <2>2
<1> HIDE DEF R
<1>4. (\A m : InQueue(R, m) <=> InQueue(Q, m)) /\ \A m : FilesOf(R, m) = FilesOf(Q, m)
  BY <1>2 DEF InQueue, FilesOf
<1>5. Retains(Q, R) /\ Gone(R, n)
  BY <1>2, <1>3, <1>4 DEF Retains, Gone
<1>6. NzbDownloaded(Q, n) = NzbCompleted(Q, n) \/ NzbDownloaded(Q, n) = R
  BY DEF NzbDownloaded, R
<1> QED BY <1>5, <1>6, NzbCompletedRetains

(***************************************************************************)
(* A deleted group leaves the queue or goes to post-processing.            *)
(***************************************************************************)
LEMMA NzbDeletedRetains ==
    ASSUME NEW Q \in DownloadQueue, NEW n \in Nzbs, InQueue(Q, n)
    PROVE  Retains(Q, NzbDeleted(Q, n)) /\ Gone(NzbDeleted(Q, n), n)
<1> DEFINE status == IF Q.nzb[n].deleteStatus = "none" THEN "manual"
                     ELSE Q.nzb[n].deleteStatus
           r == [Q.nzb[n] EXCEPT !.deleteStatus = status, !.deleting = FALSE]
           marked == [Q EXCEPT !.nzb[n].deleteStatus = status, !.nzb[n].deleting = FALSE]
<1>1. Q.nzb[n] \in NzbInfo /\ status \in {"none", "manual", "dupe", "health"}
  BY PartsOfQueue DEF NzbInfo
<1>2. \/ NzbDeleted(Q, n) = NzbDownloaded(marked, n)
      \/ NzbDeleted(Q, n) = NzbCompleted(marked, n)
  BY DEF NzbDeleted
<1> HIDE DEF status
<1>3. r \in NzbInfo /\ r.postInfo = Q.nzb[n].postInfo
  BY <1>1 DEF NzbInfo
<1>4. marked = WithNzb(Q, n, r)
  BY <1>1 DEF WithNzb, DownloadQueue, NzbInfo
<1> HIDE DEF r, marked
<1>5. marked \in DownloadQueue /\ Retains(Q, marked) /\ InQueue(marked, n)
  BY <1>3, <1>4, WithNzbIs, WithNzbRetains DEF InQueue
<1> QED BY <1>2, <1>5, NzbDownloadedRetains, NzbCompletedRetains, RetainsTransitive

\* Doing nothing moves nothing.
LEMMA RetainsItself == ASSUME NEW Q PROVE Retains(Q, Q)
BY DEF Retains

(***************************************************************************)
(* The event of a file that left a group leads to the end of the group if  *)
(* it was the last one.                                                    *)
(***************************************************************************)
LEMMA FileEventRetains ==
    ASSUME NEW Q \in DownloadQueue, NEW n \in Nzbs, InQueue(Q, n), NEW dupe, NEW completed
    PROVE  /\ Retains(Q, FileEvent(Q, n, dupe, completed))
           /\ FilesOf(Q, n) = {} /\ Q.nzb[n].activeDownloads = 0
              => Gone(FileEvent(Q, n, dupe, completed), n)
<1> DEFINE R == FileEvent(Q, n, dupe, completed)
<1>1. CASE R = NzbDownloaded(Q, n) \/ R = NzbDeleted(Q, n)
  BY <1>1, NzbDownloadedRetains, NzbDeletedRetains
<1>2. CASE ~(R = NzbDownloaded(Q, n) \/ R = NzbDeleted(Q, n))
  <2>1. /\ R = Q
        /\ FilesOf(Q, n) = {} /\ Q.nzb[n].activeDownloads = 0 => Q.nzb[n].postInfo
    BY <1>2 DEF FileEvent, IsDownloadCompleted
  <2> HIDE DEF R
  <2>2. Retains(Q, R)
    BY <2>1, RetainsItself
  <2> QED BY <2>1, <2>2 DEF Gone, R
<1> QED BY <1>1, <1>2

\* The files have left the group, and nobody was told yet.
FilesGone(Q, n, files, completed) ==
    LET booked == IF completed \/ Q.nzb[n].deleting
                  THEN UpdateCompletedStats(Q, n, files)
                  ELSE UpdateDeletedStats(Q, n, files)
    IN  [booked EXCEPT
            !.file = [f \in Files |-> IF f \in files
                                      THEN [@[f] EXCEPT !.deleted = TRUE, !.nzb = NoNzb]
                                      ELSE @[f]],
            !.nzb[n].completedFiles =
                IF completed \/ Q.nzb[n].parking THEN @ \cup files ELSE @]

\* Which files and groups the removal of files changes.
LEMMA FilesGoneIs ==
    ASSUME NEW Q \in DownloadQueue, NEW n \in Nzbs,
           NEW files \in SUBSET Files, NEW completed
    PROVE  /\ FilesGone(Q, n, files, completed) \in DownloadQueue
           /\ FilesGone(Q, n, files, completed).queue = Q.queue
           /\ FilesGone(Q, n, files, completed).nzb[n].activeDownloads
                = Q.nzb[n].activeDownloads
           /\ \A m \in Nzbs :
                 FilesGone(Q, n, files, completed).nzb[m].postInfo = Q.nzb[m].postInfo
           /\ \A f \in Files : FilesGone(Q, n, files, completed).file[f].nzb
                                 = IF f \in files THEN NoNzb ELSE Q.file[f].nzb
<1> DEFINE B == IF completed \/ Q.nzb[n].deleting
                THEN UpdateCompletedStats(Q, n, files)
                ELSE UpdateDeletedStats(Q, n, files)
           completedFiles == IF completed \/ Q.nzb[n].parking
                             THEN B.nzb[n].completedFiles \cup files
                             ELSE B.nzb[n].completedFiles
           F == [f \in Files |->
                    IF f \in files THEN [B.file[f] EXCEPT !.deleted = TRUE, !.nzb = NoNzb]
                    ELSE B.file[f]]
           r == [B.nzb[n] EXCEPT !.completedFiles = completedFiles]
           R == [B EXCEPT !.file = F, !.nzb[n].completedFiles = completedFiles]
           X == FilesGone(Q, n, files, completed)
<1>1. X = R
  BY DEF FilesGone
<1>2. Follows(Q, B, dl)
  BY StatsFollow
<1>3. /\ B.queue = Q.queue /\ B.file = Q.file
      /\ \A m \in Nzbs : B.nzb[m].postInfo = Q.nzb[m].postInfo
  <2>1. Q.nzb \in [Nzbs -> NzbInfo]
    BY PartsOfQueue
  <2>2. LET S == UpdateCompletedStats(Q, n, files)
        IN  /\ S.queue = Q.queue /\ S.file = Q.file
            /\ \A m \in Nzbs : S.nzb[m].postInfo = Q.nzb[m].postInfo
    BY <2>1 DEF UpdateCompletedStats, DownloadQueue, NzbInfo
  <2>3. LET S == UpdateDeletedStats(Q, n, files)
        IN  /\ S.queue = Q.queue /\ S.file = Q.file
            /\ \A m \in Nzbs : S.nzb[m].postInfo = Q.nzb[m].postInfo
    BY <2>1 DEF UpdateDeletedStats, DownloadQueue, NzbInfo
  <2> QED BY <2>2, <2>3
<1> HIDE DEF B
<1>4. B \in DownloadQueue /\ B.nzb[n].activeDownloads = Q.nzb[n].activeDownloads
  BY <1>2 DEF Follows
<1>5. B.nzb[n] \in NzbInfo /\ \A f \in Files : B.file[f] \in FileInfo
  BY <1>4, PartsOfQueue
<1>6. completedFiles \in SUBSET Files
  <2>1. B.nzb[n].completedFiles \in SUBSET Files
    BY <1>5 DEF NzbInfo
  <2> QED BY <2>1
<1> HIDE DEF completedFiles
<1>7. r \in NzbInfo /\ r.activeDownloads = B.nzb[n].activeDownloads
      /\ r.postInfo = B.nzb[n].postInfo
  BY <1>5, <1>6 DEF NzbInfo
<1>8. ASSUME NEW f \in Files
      PROVE  F[f] \in FileInfo /\ F[f].nzb = IF f \in files THEN NoNzb ELSE B.file[f].nzb
  <2> DEFINE b == [B.file[f] EXCEPT !.deleted = TRUE, !.nzb = NoNzb]
  <2>1. b \in FileInfo /\ b.nzb = NoNzb
    BY <1>5 DEF FileInfo
  <2>2. F[f] = IF f \in files THEN b ELSE B.file[f]
    OBVIOUS
  <2> HIDE DEF F, b
  <2> QED BY <1>5, <2>1, <2>2
<1>9. F \in [Files -> FileInfo]
  <2>1. F = [f \in Files |-> F[f]]
    OBVIOUS
  <2> HIDE DEF F
  <2> QED BY <1>8, <2>1
<1> HIDE DEF F
<1>10. R = With(B, n, r, F)
  BY <1>4, <1>5 DEF With, DownloadQueue, NzbInfo
<1> HIDE DEF r, R, X
<1>11. /\ R \in DownloadQueue /\ R.queue = B.queue /\ R.file = F
       /\ \A m \in Nzbs : R.nzb[m] = IF m = n THEN r ELSE B.nzb[m]
  BY <1>4, <1>7, <1>9, <1>10, WithIs
<1>12. /\ X \in DownloadQueue /\ X.queue = Q.queue
       /\ X.nzb[n].activeDownloads = Q.nzb[n].activeDownloads
       /\ \A m \in Nzbs : X.nzb[m].postInfo = Q.nzb[m].postInfo
       /\ \A f \in Files : X.file[f].nzb = IF f \in files THEN NoNzb ELSE Q.file[f].nzb
  BY <1>1, <1>3, <1>4, <1>7, <1>8, <1>11
<1> QED BY <1>12 DEF X

(***************************************************************************)
(* Files may be removed if the counter of the group is 0 when they are its *)
(* last ones.                                                              *)
(***************************************************************************)
LEMMA DeleteFileInfoRetains ==
    ASSUME NEW Q \in DownloadQueue, NEW n \in Nzbs, InQueue(Q, n),
           NEW files \in SUBSET FilesOf(Q, n), NEW completed,
           FilesOf(Q, n) = files => Q.nzb[n].activeDownloads = 0
    PROVE  Retains(Q, DeleteFileInfo(Q, n, files, completed))
<1> DEFINE R == FilesGone(Q, n, files, completed)
           X == DeleteFileInfo(Q, n, files, completed)
<1>1. CASE files = {}
  BY <1>1, RetainsItself DEF DeleteFileInfo
<1>2. CASE files # {}
  <2>1. PICK dupe, last : X = FileEvent(R, n, dupe, last)
    BY <1>2 DEF DeleteFileInfo, FilesGone
  <2>2. files \in SUBSET Files
    BY DEF FilesOf
  <2> HIDE DEF X
  <2>e. FilesGone(Q, n, files, completed) \in DownloadQueue
    BY <2>2, FilesGoneIs
  <2>f. FilesGone(Q, n, files, completed).queue = Q.queue
    BY <2>2, FilesGoneIs
  <2>a. R \in DownloadQueue /\ R.queue = Q.queue
    BY <2>e, <2>f
  <2>b. R.nzb[n].activeDownloads = Q.nzb[n].activeDownloads
    BY <2>2, FilesGoneIs
  <2>c. \A m \in Nzbs : R.nzb[m].postInfo = Q.nzb[m].postInfo
    BY <2>2, FilesGoneIs
  <2>d. \A f \in Files : R.file[f].nzb = IF f \in files THEN NoNzb ELSE Q.file[f].nzb
    BY <2>2, FilesGoneIs
  <2>3. /\ R \in DownloadQueue /\ R.queue = Q.queue
        /\ R.nzb[n].activeDownloads = Q.nzb[n].activeDownloads
        /\ \A m \in Nzbs : R.nzb[m].postInfo = Q.nzb[m].postInfo
        /\ \A f \in Files : R.file[f].nzb = IF f \in files THEN NoNzb ELSE Q.file[f].nzb
    BY <2>a, <2>b, <2>c, <2>d
  <2> HIDE DEF R, X
  <2>4. \A m : InQueue(R, m) <=> InQueue(Q, m)
    BY <2>3 DEF InQueue
  <2>5. /\ Retains(R, X)
        /\ FilesOf(R, n) = {} /\ R.nzb[n].activeDownloads = 0 => Gone(X, n)
    BY <2>1, <2>3, <2>4, FileEventRetains
  <2>6. \A m \in Nzbs : m # n => FilesOf(R, m) = FilesOf(Q, m)
    BY <2>3, QueueAssumption DEF FilesOf
  <2>7. FilesOf(R, n) = {} => FilesOf(Q, n) = files
    BY <2>3 DEF FilesOf
  <2>8. ASSUME NEW m \in Nzbs, InQueue(X, m), ~X.nzb[m].postInfo
        PROVE  ~Q.nzb[m].postInfo /\ (FilesOf(Q, m) # {} => FilesOf(X, m) # {})
    <3>1. ~R.nzb[m].postInfo /\ (FilesOf(R, m) # {} => FilesOf(X, m) # {})
      BY <2>5, <2>8 DEF Retains
    <3>2. CASE m = n
      BY <2>3, <2>5, <2>7, <2>8, <3>1, <3>2 DEF Gone
    <3>3. CASE m # n
      BY <2>3, <2>6, <3>1, <3>3
    <3> QED BY <3>2, <3>3
  <2>9. ASSUME NEW f \in Files, X.file[f].nzb # Q.file[f].nzb
        PROVE  InQueue(Q, Q.file[f].nzb) /\ X.file[f].nzb = NoNzb
    <3>1. X.file[f].nzb # R.file[f].nzb =>
             InQueue(R, R.file[f].nzb) /\ X.file[f].nzb = NoNzb
      BY <2>5 DEF Retains
    <3>2. CASE f \in files
      <4>1. Q.file[f].nzb = n /\ R.file[f].nzb = NoNzb
        BY <2>3, <3>2 DEF FilesOf
      <4> QED BY <3>1, <4>1
    <3>3. CASE f \notin files
      <4>1. R.file[f].nzb = Q.file[f].nzb
        BY <2>3, <3>3
      <4> QED BY <2>4, <2>9, <3>1, <4>1
    <3> QED BY <3>2, <3>3
  <2>10. \A m : InQueue(X, m) => InQueue(Q, m)
    BY <2>4, <2>5 DEF Retains
  <2>11. Retains(Q, X)
    BY <2>8, <2>9, <2>10 DEF Retains
  <2> QED BY <2>11 DEF X
<1> QED BY <1>1, <1>2

(***************************************************************************)
(* DeleteQueueEntry removes the files on which nobody works.               *)
(***************************************************************************)
LEMMA DeleteQueueEntriesRetains ==
    ASSUME NEW Q \in DownloadQueue, NEW n \in Nzbs, InQueue(Q, n), Rests(Q, n, dl),
           NEW files \in SUBSET FilesOf(Q, n)
    PROVE  Retains(Q, DeleteQueueEntries(Q, n, files))
<1> DEFINE F == [f \in Files |-> IF f \in files THEN [Q.file[f] EXCEPT !.deleted = TRUE]
                                                ELSE Q.file[f]]
           flagged == WithFile(Q, F)
           free == {f \in files : ActiveIn(dl, f) = {}}
           R == DeleteFileInfo(flagged, n, free, FALSE)
<1>1. DeleteQueueEntries(Q, n, files) = R
  BY DEF DeleteQueueEntries, WithFile, ActiveOn, ActiveIn
<1>2. ASSUME NEW f \in Files
      PROVE  F[f] \in FileInfo /\ F[f].nzb = Q.file[f].nzb
  <2> DEFINE b == [Q.file[f] EXCEPT !.deleted = TRUE]
  <2>1. Q.file[f] \in FileInfo
    BY PartsOfQueue
  <2>2. b \in FileInfo /\ b.nzb = Q.file[f].nzb
    BY <2>1 DEF FileInfo
  <2>3. F[f] = IF f \in files THEN b ELSE Q.file[f]
    OBVIOUS
  <2> HIDE DEF F, b
  <2> QED BY <2>1, <2>2, <2>3
<1>3. F \in [Files -> FileInfo]
  <2>1. F = [f \in Files |-> F[f]]
    OBVIOUS
  <2> HIDE DEF F
  <2> QED BY <1>2, <2>1
<1> HIDE DEF F
<1>4. /\ flagged \in DownloadQueue /\ flagged.queue = Q.queue
      /\ flagged.nzb = Q.nzb /\ flagged.file = F
  BY <1>3 DEF WithFile, DownloadQueue
<1> HIDE DEF flagged
<1>5. Retains(Q, flagged) /\ InQueue(flagged, n) /\ FilesOf(flagged, n) = FilesOf(Q, n)
  <2>1. Retains(Q, flagged)
    BY <1>2, <1>4, SameRetains
  <2> QED BY <1>2, <1>4, <2>1 DEF InQueue, FilesOf
<1>6. FilesOf(flagged, n) = free => flagged.nzb[n].activeDownloads = 0
  BY <1>4, <1>5 DEF Rests, Unworked
<1>7. free \in SUBSET FilesOf(flagged, n)
  BY <1>5
<1> HIDE DEF free
<1>8. Retains(flagged, R)
  BY <1>4, <1>5, <1>6, <1>7, DeleteFileInfoRetains
<1> HIDE DEF R
<1> QED BY <1>1, <1>5, <1>8, RetainsTransitive

(***************************************************************************)
(* Deleting or parking a group.                                            *)
(***************************************************************************)
LEMMA DeleteGroupRetains ==
    ASSUME NEW Q \in DownloadQueue, NEW n \in Nzbs, InQueue(Q, n),
           CountsWork(Q, n, dl), Rests(Q, n, dl), NEW kind
    PROVE  Retains(Q, DeleteGroup(Q, n, kind))
<1> DEFINE park == kind = "park" /\ KeepHistory /\ Q.nzb[n].currentSuccess > 0
           final == kind = "final"
           status == IF kind = "dupe" THEN "dupe" ELSE Q.nzb[n].deleteStatus
           r == [Q.nzb[n] EXCEPT !.deleting = TRUE, !.parking = park,
                                 !.avoidHistory = final, !.deleteStatus = status]
           flagged == WithNzb(Q, n, r)
           files == {f \in FilesOf(Q, n) : ~Q.file[f].deleted}
           E == DeleteQueueEntries(flagged, n, files)
<1>1. \/ DeleteGroup(Q, n, kind) = E
      \/ DeleteGroup(Q, n, kind) = NzbDeleted(E, n) /\ InQueue(E, n)
  BY DEF DeleteGroup, WithNzb
<1>2. Q.nzb[n] \in NzbInfo
  BY PartsOfQueue
<1>3. /\ r \in NzbInfo /\ r.activeDownloads = Q.nzb[n].activeDownloads
      /\ r.postInfo = Q.nzb[n].postInfo
  <2>1. park \in BOOLEAN /\ final \in BOOLEAN
    OBVIOUS
  <2>2. status \in {"none", "manual", "dupe", "health"}
    BY <1>2 DEF NzbInfo
  <2> HIDE DEF park, final, status
  <2>3. r \in NzbInfo
    BY <1>2, <2>1, <2>2, Zenon DEF NzbInfo
  <2>4. r.activeDownloads = Q.nzb[n].activeDownloads /\ r.postInfo = Q.nzb[n].postInfo
    BY <1>2 DEF NzbInfo
  <2> QED BY <2>3, <2>4
<1> HIDE DEF r
<1>4. /\ flagged \in DownloadQueue /\ flagged.queue = Q.queue /\ flagged.file = Q.file
      /\ \A m \in Nzbs : flagged.nzb[m] = IF m = n THEN r ELSE Q.nzb[m]
  BY <1>3, WithNzbIs
<1>5. Retains(Q, flagged)
  BY <1>3, WithNzbRetains
<1> HIDE DEF flagged
<1>6. /\ InQueue(flagged, n) /\ FilesOf(flagged, n) = FilesOf(Q, n)
      /\ Rests(flagged, n, dl) /\ CountsWork(flagged, n, dl)
  BY <1>3, <1>4 DEF InQueue, FilesOf, Rests, Unworked, CountsWork
<1>7. Retains(flagged, E) /\ E \in DownloadQueue
  <2>1. files \in SUBSET FilesOf(flagged, n) /\ files \in SUBSET Files
    BY <1>6 DEF FilesOf
  <2> HIDE DEF files
  <2>2. Retains(flagged, E)
    BY <1>4, <1>6, <2>1, DeleteQueueEntriesRetains
  <2>3. Follows(flagged, E, dl)
    BY <1>4, <1>6, <2>1, DeleteQueueEntriesFollows
  <2> QED BY <2>2, <2>3 DEF Follows
<1> HIDE DEF E
<1>8. InQueue(E, n) => Retains(E, NzbDeleted(E, n))
  BY <1>7, NzbDeletedRetains
<1> QED BY <1>1, <1>5, <1>7, <1>8, RetainsTransitive

(***************************************************************************)
(* The health check.                                                       *)
(***************************************************************************)
LEMMA CheckHealthRetains ==
    ASSUME NEW Q \in DownloadQueue, NEW n \in Nzbs, InQueue(Q, n),
           CountsWork(Q, n, dl), Rests(Q, n, dl)
    PROVE  Retains(Q, CheckHealth(Q, n))
<1> DEFINE r == [Q.nzb[n] EXCEPT !.healthPaused = TRUE]
           s == [Q.nzb[n] EXCEPT !.deleteStatus = "health"]
           P == WithNzb(Q, n, r)
           B == WithNzb(Q, n, s)
<1>1. \/ CheckHealth(Q, n) = Q
      \/ CheckHealth(Q, n) = PauseGroup(P, n, TRUE)
      \/ CheckHealth(Q, n) = DeleteGroup(B, n, HealthCheck)
  BY DEF CheckHealth, WithNzb
<1>2. Q.nzb[n] \in NzbInfo
  BY PartsOfQueue
<1>3. r \in NzbInfo /\ r.postInfo = Q.nzb[n].postInfo
  BY <1>2 DEF NzbInfo
<1>4. /\ s \in NzbInfo /\ s.activeDownloads = Q.nzb[n].activeDownloads
      /\ s.postInfo = Q.nzb[n].postInfo
  BY <1>2 DEF NzbInfo
<1> HIDE DEF r, s
<1>5. P \in DownloadQueue /\ Retains(Q, P)
  BY <1>3, WithNzbIs, WithNzbRetains
<1>6. /\ B \in DownloadQueue /\ Retains(Q, B)
      /\ B.queue = Q.queue /\ B.file = Q.file /\ B.nzb[n] = s
  BY <1>4, WithNzbIs, WithNzbRetains
<1> HIDE DEF P, B
<1>7. InQueue(B, n) /\ CountsWork(B, n, dl) /\ Rests(B, n, dl)
  BY <1>4, <1>6 DEF InQueue, CountsWork, Rests, Unworked, FilesOf
<1>8. Retains(P, PauseGroup(P, n, TRUE))
  BY <1>5, SetPausedRetains DEF PauseGroup
<1>9. Retains(B, DeleteGroup(B, n, HealthCheck))
  BY <1>6, <1>7, DeleteGroupRetains
<1>10. Retains(Q, PauseGroup(P, n, TRUE))
  BY <1>5, <1>8, RetainsTransitive
<1>11. Retains(Q, DeleteGroup(B, n, HealthCheck))
  BY <1>6, <1>9, RetainsTransitive
<1> QED BY <1>1, <1>10, <1>11, RetainsItself

\* A downloader of file f has left, and the file is still there.
\* A file and its group without one of their downloaders.
Departed(Q, f) == [Q EXCEPT !.file[f].activeDownloads = @ - 1,
                            !.nzb[Q.file[f].nzb].activeDownloads = @ - 1]

\* A downloader that leaves moves nothing.
LEMMA DepartedIs ==
    ASSUME NEW Q \in DownloadQueue, NEW f \in Files, Q.file[f].nzb \in Nzbs
    PROVE  /\ Departed(Q, f) \in DownloadQueue /\ Retains(Q, Departed(Q, f))
           /\ Departed(Q, f).queue = Q.queue
           /\ \A g \in Files : Departed(Q, f).file[g].nzb = Q.file[g].nzb
           /\ Departed(Q, f).nzb[Q.file[f].nzb].activeDownloads
                = Q.nzb[Q.file[f].nzb].activeDownloads - 1
<1> DEFINE n == Q.file[f].nzb
           b == [Q.file[f] EXCEPT !.activeDownloads = Q.file[f].activeDownloads - 1]
           r == [Q.nzb[n] EXCEPT !.activeDownloads = Q.nzb[n].activeDownloads - 1]
           F == [Q.file EXCEPT ![f] = b]
           N == [Q.nzb EXCEPT ![n] = r]
           R == Departed(Q, f)
<1>1. Q.file \in [Files -> FileInfo] /\ Q.nzb \in [Nzbs -> NzbInfo]
  BY PartsOfQueue
<1>2. R = [Q EXCEPT !.file = F, !.nzb = N]
  <2> DEFINE file == [Q.file EXCEPT ![f].activeDownloads = @ - 1]
             nzb == [Q.nzb EXCEPT ![n].activeDownloads = @ - 1]
  <2>1. F = file
    BY <1>1
  <2>2. nzb = N
    BY <1>1
  <2>3. R = [Q EXCEPT !.file = file, !.nzb = nzb]
    BY DEF DownloadQueue, Departed
  <2> HIDE DEF file, nzb, F, N, R
  <2> QED BY <2>1, <2>2, <2>3
<1>3. b \in FileInfo /\ b.nzb = n
  <2> DEFINE k == Q.file[f].activeDownloads - 1
  <2>1. k \in Int /\ Q.file[f] \in FileInfo
    BY <1>1 DEF FileInfo
  <2> HIDE DEF k
  <2> QED BY <2>1 DEF FileInfo, k
<1>4. /\ r \in NzbInfo /\ r.activeDownloads = Q.nzb[n].activeDownloads - 1
      /\ r.postInfo = Q.nzb[n].postInfo
  <2> DEFINE g == Q.nzb[n]
             k == g.activeDownloads - 1
  <2>1. g \in NzbInfo
    BY <1>1
  <2>2. k \in Int
    <3> HIDE DEF g
    <3> QED BY <2>1 DEF NzbInfo
  <2>3. r = [g EXCEPT !.activeDownloads = k]
    OBVIOUS
  <2> HIDE DEF k, r, g
  <2>4. r \in NzbInfo /\ r.activeDownloads = k /\ r.postInfo = g.postInfo
    BY <2>1, <2>2, <2>3 DEF NzbInfo
  <2> QED BY <2>4 DEF k, g
<1> HIDE DEF b, r, R
<1>5. /\ F \in [Files -> FileInfo] /\ N \in [Nzbs -> NzbInfo]
      /\ \A g \in Files : F[g] = IF g = f THEN b ELSE Q.file[g]
      /\ \A m \in Nzbs : N[m] = IF m = n THEN r ELSE Q.nzb[m]
  BY <1>1, <1>3, <1>4
<1> HIDE DEF F, N
<1>6. R \in DownloadQueue /\ R.queue = Q.queue /\ R.file = F /\ R.nzb = N
  BY <1>2, <1>5 DEF DownloadQueue
<1>7. /\ \A g \in Files : R.file[g].nzb = Q.file[g].nzb
      /\ \A m \in Nzbs : R.nzb[m].postInfo = Q.nzb[m].postInfo
      /\ R.nzb[n].activeDownloads = Q.nzb[n].activeDownloads - 1
  BY <1>3, <1>4, <1>5, <1>6
<1>8. Retains(Q, R)
  BY <1>6, <1>7, SameRetains
<1> QED BY <1>6, <1>7, <1>8 DEF R

(***************************************************************************)
(* The last downloader of a file leaves, and perhaps with the file.        *)
(***************************************************************************)
LEMMA DeleteDownloaderRetains ==
    ASSUME NEW Q, NEW D, NEW A, Core(Q, D, A),
           NEW d \in Downloaders, D[d].pc # "idle",
           NEW completed, completed => ActiveIn(D, D[d].file) = {d}
    PROVE  Retains(Q, DeleteDownloader(Q, D[d].file, completed))
<1> DEFINE f == D[d].file
           n == Q.file[f].nzb
           last == Q.file[f].activeDownloads <= 1
           gone == completed \/ (Q.file[f].deleted /\ last)
           left == Departed(Q, f)
           removed == DeleteFileInfo(left, n, {f}, completed)
<1>1. /\ Q \in DownloadQueue /\ f \in Files /\ n \in Nzbs /\ InQueue(Q, n)
      /\ d \in ActiveIn(D, f)
  <2>1. f \in Files
    BY DEF Core, DownloaderFine
  <2> QED BY <2>1, GroupsOfWork DEF Core, ActiveIn
<1>2. DeleteDownloader(Q, f, completed) = IF gone THEN removed ELSE left
  BY DEF DeleteDownloader, Departed
<1>3. /\ left \in DownloadQueue /\ Retains(Q, left) /\ left.queue = Q.queue
      /\ \A g \in Files : left.file[g].nzb = Q.file[g].nzb
      /\ left.nzb[n].activeDownloads = Q.nzb[n].activeDownloads - 1
  <2> HIDE DEF f
  <2> QED BY <1>1, DepartedIs
<1> HIDE DEF left
<1>4. InQueue(left, n) /\ FilesOf(left, n) = FilesOf(Q, n) /\ f \in FilesOf(left, n)
  BY <1>1, <1>3 DEF InQueue, FilesOf
<1>5. gone => ActiveIn(D, f) = {d}
  <2> SUFFICES ASSUME last PROVE ActiveIn(D, f) = {d}
    OBVIOUS
  <2>1. Cardinality(ActiveIn(D, f)) <= 1 /\ IsFiniteSet(ActiveIn(D, f))
    <3>1. Cardinality(ActiveIn(D, f)) = Q.file[f].activeDownloads
      BY <1>1 DEF Core, FilesCounted
    <3>2. IsFiniteSet(ActiveIn(D, f))
      BY CoordinatorAssumption, FS_Subset DEF ActiveIn
    <3> HIDE DEF f
    <3> QED BY <3>1, <3>2
  <2>2. Cardinality(ActiveIn(D, f)) \in Nat /\ Cardinality(ActiveIn(D, f)) # 0
    <3> HIDE DEF f
    <3> QED BY <1>1, <2>1, FS_CardinalityType, FS_EmptySet
  <2>3. Cardinality(ActiveIn(D, f)) = 1
    <3> HIDE DEF f
    <3> QED BY <2>1, <2>2
  <2>4. PICK x : ActiveIn(D, f) = {x}
    <3> HIDE DEF f
    <3> QED BY <2>1, <2>3, FS_Singleton
  <2> QED BY <1>1, <2>4
<1>6. gone /\ FilesOf(left, n) = {f} => left.nzb[n].activeDownloads = 0
  <2> SUFFICES ASSUME gone, FilesOf(left, n) = {f}
               PROVE  left.nzb[n].activeDownloads = 0
    OBVIOUS
  <2>a. left.nzb[n].activeDownloads = Q.nzb[n].activeDownloads - 1
    BY <1>3
  <2>b. FilesOf(Q, n) = {f}
    <3> HIDE DEF n, f, gone
    <3> QED BY <1>4
  <2>1. Q.nzb[n].activeDownloads = Cardinality(ActiveOf(Q, D, n))
    <3> HIDE DEF n
    <3> QED BY <1>1 DEF Core, GroupsCounted
  <2>2. \A e \in Downloaders :
           D[e].file # NoFile /\ Q.file[D[e].file].nzb = n => D[e].file = f
    <3>1. \A e \in Downloaders : D[e].file # NoFile => D[e].file \in Files
      BY DEF Core, Work
    <3> HIDE DEF n, f, gone
    <3> QED BY <3>1, <2>b DEF FilesOf
  <2>3. ActiveOf(Q, D, n) = ActiveIn(D, f)
    <3> HIDE DEF gone
    <3> QED BY <1>1, <2>2, QueueAssumption DEF ActiveOf, ActiveIn
  <2>4. Cardinality({d}) = 1
    BY FS_Singleton
  <2> HIDE DEF gone, n, f
  <2> QED BY <1>5, <2>1, <2>3, <2>4, <2>a
<1> HIDE DEF gone
<1>7. gone => Retains(left, removed)
  <2> SUFFICES ASSUME gone PROVE Retains(left, removed)
    OBVIOUS
  <2> DEFINE files == {f}
  <2>1. files \in SUBSET FilesOf(left, n)
    BY <1>4
  <2>2. FilesOf(left, n) = files => left.nzb[n].activeDownloads = 0
    BY <1>6
  <2>3. Retains(left, DeleteFileInfo(left, n, files, completed))
    <3> HIDE DEF files, n
    <3> QED BY <1>1, <1>3, <1>4, <2>1, <2>2, DeleteFileInfoRetains
  <2> QED BY <2>3
<1> HIDE DEF removed
<1> QED BY <1>2, <1>3, <1>7, RetainsTransitive


(***************************************************************************)
(* An operation made of helpers keeps the groups occupied.                 *)
(***************************************************************************)
LEMMA RetainsKeeps ==
    ASSUME Sound(q, dl, added), Occupied(q), Untouched(added), Retains(q, q'), added' = added
    PROVE  Occupied(q') /\ Untouched(added)'
<1>1. Core(q, dl, added)
  BY DEF Sound
<1>2. Occupied(q')
  BY DEF Occupied, Retains
<1>3. ASSUME NEW f \in Files, HomeOf[f] \notin added PROVE q'.file[f].nzb = HomeOf[f]
  <2>1. q.file[f].nzb = HomeOf[f]
    BY <1>3 DEF Untouched
  <2>2. HomeOf[f] \in Nzbs
    BY QueueAssumption
  <2>3. ~InQueue(q, HomeOf[f])
    BY <1>1, <1>3, <2>2 DEF Core, GroupsCounted
  <2> QED BY <2>1, <2>3 DEF Retains
<1>4. Untouched(added)'
  BY <1>3 DEF Untouched
<1> QED BY <1>2, <1>4

\* Pausing or resuming a file.
LEMMA PauseUnpauseEntryRetains ==
    ASSUME Sound(q, dl, added), NEW f \in Files, PauseUnpauseEntry(f)
    PROVE  Retains(q, q') /\ added' = added
<1> DEFINE n == q.file[f].nzb
           paused == ~q.file[f].paused
<1>1. q \in DownloadQueue /\ n \in Nzbs
  BY SoundIs DEF PauseUnpauseEntry, Queued
<1>2. q' = SetPaused(q, n, {f}, paused) /\ added' = added
  BY DEF PauseUnpauseEntry, Edit
<1> HIDE DEF n, paused
<1>3. Retains(q, q')
  BY <1>1, <1>2, SetPausedRetains
<1> QED BY <1>2, <1>3

\* Pausing or resuming a group.
LEMMA PauseUnpauseGroupRetains ==
    ASSUME Sound(q, dl, added), NEW n \in Nzbs, PauseUnpauseGroup(n)
    PROVE  Retains(q, q') /\ added' = added
<1>1. q \in DownloadQueue /\ added' = added
  BY SoundIs DEF PauseUnpauseGroup, Edit
<1>2. PICK files \in SUBSET Files, paused \in BOOLEAN :
         q' = SetPaused(q, n, files, paused)
  BY ExtraParsAre DEF PauseUnpauseGroup, PauseGroup, FilesOf
<1>3. Retains(q, q')
  BY <1>1, <1>2, SetPausedRetains
<1> QED BY <1>1, <1>3

\* Resuming the par-files that a repair needs.
LEMMA UnpauseParsRetains ==
    ASSUME Sound(q, dl, added), NEW f \in Files, UnpausePars(f)
    PROVE  Retains(q, q') /\ added' = added
<1> DEFINE n == q.file[f].nzb
           files == {f}
           P == SetPaused(q, n, files, FALSE)
<1>1. q \in DownloadQueue /\ n \in Nzbs /\ files \in SUBSET Files
  BY SoundIs DEF UnpausePars, Queued
<1>2. q' = SetExtraPriority(P, f) /\ added' = added
  BY DEF UnpausePars, Edit
<1>3. Follows(q, P, dl)
  <2> HIDE DEF n, files
  <2> QED BY <1>1, SetPausedFollows
<1>4. P \in DownloadQueue
  BY <1>3 DEF Follows
<1>5. P.file[f].nzb = n
  BY <1>1 DEF SetPaused, DownloadQueue
<1>6. Retains(q, P)
  <2> HIDE DEF n, files
  <2> QED BY <1>1, SetPausedRetains
<1> HIDE DEF P
<1>7. Retains(P, q')
  BY <1>1, <1>2, <1>4, <1>5, SetExtraPriorityRetains
<1>8. Retains(q, q')
  BY <1>6, <1>7, RetainsTransitive
<1> QED BY <1>2, <1>8

\* Deleting a file.
LEMMA DeleteEntryRetains ==
    ASSUME Sound(q, dl, added), NEW f \in Files, DeleteEntry(f)
    PROVE  Retains(q, q') /\ added' = added
<1> DEFINE n == q.file[f].nzb
           files == {f}
<1>1. q \in DownloadQueue /\ n \in Nzbs /\ InQueue(q, n) /\ files \in SUBSET FilesOf(q, n)
  BY SoundIs DEF DeleteEntry, Queued, FilesOf
<1>2. q' = DeleteQueueEntries(q, n, files) /\ added' = added
  BY DEF DeleteEntry, Edit
<1> HIDE DEF n, files
<1>3. Rests(q, n, dl)
  BY <1>1, GroupsRest DEF Sound
<1>4. Retains(q, q')
  BY <1>1, <1>2, <1>3, DeleteQueueEntriesRetains
<1> QED BY <1>2, <1>4

\* Deleting or parking a group.
LEMMA EditGroupDeleteRetains ==
    ASSUME Sound(q, dl, added), NEW n \in Nzbs, EditGroupDelete(n)
    PROVE  Retains(q, q') /\ added' = added
<1>1. q \in DownloadQueue /\ CountsWork(q, n, dl) /\ InQueue(q, n)
  BY SoundIs DEF EditGroupDelete
<1>2. PICK kind : q' = DeleteGroup(q, n, kind) /\ added' = added
  BY DEF EditGroupDelete, Edit
<1>3. Rests(q, n, dl)
  BY <1>1, GroupsRest DEF Sound
<1>4. Retains(q, q')
  BY <1>1, <1>2, <1>3, DeleteGroupRetains
<1> QED BY <1>2, <1>4

\* Changing the priority of a group.
LEMMA SetNzbPriorityRetains ==
    ASSUME Sound(q, dl, added), NEW n \in Nzbs, SetNzbPriority(n)
    PROVE  Retains(q, q') /\ added' = added
<1>1. q \in DownloadQueue /\ added' = added
  BY SoundIs DEF SetNzbPriority, Edit
<1>2. PICK p \in Priorities : q' = [q EXCEPT !.nzb[n].priority = p]
  BY DEF SetNzbPriority
<1> DEFINE r == [q.nzb[n] EXCEPT !.priority = p]
<1>3. q.nzb[n] \in NzbInfo /\ p \in Int
  BY <1>1, PartsOfQueue, CoordinatorAssumption
<1>4. r \in NzbInfo
  BY <1>3, Zenon DEF NzbInfo
<1>5. r.postInfo = q.nzb[n].postInfo
  BY <1>3 DEF NzbInfo
<1>6. q' = WithNzb(q, n, r)
  BY <1>2 DEF WithNzb
<1> HIDE DEF r
<1>7. Retains(q, q')
  BY <1>1, <1>4, <1>5, <1>6, WithNzbRetains
<1> QED BY <1>1, <1>7

\* Moving a group in the list.
LEMMA MoveGroupRetains ==
    ASSUME Sound(q, dl, added), NEW n \in Nzbs, MoveGroup(n)
    PROVE  Retains(q, q') /\ added' = added
<1>1. q \in DownloadQueue /\ added' = added /\ InQueue(q, n)
  BY SoundIs DEF MoveGroup, Edit
<1> DEFINE others == Without(q.queue, n)
<1>2. others \in Seq(Nzbs) /\ ToSet(others) = ToSet(q.queue) \ {n}
  BY <1>1, PartsOfQueue, WithoutIs
<1>3. PICK i \in 1 .. Len(others) + 1 : q' = [q EXCEPT !.queue = InsertAt(others, i, n)]
  BY DEF MoveGroup
<1> HIDE DEF others
<1> DEFINE queue == InsertAt(others, i, n)
<1>4. queue \in Seq(Nzbs) /\ ToSet(queue) = ToSet(others) \cup {n}
  BY <1>2, InsertedIs
<1>5. ToSet(queue) = ToSet(q.queue)
  BY <1>1, <1>2, <1>4, InQueueIs
<1> HIDE DEF queue
<1>6. /\ q' \in DownloadQueue /\ q'.queue = queue
      /\ q'.nzb = q.nzb /\ q'.file = q.file
  BY <1>1, <1>3, <1>4 DEF DownloadQueue, queue
<1>7. \A m : InQueue(q', m) <=> InQueue(q, m)
  BY <1>1, <1>5, <1>6, InQueueIs
<1>8. Retains(q, q')
  BY <1>6, <1>7 DEF Retains, FilesOf
<1> QED BY <1>1, <1>8

\* A new downloader takes an article and moves nothing.
LEMMA StartArticleDownloadRetains ==
    ASSUME Sound(q, dl, added), NEW d \in Downloaders, StartArticleDownload(d)
    PROVE  Retains(q, q') /\ added' = added
<1>1. q \in DownloadQueue /\ added' = added
  BY SoundIs DEF StartArticleDownload
<1>2. PICK f, a : q' = TakeArticle(f, a)
  BY DEF StartArticleDownload
<1>3. q.nzb \in [Nzbs -> NzbInfo] /\ q.file \in [Files -> FileInfo]
  BY <1>1, PartsOfQueue
<1>4. q'.queue = q.queue
  BY <1>1, <1>2 DEF TakeArticle, DownloadQueue
<1> DEFINE m == q.file[f].nzb
           k == q.nzb[m].activeDownloads + 1
           r == [q.nzb[m] EXCEPT !.activeDownloads = k]
           b == [q.file[f] EXCEPT !.article[a] = "running", !.activeDownloads = @ + 1]
<1>5. q'.nzb = [q.nzb EXCEPT ![m] = r] /\ q'.file = [q.file EXCEPT ![f] = b]
  BY <1>1, <1>2 DEF TakeArticle, DownloadQueue
<1>6. m \in Nzbs => r.postInfo = q.nzb[m].postInfo
  BY <1>3 DEF NzbInfo
<1>7. f \in Files => b.nzb = q.file[f].nzb
  BY <1>3 DEF FileInfo
<1> HIDE DEF m, r, b
<1>8. /\ \A n \in Nzbs : q'.nzb[n].postInfo = q.nzb[n].postInfo
      /\ \A g \in Files : q'.file[g].nzb = q.file[g].nzb
  BY <1>3, <1>5, <1>6, <1>7
<1>9. Retains(q, q')
  BY <1>4, <1>8, SameRetains
<1> QED BY <1>1, <1>9


\* Booking an article moves nothing.
LEMMA BookingRetains ==
    ASSUME NEW Q \in DownloadQueue, NEW f \in Files, NEW a, NEW n \in Nzbs, NEW status,
           NEW named, NEW isDupe
    PROVE  Retains(Q, ConfirmFile(BookArticle(Q, f, a, n, status), f, named, isDupe))
<1> DEFINE ok == If(status = "finished")
           bad == If(status = "failed")
           done == ok + bad
           b == [Q.file[f] EXCEPT
                   !.article[a] = IF status = "retry" THEN "undefined" ELSE status,
                   !.success = @ + ok, !.failed = @ + bad,
                   !.remaining = @ - done, !.completedArticles = @ + done]
           r == [Q.nzb[n] EXCEPT
                   !.currentSuccess = @ + ok, !.currentFailed = @ + bad,
                   !.parCurrentFailed = @ + If(f \in ParFiles) * bad,
                   !.remaining = @ - done,
                   !.pausedSize = @ - (IF Q.file[f].paused THEN done ELSE 0)]
           booked == BookArticle(Q, f, a, n, status)
           c == [b EXCEPT !.confirmed = @ \/ named, !.dupeDeleted = @ \/ isDupe,
                          !.deleted = @ \/ isDupe]
           B == ConfirmFile(booked, f, named, isDupe)
<1>1. Q.nzb \in [Nzbs -> NzbInfo] /\ Q.file \in [Files -> FileInfo]
  BY PartsOfQueue
<1>2. b.nzb = Q.file[f].nzb /\ c.nzb = b.nzb
  BY <1>1 DEF FileInfo
<1>3. r.postInfo = Q.nzb[n].postInfo
  BY <1>1 DEF NzbInfo
<1>4. booked = [Q EXCEPT !.file[f] = b, !.nzb[n] = r]
  BY DEF BookArticle
<1>5. B = [booked EXCEPT !.file[f] = [booked.file[f] EXCEPT
              !.confirmed = @ \/ named, !.dupeDeleted = @ \/ isDupe,
              !.deleted = @ \/ isDupe]]
  BY DEF ConfirmFile
<1> HIDE DEF b, r, booked
<1>6. /\ booked.queue = Q.queue /\ booked.file = [Q.file EXCEPT ![f] = b]
      /\ booked.nzb = [Q.nzb EXCEPT ![n] = r]
  BY <1>4 DEF DownloadQueue
<1>7. booked.file[f] = b
  BY <1>1, <1>6
<1> HIDE DEF c
<1>8. B = [booked EXCEPT !.file[f] = c]
  BY <1>5, <1>7 DEF c
<1> HIDE DEF B
<1>9. DOMAIN booked = {"queue", "nzb", "file", "history"}
  BY <1>4 DEF DownloadQueue
<1>10. B.queue = booked.queue /\ B.nzb = booked.nzb /\ B.file = [booked.file EXCEPT ![f] = c]
  BY <1>8, <1>9
<1>11. \A m \in Nzbs : B.nzb[m].postInfo = Q.nzb[m].postInfo
  BY <1>1, <1>3, <1>6, <1>10
<1>12. \A g \in Files : B.file[g].nzb = Q.file[g].nzb
  <2>1. B.file = [[Q.file EXCEPT ![f] = b] EXCEPT ![f] = c]
    BY <1>6, <1>10
  <2>2. \A g \in Files : B.file[g] = IF g = f THEN c ELSE Q.file[g]
    BY <1>1, <2>1
  <2> QED BY <1>2, <2>2
<1>13. B.queue = Q.queue
  BY <1>6, <1>10
<1>14. Retains(Q, B)
  BY <1>11, <1>12, <1>13, SameRetains
<1> QED BY <1>14 DEF B, booked

\* Joining a file ends.
LEMMA FileCompletedRetains ==
    ASSUME Sound(q, dl, added), NEW d \in Downloaders, FileCompleted(d)
    PROVE  Retains(q, q') /\ added' = added
<1>1. Core(q, dl, added) /\ JoinsAlone(q, dl, d)
  BY DEF Sound
<1>2. /\ dl[d].pc = "completing" /\ q' = DeleteDownloader(q, dl[d].file, TRUE)
      /\ added' = added
  BY DEF FileCompleted
<1>3. ActiveIn(dl, dl[d].file) = {d}
  BY <1>1, <1>2 DEF JoinsAlone
<1>4. Retains(q, q')
  BY <1>1, <1>2, <1>3, DeleteDownloaderRetains
<1> QED BY <1>2, <1>4

(***************************************************************************)
(* Booking an article, the health check, and perhaps the removal of the    *)
(* file.                                                                   *)
(***************************************************************************)
LEMMA ArticleCompletedRetains ==
    ASSUME Sound(q, dl, added), NEW d \in Downloaders, ArticleCompleted(d)
    PROVE  Retains(q, q') /\ added' = added
<1> DEFINE f == dl[d].file
           n == dl[d].nzb
           status == dl[d].status
           booked == BookArticle(q, f, dl[d].part, n, status)
           named == status = "finished" /\ ~q.file[f].confirmed
<1>1. /\ Core(q, dl, added) /\ q \in DownloadQueue /\ dl \in [Downloaders -> Work]
      /\ dl[d].pc = "notifying" /\ added' = added
  BY DEF Sound, Core, ArticleCompleted
<1>2. f \in Files /\ n = q.file[f].nzb /\ n \in Nzbs /\ InQueue(q, n)
  <2>1. DownloaderFine(q, dl, d)
    BY <1>1 DEF Core
  <2>2. f \in Files /\ n = q.file[f].nzb /\ InQueue(q, n)
    BY <1>1, <2>1 DEF DownloaderFine
  <2> QED BY <2>2, SoundIs
<1>3. PICK isDupe \in BOOLEAN :
         LET H == CheckHealth(ConfirmFile(booked, f, named, isDupe), booked.file[f].nzb)
         IN  q' = H \/ q' = DeleteDownloader(H, f, FALSE)
  BY DEF ArticleCompleted
<1> DEFINE B == ConfirmFile(booked, f, named, isDupe)
           D == Leaving(dl, d)
           H == CheckHealth(B, n)
<1>4. /\ Core(B, D, added) /\ B.file[f].nzb = n /\ B.queue = q.queue
      /\ booked.file[f].nzb = n
  <2>1. named \in BOOLEAN
    OBVIOUS
  <2> HIDE DEF named
  <2>2. B = ConfirmFile(BookArticle(q, dl[d].file, dl[d].part, dl[d].nzb, dl[d].status),
                        dl[d].file, named, isDupe)
    OBVIOUS
  <2> HIDE DEF B
  <2> QED BY <1>1, <2>1, <2>2, BookingKeeps
<1>5. q' = H \/ q' = DeleteDownloader(H, f, FALSE)
  BY <1>3, <1>4
<1>6. Retains(q, B)
  <2> HIDE DEF named, n, f, status
  <2> QED BY <1>1, <1>2, BookingRetains
<1> HIDE DEF B, D
<1>7. /\ D \in [Downloaders -> Work] /\ D[d].pc = "completing"
      /\ \A e \in Downloaders : D[e].file = dl[e].file
  BY <1>1, LeavingIs DEF D
<1>8. B \in DownloadQueue /\ InQueue(B, n)
  <2>1. B \in DownloadQueue
    BY <1>4 DEF Core
  <2> QED BY <1>2, <1>4, <2>1 DEF InQueue
<1>9. CountsWork(B, n, dl) /\ Rests(B, n, dl)
  <2>1. CountsWork(B, n, D)
    BY <1>2, <1>4, <1>8, GroupsOfWork
  <2>2. Rests(B, n, D)
    <3> HIDE DEF n
    <3> QED BY <1>2, <1>4, <1>8, GroupsRest
  <2>3. Unworked(B, n, D) <=> Unworked(B, n, dl)
    BY <1>7 DEF Unworked, ActiveIn
  <2> QED BY <2>1, <2>2, <2>3 DEF CountsWork, Rests
<1>10. Follows(B, H, D)
  <2>1. Follows(B, H, dl)
    <3> HIDE DEF n
    <3> QED BY <1>2, <1>8, <1>9, CheckHealthFollows
  <2> HIDE DEF H
  <2> QED BY <1>7, <2>1, FollowsSameFiles
<1>11. Retains(B, H)
  <2> HIDE DEF n
  <2> QED BY <1>2, <1>8, <1>9, CheckHealthRetains
<1> HIDE DEF H
<1>12. Core(H, D, added)
  BY <1>4, <1>10, CoreFollows
<1>13. Retains(H, DeleteDownloader(H, f, FALSE))
  <2>1. D[d].pc # "idle" /\ D[d].file = f
    BY <1>7
  <2>2. Retains(H, DeleteDownloader(H, D[d].file, FALSE))
    BY <1>12, <2>1, DeleteDownloaderRetains
  <2> QED BY <2>1, <2>2
<1>14. Retains(q, H)
  BY <1>6, <1>11, RetainsTransitive
<1>15. Retains(q, DeleteDownloader(H, f, FALSE))
  BY <1>13, <1>14, RetainsTransitive
<1>16. Retains(q, q')
  BY <1>5, <1>14, <1>15
<1> QED BY <1>1, <1>16


(***************************************************************************)
(* Files leave only groups that are in the queue, so those of a group that *)
(* was not added yet stay there.                                           *)
(***************************************************************************)
LEMMA UntouchedKeeps ==
    ASSUME Sound(q, dl, added), Untouched(added), added \subseteq added',
           \A f \in Files : q'.file[f].nzb # q.file[f].nzb =>
               InQueue(q, q.file[f].nzb) \/ q.file[f].nzb \in added'
    PROVE  Untouched(added)'
<1> SUFFICES ASSUME NEW f \in Files, HomeOf[f] \notin added' PROVE q'.file[f].nzb = HomeOf[f]
  BY DEF Untouched
<1>1. q.file[f].nzb = HomeOf[f]
  BY DEF Untouched
<1>2. HomeOf[f] \in Nzbs
  BY QueueAssumption
<1>3. ~InQueue(q, HomeOf[f])
  BY <1>2 DEF Sound, Core, GroupsCounted
<1> QED BY <1>1, <1>3

(***************************************************************************)
(* A group whose post-processing ends with nothing left leaves the queue.  *)
(***************************************************************************)
LEMMA JobCompletedOccupied ==
    ASSUME Sound(q, dl, added), Occupied(q), Untouched(added),
           NEW n \in Nzbs, JobCompleted(n)
    PROVE  Occupied(q') /\ Untouched(added)'
<1>1. /\ Core(q, dl, added) /\ q \in DownloadQueue /\ added' = added /\ InQueue(q, n)
  BY DEF Sound, Core, JobCompleted
<1> DEFINE r == [q.nzb[n] EXCEPT !.postInfo = FALSE]
           P == WithNzb(q, n, r)
<1>2. q' = IF IsDownloadCompleted(P, n, TRUE) THEN NzbCompleted(P, n) ELSE P
  BY DEF JobCompleted, WithNzb
<1>3. /\ r \in NzbInfo /\ r.activeDownloads = q.nzb[n].activeDownloads
  <2>1. q.nzb[n] \in NzbInfo
    BY <1>1, PartsOfQueue
  <2> QED BY <2>1 DEF NzbInfo
<1> HIDE DEF r
<1>4. /\ P \in DownloadQueue /\ P.queue = q.queue /\ P.file = q.file
      /\ \A m \in Nzbs : P.nzb[m] = IF m = n THEN r ELSE q.nzb[m]
  BY <1>1, <1>3, WithNzbIs
<1> HIDE DEF P
<1>5. (\A m : InQueue(P, m) <=> InQueue(q, m)) /\ \A m : FilesOf(P, m) = FilesOf(q, m)
  BY <1>4 DEF InQueue, FilesOf
<1>6. CASE IsDownloadCompleted(P, n, TRUE)
  <2>1. Retains(P, q') /\ Gone(q', n)
    BY <1>1, <1>2, <1>4, <1>5, <1>6, NzbCompletedRetains
  <2>2. ASSUME NEW m \in Nzbs, InQueue(q', m), ~q'.nzb[m].postInfo
        PROVE  FilesOf(q', m) # {}
    <3>1. m # n
      BY <2>1, <2>2 DEF Gone
    <3>2. InQueue(q, m) /\ ~q.nzb[m].postInfo /\ (FilesOf(q, m) # {} => FilesOf(q', m) # {})
      BY <1>4, <1>5, <2>1, <2>2, <3>1 DEF Retains
    <3> QED BY <3>2 DEF Occupied
  <2>3. \A f \in Files : q'.file[f].nzb # q.file[f].nzb => InQueue(q, q.file[f].nzb)
    BY <1>4, <1>5, <2>1 DEF Retains
  <2>4. Untouched(added)'
    BY <1>1, <2>3, UntouchedKeeps
  <2> QED BY <2>2, <2>4 DEF Occupied
<1>7. CASE ~IsDownloadCompleted(P, n, TRUE)
  <2>1. q' = P
    BY <1>2, <1>7
  <2>2. FilesOf(q, n) # {}
    <3>1. P.nzb[n].activeDownloads # 0 \/ FilesOf(q, n) # {}
      BY <1>5, <1>7 DEF IsDownloadCompleted
    <3>2. P.nzb[n].activeDownloads = q.nzb[n].activeDownloads
      BY <1>3, <1>4
    <3>3. Rests(q, n, dl)
      BY <1>1, GroupsRest
    <3> QED BY <3>1, <3>2, <3>3 DEF Rests, Unworked
  <2>3. Occupied(q')
    BY <1>4, <1>5, <2>1, <2>2 DEF Occupied
  <2>4. Untouched(added)'
    BY <1>1, <1>4, <2>1, UntouchedKeeps
  <2> QED BY <2>3, <2>4
<1> QED BY <1>6, <1>7

(***************************************************************************)
(* A group is added with its files.                                        *)
(***************************************************************************)
LEMMA AddNzbFileToQueueOccupied ==
    ASSUME Sound(q, dl, added), Occupied(q), Untouched(added),
           NEW n \in Nzbs, AddNzbFileToQueue(n)
    PROVE  Occupied(q') /\ Untouched(added)'
<1>1. /\ q \in DownloadQueue /\ n \notin added /\ added' = added \cup {n}
      /\ \E f \in Files : HomeOf[f] = n
  BY DEF Sound, Core, AddNzbFileToQueue
<1>2. PICK queue \in {<<n>> \o q.queue, q.queue \o <<n>>}, pars \in ExtraPars(q, n) :
         q' = SetPaused([q EXCEPT !.queue = queue], n, pars, TRUE)
  BY DEF AddNzbFileToQueue
<1> DEFINE R == [q EXCEPT !.queue = queue]
<1>3. queue \in Seq(Nzbs) /\ ToSet(queue) = ToSet(q.queue) \cup {n}
  <2> DEFINE s == q.queue
             t == <<n>>
  <2>1. s \in Seq(Nzbs) /\ t \in Seq(Nzbs) /\ ToSet(t) = {n}
    BY <1>1, PartsOfQueue, SingleIs
  <2>2. queue = t \o s \/ queue = s \o t
    BY <1>2
  <2> HIDE DEF s, t
  <2>3. /\ s \o t \in Seq(Nzbs) /\ ToSet(s \o t) = ToSet(s) \cup ToSet(t)
        /\ t \o s \in Seq(Nzbs) /\ ToSet(t \o s) = ToSet(s) \cup ToSet(t)
    BY <2>1, JoinedIs
  <2>4. queue \in Seq(Nzbs) /\ ToSet(queue) = ToSet(s) \cup ToSet(t)
    BY <2>2, <2>3
  <2> QED BY <2>1, <2>4 DEF s
<1>4. R \in DownloadQueue /\ R.queue = queue /\ R.nzb = q.nzb /\ R.file = q.file
  BY <1>1, <1>3 DEF DownloadQueue
<1>5. q' = SetPaused(R, n, pars, TRUE)
  BY <1>2
<1> HIDE DEF R
<1>6. \A m : InQueue(R, m) <=> InQueue(q, m) \/ m = n
  BY <1>1, <1>3, <1>4, InQueueIs
<1>7. Retains(R, q')
  BY <1>4, <1>5, SetPausedRetains
<1>8. \A m : FilesOf(R, m) = FilesOf(q, m)
  BY <1>4 DEF FilesOf
<1>9. FilesOf(q, n) # {}
  <2>1. PICK f \in Files : HomeOf[f] = n
    BY <1>1
  <2>2. q.file[f].nzb = n
    BY <1>1, <2>1 DEF Untouched
  <2> QED BY <2>2 DEF FilesOf
<1>10. ASSUME NEW m \in Nzbs, InQueue(q', m), ~q'.nzb[m].postInfo
       PROVE  FilesOf(q', m) # {}
  <2>1. InQueue(R, m) /\ ~R.nzb[m].postInfo /\ (FilesOf(R, m) # {} => FilesOf(q', m) # {})
    BY <1>7, <1>10 DEF Retains
  <2>2. InQueue(q, m) => FilesOf(q, m) # {}
    BY <1>4, <2>1 DEF Occupied
  <2> QED BY <1>6, <1>8, <1>9, <2>1, <2>2
<1>11. \A f \in Files : q'.file[f].nzb # q.file[f].nzb =>
          InQueue(q, q.file[f].nzb) \/ q.file[f].nzb \in added'
  BY <1>1, <1>4, <1>6, <1>7 DEF Retains
<1>12. Untouched(added)'
  BY <1>1, <1>11, UntouchedKeeps
<1> QED BY <1>10, <1>12 DEF Occupied


(***************************************************************************)
(* The files of a merged group go to the other group.                      *)
(***************************************************************************)
LEMMA MergeQueueEntriesOccupied ==
    ASSUME MergesAreQuiet, Sound(q, dl, added), Occupied(q), Untouched(added),
           NEW dest \in Nzbs, NEW src \in Nzbs, MergeQueueEntries(dest, src)
    PROVE  Occupied(q') /\ Untouched(added)'
<1>1. /\ Core(q, dl, added) /\ q \in DownloadQueue /\ q' \in DownloadQueue
  BY MergeQueueEntriesKeeps DEF Sound, Core
<1>2. /\ dest # src /\ InQueue(q, dest) /\ InQueue(q, src) /\ ~q.nzb[dest].postInfo
      /\ added' = added
  BY DEF MergeQueueEntries, Edit
<1>3. PICK r : q' = [q EXCEPT
              !.file = [f \in Files |-> IF q.file[f].nzb = src
                                        THEN [q.file[f] EXCEPT !.nzb = dest] ELSE q.file[f]],
              !.nzb[dest] = r, !.queue = Without(q.queue, src)]
  BY DEF MergeQueueEntries
<1> DEFINE F == [f \in Files |-> IF q.file[f].nzb = src
                                 THEN [q.file[f] EXCEPT !.nzb = dest] ELSE q.file[f]]
           queue == Without(q.queue, src)
<1>4. /\ q.nzb \in [Nzbs -> NzbInfo] /\ q.file \in [Files -> FileInfo] /\ q.queue \in Seq(Nzbs)
  BY <1>1, PartsOfQueue
<1>5. queue \in Seq(Nzbs) /\ ToSet(queue) = ToSet(q.queue) \ {src}
  BY <1>4, WithoutIs
<1>6. \A f \in Files : F[f].nzb = IF q.file[f].nzb = src THEN dest ELSE q.file[f].nzb
  BY <1>4 DEF FileInfo
<1> HIDE DEF F, queue
<1>7. q' = [q EXCEPT !.file = F, !.nzb[dest] = r, !.queue = queue]
  BY <1>3 DEF F, queue
<1>8. /\ q'.queue = queue /\ q'.file = F
      /\ \A m \in Nzbs : m # dest => q'.nzb[m] = q.nzb[m]
  BY <1>1, <1>4, <1>7 DEF DownloadQueue
<1>9. \A m : InQueue(q', m) <=> InQueue(q, m) /\ m # src
  BY <1>1, <1>5, <1>8, InQueueIs
<1>10. ASSUME NEW m \in Nzbs, InQueue(q', m), ~q'.nzb[m].postInfo
       PROVE  FilesOf(q', m) # {}
  <2>1. InQueue(q, m) /\ m # src /\ ~q.nzb[m].postInfo
    BY <1>2, <1>8, <1>9, <1>10
  <2>2. PICK f \in Files : q.file[f].nzb = m
    BY <2>1 DEF Occupied, FilesOf
  <2>3. q'.file[f].nzb = m
    BY <1>6, <1>8, <2>1, <2>2
  <2> QED BY <2>3 DEF FilesOf
<1>11. \A f \in Files : q'.file[f].nzb # q.file[f].nzb => InQueue(q, q.file[f].nzb)
  BY <1>2, <1>6, <1>8
<1>12. Untouched(added)'
  BY <1>2, <1>11, UntouchedKeeps
<1> QED BY <1>10, <1>12 DEF Occupied

(***************************************************************************)
(* Files that are split off are the files of the new group.                *)
(***************************************************************************)
LEMMA SplitQueueEntriesOccupied ==
    ASSUME Sound(q, dl, added), Occupied(q), Untouched(added),
           NEW src \in Nzbs, SplitQueueEntries(src)
    PROVE  Occupied(q') /\ Untouched(added)'
<1>1. /\ Core(q, dl, added) /\ q \in DownloadQueue /\ q' \in DownloadQueue
  BY SplitQueueEntriesKeeps DEF Sound, Core
<1>2. InQueue(q, src)
  BY DEF SplitQueueEntries
<1> DEFINE P(n) == [q EXCEPT !.nzb[n].priority = q.nzb[src].priority]
           Moved(n, files) == SplitFiles(P(n), files, src, n)
           Left(n, files) == IF SourceIsEmpty(Moved(n, files), src)
                             THEN Without(q.queue, src) ELSE q.queue
<1>3. PICK n \in Nzbs \ added, files \in (SUBSET FilesOf(q, src)) \ {{}} :
         /\ q' = [Moved(n, files) EXCEPT !.queue = Left(n, files) \o <<n>>]
         /\ added' = added \cup {n}
  BY DEF SplitQueueEntries
<1> DEFINE p == P(n)
           moved == Moved(n, files)
           queue == Left(n, files) \o <<n>>
           F == [f \in Files |-> IF f \in files THEN [p.file[f] EXCEPT !.nzb = n] ELSE p.file[f]]
<1>4. files \in SUBSET Files /\ files # {} /\ \A f \in files : q.file[f].nzb = src
  BY DEF FilesOf
<1>5. src \in added /\ src # n
  BY <1>1, <1>2, <1>3 DEF Core, GroupsCounted
<1>6. /\ q.nzb \in [Nzbs -> NzbInfo] /\ q.file \in [Files -> FileInfo] /\ q.queue \in Seq(Nzbs)
  BY <1>1, PartsOfQueue
<1> DEFINE g == [q.nzb[n] EXCEPT !.priority = q.nzb[src].priority]
           nzb == [q.nzb EXCEPT ![n] = g]
<1>7. /\ p.file = q.file /\ p.nzb = nzb /\ p.queue = q.queue
      /\ DOMAIN p = {"queue", "nzb", "file", "history"}
  BY <1>1 DEF DownloadQueue
<1>8. PICK r, t : moved = [p EXCEPT !.file = F, !.nzb[src] = r, !.nzb[n] = t]
  BY DEF SplitFiles
<1> HIDE DEF P, moved, queue, g
<1>9. /\ moved.file = F /\ moved.nzb = [[nzb EXCEPT ![src] = r] EXCEPT ![n] = t]
      /\ DOMAIN moved = {"queue", "nzb", "file", "history"}
  <2> HIDE DEF F, nzb
  <2> QED BY <1>7, <1>8
<1>10. \A f \in Files : F[f].nzb = IF f \in files THEN n ELSE q.file[f].nzb
  <2>1. F = [f \in Files |-> IF f \in files THEN [q.file[f] EXCEPT !.nzb = n] ELSE q.file[f]]
    BY <1>7
  <2> HIDE DEF F
  <2> QED BY <1>6, <2>1 DEF FileInfo
<1> HIDE DEF F
<1>11. \A m \in Nzbs : m \notin {src, n} => moved.nzb[m] = q.nzb[m]
  <2> DEFINE nzbs == q.nzb
  <2>1. nzbs \in [Nzbs -> NzbInfo]
    BY <1>6
  <2> HIDE DEF nzbs
  <2>2. moved.nzb = [[[nzbs EXCEPT ![n] = g] EXCEPT ![src] = r] EXCEPT ![n] = t]
    BY <1>9 DEF nzbs
  <2>3. \A m \in Nzbs : m \notin {src, n} => moved.nzb[m] = nzbs[m]
    BY <2>1, <2>2
  <2> QED BY <2>3 DEF nzbs
<1> HIDE DEF nzb
<1>12. q'.file = F /\ q'.nzb = moved.nzb /\ q'.queue = queue
  <2>1. q' = [moved EXCEPT !.queue = queue]
    BY <1>3 DEF moved, queue
  <2> QED BY <1>9, <2>1
<1>13. ToSet(queue) = (IF FilesOf(moved, src) = {} THEN ToSet(q.queue) \ {src}
                       ELSE ToSet(q.queue)) \cup {n}
  <2> DEFINE s == Left(n, files)
             u == <<n>>
  <2>1. u \in Seq(Nzbs) /\ ToSet(u) = {n}
    BY SingleIs
  <2> HIDE DEF u, Moved
  <2>2. s = IF FilesOf(moved, src) = {} THEN Without(q.queue, src) ELSE q.queue
    BY DEF SourceIsEmpty, moved
  <2>3. /\ s \in Seq(Nzbs)
        /\ ToSet(s) = IF FilesOf(moved, src) = {} THEN ToSet(q.queue) \ {src} ELSE ToSet(q.queue)
    BY <1>6, <2>2, WithoutIs
  <2> HIDE DEF s
  <2>4. ToSet(s \o u) = ToSet(s) \cup ToSet(u)
    BY <2>1, <2>3, JoinedIs
  <2>5. queue = s \o u
    BY DEF queue, s, u
  <2> QED BY <2>1, <2>3, <2>4, <2>5
<1>14. \A m : InQueue(q', m) => m = n \/ (InQueue(q, m) /\ (m # src \/ FilesOf(moved, src) # {}))
  BY <1>1, <1>12, <1>13, InQueueIs
<1>15. \A m : FilesOf(q', m) = FilesOf(moved, m)
  BY <1>9, <1>12 DEF FilesOf
<1>16. ASSUME NEW m \in Nzbs, InQueue(q', m), ~q'.nzb[m].postInfo
       PROVE  FilesOf(q', m) # {}
  <2>1. CASE m = n
    <3>1. PICK f \in files : TRUE
      BY <1>4
    <3>2. f \in Files /\ q'.file[f].nzb = n
      BY <1>4, <1>10, <1>12
    <3> QED BY <2>1, <3>2 DEF FilesOf
  <2>2. CASE m = src
    BY <1>5, <1>14, <1>15, <1>16, <2>2
  <2>3. CASE m \notin {src, n}
    <3>1. InQueue(q, m) /\ ~q.nzb[m].postInfo
      BY <1>11, <1>12, <1>14, <1>16, <2>3
    <3>2. PICK f \in Files : q.file[f].nzb = m
      BY <3>1 DEF Occupied, FilesOf
    <3>3. f \notin files
      BY <1>4, <2>3, <3>2
    <3>4. q'.file[f].nzb = m
      BY <1>10, <1>12, <3>2, <3>3
    <3> QED BY <3>4 DEF FilesOf
  <2> QED BY <2>1, <2>2, <2>3
<1>17. \A f \in Files : q'.file[f].nzb # q.file[f].nzb => InQueue(q, q.file[f].nzb)
  BY <1>2, <1>4, <1>10, <1>12
<1>18. Untouched(added)'
  BY <1>3, <1>17, UntouchedKeeps
<1> QED BY <1>16, <1>18 DEF Occupied


\* At first no group is in the queue.
LEMMA InitOccupied == ASSUME Init PROVE Occupied(q) /\ Untouched(added)
<1>1. /\ q.queue = <<>> /\ added = {}
      /\ \A f \in Files : q.file[f].nzb = HomeOf[f]
  BY DEF Init, NewFile
<1>2. \A n : ~InQueue(q, n)
  BY <1>1 DEF InQueue, Contains
<1> QED BY <1>1, <1>2 DEF Occupied, Untouched

(***************************************************************************)
(* Every step keeps the groups occupied.                                   *)
(***************************************************************************)
LEMMA StepKeepsOccupied ==
    ASSUME MergesAreQuiet, Sound(q, dl, added), Occupied(q), Untouched(added), [Next]_vars
    PROVE  Occupied(q') /\ Untouched(added)'
<1> DEFINE Kept == Occupied(q') /\ Untouched(added)'
<1> SUFFICES Kept
  OBVIOUS
<1>0. Retains(q, q') /\ added' = added => Kept
  BY RetainsKeeps
<1>a. q' = q /\ added' = added => Kept
  BY <1>0, RetainsItself
<1> HIDE DEF Kept
<1>1. ASSUME NEW d \in Downloaders, StartArticleDownload(d) PROVE Kept
  BY <1>0, <1>1, StartArticleDownloadRetains
<1>2. ASSUME NEW d \in Downloaders, DownloadEnds(d) PROVE Kept
  BY <1>a, <1>2 DEF DownloadEnds
<1>3. ASSUME NEW d \in Downloaders, ArticleCompleted(d) PROVE Kept
  BY <1>0, <1>3, ArticleCompletedRetains
<1>4. ASSUME NEW d \in Downloaders, FileCompleted(d) PROVE Kept
  BY <1>0, <1>4, FileCompletedRetains
<1>5. ASSUME NEW d \in Downloaders, ResetHangingDownload(d) PROVE Kept
  BY <1>a, <1>5 DEF ResetHangingDownload, Edit
<1>6. ASSUME NEW n \in Nzbs, AddNzbFileToQueue(n) PROVE Kept
  BY <1>6, AddNzbFileToQueueOccupied DEF Kept
<1>7. ASSUME NEW n \in Nzbs, JobCompleted(n) PROVE Kept
  BY <1>7, JobCompletedOccupied DEF Kept
<1>8. ASSUME NEW n \in Nzbs, PauseUnpauseGroup(n) PROVE Kept
  BY <1>0, <1>8, PauseUnpauseGroupRetains
<1>9. ASSUME NEW n \in Nzbs, EditGroupDelete(n) PROVE Kept
  BY <1>0, <1>9, EditGroupDeleteRetains
<1>10. ASSUME NEW n \in Nzbs, SetNzbPriority(n) PROVE Kept
  BY <1>0, <1>10, SetNzbPriorityRetains
<1>11. ASSUME NEW n \in Nzbs, MoveGroup(n) PROVE Kept
  BY <1>0, <1>11, MoveGroupRetains
<1>12. ASSUME NEW n \in Nzbs, SplitQueueEntries(n) PROVE Kept
  BY <1>12, SplitQueueEntriesOccupied DEF Kept
<1>13. ASSUME NEW f \in Files, PauseUnpauseEntry(f) PROVE Kept
  BY <1>0, <1>13, PauseUnpauseEntryRetains
<1>14. ASSUME NEW f \in Files, UnpausePars(f) PROVE Kept
  BY <1>0, <1>14, UnpauseParsRetains
<1>15. ASSUME NEW f \in Files, DeleteEntry(f) PROVE Kept
  BY <1>0, <1>15, DeleteEntryRetains
<1>16. ASSUME NEW dest \in Nzbs, NEW src \in Nzbs, MergeQueueEntries(dest, src) PROVE Kept
  BY <1>16, MergeQueueEntriesOccupied DEF Kept
<1>17. CASE UNCHANGED vars
  BY <1>a, <1>17 DEF vars
<1> QED
  BY <1>1, <1>2, <1>3, <1>4, <1>5, <1>6, <1>7, <1>8, <1>9, <1>10, <1>11, <1>12, <1>13,
     <1>14, <1>15, <1>16, <1>17 DEF Next

(***************************************************************************)
(* A group without files does not stay in the queue, as long as every      *)
(* merge is quiet: the observers of its last file send it to               *)
(* post-processing or to the history.                                      *)
(***************************************************************************)
THEOREM QueueNoEmptyGroup == ASSUME MergesAreQuiet PROVE Spec => []NoEmptyGroup
<1>1. Init => OccupiedInv
  <2>1. Init => QueueInv
    BY InitSound, CoordinatorAssumption DEF QueueInv, Init
  <2> QED BY <2>1, InitOccupied DEF OccupiedInv
<1>2. OccupiedInv /\ [Next]_vars => OccupiedInv'
  <2> SUFFICES ASSUME OccupiedInv, [Next]_vars PROVE OccupiedInv'
    OBVIOUS
  <2>1. /\ Sound(q, dl, added) /\ edits \in 0 .. MaxEdits
        /\ Occupied(q) /\ Untouched(added)
    BY DEF OccupiedInv, QueueInv
  <2>2. Sound(q', dl', added')
    BY <2>1, StepKeepsSound
  <2>3. edits' \in 0 .. MaxEdits
    BY <2>1, EditsAreBounded
  <2>4. Occupied(q') /\ Untouched(added)'
    BY <2>1, StepKeepsOccupied
  <2> QED BY <2>2, <2>3, <2>4 DEF OccupiedInv, QueueInv
<1>3. OccupiedInv => NoEmptyGroup
  BY DEF OccupiedInv, Occupied, NoEmptyGroup
<1> QED BY <1>1, <1>2, <1>3, PTL DEF Spec
=============================================================================

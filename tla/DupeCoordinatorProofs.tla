------------------------- MODULE DupeCoordinatorProofs -------------------------
(***************************************************************************)
(* Proofs about duplicates, for any nzb-files, names, keys, scores, modes  *)
(* and numbers of user events: every nzb-file is in one list at a time,    *)
(* and once, and what a user marked as bad is not downloaded again.        *)
(***************************************************************************)
EXTENDS DupeCoordinator, FiniteSetTheorems, SequenceTheorems, TLAPS

-----------------------------------------------------------------------------
(* Lists without repetition. *)

Once(q) == \A i, j \in 1..Len(q) : q[i] = q[j] => i = j

(***************************************************************************)
(* A list of members of T without repetition, whose members are M.         *)
(***************************************************************************)
Lists(q, T, M) == q \in Seq(T) /\ Once(q) /\ ToSet(q) = M

LEMMA Members ==
    ASSUME NEW T, NEW q \in Seq(T)
    PROVE  /\ Len(q) \in Nat /\ DOMAIN q = 1..Len(q)
           /\ \A i \in 1..Len(q) : q[i] \in T /\ q[i] \in ToSet(q)
           /\ \A e \in ToSet(q) : e \in T /\ \E i \in 1..Len(q) : q[i] = e
BY DEF ToSet

LEMMA LeastNumber ==
    ASSUME NEW M \in SUBSET Nat, M # {}
    PROVE  \E m \in M : \A k \in M : m <= k
<1> DEFINE R == OpToRel(<, Nat)
<1>1. IsWellFoundedOn(R, Nat)
  BY NatLessThanWellFounded
<1>2. PICK m \in M : \A k \in M : ~(<<k, m>> \in R)
  <2> HIDE DEF R
  <2> QED BY <1>1, WFMin
<1>3. \A k \in M : ~(k < m)
  BY <1>2 DEF OpToRel
<1> QED BY <1>3

LEMMA LeastIs ==
    ASSUME NEW M \in SUBSET Nat, M # {}
    PROVE  Min(M) \in M /\ \A k \in M : Min(M) <= k
BY LeastNumber DEF Min

LEMMA SingleLists ==
    ASSUME NEW T, NEW e \in T
    PROVE  Lists(<<e>>, T, {e})
<1>1. <<e>> \in Seq(T) /\ Len(<<e>>) = 1 /\ <<e>>[1] = e /\ DOMAIN <<e>> = {1}
  OBVIOUS
<1>2. ToSet(<<e>>) = {e}
  BY <1>1 DEF ToSet
<1>3. Once(<<e>>)
  BY <1>1 DEF Once
<1> QED BY <1>1, <1>2, <1>3 DEF Lists

LEMMA JoinedLists ==
    ASSUME NEW T, NEW p, NEW q, NEW M, NEW N, Lists(p, T, M), Lists(q, T, N), M \cap N = {}
    PROVE  Lists(p \o q, T, M \union N)
<1>1. /\ p \in Seq(T) /\ q \in Seq(T) /\ ToSet(p) = M /\ ToSet(q) = N
      /\ Once(p) /\ Once(q)
  BY DEF Lists
<1>2. /\ Len(p) \in Nat /\ DOMAIN p = 1..Len(p) /\ \A i \in 1..Len(p) : p[i] \in M
      /\ Len(q) \in Nat /\ DOMAIN q = 1..Len(q) /\ \A i \in 1..Len(q) : q[i] \in N
      /\ \A e \in M : \E i \in 1..Len(p) : p[i] = e
      /\ \A e \in N : \E i \in 1..Len(q) : q[i] = e
  BY <1>1, Members
<1> DEFINE r == p \o q
<1>3. /\ r \in Seq(T) /\ Len(r) = Len(p) + Len(q) /\ DOMAIN r = 1..(Len(p) + Len(q))
      /\ \A i \in 1..(Len(p) + Len(q)) : r[i] = IF i <= Len(p) THEN p[i] ELSE q[i - Len(p)]
  BY <1>1, <1>2
<1> HIDE DEF r
<1>4. \A i \in 1..Len(p) : i \in DOMAIN r /\ r[i] = p[i]
  BY <1>2, <1>3
<1>5. ASSUME NEW i \in 1..Len(q) PROVE i + Len(p) \in DOMAIN r /\ r[i + Len(p)] = q[i]
  <2>1. /\ i + Len(p) \in 1..(Len(p) + Len(q)) /\ ~(i + Len(p) <= Len(p))
        /\ (i + Len(p)) - Len(p) = i
    BY <1>2
  <2> QED BY <1>3, <2>1
<1>6. \A i \in DOMAIN r : \/ i \in 1..Len(p) /\ r[i] = p[i]
                          \/ i - Len(p) \in 1..Len(q) /\ r[i] = q[i - Len(p)]
  BY <1>2, <1>3
<1>7. ToSet(r) = M \union N
  <2>1. \A i \in DOMAIN r : r[i] \in M \union N
    BY <1>2, <1>6
  <2>2. ASSUME NEW e \in M PROVE \E i \in DOMAIN r : r[i] = e
    BY <1>2, <1>4
  <2>3. ASSUME NEW e \in N PROVE \E i \in DOMAIN r : r[i] = e
    BY <1>2, <1>5
  <2> QED BY <2>1, <2>2, <2>3 DEF ToSet
<1>8. ASSUME NEW i \in DOMAIN r, NEW j \in DOMAIN r, r[i] = r[j] PROVE i = j
  <2>1. CASE i \in 1..Len(p) /\ r[i] = p[i] /\ j \in 1..Len(p) /\ r[j] = p[j]
    BY <1>1, <1>8, <2>1 DEF Once
  <2>2. CASE /\ i - Len(p) \in 1..Len(q) /\ r[i] = q[i - Len(p)]
             /\ j - Len(p) \in 1..Len(q) /\ r[j] = q[j - Len(p)]
    <3>1. i - Len(p) = j - Len(p)
      BY <1>1, <1>8, <2>2 DEF Once
    <3> QED BY <1>2, <1>3, <3>1
  <2>3. ASSUME NEW k \in 1..Len(p), NEW l \in 1..Len(q) PROVE p[k] # q[l]
    BY <1>2
  <2> QED BY <1>6, <1>8, <2>1, <2>2, <2>3
<1>9. Once(r)
  BY <1>3, <1>8 DEF Once
<1> QED BY <1>3, <1>7, <1>9 DEF Lists, r

LEMMA ReversedLists ==
    ASSUME NEW T, NEW q, NEW M, Lists(q, T, M)
    PROVE  Lists(Reverse(q), T, M)
<1>1. q \in Seq(T) /\ ToSet(q) = M /\ Once(q)
  BY DEF Lists
<1>2. Len(q) \in Nat /\ DOMAIN q = 1..Len(q) /\ \A i \in 1..Len(q) : q[i] \in T
  BY <1>1
<1> DEFINE r == Reverse(q)
<1>3. /\ r \in Seq(T) /\ Len(r) = Len(q) /\ DOMAIN r = 1..Len(q)
      /\ \A i \in 1..Len(q) : (Len(q) - i) + 1 \in 1..Len(q) /\ r[i] = q[(Len(q) - i) + 1]
  BY <1>2 DEF Reverse
<1> HIDE DEF r
<1>4. ASSUME NEW i \in 1..Len(q) PROVE r[(Len(q) - i) + 1] = q[i]
  <2>1. (Len(q) - ((Len(q) - i) + 1)) + 1 = i
    BY <1>2
  <2> QED BY <1>3, <2>1
<1>5. ToSet(r) = M
  <2>1. \A i \in DOMAIN r : r[i] \in M
    BY <1>1, <1>2, <1>3 DEF ToSet
  <2>2. ASSUME NEW e \in M PROVE \E i \in DOMAIN r : r[i] = e
    <3>1. PICK i \in 1..Len(q) : q[i] = e
      BY <1>1, Members
    <3> QED BY <1>3, <1>4, <3>1
  <2> QED BY <2>1, <2>2 DEF ToSet
<1>6. ASSUME NEW i \in 1..Len(r), NEW j \in 1..Len(r), r[i] = r[j] PROVE i = j
  <2>1. (Len(q) - i) + 1 = (Len(q) - j) + 1
    BY <1>1, <1>3, <1>6 DEF Once
  <2> QED BY <1>2, <1>3, <2>1
<1> QED BY <1>3, <1>5, <1>6 DEF Lists, Once, r

LEMMA RemovedLists ==
    ASSUME NEW T, NEW q, NEW M, Lists(q, T, M), NEW e
    PROVE  Lists(RemoveFirst(q, e), T, M \ {e})
<1>1. q \in Seq(T) /\ ToSet(q) = M /\ Once(q)
  BY DEF Lists
<1>2. /\ Len(q) \in Nat /\ DOMAIN q = 1..Len(q)
      /\ \A i \in 1..Len(q) : q[i] \in T /\ q[i] \in M
      /\ \A x \in M : \E i \in 1..Len(q) : q[i] = x
  BY <1>1, Members
<1>3. CASE ~\E i \in 1..Len(q) : q[i] = e
  <2>1. RemoveFirst(q, e) = q /\ M \ {e} = M
    BY <1>2, <1>3 DEF RemoveFirst
  <2> QED BY <2>1
<1>4. CASE \E i \in 1..Len(q) : q[i] = e
  <2> DEFINE I == {i \in 1..Len(q) : q[i] = e}
             k == Min(I)
             r == RemoveFirst(q, e)
  <2>1. I \in SUBSET Nat /\ I # {}
    BY <1>4
  <2>2. k \in 1..Len(q) /\ q[k] = e
    <3>1. k \in I
      <4> HIDE DEF I
      <4> QED BY <2>1, LeastIs
    <3> HIDE DEF k
    <3> QED BY <3>1
  <2> DEFINE left == SubSeq(q, 1, k - 1)
             right == SubSeq(q, k + 1, Len(q))
  <2>3. r = left \o right
    BY <1>4, <2>1 DEF RemoveFirst, RemoveAt, SelectInSeq
  <2> HIDE DEF r, k
  <2>4. /\ left \in Seq(T) /\ Len(left) = k - 1
        /\ \A i \in 1..(k - 1) : left[i] = q[i]
    BY <1>2, <2>2, SubSeqProperties
  <2>5. /\ right \in Seq(T) /\ Len(right) = Len(q) - k
        /\ \A i \in 1..(Len(q) - k) : right[i] = q[i + k]
    <3>1. k + 1 \in Int /\ Len(q) \in Int /\ \A i \in (k + 1)..Len(q) : q[i] \in T
      BY <1>2, <2>2
    <3>2. /\ right \in Seq(T)
          /\ Len(right) = IF k + 1 <= Len(q) THEN Len(q) - (k + 1) + 1 ELSE 0
          /\ \A i \in 1..(Len(q) - (k + 1) + 1) : right[i] = q[(k + 1) + i - 1]
      BY <3>1, SubSeqProperties
    <3> HIDE DEF right, left, I
    <3>3. Len(right) = Len(q) - k
      <4>1. Len(q) \in Nat /\ k \in 1..Len(q)
        BY <1>2, <2>2
      <4>2. (IF k + 1 <= Len(q) THEN Len(q) - (k + 1) + 1 ELSE 0) = Len(q) - k
        BY <4>1
      <4> QED BY <3>2, <4>2
    <3>4. ASSUME NEW i \in 1..(Len(q) - k) PROVE right[i] = q[i + k]
      <4>1. i \in 1..(Len(q) - (k + 1) + 1) /\ (k + 1) + i - 1 = i + k
        BY <1>2, <2>2
      <4> QED BY <3>2, <4>1
    <3> QED BY <3>2, <3>3, <3>4
  <2> HIDE DEF left, right
  <2>6. /\ r \in Seq(T) /\ Len(r) = Len(q) - 1 /\ DOMAIN r = 1..(Len(q) - 1)
        /\ \A i \in 1..(Len(q) - 1) : r[i] = IF i <= k - 1 THEN q[i] ELSE q[i + 1]
    <3>1. /\ r \in Seq(T) /\ Len(r) = Len(left) + Len(right)
          /\ \A i \in 1..(Len(left) + Len(right)) :
                r[i] = IF i <= Len(left) THEN left[i] ELSE right[i - Len(left)]
      BY <2>3, <2>4, <2>5, ConcatProperties
    <3>2. Len(r) = Len(q) - 1 /\ DOMAIN r = 1..(Len(q) - 1)
      BY <1>2, <2>2, <2>4, <2>5, <3>1
    <3>3. ASSUME NEW i \in 1..(Len(q) - 1) PROVE r[i] = IF i <= k - 1 THEN q[i] ELSE q[i + 1]
      <4>1. CASE i <= k - 1
        <5>1. i \in 1..(k - 1) /\ i <= Len(left) /\ i \in 1..(Len(left) + Len(right))
          BY <1>2, <2>2, <2>4, <2>5, <4>1
        <5>2. r[i] = left[i]
          BY <3>1, <5>1
        <5> QED BY <2>4, <4>1, <5>1, <5>2
      <4>2. CASE ~(i <= k - 1)
        <5>0. /\ i - (k - 1) \in 1..(Len(q) - k) /\ ~(i <= Len(left))
              /\ i \in 1..(Len(left) + Len(right))
          BY <1>2, <2>2, <2>4, <2>5, <4>2
        <5>1. r[i] = right[i - (k - 1)]
          BY <2>4, <3>1, <5>0
        <5>2. right[i - (k - 1)] = q[i - (k - 1) + k]
          BY <2>5, <5>0
        <5>3. i - (k - 1) + k = i + 1
          BY <1>2, <2>2
        <5> QED BY <4>2, <5>1, <5>2, <5>3
      <4> QED BY <4>1, <4>2
    <3> QED BY <3>1, <3>2, <3>3
  <2>7. ASSUME NEW i \in DOMAIN r
        PROVE  \E j \in 1..Len(q) : j # k /\ r[i] = q[j] /\ j = IF i <= k - 1 THEN i ELSE i + 1
    BY <1>2, <2>2, <2>6
  <2>8. ASSUME NEW j \in 1..Len(q), j # k PROVE \E i \in DOMAIN r : r[i] = q[j]
    <3>1. CASE j < k
      <4>1. j \in DOMAIN r /\ j <= k - 1 /\ r[j] = q[j]
        BY <1>2, <2>2, <2>6, <3>1
      <4> QED BY <4>1
    <3>2. CASE j > k
      <4>1. j - 1 \in DOMAIN r /\ r[j - 1] = q[j]
        BY <1>2, <2>2, <2>6, <3>2
      <4> QED BY <4>1
    <3> QED BY <1>2, <2>2, <2>8, <3>1, <3>2
  <2>9. ToSet(r) = M \ {e}
    <3>1. ASSUME NEW i \in DOMAIN r PROVE r[i] \in M \ {e}
      BY <1>1, <1>2, <2>2, <2>7 DEF Once
    <3>2. ASSUME NEW x \in M \ {e} PROVE \E i \in DOMAIN r : r[i] = x
      BY <1>2, <2>2, <2>8
    <3> QED BY <3>1, <3>2 DEF ToSet
  <2>10. ASSUME NEW i \in 1..Len(r), NEW j \in 1..Len(r), r[i] = r[j] PROVE i = j
    <3> DEFINE Old(n) == IF n <= k - 1 THEN n ELSE n + 1
    <3>1. Old(i) \in 1..Len(q) /\ Old(j) \in 1..Len(q) /\ q[Old(i)] = q[Old(j)]
      BY <1>2, <2>2, <2>6, <2>10
    <3>2. Old(i) = Old(j)
      <4> HIDE DEF Old
      <4> QED BY <1>1, <3>1 DEF Once
    <3> QED BY <1>2, <2>2, <2>6, <3>2
  <2> QED BY <2>6, <2>9, <2>10 DEF Lists, Once, r
<1> QED BY <1>3, <1>4

(***************************************************************************)
(* Selected keeps the members of the list that are in the set: else there  *)
(* would be a shortest part of the list for which it does not.             *)
(***************************************************************************)
LEMMA SelectedLists ==
    ASSUME NEW T, NEW q, NEW M, Lists(q, T, M), NEW S
    PROVE  Lists(Selected(q, S), T, M \cap S)
<1> DEFINE Value(u, n) == IF n = 0 THEN <<>>
                          ELSE IF q[n] \in S THEN Append(u[n - 1], q[n])
                          ELSE u[n - 1]
           Good(m, u) == \A n \in 0..m : u[n] = Value(u, n)
           Upto == CHOOSE u : u = [n \in 0..Len(q) |-> Value(u, n)]
<1>0. q \in Seq(T) /\ ToSet(q) = M /\ Once(q)
  BY DEF Lists
<1>1. Len(q) \in Nat /\ DOMAIN q = 1..Len(q) /\ \A n \in 1..Len(q) : q[n] \in T
  BY <1>0
<1>2. \A m \in 0..Len(q) : \E u \in [0..m -> Seq(T)] : Good(m, u)
  <2> DEFINE None == {m \in 0..Len(q) : ~\E u \in [0..m -> Seq(T)] : Good(m, u)}
  <2> SUFFICES ASSUME None # {} PROVE FALSE
    OBVIOUS
  <2>1. PICK m \in None : \A k \in None : m <= k
    <3>1. None \in SUBSET Nat
      BY <1>1
    <3> HIDE DEF None
    <3> QED BY <3>1, LeastNumber
  <2>2. m \in 0..Len(q) /\ ~\E u \in [0..m -> Seq(T)] : Good(m, u)
    BY <2>1
  <2>3. CASE m = 0
    <3> DEFINE u == [n \in 0..0 |-> <<>>]
    <3>1. u \in [0..m -> Seq(T)] /\ Good(m, u)
      BY <2>3
    <3> QED BY <3>1, <2>2
  <2>4. CASE m # 0
    <3>0. m - 1 \in 0..Len(q) /\ m \in 1..Len(q) /\ m \in Nat
      BY <1>1, <2>2, <2>4
    <3>1. m - 1 \notin None
      <4> HIDE DEF None
      <4> QED BY <2>1, <3>0
    <3>2. PICK u \in [0..(m - 1) -> Seq(T)] : Good(m - 1, u)
      <4> HIDE DEF Good
      <4> QED BY <3>0, <3>1
    <3> DEFINE w == [n \in 0..m |-> IF n = m THEN Value(u, m) ELSE u[n]]
    <3>3. Value(u, m) \in Seq(T)
      <4>1. q[m] \in T
        BY <1>1, <3>0
      <4>2. u[m - 1] \in Seq(T)
        <5> HIDE DEF Good
        <5> QED BY <3>0, <3>2
      <4> QED BY <4>1, <4>2, <2>4
    <3>4. w \in [0..m -> Seq(T)]
      <4> HIDE DEF Value, Good
      <4>1. \A n \in 0..m : n # m => n \in 0..(m - 1)
        BY <3>0
      <4> QED BY <3>2, <3>3, <4>1
    <3>5. ASSUME NEW n \in 0..m PROVE w[n] = Value(w, n)
      <4>1. CASE n = m
        BY <4>1, <3>0
      <4>2. CASE n # m
        <5>1. n \in 0..(m - 1) /\ w[n] = u[n] /\ (n # 0 => w[n - 1] = u[n - 1])
          BY <4>2, <3>0
        <5> QED BY <5>1, <3>2
      <4> QED BY <4>1, <4>2
    <3> HIDE DEF w
    <3> QED BY <2>2, <3>4, <3>5
  <2> QED BY <2>3, <2>4
<1>3. PICK u \in [0..Len(q) -> Seq(T)] : Good(Len(q), u)
  <2> HIDE DEF Good
  <2> QED BY <1>1, <1>2
<1>4. u = [n \in 0..Len(q) |-> Value(u, n)]
  BY <1>3
<1>5. Upto = [n \in 0..Len(q) |-> Value(Upto, n)]
  BY <1>4
<1>6. Selected(q, S) = Upto[Len(q)]
  BY DEF Selected
<1> HIDE DEF Upto
<1> DEFINE Before(k) == {q[i] : i \in 1..k} \cap S
<1>7. ASSUME NEW n \in 0..Len(q) PROVE Lists(Upto[n], T, Before(n))
  <2> DEFINE Bad == {k \in 0..Len(q) : ~Lists(Upto[k], T, Before(k))}
  <2> SUFFICES ASSUME Bad # {} PROVE FALSE
    OBVIOUS
  <2>1. PICK m \in Bad : \A k \in Bad : m <= k
    <3>1. Bad \in SUBSET Nat
      BY <1>1
    <3> HIDE DEF Bad
    <3> QED BY <3>1, LeastNumber
  <2>2. m \in 0..Len(q) /\ ~Lists(Upto[m], T, Before(m)) /\ Upto[m] = Value(Upto, m)
    BY <1>5, <2>1
  <2>3. m # 0
    <3>1. Lists(<<>>, T, {})
      BY DEF Lists, Once, ToSet
    <3>2. Before(0) = {}
      OBVIOUS
    <3> HIDE DEF Before
    <3> QED BY <2>2, <3>1, <3>2
  <2>4. m \in 1..Len(q) /\ m - 1 \in 0..Len(q) /\ Lists(Upto[m - 1], T, Before(m - 1))
    <3> HIDE DEF Before
    <3> QED BY <1>1, <2>1, <2>2, <2>3
  <2>5. Before(m) = Before(m - 1) \union ({q[m]} \cap S) /\ q[m] \notin Before(m - 1)
    <3>1. 1..m = 1..(m - 1) \union {m} /\ m \notin 1..(m - 1) /\ 1..(m - 1) \subseteq 1..Len(q)
      BY <1>1, <2>4
    <3> QED BY <1>0, <2>4, <3>1 DEF Once
  <2> HIDE DEF Before
  <2>6. CASE q[m] \in S
    <3>1. Upto[m] = Append(Upto[m - 1], q[m]) /\ Upto[m - 1] \in Seq(T) /\ q[m] \in T
      BY <1>1, <2>2, <2>3, <2>4, <2>6 DEF Lists
    <3>2. Upto[m] = Upto[m - 1] \o <<q[m]>>
      <4> DEFINE p == Upto[m - 1]
                 e == q[m]
      <4>1. p \in Seq(T) /\ e \in T /\ Upto[m] = Append(p, e)
        BY <3>1
      <4> HIDE DEF p, e
      <4>2. Append(p, e) = p \o <<e>>
        BY <4>1, AppendIsConcat
      <4> QED BY <4>1, <4>2 DEF p, e
    <3>3. Lists(<<q[m]>>, T, {q[m]})
      BY <3>1, SingleLists
    <3>4. Lists(Upto[m], T, Before(m - 1) \union {q[m]})
      <4>1. Before(m - 1) \cap {q[m]} = {}
        BY <2>5
      <4> DEFINE p == Upto[m - 1]
                 v == Before(m - 1)
                 w == <<q[m]>>
      <4>2. Lists(p, T, v) /\ Lists(w, T, {q[m]}) /\ v \cap {q[m]} = {} /\ Upto[m] = p \o w
        BY <2>4, <3>2, <3>3, <4>1
      <4> HIDE DEF p, v, w
      <4>3. Lists(p \o w, T, v \union {q[m]})
        BY <4>2, JoinedLists
      <4> QED BY <4>2, <4>3 DEF v
    <3>5. Before(m) = Before(m - 1) \union {q[m]}
      BY <2>5, <2>6
    <3> QED BY <2>2, <3>4, <3>5
  <2>7. CASE q[m] \notin S
    <3>1. Upto[m] = Upto[m - 1] /\ Before(m) = Before(m - 1)
      BY <2>2, <2>3, <2>5, <2>7
    <3> QED BY <2>2, <2>4, <3>1
  <2> QED BY <2>6, <2>7
<1>8. Before(Len(q)) = M \cap S
  BY <1>0, <1>1 DEF ToSet
<1>9. Lists(Upto[Len(q)], T, Before(Len(q)))
  <2> HIDE DEF Before
  <2> QED BY <1>1, <1>7
<1> QED BY <1>6, <1>8, <1>9

LEMMA ListedLength ==
    ASSUME NEW T, NEW q, NEW M, Lists(q, T, M)
    PROVE  Len(q) = Cardinality(M)
<1>1. q \in Seq(T) /\ ToSet(q) = M /\ Once(q) /\ Len(q) \in Nat /\ DOMAIN q = 1..Len(q)
  BY DEF Lists
<1>2. q \in [1..Len(q) -> M]
  BY <1>1 DEF ToSet
<1>3. q \in Bijection(1..Len(q), M)
  <2>1. q \in Injection(1..Len(q), M)
    BY <1>1, <1>2 DEF Once, Injection, IsInjective
  <2>2. q \in Surjection(1..Len(q), M)
    BY <1>1, <1>2 DEF ToSet, Surjection
  <2> QED BY <2>1, <2>2 DEF Bijection
<1>4. ExistsBijection(1..Len(q), M)
  BY <1>3 DEF ExistsBijection
<1>5. IsFiniteSet(1..Len(q)) /\ Cardinality(1..Len(q)) = Len(q)
  <2> DEFINE l == Len(q)
  <2>1. l \in Nat
    BY <1>1
  <2> HIDE DEF l
  <2>2. IsFiniteSet(1..l) /\ Cardinality(1..l) = IF 1 > l THEN 0 ELSE l - 1 + 1
    BY <2>1, FS_Interval
  <2>3. (IF 1 > l THEN 0 ELSE l - 1 + 1) = l
    BY <2>1
  <2> QED BY <2>2, <2>3 DEF l
<1> QED BY <1>4, <1>5, FS_Bijection

-----------------------------------------------------------------------------
(* The lists of queue and history. *)

State == [queue : Seq(Nzbs), history : Seq(Nzbs), nzb : [Nzbs -> NzbInfo]]

Queued(z) == {n \in Nzbs : z[n].step \in InQueue}
Kept(z) == {n \in Nzbs : z[n].step \in InHistory}

HasLists(s, Q, H) == s \in State /\ Lists(s.queue, Nzbs, Q) /\ Lists(s.history, Nzbs, H)

(***************************************************************************)
(* The lists agree with the steps of the nzb-files; Moving: but for i,     *)
(* which is in the queue and about to leave it.                            *)
(***************************************************************************)
Listed(s) == HasLists(s, Queued(s.nzb), Kept(s.nzb))
Moving(s, i) == HasLists(s, Queued(s.nzb) \union {i}, Kept(s.nzb) \ {i})

(***************************************************************************)
(* None of M can come back by itself.                                      *)
(***************************************************************************)
Barred(info) == info.step \in {"hidden", "gone"} \/ (info.step = "recent" /\ info.mark = "bad")
Away(z, M) == \A n \in M : n \in Nzbs /\ Barred(z[n])

LEMMA StateIs ==
    ASSUME NEW q \in Seq(Nzbs), NEW h \in Seq(Nzbs), NEW z \in [Nzbs -> NzbInfo]
    PROVE  [queue |-> q, history |-> h, nzb |-> z] \in State
BY DEF State

LEMMA ChangedInfo ==
    ASSUME NEW z \in [Nzbs -> NzbInfo], NEW i \in Nzbs, NEW info \in NzbInfo
    PROVE  /\ [z EXCEPT ![i] = info] \in [Nzbs -> NzbInfo] /\ [z EXCEPT ![i] = info][i] = info
           /\ \A n \in Nzbs \ {i} : [z EXCEPT ![i] = info][n] = z[n]
OBVIOUS

LEMMA AddToHistoryLists ==
    ASSUME NEW i \in Nzbs, NEW s, Moving(s, i), NEW M, Away(s.nzb, M), i \notin M
    PROVE  Listed(AddToHistory(s, i)) /\ Away(AddToHistory(s, i).nzb, M)
<1> DEFINE z == [s.nzb EXCEPT ![i].step = "recent"]
           q == RemoveFirst(s.queue, i)
           h == <<i>> \o s.history
<1>1. s.nzb \in [Nzbs -> NzbInfo]
  BY DEF Moving, HasLists, State
<1>2. /\ z \in [Nzbs -> NzbInfo] /\ z[i].step = "recent"
      /\ \A n \in Nzbs \ {i} : z[n] = s.nzb[n]
  <2> DEFINE info == [s.nzb[i] EXCEPT !.step = "recent"]
  <2>1. s.nzb[i] \in NzbInfo
    BY <1>1
  <2>2. info \in NzbInfo /\ info.step = "recent"
    BY <2>1 DEF NzbInfo, InHistory
  <2>3. z = [s.nzb EXCEPT ![i] = info]
    OBVIOUS
  <2> HIDE DEF info, z
  <2> QED BY <1>1, <2>2, <2>3, ChangedInfo
<1> HIDE DEF z
<1>3. Queued(z) = (Queued(s.nzb) \union {i}) \ {i}
  BY <1>2 DEF Queued, InQueue
<1>4. Kept(z) = {i} \union (Kept(s.nzb) \ {i})
  BY <1>2 DEF Kept, InHistory
<1>5. Lists(q, Nzbs, Queued(z))
  BY <1>3, RemovedLists DEF Moving, HasLists
<1>6. Lists(h, Nzbs, Kept(z))
  <2> DEFINE K == Kept(s.nzb) \ {i}
  <2>1. Lists(<<i>>, Nzbs, {i}) /\ Lists(s.history, Nzbs, K) /\ {i} \cap K = {}
    BY SingleLists DEF Moving, HasLists
  <2> HIDE DEF K
  <2>2. Lists(h, Nzbs, {i} \union K)
    BY <2>1, JoinedLists
  <2> QED BY <1>4, <2>2 DEF K
<1>7. AddToHistory(s, i) = [queue |-> q, history |-> h, nzb |-> z]
  BY DEF AddToHistory, z
<1> HIDE DEF q, h
<1>8. Listed(AddToHistory(s, i))
  BY <1>2, <1>5, <1>6, <1>7, StateIs DEF Listed, HasLists, Lists
<1>9. Away(z, M)
  BY <1>2 DEF Away
<1> QED BY <1>7, <1>8, <1>9

LEMMA MoveToQueueLists ==
    ASSUME NEW s, Listed(s), NEW i \in Nzbs, s.nzb[i].step = "recent", NEW step \in {"queued", "post"},
           NEW M, Away(s.nzb, M), i \notin M
    PROVE  Listed(MoveToQueue(s, i, step)) /\ Away(MoveToQueue(s, i, step).nzb, M)
<1> DEFINE z == [s.nzb EXCEPT ![i].step = step, ![i].del = "none", ![i].mark = "none",
                              ![i].result = "none", ![i].healthy = TRUE]
           q == <<i>> \o s.queue
           h == RemoveFirst(s.history, i)
<1>1. s.nzb \in [Nzbs -> NzbInfo]
  BY DEF Listed, HasLists, State
<1>2. /\ z \in [Nzbs -> NzbInfo] /\ z[i].step = step
      /\ \A n \in Nzbs \ {i} : z[n] = s.nzb[n]
  <2> DEFINE info == [s.nzb[i] EXCEPT !.step = step, !.del = "none", !.mark = "none",
                                      !.result = "none", !.healthy = TRUE]
  <2>1. z = [s.nzb EXCEPT ![i] = info]
    BY <1>1
  <2>2. s.nzb[i] \in NzbInfo
    BY <1>1
  <2>3. info \in NzbInfo /\ info.step = step
    BY <2>2 DEF NzbInfo, InQueue
  <2> HIDE DEF info, z
  <2> QED BY <1>1, <2>1, <2>3
<1> HIDE DEF z
<1>3. Kept(z) = Kept(s.nzb) \ {i}
  BY <1>2 DEF Kept, InHistory
<1>4. Queued(z) = {i} \union Queued(s.nzb) /\ {i} \cap Queued(s.nzb) = {}
  BY <1>2 DEF Queued, InQueue
<1>5. Lists(h, Nzbs, Kept(z))
  BY <1>3, RemovedLists DEF Listed, HasLists
<1>6. Lists(q, Nzbs, Queued(z))
  <2> DEFINE Q == Queued(s.nzb)
  <2>1. Lists(<<i>>, Nzbs, {i}) /\ Lists(s.queue, Nzbs, Q) /\ {i} \cap Q = {}
    BY <1>4, SingleLists DEF Listed, HasLists
  <2> HIDE DEF Q
  <2>2. Lists(q, Nzbs, {i} \union Q)
    BY <2>1, JoinedLists
  <2> QED BY <1>4, <2>2 DEF Q
<1>7. MoveToQueue(s, i, step) = [queue |-> q, history |-> h, nzb |-> z]
  BY DEF MoveToQueue, z
<1> HIDE DEF q, h
<1>8. Listed(MoveToQueue(s, i, step))
  BY <1>2, <1>5, <1>6, <1>7, StateIs DEF Listed, HasLists, Lists
<1>9. Away(z, M)
  BY <1>2 DEF Away
<1> QED BY <1>7, <1>8, <1>9

LEMMA GoneLists ==
    ASSUME NEW s, Listed(s), NEW i \in Nzbs, NEW M, Away(s.nzb, M)
    PROVE  Listed(Gone(s, i)) /\ Away(Gone(s, i).nzb, M)
<1> DEFINE z == [s.nzb EXCEPT ![i] = [NewNzb(i) EXCEPT !.step = "gone"]]
           q == RemoveFirst(s.queue, i)
           h == RemoveFirst(s.history, i)
<1>1. s.nzb \in [Nzbs -> NzbInfo]
  BY DEF Listed, HasLists, State
<1>2. [NewNzb(i) EXCEPT !.step = "gone"] \in NzbInfo /\ [NewNzb(i) EXCEPT !.step = "gone"].step = "gone"
  BY DupeOptions DEF NewNzb, NzbInfo
<1>3. z \in [Nzbs -> NzbInfo] /\ z[i].step = "gone" /\ \A n \in Nzbs \ {i} : z[n] = s.nzb[n]
  BY <1>1, <1>2
<1> HIDE DEF z
<1>4. Kept(z) = Kept(s.nzb) \ {i} /\ Queued(z) = Queued(s.nzb) \ {i}
  BY <1>3 DEF Kept, Queued, InHistory, InQueue
<1>5. Lists(q, Nzbs, Queued(z)) /\ Lists(h, Nzbs, Kept(z))
  BY <1>4, RemovedLists DEF Listed, HasLists
<1>6. Gone(s, i) = [queue |-> q, history |-> h, nzb |-> z]
  BY DEF Gone, z
<1> HIDE DEF q, h
<1>7. Listed(Gone(s, i))
  BY <1>3, <1>5, <1>6, StateIs DEF Listed, HasLists, Lists
<1>8. Away(z, M)
  BY <1>3 DEF Away, Barred
<1> QED BY <1>6, <1>7, <1>8

(***************************************************************************)
(* A change of attributes that moves nothing between the lists.            *)
(***************************************************************************)
LEMMA SameLists ==
    ASSUME NEW s, Listed(s), NEW z \in [Nzbs -> NzbInfo],
           \A n \in Nzbs : /\ z[n].step \in InQueue <=> s.nzb[n].step \in InQueue
                           /\ z[n].step \in InHistory <=> s.nzb[n].step \in InHistory
    PROVE  Listed([s EXCEPT !.nzb = z]) /\ [s EXCEPT !.nzb = z].nzb = z
<1> DEFINE t == [s EXCEPT !.nzb = z]
<1>1. t \in State /\ t.queue = s.queue /\ t.history = s.history /\ t.nzb = z
  BY DEF Listed, HasLists, State
<1>2. Queued(z) = Queued(s.nzb) /\ Kept(z) = Kept(s.nzb)
  BY DEF Queued, Kept
<1> HIDE DEF t
<1>3. Listed(t)
  BY <1>1, <1>2 DEF Listed, HasLists
<1> QED BY <1>1, <1>3 DEF t

LEMMA HistoryHideLists ==
    ASSUME NEW s, Listed(s), NEW S, \A n \in S : n \in Nzbs /\ s.nzb[n].step = "recent",
           NEW M, Away(s.nzb, M)
    PROVE  Listed(HistoryHide(s, S)) /\ Away(HistoryHide(s, S).nzb, M)
<1> DEFINE z == [n \in Nzbs |-> IF n \in S THEN Hidden(s.nzb, n) ELSE s.nzb[n]]
<1>1. s.nzb \in [Nzbs -> NzbInfo]
  BY DEF Listed, HasLists, State
<1>2. ASSUME NEW n \in Nzbs PROVE Hidden(s.nzb, n) \in NzbInfo /\ Hidden(s.nzb, n).step = "hidden"
  <2> DEFINE d == DupStatus(s.nzb, n)
  <2>1. s.nzb[n] \in NzbInfo
    BY <1>1
  <2>2. d \in {"none", "good", "bad", "success", "dupe", "deleted", "failed"}
    <3>1. s.nzb[n].mark \in {"none", "bad", "good", "success"}
      BY <2>1 DEF NzbInfo
    <3>2. CASE s.nzb[n].mark # "none"
      BY <3>1, <3>2 DEF DupStatus
    <3>3. CASE s.nzb[n].mark = "none" /\ s.nzb[n].del = "dupe"
      BY <3>3 DEF DupStatus
    <3>4. CASE s.nzb[n].mark = "none" /\ s.nzb[n].del \in {"manual", "good", "copy"}
      BY <3>4 DEF DupStatus
    <3>5. CASE /\ s.nzb[n].mark = "none" /\ s.nzb[n].del # "dupe"
               /\ s.nzb[n].del \notin {"manual", "good", "copy"}
      BY <3>5 DEF DupStatus
    <3> QED BY <3>2, <3>3, <3>4, <3>5
  <2> HIDE DEF d
  <2> DEFINE first == [s.nzb[n] EXCEPT !.step = "hidden", !.dup = d, !.del = "none"]
  <2>3. first \in NzbInfo /\ first.step = "hidden"
    BY <2>1, <2>2 DEF NzbInfo, InHistory
  <2>4. Hidden(s.nzb, n) = [first EXCEPT !.mark = "none", !.result = "none", !.healthy = TRUE]
    BY DEF Hidden, d
  <2> HIDE DEF first
  <2> QED BY <2>3, <2>4 DEF NzbInfo
<1>3. /\ z \in [Nzbs -> NzbInfo]
      /\ \A n \in Nzbs : IF n \in S THEN z[n].step = "hidden" ELSE z[n] = s.nzb[n]
  BY <1>1, <1>2
<1>4. HistoryHide(s, S) = [s EXCEPT !.nzb = z]
  BY DEF HistoryHide, Listed, HasLists, State
<1> HIDE DEF z
<1>5. \A n \in Nzbs : /\ z[n].step \in InQueue <=> s.nzb[n].step \in InQueue
                      /\ z[n].step \in InHistory <=> s.nzb[n].step \in InHistory
  BY <1>3 DEF InQueue, InHistory
<1>6. Away(z, M)
  BY <1>3 DEF Away, Barred
<1> QED BY <1>3, <1>4, <1>5, <1>6, SameLists

(***************************************************************************)
(* What comes back waits in the recent history and is not marked as bad.   *)
(***************************************************************************)
LEMMA ReturnBestDupeLists ==
    ASSUME NEW s, Listed(s), NEW i \in Nzbs, NEW M, Away(s.nzb, M)
    PROVE  Listed(ReturnBestDupe(s, i)) /\ Away(ReturnBestDupe(s, i).nzb, M)
<1> DEFINE best == Best(s.nzb, Candidates(s, i))
           newest == SelectInSeq(s.history, LAMBDA h : h \in best)
           h == s.history[newest]
<1>1. s.history \in Seq(Nzbs) /\ Len(s.history) \in Nat
  BY DEF Listed, HasLists, State
<1>2. newest \in 0..Len(s.history) /\ (newest # 0 => h \in best)
  <2> DEFINE I == {k \in 1..Len(s.history) : s.history[k] \in best}
  <2>1. newest = IF I # {} THEN Min(I) ELSE 0
    BY DEF SelectInSeq
  <2>2. I \in SUBSET Nat
    BY <1>1
  <2>3. I # {} => Min(I) \in I
    <3> HIDE DEF I
    <3> QED BY <2>2, LeastIs
  <2> HIDE DEF best, newest
  <2> QED BY <1>1, <2>1, <2>3
<1>3. ReturnBestDupe(s, i) = s \/ (newest # 0 /\ ReturnBestDupe(s, i) = MoveToQueue(s, h, "queued"))
  BY DEF ReturnBestDupe, Redownloaded
<1>4. best \subseteq {n \in Nzbs : Usable(s.nzb, n)}
  BY <1>1, Members DEF Best, Candidates
<1> HIDE DEF best, newest
<1>5. CASE newest # 0
  <2>1. h \in Nzbs /\ s.nzb[h].step = "recent" /\ s.nzb[h].mark # "bad"
    BY <1>2, <1>4, <1>5 DEF Usable
  <2>2. h \notin M
    BY <2>1 DEF Away, Barred
  <2> HIDE DEF h
  <2>3. Listed(MoveToQueue(s, h, "queued")) /\ Away(MoveToQueue(s, h, "queued").nzb, M)
    BY <2>1, <2>2, MoveToQueueLists
  <2> QED BY <1>3, <2>3 DEF h
<1> QED BY <1>3, <1>5

LEMMA NzbCompletedLists ==
    ASSUME NEW i \in Nzbs, NEW s, Moving(s, i), NEW M, Away(s.nzb, M), i \notin M
    PROVE  Listed(NzbCompleted(s, i)) /\ Away(NzbCompleted(s, i).nzb, M)
<1> DEFINE after == AddToHistory(s, i)
<1>1. Listed(after) /\ Away(after.nzb, M)
  BY AddToHistoryLists
<1>2. NzbCompleted(s, i) \in {after, ReturnBestDupe(after, i)}
  BY DEF NzbCompleted
<1> HIDE DEF after
<1>3. Listed(ReturnBestDupe(after, i)) /\ Away(ReturnBestDupe(after, i).nzb, M)
  BY <1>1, ReturnBestDupeLists
<1> QED BY <1>1, <1>2, <1>3

(***************************************************************************)
(* A download that ends, with what it ended with.                          *)
(***************************************************************************)
LEMMA EndingMoves ==
    ASSUME NEW s, Listed(s), NEW i \in Nzbs, s.nzb[i].step \in InQueue,
           NEW z \in [Nzbs -> NzbInfo], z[i].step = s.nzb[i].step,
           \A n \in Nzbs \ {i} : z[n] = s.nzb[n], NEW M, Away(s.nzb, M)
    PROVE  Moving([s EXCEPT !.nzb = z], i) /\ Away([s EXCEPT !.nzb = z].nzb, M) /\ i \notin M
<1> DEFINE t == [s EXCEPT !.nzb = z]
<1>1. t \in State /\ t.queue = s.queue /\ t.history = s.history /\ t.nzb = z
  BY DEF Listed, HasLists, State
<1>2. Queued(z) \union {i} = Queued(s.nzb) /\ Kept(z) \ {i} = Kept(s.nzb)
  BY DEF Queued, Kept, InQueue, InHistory
<1> HIDE DEF t
<1>3. Moving(t, i)
  BY <1>1, <1>2 DEF Listed, HasLists, Moving
<1>4. i \notin M
  BY DEF Away, Barred, InQueue
<1>5. Away(z, M)
  BY <1>4 DEF Away
<1> QED BY <1>1, <1>3, <1>4, <1>5 DEF t

LEMMA InheritLists ==
    ASSUME NEW s, Listed(s), NEW n \in Nzbs, NEW M, Away(s.nzb, M)
    PROVE  /\ Listed(Inherit(s, n)) /\ Away(Inherit(s, n).nzb, M)
           /\ \A m \in Nzbs : /\ Inherit(s, n).nzb[m].step = s.nzb[m].step
                              /\ Inherit(s, n).nzb[m].del = s.nzb[m].del
<1> DEFINE known == s.queue \o s.history
           I == {k \in 1..Len(known) :
                   Attr[known[k]].name = Attr[n].name /\ (s.nzb[known[k]].key # NoKey \/ s.nzb[known[k]].score # 0)}
           from == SelectInSeq(known, LAMBDA i : Attr[i].name = Attr[n].name
                                                 /\ (s.nzb[i].key # NoKey \/ s.nzb[i].score # 0))
           m == known[from]
           z == [s.nzb EXCEPT ![n].key = s.nzb[m].key, ![n].score = s.nzb[m].score]
           t == [s EXCEPT !.nzb = z]
<1>1. /\ s.nzb \in [Nzbs -> NzbInfo] /\ s \in State
      /\ known \in Seq(Nzbs) /\ Len(known) \in Nat /\ \A k \in 1..Len(known) : known[k] \in Nzbs
  <2>1. s.nzb \in [Nzbs -> NzbInfo] /\ s \in State /\ s.queue \in Seq(Nzbs) /\ s.history \in Seq(Nzbs)
    BY DEF Listed, HasLists, State
  <2>2. known \in Seq(Nzbs)
    BY <2>1, ConcatProperties
  <2> HIDE DEF known
  <2> QED BY <2>1, <2>2
<1>2. from # 0 => m \in Nzbs
  <2>1. from = IF I # {} THEN Min(I) ELSE 0
    BY DEF SelectInSeq
  <2>2. I \in SUBSET Nat
    <3> DEFINE l == Len(known)
    <3>1. 1..l \subseteq Nat
      <4> HIDE DEF known
      <4>1. l \in Nat
        BY <1>1
      <4> HIDE DEF l
      <4> QED BY <4>1
    <3>2. I \subseteq 1..l
      OBVIOUS
    <3> HIDE DEF l, I
    <3> QED BY <3>1, <3>2
  <2>3. I # {} => Min(I) \in I
    <3> HIDE DEF I
    <3> QED BY <2>2, LeastIs
  <2> HIDE DEF from, known
  <2> QED BY <1>1, <2>1, <2>3
<1>3. Inherit(s, n) = s \/ (from # 0 /\ Inherit(s, n) = t)
  <2>1. [s EXCEPT !.nzb[n].key = s.nzb[m].key, !.nzb[n].score = s.nzb[m].score] = t
    BY <1>1 DEF State
  <2>2. Inherit(s, n) \in {s, [s EXCEPT !.nzb[n].key = s.nzb[m].key, !.nzb[n].score = s.nzb[m].score]}
        /\ (from = 0 => Inherit(s, n) = s)
    BY DEF Inherit
  <2> HIDE DEF from, t
  <2> QED BY <2>1, <2>2
<1> HIDE DEF from, known
<1>4. CASE from # 0
  <2>1. z \in [Nzbs -> NzbInfo] /\ \A k \in Nzbs : /\ z[k].step = s.nzb[k].step /\ z[k].del = s.nzb[k].del
                                                  /\ z[k].mark = s.nzb[k].mark
    <3>1. s.nzb[n] \in NzbInfo /\ s.nzb[m] \in NzbInfo
      BY <1>1, <1>2, <1>4
    <3> HIDE DEF m
    <3> DEFINE info == [s.nzb[n] EXCEPT !.key = s.nzb[m].key, !.score = s.nzb[m].score]
    <3>2. /\ info \in NzbInfo /\ info.step = s.nzb[n].step /\ info.del = s.nzb[n].del
          /\ info.mark = s.nzb[n].mark
      BY <3>1 DEF NzbInfo
    <3>3. z = [s.nzb EXCEPT ![n] = info]
      BY <1>1
    <3> HIDE DEF info, z
    <3> QED BY <1>1, <3>2, <3>3
  <2> HIDE DEF z
  <2>2. Listed(t) /\ t.nzb = z
    BY <2>1, SameLists
  <2>3. Away(z, M)
    BY <2>1 DEF Away, Barred
  <2> HIDE DEF t
  <2> QED BY <1>3, <1>4, <2>1, <2>2, <2>3
<1> HIDE DEF t
<1> QED BY <1>3, <1>4

LEMMA DemoteLists ==
    ASSUME NEW s, Listed(s), NEW R \in SUBSET ToSet(s.queue), NEW active \in SUBSET R,
           NEW healthy \in BOOLEAN, NEW M, Away(s.nzb, M)
    PROVE  LET t == Demote(s, R, active, healthy)
           IN  Listed(t) /\ Away(t.nzb, M) /\ \A n \in Nzbs \ R : t.nzb[n] = s.nzb[n]
<1> DEFINE left == R \ active
           z == [q \in Nzbs |->
                   CASE q \in left   -> [s.nzb[q] EXCEPT !.del = "dupe", !.step = "recent", !.healthy = healthy]
                     [] q \in active -> [s.nzb[q] EXCEPT !.del = "dupe", !.step = "deleting"]
                     [] OTHER        -> s.nzb[q]]
           q == Selected(s.queue, ToSet(s.queue) \ left)
           r == Reverse(Selected(s.queue, left))
           t == Demote(s, R, active, healthy)
<1>1. /\ s.nzb \in [Nzbs -> NzbInfo] /\ ToSet(s.queue) = Queued(s.nzb) /\ R \subseteq Queued(s.nzb)
      /\ Lists(s.queue, Nzbs, Queued(s.nzb)) /\ Lists(s.history, Nzbs, Kept(s.nzb))
  BY DEF Listed, HasLists, State, Lists
<1>2. ASSUME NEW n \in Nzbs
      PROVE  /\ z[n] \in NzbInfo
             /\ n \in left => z[n].step = "recent"
             /\ n \in active => z[n].step = "deleting"
             /\ n \notin R => z[n] = s.nzb[n]
  <2>1. s.nzb[n] \in NzbInfo
    BY <1>1
  <2>2. CASE n \in left
    <3>1. z[n] = [s.nzb[n] EXCEPT !.del = "dupe", !.step = "recent", !.healthy = healthy]
      BY <2>2
    <3> QED BY <2>1, <2>2, <3>1 DEF NzbInfo, InHistory
  <2>3. CASE n \in active
    <3>1. z[n] = [s.nzb[n] EXCEPT !.del = "dupe", !.step = "deleting"]
      BY <2>3
    <3> QED BY <2>1, <2>3, <3>1 DEF NzbInfo, InQueue
  <2>4. CASE n \notin R
    <3>1. z[n] = s.nzb[n]
      BY <2>4
    <3> QED BY <2>1, <2>4, <3>1
  <2> QED BY <2>2, <2>3, <2>4
<1>3. z \in [Nzbs -> NzbInfo]
  <2>1. DOMAIN z = Nzbs /\ z = [n \in Nzbs |-> z[n]]
    OBVIOUS
  <2> HIDE DEF z
  <2> QED BY <1>2, <2>1
<1>4. t = [queue |-> q, history |-> r \o s.history, nzb |-> z]
  BY DEF Demote
<1> HIDE DEF z, q, r, t
<1>5. /\ Queued(z) = Queued(s.nzb) \cap (ToSet(s.queue) \ left)
      /\ Kept(z) = left \union Kept(s.nzb) /\ left \cap Kept(s.nzb) = {}
      /\ Queued(s.nzb) \cap left = left
  BY <1>1, <1>2 DEF Queued, Kept, InQueue, InHistory
<1> DEFINE K == Kept(s.nzb)
           Q == Queued(s.nzb)
<1> HIDE DEF left, K, Q
<1>6. Lists(q, Nzbs, Queued(z))
  BY <1>1, <1>5, SelectedLists DEF q
<1>7. Lists(r, Nzbs, left)
  <2> DEFINE p == Selected(s.queue, left)
  <2>1. Lists(p, Nzbs, left)
    BY <1>1, <1>5, SelectedLists
  <2> HIDE DEF p
  <2>2. Lists(Reverse(p), Nzbs, left)
    BY <2>1, ReversedLists
  <2> QED BY <2>2 DEF p, r
<1>8. Lists(r \o s.history, Nzbs, Kept(z))
  <2>1. Lists(s.history, Nzbs, K) /\ left \cap K = {}
    BY <1>1, <1>5 DEF K
  <2>2. Lists(r \o s.history, Nzbs, left \union K)
    BY <1>7, <2>1, JoinedLists
  <2> QED BY <1>5, <2>2 DEF K
<1>9. Listed(t) /\ t.nzb = z
  <2> DEFINE h == r \o s.history
  <2>1. t = [queue |-> q, history |-> h, nzb |-> z] /\ Lists(h, Nzbs, Kept(z))
    BY <1>4, <1>8
  <2> HIDE DEF h
  <2> QED BY <1>3, <1>6, <2>1, StateIs DEF Listed, HasLists, Lists
<1>10. Away(z, M)
  <2>1. ASSUME NEW n \in M PROVE n \in Nzbs /\ n \notin R /\ Barred(s.nzb[n])
    BY <1>1 DEF Away, Barred, Queued, InQueue
  <2> QED BY <1>2, <2>1 DEF Away
<1> QED BY <1>2, <1>9, <1>10 DEF t

LEMMA VerdictIs ==
    ASSUME NEW s, NEW n \in Nzbs,
           s.nzb[n].del \in {"none", "manual", "dupe", "copy", "good", "health", "bad", "scan"}
    PROVE  Verdict(s, n) \in {"none", "manual", "dupe", "copy", "good", "health", "bad", "scan"}
BY ZenonT(30) DEF Verdict

(***************************************************************************)
(* A new nzb-file is queued, left out or put into the history.             *)
(***************************************************************************)
LEMMA AddedLists ==
    ASSUME NEW s, Listed(s), NEW n \in Nzbs, s.nzb[n].step = "out", NEW first \in BOOLEAN,
           NEW verdict \in {"none", "manual", "dupe", "copy", "good", "health", "bad", "scan"},
           NEW M, Away(s.nzb, M)
    PROVE  Listed(Added(s, n, first, verdict)) /\ Away(Added(s, n, first, verdict).nzb, M)
<1> DEFINE a == Added(s, n, first, verdict)
           Q == Queued(s.nzb)
           front == <<n>> \o s.queue
           back == Append(s.queue, n)
<1>1. /\ s \in State /\ s.nzb \in [Nzbs -> NzbInfo] /\ s.queue \in Seq(Nzbs)
      /\ Lists(s.queue, Nzbs, Q) /\ Lists(s.history, Nzbs, Kept(s.nzb))
  BY DEF Listed, HasLists, State
<1>2. n \notin M /\ n \notin Q /\ n \notin Kept(s.nzb)
  BY DEF Away, Barred, Queued, Kept, InQueue, InHistory
<1>3. Lists(front, Nzbs, Q \union {n}) /\ Lists(back, Nzbs, Q \union {n})
  <2> HIDE DEF Q
  <2>1. Lists(<<n>>, Nzbs, {n}) /\ {n} \cap Q = {} /\ Q \cap {n} = {}
    BY <1>2, SingleLists
  <2>2. Lists(front, Nzbs, {n} \union Q)
    BY <1>1, <2>1, JoinedLists
  <2>3. Lists(s.queue \o <<n>>, Nzbs, Q \union {n})
    BY <1>1, <2>1, JoinedLists
  <2>4. back = s.queue \o <<n>>
    BY <1>1, AppendIsConcat
  <2>5. {n} \union Q = Q \union {n}
    OBVIOUS
  <2> HIDE DEF front, back
  <2> QED BY <2>2, <2>3, <2>4, <2>5
<1>4. CASE verdict = "none"
  <2> DEFINE z == [s.nzb EXCEPT ![n].step = "queued"]
             q == IF first THEN front ELSE back
             t == [queue |-> q, history |-> s.history, nzb |-> z]
  <2>1. a = t
    <3>1. a = [s EXCEPT !.nzb[n].step = "queued", !.queue = q]
      BY <1>4 DEF Added
    <3> HIDE DEF a, q
    <3> QED BY <1>1, <3>1 DEF State
  <2>2. z \in [Nzbs -> NzbInfo] /\ z[n].step = "queued" /\ \A m \in Nzbs \ {n} : z[m] = s.nzb[m]
    <3> DEFINE info == [s.nzb[n] EXCEPT !.step = "queued"]
    <3>1. s.nzb[n] \in NzbInfo
      BY <1>1
    <3>2. info \in NzbInfo /\ info.step = "queued"
      BY <3>1 DEF NzbInfo, InQueue
    <3>3. z = [s.nzb EXCEPT ![n] = info]
      OBVIOUS
    <3> HIDE DEF info, z, t
    <3> QED BY <1>1, <3>2, <3>3, ChangedInfo
  <2> HIDE DEF z
  <2>3. Queued(z) = Q \union {n} /\ Kept(z) = Kept(s.nzb)
    BY <1>2, <2>2 DEF Queued, Kept, InQueue, InHistory
  <2>4. Lists(q, Nzbs, Queued(z)) /\ Lists(s.history, Nzbs, Kept(z))
    <3> HIDE DEF Q, front, back
    <3> QED BY <1>1, <1>3, <2>3
  <2> HIDE DEF q
  <2>5. Listed(t) /\ t.nzb = z
    BY <2>2, <2>4, StateIs DEF Listed, HasLists, Lists
  <2>6. Away(z, M)
    BY <1>2, <2>2 DEF Away
  <2> HIDE DEF a, t
  <2> QED BY <2>1, <2>5, <2>6 DEF a
<1>5. CASE verdict = "manual"
  <2>1. a = Gone(s, n)
    BY <1>5 DEF Added
  <2> HIDE DEF a
  <2> QED BY <2>1, GoneLists DEF a
<1>6. CASE verdict \notin {"none", "manual"}
  <2> DEFINE z == [s.nzb EXCEPT ![n].del = verdict]
             t == [queue |-> front, history |-> s.history, nzb |-> z]
  <2>1. a = NzbCompleted(t, n)
    <3>1. a = NzbCompleted([s EXCEPT !.nzb[n].del = verdict, !.queue = front], n)
      BY <1>6 DEF Added
    <3>2. [s EXCEPT !.nzb[n].del = verdict, !.queue = front] = t
      <4> DEFINE u == [s EXCEPT !.nzb[n].del = verdict]
      <4>1. u = [queue |-> s.queue, history |-> s.history, nzb |-> z]
        <5>1. u = [s EXCEPT !.nzb = z]
          BY DEF State
        <5>2. s \in State
          BY <1>1
        <5> HIDE DEF u, z, a, t, front, back, Q
        <5> QED BY <5>1, <5>2 DEF State
      <4>2. [s EXCEPT !.nzb[n].del = verdict, !.queue = front] = [u EXCEPT !.queue = front]
        OBVIOUS
      <4> HIDE DEF front, u, z
      <4> QED BY <4>1, <4>2
    <3> HIDE DEF a, t
    <3> QED BY <3>1, <3>2
  <2>2. z \in [Nzbs -> NzbInfo] /\ z[n].step = "out" /\ \A m \in Nzbs \ {n} : z[m] = s.nzb[m]
    <3> DEFINE info == [s.nzb[n] EXCEPT !.del = verdict]
    <3>1. s.nzb[n] \in NzbInfo
      BY <1>1
    <3>2. info \in NzbInfo /\ info.step = "out"
      BY <3>1 DEF NzbInfo
    <3>3. z = [s.nzb EXCEPT ![n] = info]
      OBVIOUS
    <3> HIDE DEF info, z, t
    <3> QED BY <1>1, <3>2, <3>3, ChangedInfo
  <2> HIDE DEF z
  <2>3. Queued(z) = Q /\ Kept(z) \ {n} = Kept(s.nzb)
    BY <1>2, <2>2 DEF Queued, Kept, InQueue, InHistory
  <2>4. Lists(front, Nzbs, Queued(z) \union {n}) /\ Lists(s.history, Nzbs, Kept(z) \ {n})
    <3> HIDE DEF Q, front
    <3> QED BY <1>1, <1>3, <2>3
  <2> HIDE DEF front
  <2>5. Moving(t, n) /\ t.nzb = z
    BY <2>2, <2>4, StateIs DEF Moving, HasLists, Lists
  <2>6. Away(z, M)
    BY <1>2, <2>2 DEF Away
  <2> HIDE DEF a, t
  <2>7. Listed(NzbCompleted(t, n)) /\ Away(NzbCompleted(t, n).nzb, M)
    BY <1>2, <2>5, <2>6, NzbCompletedLists
  <2> QED BY <2>1, <2>7 DEF a
<1> QED BY <1>4, <1>5, <1>6

(***************************************************************************)
(* Marking as bad: what is marked does not come back for another one.      *)
(***************************************************************************)
LEMMA PrepareEditLists ==
    ASSUME NEW s, Listed(s), NEW ids \in SUBSET ToSet(s.history), NEW M, Away(s.nzb, M)
    PROVE  LET t == PrepareEdit(s, ids)
           IN  Listed(t) /\ Away(t.nzb, M \union ids) /\ t.history = s.history
<1> DEFINE z == [n \in Nzbs |-> IF n \in ids /\ s.nzb[n].step = "recent" THEN [s.nzb[n] EXCEPT !.mark = "bad"]
                                                                          ELSE s.nzb[n]]
           t == PrepareEdit(s, ids)
<1>1. /\ s.nzb \in [Nzbs -> NzbInfo] /\ s \in State /\ ToSet(s.history) = Kept(s.nzb)
  BY DEF Listed, HasLists, State, Lists
<1>2. t = [s EXCEPT !.nzb = z]
  BY <1>1 DEF PrepareEdit, State
<1>3. t.history = s.history
  BY <1>1, <1>2 DEF State
<1>4. ASSUME NEW n \in Nzbs
      PROVE  /\ z[n] \in NzbInfo /\ z[n].step = s.nzb[n].step
             /\ n \notin ids => z[n] = s.nzb[n]
             /\ n \in ids /\ s.nzb[n].step = "recent" => z[n].mark = "bad"
             /\ s.nzb[n].mark = "bad" => z[n].mark = "bad"
  <2>1. s.nzb[n] \in NzbInfo
    BY <1>1
  <2>2. CASE n \in ids /\ s.nzb[n].step = "recent"
    <3>1. z[n] = [s.nzb[n] EXCEPT !.mark = "bad"]
      BY <2>2
    <3> HIDE DEF z
    <3> QED BY <2>1, <2>2, <3>1 DEF NzbInfo
  <2>3. CASE ~(n \in ids /\ s.nzb[n].step = "recent")
    <3>1. z[n] = s.nzb[n]
      BY <2>3
    <3> HIDE DEF z
    <3> QED BY <2>1, <2>3, <3>1
  <2> QED BY <2>2, <2>3
<1>5. z \in [Nzbs -> NzbInfo]
  <2>1. DOMAIN z = Nzbs /\ z = [n \in Nzbs |-> z[n]]
    OBVIOUS
  <2> HIDE DEF z
  <2> QED BY <1>4, <2>1
<1> HIDE DEF z, t
<1>6. Listed(t) /\ t.nzb = z
  BY <1>2, <1>4, <1>5, SameLists
<1>7. ASSUME NEW n \in M \union ids PROVE n \in Nzbs /\ Barred(z[n])
  <2>1. CASE n \in ids
    BY <1>1, <1>4, <2>1 DEF Kept, InHistory, Barred
  <2>2. CASE n \in M
    BY <1>4, <2>2 DEF Away, Barred
  <2> QED BY <2>1, <2>2
<1> QED BY <1>3, <1>6, <1>7 DEF Away, t

LEMMA MarkBadLists ==
    ASSUME NEW s, Listed(s), NEW i \in Nzbs, NEW M, Away(s.nzb, M)
    PROVE  Listed(MarkBad(s, i)) /\ Away(MarkBad(s, i).nzb, M)
<1> DEFINE z == IF s.nzb[i].step = "hidden" THEN [s.nzb EXCEPT ![i].dup = "bad"]
                                            ELSE [s.nzb EXCEPT ![i].mark = "bad"]
           marked == [s EXCEPT !.nzb = z]
<1>1. s.nzb \in [Nzbs -> NzbInfo] /\ s \in State
  BY DEF Listed, HasLists, State
<1>2. MarkBad(s, i) \in {s, marked, ReturnBestDupe(marked, i)}
  <2> DEFINE m == IF s.nzb[i].step = "hidden" THEN [s EXCEPT !.nzb[i].dup = "bad"]
                                              ELSE [s EXCEPT !.nzb[i].mark = "bad"]
  <2>1. MarkBad(s, i) \in {s, m, ReturnBestDupe(m, i)}
    BY DEF MarkBad
  <2>2. m = marked
    BY <1>1 DEF State
  <2> HIDE DEF m, marked
  <2> QED BY <2>1, <2>2
<1>3. /\ z \in [Nzbs -> NzbInfo]
      /\ \A n \in Nzbs : z[n].step = s.nzb[n].step /\ (s.nzb[n].mark = "bad" => z[n].mark = "bad")
  <2> DEFINE info == IF s.nzb[i].step = "hidden" THEN [s.nzb[i] EXCEPT !.dup = "bad"]
                                                 ELSE [s.nzb[i] EXCEPT !.mark = "bad"]
  <2>1. s.nzb[i] \in NzbInfo
    BY <1>1
  <2>2. info \in NzbInfo /\ info.step = s.nzb[i].step /\ (s.nzb[i].mark = "bad" => info.mark = "bad")
    BY <2>1 DEF NzbInfo
  <2>3. z = [s.nzb EXCEPT ![i] = info]
    OBVIOUS
  <2> HIDE DEF info, z
  <2> QED BY <1>1, <2>2, <2>3, ChangedInfo
<1> HIDE DEF z
<1>4. Listed(marked) /\ marked.nzb = z
  BY <1>3, SameLists
<1>5. Away(z, M)
  BY <1>3 DEF Away, Barred
<1> HIDE DEF marked
<1>6. Listed(ReturnBestDupe(marked, i)) /\ Away(ReturnBestDupe(marked, i).nzb, M)
  BY <1>4, <1>5, ReturnBestDupeLists
<1> QED BY <1>2, <1>4, <1>5, <1>6

(***************************************************************************)
(* Only queued nzb-files are replaced by a new one.                        *)
(***************************************************************************)
LEMMA ReplacedQueued ==
    ASSUME NEW s \in State, NEW n \in Nzbs
    PROVE  Replaced(s, n) \subseteq ToSet(s.queue)
<1> DEFINE I == {k \in 1..Len(s.queue) : AsGood(s, n, s.queue[k])}
           stop == SelectInSeq(s.queue, LAMBDA q : AsGood(s, n, q))
           before == IF stop = 0 THEN s.queue ELSE SubSeq(s.queue, 1, stop - 1)
<1>1. s.queue \in Seq(Nzbs) /\ Len(s.queue) \in Nat
  BY DEF State
<1>2. stop \in 0..Len(s.queue)
  <2>1. stop = IF I # {} THEN Min(I) ELSE 0
    BY DEF SelectInSeq
  <2>2. I \in SUBSET Nat
    BY <1>1
  <2>3. I # {} => Min(I) \in I
    <3> HIDE DEF I
    <3> QED BY <2>2, LeastIs
  <2> HIDE DEF stop
  <2> QED BY <1>1, <2>1, <2>3
<1>3. Replaced(s, n) \subseteq ToSet(before)
  BY DEF Replaced
<1> HIDE DEF stop
<1>4. ToSet(before) \subseteq ToSet(s.queue)
  <2>1. CASE stop # 0
    <3> DEFINE q == s.queue
               k == stop - 1
    <3>1. /\ q \in Seq(Nzbs) /\ k \in Int /\ k <= Len(q) /\ Len(q) \in Nat
          /\ \A i \in 1..k : i \in 1..Len(q) /\ q[i] \in ToSet(q)
      BY <1>1, <1>2, <2>1, Members
    <3> HIDE DEF q, k
    <3>2. /\ SubSeq(q, 1, k) \in Seq(ToSet(q)) /\ \A i \in 1..(k - 1 + 1) : SubSeq(q, 1, k)[i] = q[1 + i - 1]
      BY <3>1, SubSeqProperties
    <3>3. ToSet(SubSeq(q, 1, k)) \subseteq ToSet(q)
      BY <3>2, Members
    <3> QED BY <2>1, <3>3 DEF q, k
  <2> QED BY <2>1
<1> QED BY <1>3, <1>4

-----------------------------------------------------------------------------
(* The invariant. *)

Inv ==
  /\ Listed(Now) /\ Away(nzb, markedBad)
  /\ events \in 0..MaxEvents
  /\ byUser \in SUBSET Nzbs /\ waived \in SUBSET Nzbs /\ markedBad \in SUBSET Nzbs

LEMMA InitInv == Init => Inv
<1> SUFFICES ASSUME Init PROVE Inv
  OBVIOUS
<1>1. ASSUME NEW n \in Nzbs PROVE nzb[n] \in NzbInfo /\ nzb[n].step = "out"
  <2>1. nzb[n] = NewNzb(n)
    BY DEF Init
  <2>2. Attr[n].score \in Int
    BY DupeOptions
  <2> QED BY <2>1, <2>2 DEF NewNzb, NzbInfo
<1>2. nzb \in [Nzbs -> NzbInfo]
  <2>1. nzb = [n \in Nzbs |-> NewNzb(n)]
    BY DEF Init
  <2>2. DOMAIN nzb = Nzbs /\ nzb = [n \in Nzbs |-> nzb[n]]
    BY <2>1
  <2> QED BY <1>1, <2>2
<1>3. Lists(<<>>, Nzbs, {})
  BY DEF Lists, Once, ToSet
<1>4. Queued(nzb) = {} /\ Kept(nzb) = {}
  BY <1>1 DEF Queued, Kept, InQueue, InHistory
<1>5. queue = <<>> /\ history = <<>> /\ events = 0 /\ byUser = {} /\ waived = {} /\ markedBad = {}
  BY DEF Init
<1>6. Listed(Now)
  <2>1. Now = [queue |-> <<>>, history |-> <<>>, nzb |-> nzb]
    BY <1>5 DEF Now
  <2>2. [queue |-> <<>>, history |-> <<>>, nzb |-> nzb] \in State
    BY <1>2, <1>3, StateIs DEF Lists
  <2> QED BY <1>3, <1>4, <2>1, <2>2 DEF Listed, HasLists
<1>7. Away(nzb, markedBad)
  BY <1>5 DEF Away
<1>8. events \in 0..MaxEvents
  BY <1>5, DupeOptions
<1> QED BY <1>5, <1>6, <1>7, <1>8 DEF Inv

LEMMA NowIs ==
    Inv => /\ Listed(Now) /\ Away(Now.nzb, markedBad) /\ Now \in State
           /\ Now.queue = queue /\ Now.history = history /\ Now.nzb = nzb
           /\ nzb \in [Nzbs -> NzbInfo] /\ queue \in Seq(Nzbs) /\ history \in Seq(Nzbs)
           /\ ToSet(queue) = Queued(nzb) /\ ToSet(history) = Kept(nzb)
<1> SUFFICES ASSUME Inv
             PROVE  /\ Listed(Now) /\ Away(Now.nzb, markedBad) /\ Now \in State
                    /\ Now.queue = queue /\ Now.history = history /\ Now.nzb = nzb
                    /\ nzb \in [Nzbs -> NzbInfo] /\ queue \in Seq(Nzbs) /\ history \in Seq(Nzbs)
                    /\ ToSet(queue) = Queued(nzb) /\ ToSet(history) = Kept(nzb)
  OBVIOUS
<1>1. Now.queue = queue /\ Now.history = history /\ Now.nzb = nzb
  BY DEF Now
<1>2. Listed(Now) /\ Now \in State /\ Away(Now.nzb, markedBad)
  BY <1>1 DEF Inv, Listed, HasLists
<1>3. Now.nzb \in [Nzbs -> NzbInfo] /\ Now.queue \in Seq(Nzbs) /\ Now.history \in Seq(Nzbs)
  BY <1>2 DEF State
<1>4. ToSet(Now.queue) = Queued(Now.nzb) /\ ToSet(Now.history) = Kept(Now.nzb)
  BY <1>2 DEF Listed, HasLists, Lists
<1> QED BY <1>1, <1>2, <1>3, <1>4

(***************************************************************************)
(* An action gives the lists a new state t.                                *)
(***************************************************************************)
LEMMA BecomeInv ==
    ASSUME Inv, \E t : Listed(t) /\ Away(t.nzb, markedBad') /\ Become(t),
           events' \in 0..MaxEvents,
           byUser' \in SUBSET Nzbs, waived' \in SUBSET Nzbs, markedBad' \in SUBSET Nzbs
    PROVE  Inv'
<1>1. PICK t : Listed(t) /\ Away(t.nzb, markedBad') /\ Become(t)
  OBVIOUS
<1>2. Now' = t
  <2>1. t \in State
    BY <1>1 DEF Listed, HasLists
  <2>2. t = [queue |-> t.queue, history |-> t.history, nzb |-> t.nzb]
    BY <2>1 DEF State
  <2> QED BY <1>1, <2>2 DEF Now, Become
<1>3. Listed(Now)' /\ Away(nzb, markedBad)'
  BY <1>1, <1>2 DEF Become
<1> QED BY <1>3 DEF Inv

LEMMA AddNzbInv ==
    ASSUME Inv, NEW n \in Nzbs, AddNzb(n)
    PROVE  Inv'
<1>1. PICK content \in Attr[n].contents \union {0}, first \in BOOLEAN, healthy \in BOOLEAN :
        LET read == [Now EXCEPT !.nzb[n].content = content, !.nzb[n].readable = content # 0,
                                !.nzb[n].del = IF content = 0 THEN "scan" ELSE "none"]
            found == IF Attr[n].mode = "force" \/ CopyQueued(read, n) THEN read ELSE Inherit(read, n)
            replaced == Replaced(found, n)
            leaving == {q \in replaced : nzb[q].step = "deleting"}
        IN  \E active \in SUBSET replaced :
              /\ leaving \subseteq active
              /\ replaced \subseteq active => healthy
              /\ Become(Added(Demote(found, replaced, active, healthy), n, first, Verdict(found, n)))
  BY DEF AddNzb
<1> DEFINE del == IF content = 0 THEN "scan" ELSE "none"
           readable == content # 0
           read == [Now EXCEPT !.nzb[n].content = content, !.nzb[n].readable = readable, !.nzb[n].del = del]
           found == IF Attr[n].mode = "force" \/ CopyQueued(read, n) THEN read ELSE Inherit(read, n)
           replaced == Replaced(found, n)
           verdict == Verdict(found, n)
           Statuses == {"none", "manual", "dupe", "copy", "good", "health", "bad", "scan"}
<1>2. PICK active \in SUBSET replaced : Become(Added(Demote(found, replaced, active, healthy), n, first, verdict))
  BY <1>1
<1>3. nzb[n].step = "out" /\ UNCHANGED <<events, byUser, waived, markedBad>>
  BY DEF AddNzb
<1>4. Listed(read) /\ Away(read.nzb, markedBad) /\ read.nzb[n].step = "out" /\ read.nzb[n].del \in Statuses
  <2> DEFINE info == [nzb[n] EXCEPT !.content = content, !.readable = readable, !.del = del]
             z == [nzb EXCEPT ![n] = info]
  <2>1. nzb[n] \in NzbInfo /\ content \in Nat /\ readable \in BOOLEAN /\ del \in Statuses
    BY NowIs, DupeOptions
  <2>2. info \in NzbInfo /\ info.step = "out" /\ info.del \in Statuses
    <3>1. info.step = "out" /\ info.del = del
      BY <1>3, <2>1 DEF NzbInfo
    <3>2. info \in NzbInfo
      <4> HIDE DEF del, readable
      <4> QED BY <2>1 DEF NzbInfo
    <3> QED BY <2>1, <3>1, <3>2
  <2>3. read = [Now EXCEPT !.nzb = z]
    <3> HIDE DEF del, readable
    <3> QED BY NowIs DEF Now
  <2> HIDE DEF info, read, del, readable
  <2>4. /\ z \in [Nzbs -> NzbInfo] /\ z[n] = info
        /\ \A m \in Nzbs \ {n} : z[m] = nzb[m]
    BY <2>2, NowIs, ChangedInfo
  <2> HIDE DEF z
  <2>5. \A m \in Nzbs : z[m].step = nzb[m].step
    BY <1>3, <2>2, <2>4
  <2>6. Listed(read) /\ read.nzb = z
    BY <2>3, <2>4, <2>5, NowIs, SameLists
  <2>7. Away(z, markedBad)
    <3>1. n \notin markedBad
      BY <1>3 DEF Inv, Away, Barred
    <3> QED BY <2>4, <3>1 DEF Inv, Away
  <2> QED BY <2>2, <2>4, <2>6, <2>7
<1> HIDE DEF read
<1>5. Listed(found) /\ Away(found.nzb, markedBad) /\ found.nzb[n].step = "out" /\ found.nzb[n].del \in Statuses
  BY <1>4, InheritLists
<1> HIDE DEF found
<1>6. verdict \in Statuses
  BY <1>5, VerdictIs
<1>7. replaced \subseteq ToSet(found.queue) /\ n \notin replaced
  <2>1. found \in State /\ ToSet(found.queue) = Queued(found.nzb)
    BY <1>5 DEF Listed, HasLists, Lists
  <2>2. n \notin Queued(found.nzb)
    BY <1>5 DEF Queued, InQueue
  <2> QED BY <2>1, <2>2, ReplacedQueued
<1> HIDE DEF replaced, verdict, Statuses
<1> DEFINE demoted == Demote(found, replaced, active, healthy)
           added == Added(demoted, n, first, verdict)
<1>8. Listed(demoted) /\ Away(demoted.nzb, markedBad) /\ demoted.nzb[n].step = "out"
  <2>1. replaced \in SUBSET ToSet(found.queue) /\ active \in SUBSET replaced /\ n \in Nzbs \ replaced
    BY <1>2, <1>7
  <2>2. Listed(found) /\ Away(found.nzb, markedBad)
    BY <1>5
  <2>3. /\ Listed(demoted) /\ Away(demoted.nzb, markedBad)
        /\ \A m \in Nzbs \ replaced : demoted.nzb[m] = found.nzb[m]
    BY <2>1, <2>2, DemoteLists, ZenonT(30)
  <2> HIDE DEF demoted
  <2> QED BY <1>5, <2>1, <2>3
<1> HIDE DEF demoted
<1>9. Listed(added) /\ Away(added.nzb, markedBad)
  BY <1>6, <1>8, AddedLists DEF Statuses
<1>10. Become(added) /\ markedBad' = markedBad
  BY <1>2, <1>3 DEF demoted
<1> HIDE DEF added
<1>11. \E t : Listed(t) /\ Away(t.nzb, markedBad') /\ Become(t)
  BY <1>9, <1>10
<1> QED BY <1>3, <1>11, BecomeInv DEF Inv

(***************************************************************************)
(* A download ends with other attributes, in whatever way.                 *)
(***************************************************************************)
LEMMA EndedInv ==
    ASSUME Inv, NEW i \in Nzbs, nzb[i].step \in InQueue, NEW info \in NzbInfo, info.step = nzb[i].step
    PROVE  LET s == [Now EXCEPT !.nzb = [nzb EXCEPT ![i] = info]]
           IN  Listed(NzbCompleted(s, i)) /\ Away(NzbCompleted(s, i).nzb, markedBad)
<1> DEFINE z == [nzb EXCEPT ![i] = info]
           s == [Now EXCEPT !.nzb = z]
<1>1. z \in [Nzbs -> NzbInfo] /\ z[i] = info /\ \A n \in Nzbs \ {i} : z[n] = nzb[n]
  BY NowIs, ChangedInfo
<1> HIDE DEF z
<1>2. Moving(s, i) /\ Away(s.nzb, markedBad) /\ i \notin markedBad
  BY <1>1, NowIs, EndingMoves
<1> HIDE DEF s
<1>3. Listed(NzbCompleted(s, i)) /\ Away(NzbCompleted(s, i).nzb, markedBad)
  BY <1>2, NzbCompletedLists
<1> QED BY <1>3 DEF s, z

LEMMA JobCompletedInv ==
    ASSUME Inv, NEW i \in Nzbs, JobCompleted(i)
    PROVE  Inv'
<1>1. PICK result \in {"success", "failure"} : Become(NzbCompleted([Now EXCEPT !.nzb[i].result = result], i))
  BY DEF JobCompleted
<1> DEFINE info == [nzb[i] EXCEPT !.result = result]
           s == [Now EXCEPT !.nzb = [nzb EXCEPT ![i] = info]]
           t == NzbCompleted(s, i)
<1>2. info \in NzbInfo /\ info.step = nzb[i].step
  <2>1. nzb[i] \in NzbInfo
    BY NowIs
  <2> QED BY <2>1 DEF NzbInfo
<1>3. s = [Now EXCEPT !.nzb[i].result = result]
  BY DEF Now
<1>4. /\ nzb[i].step \in InQueue /\ UNCHANGED <<events, waived, markedBad>>
      /\ byUser' = IF i \in byUser THEN byUser \union (ToSet(queue') \ ToSet(queue)) ELSE byUser
  BY DEF JobCompleted, InQueue
<1> HIDE DEF info
<1>5. Listed(t) /\ Away(t.nzb, markedBad)
  BY <1>2, <1>4, EndedInv
<1>6. Become(t)
  BY <1>1, <1>3
<1> HIDE DEF s, t
<1>7. ToSet(queue') \subseteq Nzbs
  <2>1. t.queue \in Seq(Nzbs)
    BY <1>5 DEF Listed, HasLists, Lists
  <2> QED BY <1>6, <2>1, Members DEF Become
<1>8. byUser' \in SUBSET Nzbs
  BY <1>4, <1>7 DEF Inv
<1>9. \E u : Listed(u) /\ Away(u.nzb, markedBad') /\ Become(u)
  BY <1>4, <1>5, <1>6
<1> QED BY <1>4, <1>8, <1>9, BecomeInv DEF Inv

LEMMA BackupsKnown == ASSUME Inv, NEW i \in Nzbs PROVE Backups(i) \subseteq Nzbs
BY NowIs, Members DEF Backups

LEMMA DeletionEndsInv ==
    ASSUME Inv, NEW i \in Nzbs, DeletionEnds(i)
    PROVE  Inv'
<1> DEFINE del == IF nzb[i].del = "none" THEN "manual" ELSE nzb[i].del
           info == [nzb[i] EXCEPT !.del = del]
           s == [Now EXCEPT !.nzb = [nzb EXCEPT ![i] = info]]
           t == NzbCompleted(s, i)
<1>1. info \in NzbInfo /\ info.step = nzb[i].step
  <2>1. nzb[i] \in NzbInfo
    BY NowIs
  <2> QED BY <2>1 DEF NzbInfo
<1>2. s = [Now EXCEPT !.nzb[i].del = IF @ = "none" THEN "manual" ELSE @]
  BY DEF Now
<1>3. /\ nzb[i].step \in InQueue /\ UNCHANGED <<events, byUser, markedBad>>
      /\ waived' = waived \union {i} \union Backups(i)
      /\ Become(t)
  <2>1. Become(NzbCompleted([Now EXCEPT !.nzb[i].del = IF @ = "none" THEN "manual" ELSE @], i))
    BY DEF DeletionEnds
  <2> HIDE DEF s
  <2>2. Become(t)
    BY <1>2, <2>1
  <2> QED BY <2>2 DEF DeletionEnds, InQueue
<1> HIDE DEF info
<1>4. Listed(t) /\ Away(t.nzb, markedBad)
  BY <1>1, <1>3, EndedInv
<1> HIDE DEF t
<1>5. \E u : Listed(u) /\ Away(u.nzb, markedBad') /\ Become(u)
  BY <1>3, <1>4
<1> QED BY <1>3, <1>5, BackupsKnown, BecomeInv DEF Inv

LEMMA EventCounted == ASSUME Inv, Event PROVE events' \in 0..MaxEvents
BY DupeOptions DEF Inv, Event

LEMMA DownloadedInv ==
    ASSUME Inv, NEW i \in Nzbs, Downloaded(i)
    PROVE  Inv'
<1>1. PICK end \in {"none", "health", "bad"} :
        nzb' = [nzb EXCEPT ![i].step = "post", ![i].del = end, ![i].mark = IF end = "bad" THEN "bad" ELSE @]
  BY DEF Downloaded
<1>2. nzb[i].step = "queued" /\ UNCHANGED <<queue, history, events, byUser, waived, markedBad>>
  BY DEF Downloaded
<1> DEFINE mark == IF end = "bad" THEN "bad" ELSE nzb[i].mark
           info == [nzb[i] EXCEPT !.step = "post", !.del = end, !.mark = mark]
           z == [nzb EXCEPT ![i] = info]
           s == [Now EXCEPT !.nzb = z]
<1>3. info \in NzbInfo /\ info.step = "post"
  <2>1. nzb[i] \in NzbInfo
    BY NowIs
  <2>2. mark \in {"none", "bad", "good", "success"}
    BY <2>1 DEF NzbInfo
  <2> HIDE DEF mark
  <2> DEFINE first == [nzb[i] EXCEPT !.step = "post", !.del = end]
  <2>3. first \in NzbInfo /\ first.step = "post"
    BY <2>1 DEF NzbInfo, InQueue
  <2>4. info = [first EXCEPT !.mark = mark]
    OBVIOUS
  <2> HIDE DEF first, info
  <2> QED BY <2>2, <2>3, <2>4 DEF NzbInfo
<1>4. nzb' = z
  <2>1. nzb \in [Nzbs -> NzbInfo]
    BY NowIs
  <2> QED BY <1>1, <2>1
<1> HIDE DEF info
<1>5. z \in [Nzbs -> NzbInfo] /\ z[i].step = "post" /\ \A n \in Nzbs \ {i} : z[n] = nzb[n]
  BY <1>3, NowIs, ChangedInfo
<1> HIDE DEF z
<1>6. \A n \in Nzbs : /\ z[n].step \in InQueue <=> nzb[n].step \in InQueue
                      /\ z[n].step \in InHistory <=> nzb[n].step \in InHistory
  BY <1>2, <1>5 DEF InQueue, InHistory
<1>7. Listed(s) /\ s.nzb = z
  BY <1>5, <1>6, NowIs, SameLists
<1>8. Become(s)
  BY <1>2, <1>4 DEF Become, Now
<1> HIDE DEF s
<1>9. Away(z, markedBad)
  <2>1. i \notin markedBad
    BY <1>2 DEF Inv, Away, Barred
  <2> QED BY <1>5, <2>1 DEF Inv, Away
<1>10. \E t : Listed(t) /\ Away(t.nzb, markedBad') /\ Become(t)
  BY <1>2, <1>7, <1>8, <1>9
<1> QED BY <1>2, <1>10, BecomeInv DEF Inv

LEMMA DeleteGroupInv ==
    ASSUME Inv, NEW i \in Nzbs, DeleteGroup(i)
    PROVE  Inv'
<1>1. /\ Event /\ nzb[i].step = "queued" /\ nzb[i].step \in InQueue
      /\ waived' = waived \union {i} \union Backups(i) /\ UNCHANGED <<byUser, markedBad>>
  BY DEF DeleteGroup, InQueue
<1>2. nzb[i] \in NzbInfo
  BY NowIs
<1>3. \E t : Listed(t) /\ Away(t.nzb, markedBad) /\ Become(t)
  <2>1. ASSUME NEW del \in {"manual", "dupe"}, Become(NzbCompleted([Now EXCEPT !.nzb[i].del = del], i))
        PROVE  \E t : Listed(t) /\ Away(t.nzb, markedBad) /\ Become(t)
    <3> DEFINE info == [nzb[i] EXCEPT !.del = del]
               s == [Now EXCEPT !.nzb = [nzb EXCEPT ![i] = info]]
               t == NzbCompleted(s, i)
    <3>1. info \in NzbInfo /\ info.step = nzb[i].step
      BY <1>2 DEF NzbInfo
    <3>2. s = [Now EXCEPT !.nzb[i].del = del]
      BY DEF Now
    <3> HIDE DEF info
    <3>3. Listed(t) /\ Away(t.nzb, markedBad)
      BY <1>1, <3>1, EndedInv
    <3> HIDE DEF s
    <3>4. Become(t)
      BY <2>1, <3>2
    <3> QED BY <3>3, <3>4
  <2>2. ASSUME Become(Gone(Now, i))
        PROVE  \E t : Listed(t) /\ Away(t.nzb, markedBad) /\ Become(t)
    <3> DEFINE t == Gone(Now, i)
    <3>1. Listed(t) /\ Away(t.nzb, markedBad)
      BY NowIs, GoneLists
    <3> HIDE DEF t
    <3> QED BY <2>2, <3>1 DEF t
  <2>3. ASSUME NEW del \in {"none", "dupe"}, Become([Now EXCEPT !.nzb[i].step = "deleting", !.nzb[i].del = del])
        PROVE  \E t : Listed(t) /\ Away(t.nzb, markedBad) /\ Become(t)
    <3> DEFINE info == [nzb[i] EXCEPT !.step = "deleting", !.del = del]
               z == [nzb EXCEPT ![i] = info]
               t == [Now EXCEPT !.nzb = z]
    <3>1. info \in NzbInfo /\ info.step = "deleting"
      BY <1>2 DEF NzbInfo, InQueue
    <3>2. t = [Now EXCEPT !.nzb[i].step = "deleting", !.nzb[i].del = del]
      <4>1. nzb \in [Nzbs -> NzbInfo]
        BY NowIs
      <4> QED BY <4>1 DEF Now
    <3> HIDE DEF info
    <3>3. z \in [Nzbs -> NzbInfo] /\ z[i].step = "deleting" /\ \A n \in Nzbs \ {i} : z[n] = nzb[n]
      BY <3>1, NowIs, ChangedInfo
    <3> HIDE DEF z
    <3>4. \A n \in Nzbs : /\ z[n].step \in InQueue <=> nzb[n].step \in InQueue
                          /\ z[n].step \in InHistory <=> nzb[n].step \in InHistory
      BY <1>1, <3>3 DEF InQueue, InHistory
    <3>5. Listed(t) /\ t.nzb = z
      BY <3>3, <3>4, NowIs, SameLists
    <3>6. Away(z, markedBad)
      <4>1. i \notin markedBad
        BY <1>1 DEF Inv, Away, Barred
      <4> QED BY <3>3, <4>1 DEF Inv, Away
    <3> HIDE DEF t
    <3> QED BY <2>3, <3>2, <3>5, <3>6
  <2>4. \/ \E del \in {"manual", "dupe"} : Become(NzbCompleted([Now EXCEPT !.nzb[i].del = del], i))
        \/ Become(Gone(Now, i))
        \/ \E del \in {"none", "dupe"} : Become([Now EXCEPT !.nzb[i].step = "deleting", !.nzb[i].del = del])
    BY DEF DeleteGroup
  <2> QED BY <2>1, <2>2, <2>3, <2>4
<1>4. \E t : Listed(t) /\ Away(t.nzb, markedBad') /\ Become(t)
  BY <1>1, <1>3
<1> QED BY <1>1, <1>4, EventCounted, BackupsKnown, BecomeInv DEF Inv

(***************************************************************************)
(* Marking as good or successful takes the mark of a bad one away.         *)
(***************************************************************************)
LEMMA HistoryMarkInv ==
    ASSUME Inv, NEW i \in Nzbs, NEW mark \in {"good", "success"}, HistoryMark(i, mark)
    PROVE  Inv'
<1> DEFINE info == IF nzb[i].step = "hidden" THEN [nzb[i] EXCEPT !.dup = mark] ELSE [nzb[i] EXCEPT !.mark = mark]
           z == [nzb EXCEPT ![i] = info]
           marked == [Now EXCEPT !.nzb = z]
           dupes == {h \in ToSet(history) \ {i} : /\ nzb[h].step = "recent" /\ nzb[h].del = "dupe"
                                                  /\ Duplicates(nzb, i, h)}
           t == IF mark = "good" /\ Attr[i].mode # "force" THEN HistoryHide(marked, dupes) ELSE marked
<1>1. /\ Event /\ nzb[i].step \in InHistory /\ markedBad' = markedBad \ {i} /\ UNCHANGED <<byUser, waived>>
  BY DEF HistoryMark
<1>2. Become(t)
  <2> DEFINE m == IF nzb[i].step = "hidden" THEN [Now EXCEPT !.nzb[i].dup = mark] ELSE [Now EXCEPT !.nzb[i].mark = mark]
  <2>1. m = marked
    BY DEF Now
  <2>2. Become(IF mark = "good" /\ Attr[i].mode # "force" THEN HistoryHide(m, dupes) ELSE m)
    BY DEF HistoryMark
  <2> HIDE DEF m, marked, dupes
  <2> QED BY <2>1, <2>2
<1>3. info \in NzbInfo /\ info.step = nzb[i].step
  <2>1. nzb[i] \in NzbInfo
    BY NowIs
  <2> QED BY <2>1 DEF NzbInfo
<1> HIDE DEF info
<1>4. z \in [Nzbs -> NzbInfo] /\ z[i].step = nzb[i].step /\ \A n \in Nzbs \ {i} : z[n] = nzb[n]
  BY <1>3, NowIs, ChangedInfo
<1> HIDE DEF z
<1>5. \A n \in Nzbs : z[n].step = nzb[n].step
  BY <1>4
<1>6. Listed(marked) /\ marked.nzb = z
  BY <1>4, <1>5, NowIs, SameLists
<1>7. Away(z, markedBad')
  BY <1>1, <1>4 DEF Inv, Away
<1>8. \A h \in dupes : h \in Nzbs /\ z[h].step = "recent"
  BY <1>5, NowIs, Members
<1> HIDE DEF marked, dupes
<1>9. Listed(HistoryHide(marked, dupes)) /\ Away(HistoryHide(marked, dupes).nzb, markedBad')
  BY <1>6, <1>7, <1>8, HistoryHideLists
<1>10. \E u : Listed(u) /\ Away(u.nzb, markedBad') /\ Become(u)
  <2>1. t \in {HistoryHide(marked, dupes), marked}
    OBVIOUS
  <2>2. Listed(t) /\ Away(t.nzb, markedBad')
    <3> HIDE DEF t
    <3> QED BY <1>6, <1>7, <1>9, <2>1
  <2> HIDE DEF t
  <2> QED BY <1>2, <2>2
<1> QED BY <1>1, <1>10, EventCounted, BecomeInv DEF Inv

(***************************************************************************)
(* One or two are marked as bad, all of them before any other comes back.  *)
(***************************************************************************)
LEMMA SourceLostInv ==
    ASSUME Inv, NEW i \in Nzbs, SourceLost(i)
    PROVE  Inv'
<1> DEFINE info == [nzb[i] EXCEPT !.readable = FALSE]
           z == [nzb EXCEPT ![i] = info]
           s == [Now EXCEPT !.nzb = z]
<1>1. /\ Event /\ nzb' = [nzb EXCEPT ![i].readable = FALSE]
      /\ UNCHANGED <<queue, history, byUser, waived, markedBad>>
  BY DEF SourceLost
<1>2. nzb \in [Nzbs -> NzbInfo] /\ nzb[i] \in NzbInfo
  BY NowIs
<1>3. info \in NzbInfo /\ info.step = nzb[i].step /\ info.mark = nzb[i].mark
  BY <1>2 DEF NzbInfo
<1>4. nzb' = z
  BY <1>1, <1>2
<1> HIDE DEF info
<1>5. z \in [Nzbs -> NzbInfo] /\ z[i] = info /\ \A n \in Nzbs \ {i} : z[n] = nzb[n]
  BY <1>2, <1>3, ChangedInfo
<1> HIDE DEF z
<1>6. \A n \in Nzbs : z[n].step = nzb[n].step /\ z[n].mark = nzb[n].mark
  BY <1>3, <1>5
<1>7. Listed(s) /\ s.nzb = z
  BY <1>5, <1>6, NowIs, SameLists
<1>8. Become(s)
  BY <1>1, <1>4 DEF Become, Now
<1> HIDE DEF s
<1>9. Away(z, markedBad)
  BY <1>6 DEF Inv, Away, Barred
<1>10. \E t : Listed(t) /\ Away(t.nzb, markedBad') /\ Become(t)
  BY <1>1, <1>7, <1>8, <1>9
<1> QED BY <1>1, <1>10, EventCounted, BecomeInv DEF Inv

LEMMA HistoryMarkBadInv ==
    ASSUME Inv, NEW i \in Nzbs, NEW j \in Nzbs, HistoryMarkBad(i, j)
    PROVE  Inv'
<1> DEFINE prepared == PrepareEdit(Now, {i, j})
           one == MarkBad(prepared, i)
           two == MarkBad(one, j)
           t == IF i = j THEN one ELSE two
<1>1. /\ Event /\ {i, j} \subseteq ToSet(history) /\ Become(t)
      /\ markedBad' = markedBad \union {i, j} /\ UNCHANGED <<byUser, waived>>
  BY DEF HistoryMarkBad
<1>2. Listed(prepared) /\ Away(prepared.nzb, markedBad')
  <2>1. {i, j} \in SUBSET ToSet(Now.history)
    BY <1>1, NowIs
  <2> QED BY <1>1, <2>1, NowIs, PrepareEditLists
<1> HIDE DEF prepared
<1>3. Listed(one) /\ Away(one.nzb, markedBad')
  BY <1>2, MarkBadLists
<1> HIDE DEF one
<1>4. Listed(two) /\ Away(two.nzb, markedBad')
  BY <1>3, MarkBadLists
<1> HIDE DEF two
<1>5. \E u : Listed(u) /\ Away(u.nzb, markedBad') /\ Become(u)
  <2>1. Listed(t) /\ Away(t.nzb, markedBad')
    BY <1>3, <1>4
  <2> HIDE DEF t
  <2> QED BY <1>1, <2>1
<1>6. markedBad' \in SUBSET Nzbs
  BY <1>1 DEF Inv
<1> QED BY <1>1, <1>5, <1>6, EventCounted, BecomeInv DEF Inv

LEMMA HistoryDeleteInv ==
    ASSUME Inv, NEW i \in Nzbs, HistoryDelete(i)
    PROVE  Inv'
<1>1. Event /\ UNCHANGED <<byUser, markedBad>>
  BY DEF HistoryDelete
<1>2. CASE Become(Gone(Now, i)) /\ waived' = waived \union Backups(i)
  <2> DEFINE t == Gone(Now, i)
  <2>1. Listed(t) /\ Away(t.nzb, markedBad)
    BY NowIs, GoneLists
  <2> HIDE DEF t
  <2>2. \E u : Listed(u) /\ Away(u.nzb, markedBad') /\ Become(u)
    BY <1>1, <1>2, <2>1 DEF t
  <2> QED BY <1>1, <1>2, <2>2, BackupsKnown, EventCounted, BecomeInv DEF Inv
<1>3. CASE nzb[i].step = "recent" /\ Become(HistoryHide(Now, {i})) /\ waived' = waived
  <2> DEFINE t == HistoryHide(Now, {i})
  <2>1. Listed(t) /\ Away(t.nzb, markedBad)
    <3>1. \A n \in {i} : n \in Nzbs /\ Now.nzb[n].step = "recent"
      BY <1>3, NowIs
    <3> QED BY <3>1, NowIs, HistoryHideLists
  <2> HIDE DEF t
  <2>2. \E u : Listed(u) /\ Away(u.nzb, markedBad') /\ Become(u)
    BY <1>1, <1>3, <2>1 DEF t
  <2> QED BY <1>1, <1>3, <2>2, EventCounted, BecomeInv DEF Inv
<1> QED BY <1>2, <1>3 DEF HistoryDelete

(***************************************************************************)
(* A user takes back what no longer counts as marked.                      *)
(***************************************************************************)
LEMMA ReturnedInv ==
    ASSUME Inv, NEW i \in Nzbs, NEW step \in {"queued", "post"},
           ReturnedByUser(i), Become(MoveToQueue(Now, i, step))
    PROVE  Inv'
<1> DEFINE t == MoveToQueue(Now, i, step)
<1>1. /\ Event /\ nzb[i].step = "recent" /\ byUser' = byUser \union {i}
      /\ markedBad' = markedBad \ {i} /\ UNCHANGED waived
  BY DEF ReturnedByUser
<1>2. Listed(t) /\ Away(t.nzb, markedBad')
  <2>1. Away(Now.nzb, markedBad') /\ i \notin markedBad'
    BY <1>1, NowIs DEF Away
  <2> QED BY <1>1, <2>1, NowIs, MoveToQueueLists
<1> HIDE DEF t
<1>3. \E u : Listed(u) /\ Away(u.nzb, markedBad') /\ Become(u)
  BY <1>2 DEF t
<1> QED BY <1>1, <1>3, EventCounted, BecomeInv DEF Inv

LEMMA ServiceWorkInv ==
    ASSUME Inv, ServiceWork
    PROVE  Inv'
<1>1. Event /\ UNCHANGED <<byUser, waived, markedBad>>
  BY DEF ServiceWork
<1>2. PICK k \in DOMAIN history :
        Become(HistoryHide(Now, {h \in ToSet(SubSeq(history, k, Len(history))) : nzb[h].step = "recent"}))
  BY DEF ServiceWork
<1> DEFINE old == {h \in ToSet(SubSeq(history, k, Len(history))) : nzb[h].step = "recent"}
           t == HistoryHide(Now, old)
<1>3. ToSet(SubSeq(history, k, Len(history))) \subseteq Nzbs
  <2>1. /\ k \in Int /\ Len(history) \in Int /\ \A i \in k..Len(history) : history[i] \in Nzbs
    BY NowIs
  <2>2. SubSeq(history, k, Len(history)) \in Seq(Nzbs)
    BY <2>1, SubSeqProperties
  <2> QED BY <2>2, Members
<1>4. \A n \in old : n \in Nzbs /\ Now.nzb[n].step = "recent"
  BY <1>3, NowIs
<1> HIDE DEF old
<1>5. Listed(t) /\ Away(t.nzb, markedBad)
  BY <1>4, NowIs, HistoryHideLists
<1> HIDE DEF t
<1>6. \E u : Listed(u) /\ Away(u.nzb, markedBad') /\ Become(u)
  BY <1>1, <1>2, <1>5 DEF t, old
<1> QED BY <1>1, <1>6, EventCounted, BecomeInv DEF Inv

-----------------------------------------------------------------------------
(* The theorems. *)

LEMMA NextInv == Inv /\ [Next]_vars => Inv'
<1> SUFFICES ASSUME Inv, [Next]_vars PROVE Inv'
  OBVIOUS
<1>1. ASSUME NEW n \in Nzbs, AddNzb(n) PROVE Inv'
  BY <1>1, AddNzbInv
<1>2. ASSUME NEW i \in Nzbs, Downloaded(i) PROVE Inv'
  BY <1>2, DownloadedInv
<1>3. ASSUME NEW i \in Nzbs, JobCompleted(i) PROVE Inv'
  BY <1>3, JobCompletedInv
<1>4. ASSUME NEW i \in Nzbs, DeletionEnds(i) PROVE Inv'
  BY <1>4, DeletionEndsInv
<1>5. ASSUME NEW i \in Nzbs, DeleteGroup(i) PROVE Inv'
  BY <1>5, DeleteGroupInv
<1>6. ASSUME NEW i \in Nzbs, HistoryDelete(i) PROVE Inv'
  BY <1>6, HistoryDeleteInv
<1>7. ASSUME NEW i \in Nzbs, HistoryRedownload(i) PROVE Inv'
  BY <1>7, ReturnedInv DEF HistoryRedownload, Redownloaded, Now
<1>8. ASSUME NEW i \in Nzbs, NEW reprocess \in BOOLEAN, HistoryRetry(i, reprocess) PROVE Inv'
  <2>1. CASE reprocess
    BY <1>8, <2>1, ReturnedInv DEF HistoryRetry
  <2>2. CASE ~reprocess
    BY <1>8, <2>2, ReturnedInv DEF HistoryRetry
  <2> QED BY <2>1, <2>2
<1>9. ASSUME NEW i \in Nzbs, NEW mark \in {"good", "success"}, HistoryMark(i, mark) PROVE Inv'
  BY <1>9, HistoryMarkInv
<1>10. ASSUME NEW i \in Nzbs, NEW j \in Nzbs, HistoryMarkBad(i, j) PROVE Inv'
  BY <1>10, HistoryMarkBadInv
<1>11. CASE ServiceWork
  BY <1>11, ServiceWorkInv
<1>12. ASSUME NEW i \in Nzbs, SourceLost(i) PROVE Inv'
  BY <1>12, SourceLostInv
<1>13. CASE UNCHANGED vars
  <2>1. Now' = Now
    BY <1>13 DEF Now, vars
  <2> QED BY <1>13, <2>1 DEF Inv, vars
<1> QED
  BY <1>1, <1>2, <1>3, <1>4, <1>5, <1>6, <1>7, <1>8, <1>9, <1>10, <1>11, <1>12, <1>13 DEF Next

LEMMA AlwaysInv == Spec => []Inv
BY InitInv, NextInv, PTL DEF Spec

(***************************************************************************)
(* Every nzb-file is in the queue, in the history or in neither, and once, *)
(* whichever chain of returns, replacements and deletions moved it.        *)
(***************************************************************************)
THEOREM DupeTypeCorrect == Spec => []TypeOK
<1>1. Inv => TypeOK
  <2> SUFFICES ASSUME Inv PROVE TypeOK
    OBVIOUS
  <2>1. /\ nzb \in [Nzbs -> NzbInfo] /\ queue \in Seq(Nzbs) /\ history \in Seq(Nzbs)
        /\ ToSet(queue) = Queued(nzb) /\ ToSet(history) = Kept(nzb)
    BY NowIs
  <2>2. Lists(queue, Nzbs, ToSet(queue)) /\ Lists(history, Nzbs, ToSet(history))
    <3>1. Listed(Now) /\ Now.queue = queue /\ Now.history = history
      BY NowIs
    <3> QED BY <3>1 DEF Listed, HasLists, Lists
  <2>3. Len(queue) = Cardinality(ToSet(queue)) /\ Len(history) = Cardinality(ToSet(history))
    BY <2>2, ListedLength
  <2> QED BY <2>1, <2>3 DEF TypeOK, Inv, Queued, Kept
<1> QED BY <1>1, AlwaysInv, PTL

(***************************************************************************)
(* What a user marked as bad does not return to the queue, not even as the *)
(* backup of another entry marked with the same command: only a user's     *)
(* download again, retry or other mark ends that.                          *)
(***************************************************************************)
THEOREM DupeMarkedBad == Spec => []MarkedBadStaysAway
<1>1. Inv => MarkedBadStaysAway
  <2> SUFFICES ASSUME Inv PROVE MarkedBadStaysAway
    OBVIOUS
  <2>1. ToSet(queue) = Queued(nzb)
    BY NowIs
  <2> QED BY <2>1 DEF MarkedBadStaysAway, Inv, Away, Barred, Queued, InQueue
<1> QED BY <1>1, AlwaysInv, PTL

===============================================================================

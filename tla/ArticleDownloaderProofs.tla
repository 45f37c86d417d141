----------------------- MODULE ArticleDownloaderProofs -----------------------
(***************************************************************************)
(* Proofs about the pool and the download threads, for any servers,        *)
(* connections, threads and editors: type correctness, the ownership of    *)
(* connections and the soundness of the counters m_levels.                 *)
(***************************************************************************)
EXTENDS ArticleDownloader, FiniteSetTheorems, TLAPS

-----------------------------------------------------------------------------
(* The operations of the pool. *)

(***************************************************************************)
(* The levels that NormalizeLevels ranks are finitely many.                *)
(***************************************************************************)
LEMMA RankedLevelsFinite ==
    /\ IsFiniteSet(RankedLevels)
    /\ Cardinality(RankedLevels) \in Nat
    /\ \A s \in Servers : NormalizedLevel(s) \in Nat \cup {-1}
<1> DEFINE R == {t \in Servers : IsRanked(t)}
           L == [s \in R |-> Level[s]]
<1>1. IsFiniteSet(R)
  BY FS_Subset, PoolAssumption DEF PoolAssumption
<1>2. L \in Surjection(R, RankedLevels)
  BY DEF RankedLevels, Surjection
<1>3. IsFiniteSet(RankedLevels)
  BY <1>1, <1>2, FS_Surjection
<1>4. ASSUME NEW s \in Servers PROVE NormalizedLevel(s) \in Nat \cup {-1}
  <2> DEFINE B == {l \in RankedLevels : l < Level[s]}
  <2>1. IsFiniteSet(B)
    BY <1>3, FS_Subset
  <2>2. Cardinality(B) \in Nat
    BY <2>1, FS_CardinalityType
  <2> QED
    BY <2>2 DEF NormalizedLevel
<1> QED
  BY <1>3, <1>4, FS_CardinalityType

(***************************************************************************)
(* Counting connections.                                                   *)
(***************************************************************************)
LEMMA ConnectionsFinite ==
    \A S \in SUBSET Connections : IsFiniteSet(S) /\ Cardinality(S) \in Nat
  BY FS_Subset, FS_CardinalityType, PoolAssumption DEF PoolAssumption

(***************************************************************************)
(* A vector with k elements has the indices 0 .. k-1.                      *)
(***************************************************************************)
LEMMA LevelsDomain ==
    ASSUME NEW k \in Nat
    PROVE  Cardinality(0 .. (k - 1)) - 1 = k - 1
  BY FS_Interval

(***************************************************************************)
(* PoolInit and each operation establish the types of the pool.            *)
(***************************************************************************)
LEMMA PoolInitType == PoolInit => PoolTypeOK
<1> SUFFICES ASSUME PoolInit PROVE PoolTypeOK
  OBVIOUS
<1> DEFINE k == Cardinality(RankedLevels)
           N(l) == {c \in connections : normLevel[ServerOf[c]] = l}
<1>1. k \in Nat /\ \A s \in Servers : NormalizedLevel(s) \in Nat \cup {-1}
  BY RankedLevelsFinite
<1>2. connections \subseteq Connections
  BY DEF PoolInit
<1>3. \A l : Cardinality(N(l)) \in Nat
  BY <1>2, ConnectionsFinite
<1>4. levels = [l \in 0 .. (k - 1) |-> Cardinality(N(l))]
  BY DEF PoolInit
<1>5. levels \in [0 .. (k - 1) -> Int]
  <2> HIDE DEF N, k
  <2> QED BY <1>3, <1>4
<1>6. MaxNormLevel = k - 1
  <2> HIDE DEF k
  <2> QED BY <1>1, <1>5, LevelsDomain DEF MaxNormLevel
<1> QED
  BY <1>1, <1>2, <1>5, <1>6 DEF PoolInit, PoolTypeOK

LEMMA InitConnectionsType ==
    PoolTypeOK /\ InitConnections => PoolTypeOK'
<1> SUFFICES ASSUME PoolTypeOK, InitConnections PROVE PoolTypeOK'
  OBVIOUS
<1> DEFINE k == Cardinality(RankedLevels)
           N(l) == {c \in connections' : /\ active[ServerOf[c]]
                                         /\ normLevel'[ServerOf[c]] = l}
<1>1. k \in Nat /\ \A s \in Servers : NormalizedLevel(s) \in Nat \cup {-1}
  BY RankedLevelsFinite
<1>2. connections' \subseteq Connections
  BY DEF InitConnections, PoolTypeOK
<1>3. \A l : Cardinality(N(l)) \in Nat
  BY <1>2, ConnectionsFinite
<1>4. levels' = [l \in 0 .. (k - 1) |-> Cardinality(N(l))]
  BY DEF InitConnections
<1>5. levels' \in [0 .. (k - 1) -> Int]
  <2> HIDE DEF N, k
  <2> QED BY <1>3, <1>4
<1>6. MaxNormLevel' = k - 1
  <2> HIDE DEF k
  <2> QED BY <1>1, <1>5, LevelsDomain DEF MaxNormLevel
<1>7. levels' \in [0 .. MaxNormLevel' -> Int]
  BY <1>5, <1>6
<1>8. normLevel' \in [Servers -> Nat \cup {-1}]
  BY <1>1 DEF InitConnections
<1>9. /\ generation' \in Nat /\ blocked' = {}
      /\ UNCHANGED <<active, inUse, connected>>
  BY DEF InitConnections, PoolTypeOK
<1> QED
  BY <1>2, <1>7, <1>8, <1>9 DEF PoolTypeOK

(***************************************************************************)
(* Counting up or down at any index keeps a function into the integers.    *)
(***************************************************************************)
LEMMA CountAt ==
    ASSUME NEW S, NEW f \in [S -> Int], NEW i, NEW step \in Int
    PROVE  [f EXCEPT ![i] = @ + step] \in [S -> Int]
<1>1. CASE i \in S
  BY <1>1
<1>2. CASE i \notin S
  <2>1. [f EXCEPT ![i] = @ + step] = f
    BY <1>2
  <2> QED BY <2>1
<1> QED BY <1>1, <1>2

(***************************************************************************)
(* GetConnection hands out a connection that is free, or none; only the    *)
(* level of the connection counts one less.                                *)
(***************************************************************************)
LEMMA GetConnectionResult ==
    ASSUME PoolTypeOK, NEW from, NEW want, NEW ignore, NEW c,
           GetConnection(from, want, ignore, c)
    PROVE  /\ UNCHANGED <<active, normLevel, generation, connections, connected>>
           /\ blocked' \subseteq blocked
           /\ \/ c = NoConnection /\ UNCHANGED <<inUse, levels>>
              \/ /\ c \in connections \ inUse
                 /\ active[ServerOf[c]]
                 /\ inUse' = inUse \cup {c}
                 /\ levels' = [levels EXCEPT ![normLevel[ServerOf[c]]] = @ - 1]
<1>1. /\ UNCHANGED <<active, normLevel, generation, connections, connected>>
      /\ blocked' \subseteq blocked
  BY DEF GetConnection
<1>2. CASE c = NoConnection /\ UNCHANGED <<inUse, levels>>
  BY <1>1, <1>2
<1>3. CASE \E l : /\ c \in Candidates(l, want, ignore)
                  /\ inUse' = inUse \cup {c}
                  /\ levels' = [levels EXCEPT ![l] = @ - 1]
  <2> PICK l : /\ c \in Candidates(l, want, ignore)
               /\ inUse' = inUse \cup {c}
               /\ levels' = [levels EXCEPT ![l] = @ - 1]
    BY <1>3
  <2>1. /\ c \in connections \ inUse /\ active[ServerOf[c]]
        /\ normLevel[ServerOf[c]] = l
    BY DEF Candidates, IsSuitable
  <2> QED
    BY <1>1, <2>1
<1> QED
  BY <1>2, <1>3 DEF GetConnection

LEMMA GetConnectionType ==
    ASSUME PoolTypeOK, NEW from, NEW want, NEW ignore, NEW c,
           GetConnection(from, want, ignore, c)
    PROVE  PoolTypeOK' /\ c \in Connections \cup {NoConnection}
<1>1. CASE c = NoConnection /\ UNCHANGED <<inUse, levels>>
  BY <1>1, GetConnectionResult DEF PoolTypeOK, MaxNormLevel
<1>2. CASE /\ c \in connections \ inUse
           /\ inUse' = inUse \cup {c}
           /\ levels' = [levels EXCEPT ![normLevel[ServerOf[c]]] = @ - 1]
  <2> DEFINE i == normLevel[ServerOf[c]]
  <2>0. levels \in [DOMAIN levels -> Int]
    BY DEF PoolTypeOK
  <2>1. levels' \in [DOMAIN levels -> Int]
    <3> HIDE DEF i
    <3>1. [levels EXCEPT ![i] = @ + (-1)] \in [DOMAIN levels -> Int]
      BY <2>0, CountAt
    <3>2. [levels EXCEPT ![i] = @ + (-1)] = [levels EXCEPT ![i] = @ - 1]
      BY <2>0
    <3> QED BY <1>2, <3>1, <3>2 DEF i
  <2>2. MaxNormLevel' = MaxNormLevel
    BY <2>1 DEF MaxNormLevel
  <2>3. levels' \in [0 .. MaxNormLevel' -> Int]
    BY <2>1, <2>2 DEF PoolTypeOK
  <2> QED
    BY <1>2, <2>3, GetConnectionResult DEF PoolTypeOK
<1> QED
  BY <1>1, <1>2, GetConnectionResult

LEMMA FreeConnectionType ==
    ASSUME PoolTypeOK, NEW c, NEW keep, FreeConnection(c, keep)
    PROVE  PoolTypeOK'
<1>0. levels \in [DOMAIN levels -> Int]
  BY DEF PoolTypeOK
<1>1. levels' \in [DOMAIN levels -> Int]
  BY <1>0, CountAt DEF FreeConnection
<1>2. MaxNormLevel' = MaxNormLevel
  BY <1>1 DEF MaxNormLevel
<1>3. levels' \in [0 .. MaxNormLevel' -> Int]
  BY <1>1, <1>2 DEF PoolTypeOK
<1> QED
  BY <1>3 DEF PoolTypeOK, FreeConnection

LEMMA CloseUnusedConnectionsType ==
    ASSUME PoolTypeOK, NEW overdue, CloseUnusedConnections(overdue)
    PROVE  PoolTypeOK'
  BY DEF PoolTypeOK, CloseUnusedConnections, MaxNormLevel

LEMMA BlockServerType ==
    ASSUME PoolTypeOK, NEW s \in Servers, BlockServer(s)
    PROVE  PoolTypeOK'
  BY DEF PoolTypeOK, BlockServer, MaxNormLevel

LEMMA UnchangedPoolType ==
    PoolTypeOK /\ UNCHANGED poolVars => PoolTypeOK'
  BY DEF PoolTypeOK, poolVars, MaxNormLevel

LEMMA ReleaseConnectionType ==
    ASSUME TypeOK, NEW d \in Downloaders, NEW keep, ReleaseConnection(d, keep)
    PROVE  /\ PoolTypeOK'
           /\ held' = [held EXCEPT ![d] = NoConnection]
<1>1. CASE held[d] = NoConnection
  <2>1. UNCHANGED poolVars /\ held' = held
    BY <1>1 DEF ReleaseConnection
  <2>2. held' = [held EXCEPT ![d] = NoConnection]
    BY <1>1, <2>1 DEF TypeOK, DownloaderTypeOK
  <2> QED
    BY <2>1, <2>2, UnchangedPoolType DEF TypeOK
<1>2. CASE held[d] # NoConnection
  <2>1. /\ FreeConnection(held[d], keep /\ ~dl[d].stopped)
        /\ held' = [held EXCEPT ![d] = NoConnection]
    BY <1>2 DEF ReleaseConnection
  <2> QED
    BY <2>1, FreeConnectionType DEF TypeOK
<1> QED
  BY <1>1, <1>2

-----------------------------------------------------------------------------
(* Types and local consistency of the threads. *)

LocalInv == TypeOK /\ AttemptConsistent

(***************************************************************************)
(* A step of one thread keeps the invariant if its own record is well      *)
(* typed and consistent afterwards.                                        *)
(***************************************************************************)
LEMMA OneThreadStep ==
    ASSUME LocalInv, NEW d \in Downloaders, PoolTypeOK',
           dl' = [dl EXCEPT ![d] = dl'[d]], dl'[d] \in RunState,
           held' = [held EXCEPT ![d] = held'[d]],
           held'[d] \in Connections \cup {NoConnection},
           Consistent(dl'[d], held'[d]),
           UNCHANGED envVars
    PROVE  LocalInv'
<1>1. dl' \in [Downloaders -> RunState]
  BY DEF LocalInv, TypeOK, DownloaderTypeOK
<1>2. held' \in [Downloaders -> Connections \cup {NoConnection}]
  BY DEF LocalInv, TypeOK, DownloaderTypeOK
<1>3. TypeOK'
  BY <1>1, <1>2 DEF LocalInv, TypeOK, DownloaderTypeOK, envVars
<1>4. ASSUME NEW e \in Downloaders PROVE Consistent(dl'[e], held'[e])
  <2>1. CASE e = d
    BY <2>1
  <2>2. CASE e # d
    <3>1. dl'[e] = dl[e] /\ held'[e] = held[e]
      BY <2>2 DEF LocalInv, TypeOK, DownloaderTypeOK
    <3> QED
      BY <3>1 DEF LocalInv, AttemptConsistent
  <2> QED BY <2>1, <2>2
<1> QED
  BY <1>3, <1>4 DEF LocalInv, AttemptConsistent

LEMMA RecordOf ==
    ASSUME LocalInv, NEW d \in Downloaders
    PROVE  /\ dl[d] \in RunState /\ dl \in [Downloaders -> RunState]
           /\ held[d] \in Connections \cup {NoConnection}
           /\ held \in [Downloaders -> Connections \cup {NoConnection}]
           /\ Consistent(dl[d], held[d])
           /\ PoolTypeOK
  BY DEF LocalInv, TypeOK, DownloaderTypeOK, AttemptConsistent

LEMMA FreshRecord ==
    /\ Fresh \in RunState
    /\ \A h : Consistent([Fresh EXCEPT !.pc = "started"], h)
    /\ [Fresh EXCEPT !.pc = "started"] \in RunState
    /\ Consistent(Fresh, NoConnection)
<1> DEFINE r == [Fresh EXCEPT !.pc = "started"]
<1>0. ArticleRetries \in 0 .. ArticleRetries /\ ArticleRetries # 0
  BY DownloaderAssumption DEF DownloaderAssumption
<1>1. Fresh \in RunState
  BY <1>0 DEF Fresh, RunState, Locations, Statuses
<1>2. r \in RunState
  BY <1>1 DEF RunState, Locations
<1>3. r.pc = "started" /\ r.retries = ArticleRetries
  BY DEF Fresh
<1>4. ASSUME NEW h PROVE Consistent(r, h)
  BY <1>0, <1>3 DEF Consistent, Attempting, Judging
<1>5. Fresh.pc = "idle" /\ Fresh.retries = ArticleRetries
  BY DEF Fresh
<1>6. Consistent(Fresh, NoConnection)
  BY <1>0, <1>5 DEF Consistent, Attempting, Judging
<1> QED
  BY <1>1, <1>2, <1>4, <1>6

LEMMA InitLocalInv == Init => LocalInv
<1> SUFFICES ASSUME Init PROVE LocalInv
  OBVIOUS
<1>1. PoolTypeOK
  BY PoolInitType DEF Init
<1>2. DownloaderTypeOK
  BY FreshRecord DEF Init, DownloaderTypeOK
<1>3. AttemptConsistent
  BY FreshRecord DEF Init, AttemptConsistent
<1> QED
  BY <1>1, <1>2, <1>3 DEF LocalInv, TypeOK

LEMMA StartArticleDownloadLocal ==
    ASSUME LocalInv, NEW d \in Downloaders, StartArticleDownload(d)
    PROVE  LocalInv'
<1> PICK c \in Connections :
      /\ GetConnection(IF Desired[d] = NoServer THEN 0
                       ELSE normLevel[Desired[d]], Desired[d], {}, c)
      /\ held' = [held EXCEPT ![d] = c]
  BY DEF StartArticleDownload
<1>1. PoolTypeOK'
  BY RecordOf, GetConnectionType
<1>2. held'[d] = c /\ dl'[d] = [Fresh EXCEPT !.pc = "started"]
  BY RecordOf DEF StartArticleDownload
<1>3. dl' = [dl EXCEPT ![d] = dl'[d]] /\ UNCHANGED envVars
  BY <1>2 DEF StartArticleDownload
<1>4. dl'[d] \in RunState /\ Consistent(dl'[d], held'[d])
  BY <1>2, FreshRecord
<1>5. held' = [held EXCEPT ![d] = held'[d]]
  BY <1>2
<1> QED
  BY <1>1, <1>2, <1>3, <1>4, <1>5, OneThreadStep

LEMMA EnterRunLocal ==
    ASSUME LocalInv, NEW d \in Downloaders, EnterRun(d)
    PROVE  LocalInv'
<1> USE RecordOf
<1> DEFINE r == [dl[d] EXCEPT !.pc = "waiting", !.generation = generation]
<1>1. dl' = [dl EXCEPT ![d] = r] /\ dl'[d] = r
  BY DEF EnterRun
<1>2. r \in RunState
  BY ZenonT(30) DEF EnterRun, PoolTypeOK, RunState, Locations
<1>3. Consistent(r, held[d])
  BY DEF EnterRun, At, RunState, Consistent, Attempting, Judging
<1>4. PoolTypeOK'
  BY UnchangedPoolType DEF EnterRun
<1> QED
  BY <1>1, <1>2, <1>3, <1>4, OneThreadStep DEF EnterRun

LEMMA PollForConnectionLocal ==
    ASSUME LocalInv, NEW d \in Downloaders, PollForConnection(d)
    PROVE  LocalInv'
<1> USE RecordOf
<1> PICK c \in Connections \cup {NoConnection} :
      /\ GetConnection(dl[d].level, dl[d].want, dl[d].failed, c)
      /\ held' = [held EXCEPT ![d] = c]
  BY DEF PollForConnection
<1>1. PoolTypeOK'
  BY GetConnectionType
<1>2. held'[d] = c /\ dl'[d] = dl[d] /\ dl' = [dl EXCEPT ![d] = dl'[d]]
  BY DEF PollForConnection
<1>3. Consistent(dl[d], c)
  BY DEF PollForConnection, At, Consistent, Attempting
<1> QED
  BY <1>1, <1>2, <1>3, OneThreadStep DEF PollForConnection

LEMMA LeaveWaitingLocal ==
    ASSUME LocalInv, NEW d \in Downloaders, LeaveWaiting(d)
    PROVE  LocalInv'
<1> USE RecordOf
<1>1. PoolTypeOK' /\ held' = [held EXCEPT ![d] = held'[d]] /\ held'[d] = held[d]
  BY UnchangedPoolType DEF LeaveWaiting
<1>2. UNCHANGED envVars /\ At(d, "waiting")
  BY DEF LeaveWaiting
<1>3. CASE dl' = [dl EXCEPT ![d].status = "retry", ![d].pc = "finishing"]
  <2> DEFINE r == [dl[d] EXCEPT !.status = "retry", !.pc = "finishing"]
  <2>1. dl' = [dl EXCEPT ![d] = r] /\ dl'[d] = r
    BY <1>3
  <2>2. r \in RunState
    BY ZenonT(30) DEF RunState, Locations, Statuses
  <2>3. Consistent(r, held[d])
    BY <1>2 DEF At, RunState, Consistent, Attempting, Judging
  <2> QED
    BY <1>1, <1>2, <2>1, <2>2, <2>3, OneThreadStep
<1>4. CASE /\ held[d] # NoConnection
           /\ dl' = [dl EXCEPT ![d].last = ServerOf[held[d]],
                               ![d].level = normLevel[ServerOf[held[d]]],
                               ![d].status = "failed",
                               ![d].retention = ServerOf[held[d]] \in OutOfRetention,
                               ![d].pc = IF ServerOf[held[d]] \in OutOfRetention
                                         THEN "retention" ELSE "connecting"]
  <2> DEFINE s == ServerOf[held[d]]
             pc == IF s \in OutOfRetention THEN "retention" ELSE "connecting"
             r == [dl[d] EXCEPT !.last = s, !.level = normLevel[s],
                                !.status = "failed",
                                !.retention = s \in OutOfRetention, !.pc = pc]
  <2>1. dl' = [dl EXCEPT ![d] = r] /\ dl'[d] = r
    BY <1>4
  <2>2. s \in Servers /\ normLevel[s] \in Int
    BY <1>4, PoolAssumption DEF PoolAssumption, PoolTypeOK
  <2>3. r \in RunState
    <3> DEFINE out == s \in OutOfRetention
    <3>1. out \in BOOLEAN /\ pc \in Locations
      BY DEF Locations
    <3> HIDE DEF out, pc, s
    <3>2. [dl[d] EXCEPT !.last = s, !.level = normLevel[s], !.status = "failed",
                        !.retention = out, !.pc = pc] \in RunState
      BY ZenonT(30), <2>2, <3>1 DEF RunState, Statuses
    <3> QED BY <3>2 DEF out
  <2>4. Consistent(r, held[d])
    <3>1. dl[d].retries # 0
      BY <1>2 DEF At, Consistent
    <3>2. /\ r.pc \in {"retention", "connecting"}
          /\ r.last = s /\ r.retries = dl[d].retries
      BY DEF RunState
    <3> QED
      BY <1>4, <2>2, <3>1, <3>2 DEF Consistent, Attempting, Judging
  <2> QED
    BY <1>1, <1>2, <2>1, <2>3, <2>4, OneThreadStep
<1> QED
  BY <1>3, <1>4 DEF LeaveWaiting

LEMMA SkipOutOfRetentionLocal ==
    ASSUME LocalInv, NEW d \in Downloaders, SkipOutOfRetention(d)
    PROVE  LocalInv'
<1> USE RecordOf
<1> DEFINE r == [dl[d] EXCEPT !.pc = "blocking"]
<1>1. PoolTypeOK' /\ held' = [held EXCEPT ![d] = NoConnection]
  BY ReleaseConnectionType DEF SkipOutOfRetention, LocalInv
<1>2. dl' = [dl EXCEPT ![d] = r] /\ dl'[d] = r
  BY DEF SkipOutOfRetention
<1>3. r \in RunState
  BY DEF RunState, Locations
<1>4. Consistent(r, NoConnection)
  BY DEF SkipOutOfRetention, At, RunState, Consistent, Attempting, Judging
<1>5. held'[d] = NoConnection /\ held' = [held EXCEPT ![d] = held'[d]]
  BY <1>1
<1> QED
  BY <1>1, <1>2, <1>3, <1>4, <1>5, OneThreadStep DEF SkipOutOfRetention

LEMMA ConnectLocal ==
    ASSUME LocalInv, NEW d \in Downloaders, Connect(d)
    PROVE  LocalInv'
<1> USE RecordOf
<1>1. held[d] \in Connections /\ At(d, "connecting")
  BY DEF Connect, At, Consistent, Attempting
<1>2. PoolTypeOK'
  BY <1>1 DEF Connect, PoolTypeOK, MaxNormLevel
<1>3. /\ held' = [held EXCEPT ![d] = held'[d]] /\ held'[d] = held[d]
      /\ UNCHANGED envVars
  BY DEF Connect, envVars
<1>4. PICK r : /\ dl' = [dl EXCEPT ![d] = r]
               /\ \E connected0 \in BOOLEAN, pc \in {"blocking", "downloading"} :
                     r = [dl[d] EXCEPT !.connected = connected0, !.pc = pc]
  <2>1. CASE dl' = [dl EXCEPT ![d].connected = TRUE,
                              ![d].pc = IF dl[d].stopped THEN "blocking"
                                        ELSE "downloading"]
    <3> DEFINE pc == IF dl[d].stopped THEN "blocking" ELSE "downloading"
               r == [dl[d] EXCEPT !.connected = TRUE, !.pc = pc]
    <3>1. dl' = [dl EXCEPT ![d] = r]
      BY <2>1
    <3>2. pc \in {"blocking", "downloading"}
      OBVIOUS
    <3> HIDE DEF pc
    <3> QED BY <3>1, <3>2
  <2>2. CASE dl' = [dl EXCEPT ![d].pc = "blocking"]
    <3> DEFINE r == [dl[d] EXCEPT !.connected = dl[d].connected, !.pc = "blocking"]
    <3>1. dl' = [dl EXCEPT ![d] = r]
      BY <2>2 DEF RunState
    <3>2. dl[d].connected \in BOOLEAN
      BY DEF RunState
    <3> QED BY <3>1, <3>2
  <2> QED BY <2>1, <2>2 DEF Connect
<1>5. r \in RunState
  BY <1>4 DEF RunState, Locations
<1>6. Consistent(r, held[d])
  BY <1>1, <1>4 DEF At, RunState, Consistent, Attempting, Judging
<1> QED
  BY <1>2, <1>3, <1>4, <1>5, <1>6, OneThreadStep

LEMMA DownloadBreaksOffLocal ==
    ASSUME LocalInv, NEW d \in Downloaders, DownloadBreaksOff(d)
    PROVE  LocalInv'
<1> USE RecordOf
<1> PICK st \in Statuses :
      dl' = [dl EXCEPT ![d].status = st, ![d].pc = "blocking"]
  BY DEF DownloadBreaksOff, Statuses
<1> DEFINE r == [dl[d] EXCEPT !.status = st, !.pc = "blocking"]
<1>1. dl' = [dl EXCEPT ![d] = r] /\ dl'[d] = r
  OBVIOUS
<1>2. r \in RunState
  BY ZenonT(30) DEF RunState, Locations
<1>3. Consistent(r, held[d])
  BY DEF DownloadBreaksOff, At, RunState, Consistent, Attempting, Judging
<1>4. /\ PoolTypeOK' /\ UNCHANGED envVars
      /\ held' = [held EXCEPT ![d] = held'[d]] /\ held'[d] = held[d]
  BY UnchangedPoolType DEF DownloadBreaksOff
<1> QED
  BY <1>1, <1>2, <1>3, <1>4, OneThreadStep

LEMMA DownloadReceivesAllLocal ==
    ASSUME LocalInv, NEW d \in Downloaders, DownloadReceivesAll(d)
    PROVE  LocalInv'
<1> USE RecordOf
<1> PICK st \in Statuses :
      dl' = [dl EXCEPT ![d].status = st, ![d].pc = "blocking"]
  BY DEF DownloadReceivesAll, Statuses
<1> DEFINE r == [dl[d] EXCEPT !.status = st, !.pc = "blocking"]
<1>1. dl' = [dl EXCEPT ![d] = r] /\ dl'[d] = r
  OBVIOUS
<1>2. r \in RunState
  BY ZenonT(30) DEF RunState, Locations
<1>3. Consistent(r, NoConnection)
  BY DEF DownloadReceivesAll, At, RunState, Consistent, Attempting, Judging
<1>4. PoolTypeOK' /\ held' = [held EXCEPT ![d] = NoConnection]
  BY ReleaseConnectionType DEF DownloadReceivesAll, LocalInv
<1>5. held'[d] = NoConnection /\ held' = [held EXCEPT ![d] = held'[d]]
  BY <1>4
<1> QED
  BY <1>1, <1>2, <1>3, <1>4, <1>5, OneThreadStep DEF DownloadReceivesAll

(***************************************************************************)
(* A retry is taken away only from a thread that has one left, and the     *)
(* last one only by an attempt that was connected and failed.              *)
(***************************************************************************)
LEMMA AccountForAttemptLocal ==
    ASSUME LocalInv, NEW d \in Downloaders, AccountForAttempt(d)
    PROVE  LocalInv'
<1> USE RecordOf
<1> DEFINE connErr == dl[d].status = "connectError"
           conn    == dl[d].connected /\ ~connErr
           status  == IF connErr THEN "failed" ELSE dl[d].status
           blocks  == ~conn /\ held[d] # NoConnection /\ ~dl[d].stopped
           optional == blocks /\ Optional[dl[d].last]
           retries == IF CostsRetry(conn, status) THEN dl[d].retries - 1
                      ELSE dl[d].retries
           r == [dl[d] EXCEPT !.connected = conn, !.status = status,
                              !.retries = retries, !.optionalBlocked = optional,
                              !.pc = "releasing"]
<1>1. At(d, "blocking") /\ dl' = [dl EXCEPT ![d] = r] /\ dl'[d] = r
  BY ZenonT(30) DEF AccountForAttempt
<1>2. dl[d].last \in Servers /\ dl[d].retries \in 1 .. ArticleRetries
  BY <1>1 DEF At, Consistent, Judging, RunState
<1>3. conn \in BOOLEAN /\ optional \in BOOLEAN
  BY DEF RunState
<1>4. status \in Statuses
  BY DEF RunState, Statuses
<1>5. /\ retries \in 0 .. ArticleRetries
      /\ retries = 0 => conn /\ status = "failed"
  BY <1>2, DownloaderAssumption DEF CostsRetry, DownloaderAssumption
<1>6. r \in RunState /\ Consistent(r, held[d])
  <2> HIDE DEF conn, optional, status, retries
  <2>1. r \in RunState
    BY ZenonT(30), <1>3, <1>4, <1>5 DEF RunState, Locations
  <2>2. /\ r.pc = "releasing" /\ r.last = dl[d].last /\ r.retries = retries
        /\ r.connected = conn /\ r.status = status
    BY DEF RunState
  <2> QED
    BY <1>2, <1>5, <2>1, <2>2 DEF Consistent, Attempting, Judging
<1>7. PoolTypeOK'
  BY <1>2, BlockServerType, UnchangedPoolType DEF AccountForAttempt
<1>8. /\ held' = [held EXCEPT ![d] = held'[d]] /\ held'[d] = held[d]
      /\ UNCHANGED envVars
  BY DEF AccountForAttempt
<1> HIDE DEF r
<1> QED
  BY <1>1, <1>6, <1>7, <1>8, OneThreadStep

LEMMA KeepOrReleaseLocal ==
    ASSUME LocalInv, NEW d \in Downloaders, KeepOrRelease(d)
    PROVE  LocalInv'
<1> USE RecordOf
<1> DEFINE again == /\ dl[d].connected /\ dl[d].status = "failed"
                    /\ dl[d].retries > 0 /\ ~dl[d].retention
           want == IF again THEN dl[d].last ELSE NoServer
           r == [dl[d] EXCEPT !.want = want, !.pc = "deciding"]
<1>1. At(d, "releasing") /\ dl' = [dl EXCEPT ![d] = r] /\ dl'[d] = r
  BY DEF KeepOrRelease
<1>2. /\ want \in Servers \cup {NoServer}
      /\ dl[d].retries = 0 => want = NoServer
  BY DEF RunState
<1>3. r \in RunState
  <2> HIDE DEF want
  <2> QED BY ZenonT(30), <1>2 DEF RunState, Locations
<1>4. \A h : Consistent(r, h)
  <2> HIDE DEF want
  <2>1. /\ r.pc = "deciding" /\ r.last = dl[d].last /\ r.want = want
        /\ r.retries = dl[d].retries /\ r.connected = dl[d].connected
    BY DEF RunState
  <2>2. dl[d].last \in Servers /\ (dl[d].retries = 0 => dl[d].connected)
    BY <1>1 DEF At, Consistent, Judging
  <2> QED
    BY <1>2, <2>1, <2>2 DEF Consistent, Attempting, Judging
<1>5. \/ UNCHANGED <<poolVars, held>>
      \/ ReleaseConnection(d, dl[d].status \in {"finished", "notFound"})
  BY DEF KeepOrRelease
<1>6. /\ PoolTypeOK' /\ held' = [held EXCEPT ![d] = held'[d]]
      /\ held'[d] \in Connections \cup {NoConnection}
  <2>1. CASE UNCHANGED <<poolVars, held>>
    BY <2>1, UnchangedPoolType
  <2>2. CASE ReleaseConnection(d, dl[d].status \in {"finished", "notFound"})
    <3>1. PoolTypeOK' /\ held' = [held EXCEPT ![d] = NoConnection]
      BY <2>2, ReleaseConnectionType DEF LocalInv
    <3> QED BY <3>1
  <2> QED BY <1>5, <2>1, <2>2
<1> HIDE DEF r
<1> QED
  BY <1>1, <1>3, <1>4, <1>6, OneThreadStep DEF KeepOrRelease

(***************************************************************************)
(* The next iteration starts with retries: either they are reset, or the   *)
(* thread insists on a server or was not connected and has some left.      *)
(***************************************************************************)
LEMMA DecideNextLocal ==
    ASSUME LocalInv, NEW d \in Downloaders, DecideNext(d)
    PROVE  LocalInv'
<1> USE RecordOf
<1> DEFINE failed  == IF dl[d].optionalBlocked THEN dl[d].failed
                      ELSE dl[d].failed \cup {dl[d].last}
           nextTry == dl[d].want = NoServer
                      /\ (dl[d].connected \/ dl[d].retention
                            \/ dl[d].optionalBlocked)
           levelEnd == AllServersOnLevelFailed(dl[d].level, failed)
           level   == IF levelEnd THEN dl[d].level + 1 ELSE dl[d].level
           Next0(next) == [next EXCEPT !.pc = "waiting", !.last = NoServer,
                               !.connected = FALSE, !.retention = FALSE,
                               !.optionalBlocked = FALSE, !.status = "running"]
<1>1. At(d, "deciding") /\ UNCHANGED <<poolVars, held, envVars>>
  BY DEF DecideNext
<1>2. dl[d].last \in Servers /\ failed \in SUBSET Servers /\ level \in Int
  BY <1>1 DEF At, Consistent, Judging, RunState
<1>3. /\ PoolTypeOK' /\ UNCHANGED envVars
      /\ held' = [held EXCEPT ![d] = held'[d]] /\ held'[d] = held[d]
  BY <1>1, UnchangedPoolType
<1>4. ASSUME NEW st \in Statuses,
             dl' = [dl EXCEPT ![d].status = st, ![d].pc = "finishing"]
      PROVE  LocalInv'
  <2> DEFINE r == [dl[d] EXCEPT !.status = st, !.pc = "finishing"]
  <2>1. dl' = [dl EXCEPT ![d] = r] /\ dl'[d] = r
    BY <1>4
  <2>2. r \in RunState
    BY ZenonT(30) DEF RunState, Locations
  <2>3. Consistent(r, held[d])
    BY <1>1 DEF At, RunState, Consistent, Attempting, Judging
  <2> QED
    BY <1>3, <2>1, <2>2, <2>3, OneThreadStep
<1>5. CASE dl' = [dl EXCEPT ![d].failed = failed, ![d].status = "failed",
                            ![d].pc = "finishing"]
  <2> DEFINE r == [dl[d] EXCEPT !.failed = failed, !.status = "failed",
                                !.pc = "finishing"]
  <2>1. dl' = [dl EXCEPT ![d] = r] /\ dl'[d] = r
    BY <1>5
  <2>2. r \in RunState
    <3> HIDE DEF failed
    <3>1. "failed" \in Statuses /\ "finishing" \in Locations
      BY DEF Statuses, Locations
    <3> QED BY ZenonT(30), <1>2, <3>1 DEF RunState
  <2>3. Consistent(r, held[d])
    <3> HIDE DEF failed
    <3> QED BY <1>1 DEF At, RunState, Consistent, Attempting, Judging
  <2> HIDE DEF r
  <2> QED
    BY <1>3, <2>1, <2>2, <2>3, OneThreadStep
<1>6. ASSUME NEW next \in RunState, next.retries # 0,
             dl' = [dl EXCEPT ![d] = Next0(next)]
      PROVE  LocalInv'
  <2>1. dl'[d] = Next0(next)
    BY <1>6
  <2>2. Next0(next) \in RunState
    BY DEF RunState, Locations, Statuses
  <2>3. Next0(next).pc = "waiting" /\ Next0(next).retries = next.retries
    BY DEF RunState
  <2>4. Consistent(Next0(next), held[d])
    <3> HIDE DEF Next0
    <3> QED BY <1>6, <2>3 DEF Consistent, Attempting, Judging
  <2> HIDE DEF Next0
  <2> QED
    BY <1>3, <1>6, <2>1, <2>2, <2>4, OneThreadStep
<1>7. CASE /\ nextTry
           /\ dl' = [dl EXCEPT ![d] =
                Next0([dl[d] EXCEPT !.failed = failed, !.level = level,
                                    !.retries = ArticleRetries])]
  <2> DEFINE next == [dl[d] EXCEPT !.failed = failed, !.level = level,
                                   !.retries = ArticleRetries]
  <2>1. ArticleRetries \in 0 .. ArticleRetries /\ ArticleRetries # 0
    BY DownloaderAssumption DEF DownloaderAssumption
  <2>2. next \in RunState /\ next.retries # 0
    <3> HIDE DEF failed, level
    <3> QED BY ZenonT(30), <1>2, <2>1 DEF RunState
  <2> HIDE DEF next, Next0
  <2> QED BY <1>6, <1>7, <2>2 DEF next
<1>8. CASE ~nextTry /\ dl' = [dl EXCEPT ![d] = Next0(dl[d])]
  <2>1. dl[d].retries # 0
    BY <1>1, <1>8 DEF At, Consistent
  <2> HIDE DEF Next0
  <2> QED BY <1>6, <1>8, <2>1
<1> HIDE DEF failed
<1>9. \/ \E st \in Statuses :
            dl' = [dl EXCEPT ![d].status = st, ![d].pc = "finishing"]
      \/ dl' = [dl EXCEPT ![d].failed = failed, ![d].status = "failed",
                          ![d].pc = "finishing"]
      \/ /\ nextTry
         /\ dl' = [dl EXCEPT ![d] =
                Next0([dl[d] EXCEPT !.failed = failed, !.level = level,
                                    !.retries = ArticleRetries])]
      \/ ~nextTry /\ dl' = [dl EXCEPT ![d] = Next0(dl[d])]
  BY DEF DecideNext, failed, Statuses
<1> QED
  BY <1>4, <1>5, <1>7, <1>8, <1>9

LEMMA FinishRunLocal ==
    ASSUME LocalInv, NEW d \in Downloaders, FinishRun(d)
    PROVE  LocalInv'
<1> USE RecordOf
<1>1. PoolTypeOK' /\ held' = [held EXCEPT ![d] = NoConnection]
  BY ReleaseConnectionType DEF FinishRun, LocalInv
<1>2. held'[d] = NoConnection /\ held' = [held EXCEPT ![d] = held'[d]]
  BY <1>1
<1>3. dl'[d] = Fresh /\ dl' = [dl EXCEPT ![d] = dl'[d]]
  BY DEF FinishRun
<1> QED
  BY <1>1, <1>2, <1>3, FreshRecord, OneThreadStep DEF FinishRun

LEMMA StopLocal ==
    ASSUME LocalInv, NEW d \in Downloaders, Stop(d)
    PROVE  LocalInv'
<1> USE RecordOf
<1> DEFINE r == [dl[d] EXCEPT !.stopped = TRUE]
<1>1. dl' = [dl EXCEPT ![d] = r]
  BY DEF Stop
<1>2. r \in RunState
  BY DEF RunState
<1>3. Consistent(r, held[d])
  BY DEF RunState, Consistent, Attempting, Judging
<1>4. TypeOK'
  <2>1. dl' \in [Downloaders -> RunState]
    BY <1>1, <1>2
  <2>2. PoolTypeOK' /\ stops' \in Nat
    BY UnchangedPoolType DEF Stop, LocalInv, TypeOK, DownloaderTypeOK
  <2> QED
    BY <2>1, <2>2 DEF Stop, LocalInv, TypeOK, DownloaderTypeOK
<1>5. ASSUME NEW e \in Downloaders PROVE Consistent(dl'[e], held'[e])
  BY <1>1, <1>3 DEF Stop, LocalInv, AttemptConsistent
<1> QED
  BY <1>4, <1>5 DEF LocalInv, AttemptConsistent

(***************************************************************************)
(* The steps that leave the threads alone.                                 *)
(***************************************************************************)
LEMMA OtherStepsLocal ==
    ASSUME LocalInv, PoolTypeOK', UNCHANGED <<held, dl>>,
           editor' \in [Editors -> {"idle", "edited", "closing"}],
           edits' \in Nat, suspended' \in BOOLEAN, suspends' \in Nat,
           stops' \in Nat
    PROVE  LocalInv'
  BY DEF LocalInv, TypeOK, DownloaderTypeOK, AttemptConsistent

LEMMA LocalInvStep == LocalInv /\ [Next]_vars => LocalInv'
<1> SUFFICES ASSUME LocalInv, [Next]_vars PROVE LocalInv'
  OBVIOUS
<1>0. /\ PoolTypeOK /\ editor \in [Editors -> {"idle", "edited", "closing"}]
      /\ edits \in Nat /\ suspended \in BOOLEAN
      /\ suspends \in Nat /\ stops \in Nat
  BY DEF LocalInv, TypeOK, DownloaderTypeOK
<1>1. ASSUME NEW d \in Downloaders,
             StartArticleDownload(d) \/ ThreadStep(d) \/ Stop(d)
      PROVE  LocalInv'
  BY <1>1, StartArticleDownloadLocal, EnterRunLocal, PollForConnectionLocal,
     LeaveWaitingLocal, SkipOutOfRetentionLocal, ConnectLocal,
     DownloadBreaksOffLocal, DownloadReceivesAllLocal, AccountForAttemptLocal,
     KeepOrReleaseLocal, DecideNextLocal, FinishRunLocal, StopLocal
     DEF ThreadStep
<1>2. ASSUME NEW e \in Editors, EditServer(e) PROVE LocalInv'
  <2> PICK s \in Servers : SetActive(s, ~active[s])
    BY <1>2 DEF EditServer
  <2>1. PoolTypeOK'
    BY <1>0 DEF SetActive, PoolTypeOK, MaxNormLevel
  <2>2. editor' \in [Editors -> {"idle", "edited", "closing"}] /\ edits' \in Nat
    BY <1>0, <1>2 DEF EditServer
  <2> QED
    BY <1>0, <1>2, <2>1, <2>2, OtherStepsLocal DEF EditServer
<1>3. ASSUME NEW e \in Editors, ChangedInit(e) PROVE LocalInv'
  <2>1. PoolTypeOK'
    BY <1>0, <1>3, InitConnectionsType DEF ChangedInit
  <2>2. editor' \in [Editors -> {"idle", "edited", "closing"}]
    BY <1>0, <1>3 DEF ChangedInit
  <2> QED
    BY <1>0, <1>3, <2>1, <2>2, OtherStepsLocal DEF ChangedInit
<1>4. ASSUME NEW e \in Editors, ChangedClose(e) PROVE LocalInv'
  <2>1. PoolTypeOK'
    BY <1>0, <1>4, CloseUnusedConnectionsType DEF ChangedClose
  <2>2. editor' \in [Editors -> {"idle", "edited", "closing"}]
    BY <1>0, <1>4 DEF ChangedClose
  <2> QED
    BY <1>0, <1>4, <2>1, <2>2, OtherStepsLocal DEF ChangedClose
<1>5. CASE PeriodicClose
  <2>1. PoolTypeOK'
    BY <1>0, <1>5, CloseUnusedConnectionsType DEF PeriodicClose
  <2>2. UNCHANGED <<held, dl, editor, edits, suspended, suspends, stops>>
    BY <1>5 DEF PeriodicClose, dlVars
  <2> QED
    BY <1>0, <2>1, <2>2, OtherStepsLocal
<1>6. ASSUME NEW s \in Servers, RetryIntervalPasses(s) PROVE LocalInv'
  <2>1. PoolTypeOK'
    BY <1>0, <1>6 DEF RetryIntervalPasses, BlockExpires, PoolTypeOK, MaxNormLevel
  <2> QED
    BY <1>0, <1>6, <2>1, OtherStepsLocal DEF RetryIntervalPasses, dlVars
<1>7. CASE Suspend \/ Resume
  <2>0. suspended' \in BOOLEAN
    BY <1>7, Zenon DEF Suspend, Resume
  <2>1. /\ UNCHANGED <<poolVars, held, dl, editor, edits, stops>>
        /\ suspends' \in Nat
    BY <1>0, <1>7 DEF Suspend, Resume
  <2>2. PoolTypeOK'
    BY <1>0, <2>1, UnchangedPoolType
  <2> QED
    BY <1>0, <2>0, <2>1, <2>2, OtherStepsLocal
<1>8. CASE UNCHANGED vars
  <2>1. UNCHANGED <<poolVars, held, dl, editor, edits, suspended, suspends, stops>>
    BY <1>8 DEF vars, dlVars
  <2>2. PoolTypeOK'
    BY <1>0, <2>1, UnchangedPoolType
  <2> QED
    BY <1>0, <2>1, <2>2, OtherStepsLocal
<1> QED
  BY <1>1, <1>2, <1>3, <1>4, <1>5, <1>6, <1>7, <1>8 DEF Next

(***************************************************************************)
(* The state of the pool and of Run() has its types; in particular no      *)
(* thread ever has fewer than zero retries, and level counters stay        *)
(* attached to the normalized levels.                                      *)
(***************************************************************************)
THEOREM TypeCorrect == Spec => []TypeOK
<1>1. LocalInv => TypeOK
  BY DEF LocalInv
<1> QED
  BY <1>1, InitLocalInv, LocalInvStep, PTL DEF Spec

(***************************************************************************)
(* The local variables of Run() stay consistent with each other and with   *)
(* the connection of the thread.                                           *)
(***************************************************************************)
THEOREM AttemptsConsistent == Spec => []AttemptConsistent
<1>1. LocalInv => AttemptConsistent
  BY DEF LocalInv
<1> QED
  BY <1>1, InitLocalInv, LocalInvStep, PTL DEF Spec

-----------------------------------------------------------------------------
(* The six ways in which a step may affect the pool. *)

Acquires ==
    \E d, from, want, ignore, c :
        /\ d \in Downloaders
        /\ held[d] = NoConnection
        /\ GetConnection(from, want, ignore, c)
        /\ held' = [held EXCEPT ![d] = c]
        /\ UNCHANGED editor

Releases ==
    \E d, keep :
        d \in Downloaders /\ ReleaseConnection(d, keep) /\ UNCHANGED editor

Ranks == InitConnections /\ UNCHANGED held

Switches ==
    /\ \E s \in Servers : SetActive(s, ~active[s])
    /\ UNCHANGED held
    /\ \E e \in Editors : editor'[e] = "edited"

Closes ==
    /\ \E overdue : CloseUnusedConnections(overdue)
    /\ UNCHANGED held
    /\ \A e \in Editors : editor'[e] # "edited" => editor[e] # "edited"

LeavesPool ==
    UNCHANGED <<active, normLevel, levels, connections, inUse, held, editor>>

LEMMA StepKinds ==
    ASSUME LocalInv, [Next]_vars
    PROVE  \/ Acquires \/ Releases \/ Ranks \/ Switches \/ Closes \/ LeavesPool
<1> USE RecordOf
<1>1. ASSUME NEW d \in Downloaders, StartArticleDownload(d) PROVE Acquires
  <2>1. held[d] = NoConnection /\ UNCHANGED editor
    BY <1>1 DEF StartArticleDownload, At, Consistent, envVars
  <2> QED
    BY <1>1, <2>1 DEF StartArticleDownload, Acquires
<1>2. ASSUME NEW d \in Downloaders, PollForConnection(d) PROVE Acquires
  <2>1. held[d] = NoConnection /\ UNCHANGED editor
    BY <1>2 DEF PollForConnection, envVars
  <2> QED
    BY <1>2, <2>1 DEF PollForConnection, Acquires
<1>3. ASSUME NEW d \in Downloaders,
             SkipOutOfRetention(d) \/ DownloadReceivesAll(d) \/ FinishRun(d)
      PROVE  Releases
  BY <1>3 DEF SkipOutOfRetention, DownloadReceivesAll, FinishRun, Releases, envVars
<1>4. ASSUME NEW d \in Downloaders, KeepOrRelease(d)
      PROVE  Releases \/ LeavesPool
  <2>1. /\ \/ UNCHANGED <<poolVars, held>>
           \/ ReleaseConnection(d, dl[d].status \in {"finished", "notFound"})
        /\ UNCHANGED editor
    BY <1>4 DEF KeepOrRelease, envVars
  <2> QED
    BY <2>1 DEF Releases, LeavesPool, poolVars
<1>5. ASSUME NEW d \in Downloaders,
             \/ EnterRun(d) \/ LeaveWaiting(d) \/ Connect(d)
             \/ DownloadBreaksOff(d) \/ DecideNext(d) \/ Stop(d)
      PROVE  LeavesPool
  <2>1. UNCHANGED editor /\ UNCHANGED held
    BY <1>5 DEF EnterRun, LeaveWaiting, Connect, DownloadBreaksOff, DecideNext,
                Stop, envVars
  <2>2. UNCHANGED <<active, normLevel, levels, connections, inUse>>
    BY <1>5 DEF EnterRun, LeaveWaiting, Connect, DownloadBreaksOff, DecideNext,
                Stop, poolVars
  <2> QED BY <2>1, <2>2 DEF LeavesPool
<1>6. ASSUME NEW d \in Downloaders, AccountForAttempt(d) PROVE LeavesPool
  BY <1>6 DEF AccountForAttempt, BlockServer, LeavesPool, poolVars, envVars
<1>7. ASSUME NEW e \in Editors, EditServer(e) PROVE Switches
  <2>1. editor'[e] = "edited"
    BY <1>7 DEF EditServer, LocalInv, TypeOK, DownloaderTypeOK
  <2> QED
    BY <1>7, <2>1 DEF EditServer, Switches
<1>8. ASSUME NEW e \in Editors, ChangedInit(e) PROVE Ranks
  BY <1>8 DEF ChangedInit, Ranks
<1>9. ASSUME NEW e \in Editors, ChangedClose(e) PROVE Closes
  <2>1. \A x \in Editors : editor'[x] # "edited" => editor[x] # "edited"
    BY <1>9 DEF ChangedClose, LocalInv, TypeOK, DownloaderTypeOK
  <2> QED
    BY <1>9, <2>1 DEF ChangedClose, Closes
<1>10. CASE PeriodicClose
  BY <1>10 DEF PeriodicClose, Closes, dlVars
<1>11. ASSUME NEW s \in Servers, RetryIntervalPasses(s) PROVE LeavesPool
  BY <1>11 DEF RetryIntervalPasses, BlockExpires, LeavesPool, dlVars
<1>12. CASE Suspend \/ Resume
  BY <1>12 DEF Suspend, Resume, LeavesPool, poolVars
<1>13. CASE UNCHANGED vars
  BY <1>13 DEF vars, poolVars, dlVars, LeavesPool
<1> QED
  BY <1>1, <1>2, <1>3, <1>4, <1>5, <1>6, <1>7, <1>8, <1>9, <1>10, <1>11,
     <1>12, <1>13 DEF Next, ThreadStep

-----------------------------------------------------------------------------
(* Ownership of connections. *)

LEMMA ReleaseFrees ==
    ASSUME LocalInv, NEW d \in Downloaders, NEW keep, ReleaseConnection(d, keep)
    PROVE  /\ held' = [held EXCEPT ![d] = NoConnection]
           /\ inUse' = inUse \ {held[d]}
           /\ UNCHANGED <<active, normLevel, connections>>
<1>1. CASE held[d] = NoConnection
  <2>1. NoConnection \notin inUse
    BY PoolAssumption DEF PoolAssumption, LocalInv, TypeOK, PoolTypeOK
  <2> QED
    BY <1>1, <2>1, ReleaseConnectionType DEF ReleaseConnection, poolVars, LocalInv
<1>2. CASE held[d] # NoConnection
  BY <1>2 DEF ReleaseConnection, FreeConnection
<1> QED BY <1>1, <1>2

LEMMA OwnershipStep ==
    ASSUME LocalInv, ConnectionOwnership, [Next]_vars
    PROVE  ConnectionOwnership'
<1>0. /\ held \in [Downloaders -> Connections \cup {NoConnection}]
      /\ connections \subseteq Connections /\ NoConnection \notin Connections
  BY PoolAssumption
     DEF PoolAssumption, LocalInv, TypeOK, DownloaderTypeOK, PoolTypeOK
<1>1. CASE Acquires
  <2> PICK d, from, want, ignore, c :
        /\ d \in Downloaders
        /\ held[d] = NoConnection
        /\ GetConnection(from, want, ignore, c)
        /\ held' = [held EXCEPT ![d] = c]
    BY <1>1 DEF Acquires
  <2>1. /\ UNCHANGED connections
        /\ \/ c = NoConnection /\ inUse' = inUse
           \/ c \in connections \ inUse /\ inUse' = inUse \cup {c}
    BY GetConnectionResult DEF LocalInv, TypeOK
  <2>2. CASE c = NoConnection /\ inUse' = inUse
    <3>1. held' = held
      BY <1>0, <2>2
    <3> QED BY <2>1, <2>2, <3>1 DEF ConnectionOwnership
  <2>3. CASE c \in connections \ inUse /\ inUse' = inUse \cup {c}
    <3>1. inUse' \subseteq connections'
      BY <2>1, <2>3 DEF ConnectionOwnership
    <3>2. ASSUME NEW x \in inUse' PROVE \E e \in Downloaders : held'[e] = x
      <4>1. CASE x = c
        BY <1>0, <4>1
      <4>2. CASE x \in inUse
        <5>1. PICK e \in Downloaders : held[e] = x
          BY <4>2 DEF ConnectionOwnership
        <5>2. e # d
          BY <1>0, <4>2, <5>1 DEF ConnectionOwnership
        <5> QED BY <1>0, <5>1, <5>2
      <4> QED BY <2>3, <4>1, <4>2
    <3>3. ASSUME NEW e \in Downloaders, held'[e] # NoConnection
          PROVE  held'[e] \in inUse'
      BY <1>0, <2>3, <3>3 DEF ConnectionOwnership
    <3>4. ASSUME NEW e \in Downloaders, NEW g \in Downloaders, e # g,
                 held'[e] # NoConnection
          PROVE  held'[e] # held'[g]
      <4>1. \A x \in Downloaders : held[x] # c
        BY <1>0, <2>3 DEF ConnectionOwnership
      <4> QED BY <1>0, <3>4, <4>1 DEF ConnectionOwnership
    <3> QED BY <3>1, <3>2, <3>3, <3>4 DEF ConnectionOwnership
  <2> QED BY <2>1, <2>2, <2>3
<1>2. CASE Releases
  <2> PICK d, keep : d \in Downloaders /\ ReleaseConnection(d, keep)
    BY <1>2 DEF Releases
  <2>1. /\ held' = [held EXCEPT ![d] = NoConnection]
        /\ inUse' = inUse \ {held[d]} /\ UNCHANGED connections
    BY ReleaseFrees
  <2>2. inUse' \subseteq connections'
    BY <2>1 DEF ConnectionOwnership
  <2>3. ASSUME NEW x \in inUse' PROVE \E e \in Downloaders : held'[e] = x
    <3>1. PICK e \in Downloaders : held[e] = x
      BY <2>1 DEF ConnectionOwnership
    <3>2. e # d
      BY <2>1, <3>1
    <3> QED BY <1>0, <2>1, <3>1, <3>2
  <2>4. ASSUME NEW e \in Downloaders, held'[e] # NoConnection
        PROVE  held'[e] \in inUse'
    <3>1. e # d /\ held'[e] = held[e]
      BY <1>0, <2>1, <2>4
    <3>2. held[e] # held[d]
      BY <2>4, <3>1 DEF ConnectionOwnership
    <3> QED BY <2>1, <2>4, <3>1, <3>2 DEF ConnectionOwnership
  <2>5. ASSUME NEW e \in Downloaders, NEW g \in Downloaders, e # g,
               held'[e] # NoConnection
        PROVE  held'[e] # held'[g]
    BY <1>0, <2>1, <2>5 DEF ConnectionOwnership
  <2> QED BY <2>2, <2>3, <2>4, <2>5 DEF ConnectionOwnership
<1>3. CASE Ranks
  <2>1. UNCHANGED <<held, inUse>> /\ connections \subseteq connections'
    BY <1>3 DEF Ranks, InitConnections
  <2> QED BY <2>1 DEF ConnectionOwnership
<1>4. CASE Switches
  BY <1>4 DEF Switches, SetActive, ConnectionOwnership
<1>5. CASE Closes
  <2>1. UNCHANGED <<held, inUse>> /\ connections \cap inUse \subseteq connections'
    BY <1>5 DEF Closes, CloseUnusedConnections
  <2> QED BY <2>1 DEF ConnectionOwnership
<1>6. CASE LeavesPool
  BY <1>6 DEF LeavesPool, ConnectionOwnership
<1> QED
  BY <1>1, <1>2, <1>3, <1>4, <1>5, <1>6, StepKinds

(***************************************************************************)
(* No connection is handed out twice, deleted by CloseUnusedConnections    *)
(* while a thread uses it, or left marked in-use by a thread that has      *)
(* given it up.                                                            *)
(***************************************************************************)
THEOREM OwnershipKept == Spec => []ConnectionOwnership
<1>1. Init => ConnectionOwnership
  BY DEF Init, PoolInit, ConnectionOwnership
<1> QED
  BY <1>1, InitLocalInv, LocalInvStep, OwnershipStep, PTL DEF Spec

-----------------------------------------------------------------------------
(* The counters m_levels. *)

LEMMA SmallerSet ==
    ASSUME NEW T \in SUBSET Connections, NEW S \in SUBSET T
    PROVE  Cardinality(S) <= Cardinality(T)
  BY ConnectionsFinite, FS_Subset

LEMMA FreeOnLevelType ==
    ASSUME PoolTypeOK, NEW l
    PROVE  /\ FreeOnLevel(l) \subseteq Connections
           /\ IsFiniteSet(FreeOnLevel(l)) /\ Cardinality(FreeOnLevel(l)) \in Nat
  BY ConnectionsFinite DEF FreeOnLevel, PoolTypeOK

LEMMA InitNoHidden == Init => NoHiddenConnection
<1> SUFFICES ASSUME Init, NEW l \in DOMAIN levels
             PROVE  Cardinality(FreeOnLevel(l)) <= levels[l]
  BY DEF NoHiddenConnection
<1> DEFINE N == {c \in connections : normLevel[ServerOf[c]] = l}
<1>1. PoolTypeOK
  BY InitLocalInv DEF LocalInv, TypeOK
<1>2. levels[l] = Cardinality(N)
  BY DEF Init, PoolInit
<1>3. N \in SUBSET Connections /\ FreeOnLevel(l) \in SUBSET N
  BY <1>1 DEF PoolTypeOK, FreeOnLevel
<1> QED
  BY <1>2, <1>3, SmallerSet

LEMMA NoHiddenStep ==
    ASSUME LocalInv, NoHiddenConnection, [Next]_vars
    PROVE  NoHiddenConnection'
<1> SUFFICES ASSUME \A e \in Editors : editor'[e] # "edited",
                    NEW l \in DOMAIN levels'
             PROVE  Cardinality(FreeOnLevel(l)') <= levels'[l]
  BY DEF NoHiddenConnection
<1>0. PoolTypeOK /\ PoolTypeOK'
  BY LocalInvStep DEF LocalInv, TypeOK
<1>a. ASSUME DOMAIN levels' = DOMAIN levels,
             \A e \in Editors : editor[e] # "edited"
      PROVE  /\ l \in DOMAIN levels /\ levels[l] \in Int
             /\ Cardinality(FreeOnLevel(l)) <= levels[l]
  BY <1>0, <1>a DEF NoHiddenConnection, PoolTypeOK
<1>b. /\ FreeOnLevel(l) \in SUBSET Connections
      /\ IsFiniteSet(FreeOnLevel(l)) /\ Cardinality(FreeOnLevel(l)) \in Nat
  BY <1>0, FreeOnLevelType
<1>1. CASE Acquires
  <2> PICK d, from, want, ignore, c :
        /\ d \in Downloaders
        /\ GetConnection(from, want, ignore, c)
        /\ UNCHANGED editor
    BY <1>1 DEF Acquires
  <2> DEFINE i == normLevel[ServerOf[c]]
  <2>1. /\ UNCHANGED <<active, normLevel, connections>>
        /\ \/ UNCHANGED <<inUse, levels>>
           \/ /\ c \in connections \ inUse /\ active[ServerOf[c]]
              /\ inUse' = inUse \cup {c}
              /\ levels' = [levels EXCEPT ![i] = @ - 1]
    BY <1>0, GetConnectionResult
  <2>2. CASE UNCHANGED <<inUse, levels>>
    BY <1>a, <2>1, <2>2 DEF FreeOnLevel
  <2>3. CASE /\ c \in connections \ inUse /\ active[ServerOf[c]]
             /\ inUse' = inUse \cup {c}
             /\ levels' = [levels EXCEPT ![i] = @ - 1]
    <3>1. FreeOnLevel(l)' = FreeOnLevel(l) \ {c}
      BY <2>1, <2>3 DEF FreeOnLevel
    <3>2. c \in FreeOnLevel(l) <=> i = l
      BY <2>3 DEF FreeOnLevel
    <3>3. Cardinality(FreeOnLevel(l) \ {c}) =
              IF i = l THEN Cardinality(FreeOnLevel(l)) - 1
              ELSE Cardinality(FreeOnLevel(l))
      BY <1>b, <3>2, FS_RemoveElement
    <3>4. DOMAIN levels' = DOMAIN levels
      BY <2>3
    <3>5. levels'[l] = IF i = l THEN levels[l] - 1 ELSE levels[l]
      BY <2>3, <3>4
    <3> HIDE DEF i
    <3> QED BY <1>a, <1>b, <3>1, <3>3, <3>4, <3>5
  <2> QED BY <2>1, <2>2, <2>3
<1>2. CASE Releases
  <2> PICK d, keep :
        d \in Downloaders /\ ReleaseConnection(d, keep) /\ UNCHANGED editor
    BY <1>2 DEF Releases
  <2> DEFINE c == held[d]
             i == normLevel[ServerOf[c]]
  <2>1. CASE c = NoConnection
    BY <1>a, <2>1 DEF ReleaseConnection, poolVars, FreeOnLevel
  <2>2. CASE c # NoConnection
    <3>1. /\ inUse' = inUse \ {c}
          /\ UNCHANGED <<active, normLevel, connections>>
          /\ levels' = IF i > -1 /\ active[ServerOf[c]]
                       THEN [levels EXCEPT ![i] = @ + 1] ELSE levels
      BY <2>2 DEF ReleaseConnection, FreeConnection
    <3>2. DOMAIN levels' = DOMAIN levels /\ l > -1
      BY <1>0, <3>1 DEF PoolTypeOK
    <3>3. CASE active[ServerOf[c]] /\ i = l
      <4>1. FreeOnLevel(l)' \in SUBSET (FreeOnLevel(l) \cup {c})
        BY <3>1 DEF FreeOnLevel
      <4>2. c \in Connections
        BY <2>2, RecordOf
      <4>3. Cardinality(FreeOnLevel(l)') <= Cardinality(FreeOnLevel(l) \cup {c})
        BY <1>b, <4>1, <4>2, SmallerSet
      <4>4. /\ Cardinality(FreeOnLevel(l) \cup {c})
                  <= Cardinality(FreeOnLevel(l)) + 1
            /\ Cardinality(FreeOnLevel(l) \cup {c}) \in Int
        <5>1. Cardinality(FreeOnLevel(l) \cup {c}) =
                 IF c \in FreeOnLevel(l) THEN Cardinality(FreeOnLevel(l))
                 ELSE Cardinality(FreeOnLevel(l)) + 1
          <6> HIDE DEF c
          <6> QED BY <1>b, FS_AddElement
        <5> QED BY <1>b, <5>1
      <4>5. Cardinality(FreeOnLevel(l)') \in Int
        BY <1>b, <4>1, <4>2, ConnectionsFinite
      <4>6. levels'[l] = levels[l] + 1
        BY <1>a, <3>1, <3>2, <3>3
      <4> HIDE DEF c, i
      <4> QED BY <1>a, <1>b, <3>2, <4>3, <4>4, <4>5, <4>6
    <3>4. CASE ~(active[ServerOf[c]] /\ i = l)
      <4>1. FreeOnLevel(l)' = FreeOnLevel(l)
        BY <3>1, <3>4 DEF FreeOnLevel
      <4>2. levels'[l] = levels[l]
        BY <3>1, <3>2, <3>4
      <4> QED BY <1>a, <3>2, <4>1, <4>2
    <3> QED BY <3>3, <3>4
  <2> QED BY <2>1, <2>2
<1>3. CASE Ranks
  <2> DEFINE N == {c \in connections' : /\ active[ServerOf[c]]
                                        /\ normLevel'[ServerOf[c]] = l}
  <2>1. levels'[l] = Cardinality(N)
    BY <1>3 DEF Ranks, InitConnections
  <2>2. N \in SUBSET Connections /\ FreeOnLevel(l)' \in SUBSET N
    BY <1>0, <1>3 DEF PoolTypeOK, FreeOnLevel, Ranks, InitConnections
  <2> QED
    BY <2>1, <2>2, SmallerSet
<1>4. CASE Switches
  BY <1>4 DEF Switches
<1>5. CASE Closes
  <2>1. /\ UNCHANGED levels /\ FreeOnLevel(l)' \in SUBSET FreeOnLevel(l)
        /\ \A e \in Editors : editor[e] # "edited"
    BY <1>5 DEF Closes, CloseUnusedConnections, FreeOnLevel
  <2>2. /\ Cardinality(FreeOnLevel(l)') <= Cardinality(FreeOnLevel(l))
        /\ Cardinality(FreeOnLevel(l)') \in Int
    BY <1>b, <2>1, SmallerSet, ConnectionsFinite
  <2> QED
    BY <1>a, <1>b, <2>1, <2>2
<1>6. CASE LeavesPool
  BY <1>6, <1>a DEF LeavesPool, FreeOnLevel
<1> QED
  BY <1>1, <1>2, <1>3, <1>4, <1>5, <1>6, StepKinds

(***************************************************************************)
(* Once Changed() has been called for every edit, a positive number of     *)
(* free connections on a level is never hidden behind a counter that is    *)
(* too small: GetConnection sees every level that has one.                 *)
(***************************************************************************)
THEOREM NoConnectionHidden == Spec => []NoHiddenConnection
  BY InitLocalInv, LocalInvStep, InitNoHidden, NoHiddenStep, PTL DEF Spec
-----------------------------------------------------------------------------
(* A pool whose servers are not switched. *)

(***************************************************************************)
(* Some server has the lowest level, since levels are natural numbers.     *)
(***************************************************************************)
LEMMA MinLevelExists == \E s \in Servers : HasMinLevel(s)
<1> DEFINE L == {Level[s] : s \in Servers}
           R == OpToRel(<, Nat)
<1>1. L \subseteq Nat /\ L # {}
  BY PoolAssumption DEF PoolAssumption
<1>2. IsWellFoundedOn(R, Nat)
  BY NatLessThanWellFounded
<1>3. PICK m \in L : \A l \in L : ~(<<l, m>> \in R)
  <2> HIDE DEF L, R
  <2> QED BY <1>1, <1>2, WFMin
<1>4. \A l \in L : ~(l < m)
  BY <1>1, <1>3 DEF OpToRel
<1>5. PICK s \in Servers : m = Level[s]
  BY <1>3
<1>6. \A t \in Servers : Level[s] <= Level[t]
  <2>1. Level \in [Servers -> Nat]
    BY PoolAssumption DEF PoolAssumption
  <2> QED BY <1>4, <1>5, <2>1
<1> QED BY <1>6 DEF HasMinLevel

(***************************************************************************)
(* NormalizeLevels: ranks are indices of m_levels, and the rank 0 belongs  *)
(* to the servers of the lowest level.                                     *)
(***************************************************************************)
LEMMA RankIsIndex ==
    ASSUME NEW s \in Servers, IsRanked(s)
    PROVE  NormalizedLevel(s) \in 0 .. (Cardinality(RankedLevels) - 1)
<1> DEFINE Lower == {l \in RankedLevels : l < Level[s]}
           Others == RankedLevels \ {Level[s]}
<1>1. Level[s] \in RankedLevels /\ IsFiniteSet(RankedLevels)
      /\ Cardinality(RankedLevels) \in Nat
  BY RankedLevelsFinite DEF RankedLevels
<1>2. Level[s] \in Nat
  BY PoolAssumption DEF PoolAssumption
<1>3. Lower \in SUBSET Others
  BY <1>2
<1>4. IsFiniteSet(Others) /\ Cardinality(Others) = Cardinality(RankedLevels) - 1
  <2> HIDE DEF Others
  <2> QED BY <1>1, FS_RemoveElement DEF Others
<1>5. Cardinality(Lower) <= Cardinality(Others) /\ Cardinality(Lower) \in Nat
  <2> HIDE DEF Others, Lower
  <2> QED BY <1>3, <1>4, FS_Subset, FS_CardinalityType
<1>6. NormalizedLevel(s) = Cardinality(Lower)
  BY DEF NormalizedLevel
<1> HIDE DEF Lower, Others
<1> QED BY <1>1, <1>4, <1>5, <1>6

LEMMA RankZero ==
    ASSUME NEW s \in Servers
    PROVE  NormalizedLevel(s) = 0 <=> HasMinLevel(s)
<1> DEFINE Lower == {l \in RankedLevels : l < Level[s]}
<1>1. Level \in [Servers -> Nat]
  BY PoolAssumption DEF PoolAssumption
<1>2. IsFiniteSet(Lower)
  BY RankedLevelsFinite, FS_Subset
<1>3. Cardinality(Lower) = 0 <=> Lower = {}
  <2> HIDE DEF Lower
  <2> QED BY <1>2, FS_EmptySet
<1>4. ASSUME HasMinLevel(s) PROVE IsRanked(s) /\ Lower = {}
  BY <1>1, <1>4 DEF HasMinLevel, IsRanked, RankedLevels
<1>5. ASSUME Lower = {} PROVE HasMinLevel(s)
  <2>1. PICK m \in Servers : HasMinLevel(m)
    BY MinLevelExists
  <2>2. Level[m] \in RankedLevels
    BY <2>1 DEF RankedLevels, IsRanked
  <2>3. ~(Level[m] < Level[s])
    BY <1>5, <2>2
  <2> QED BY <1>1, <2>1, <2>3 DEF HasMinLevel
<1>6. NormalizedLevel(s) = IF IsRanked(s) THEN Cardinality(Lower) ELSE -1
  BY DEF NormalizedLevel
<1> HIDE DEF Lower
<1> QED BY <1>3, <1>4, <1>5, <1>6
(***************************************************************************)
(* What stays true of the pool as long as nobody switches servers.  A      *)
(* level whose counter is positive has a connection of an active server.   *)
(***************************************************************************)
FixedPool ==
    /\ edits = 0
    /\ \A e \in Editors : editor[e] = "idle"
    /\ normLevel = [s \in Servers |-> NormalizedLevel(s)]
    /\ DOMAIN levels = 0 .. (Cardinality(RankedLevels) - 1)
    /\ \A l \in DOMAIN levels : levels[l] > 0 =>
          \E c \in Connections : /\ active[ServerOf[c]]
                                 /\ normLevel[ServerOf[c]] = l

LEMMA InitFixed == Init => FixedPool
<1> SUFFICES ASSUME Init PROVE FixedPool
  OBVIOUS
<1>1. ASSUME NEW l \in DOMAIN levels, levels[l] > 0
      PROVE  \E c \in Connections : /\ active[ServerOf[c]]
                                    /\ normLevel[ServerOf[c]] = l
  <2> DEFINE N == {c \in connections : normLevel[ServerOf[c]] = l}
  <2>1. levels[l] = Cardinality(N)
    BY DEF Init, PoolInit
  <2>2. N # {}
    BY <1>1, <2>1, FS_EmptySet
  <2> QED BY <2>2 DEF Init, PoolInit
<1> QED
  BY <1>1 DEF FixedPool, Init, PoolInit

(***************************************************************************)
(* Without switches the flags and the ranks stay as they are.              *)
(***************************************************************************)
LEMMA FixedStep ==
    ASSUME LocalInv, FixedPool, [Next]_vars, MaxEdits = 0
    PROVE  FixedPool' /\ UNCHANGED <<active, normLevel>> /\ DOMAIN levels' = DOMAIN levels
<1>0. PoolTypeOK
  BY DEF LocalInv, TypeOK
<1>1. ASSUME NEW e \in Editors PROVE ~EditServer(e) /\ ~ChangedInit(e) /\ ~ChangedClose(e)
  BY DEF FixedPool, EditServer, ChangedInit, ChangedClose
<1>2. UNCHANGED <<editor, edits, generation>>
  <2>1. ASSUME NEW d \in Downloaders, StartArticleDownload(d) \/ PollForConnection(d)
        PROVE  UNCHANGED <<editor, edits, generation>>
    BY <2>1 DEF StartArticleDownload, PollForConnection, GetConnection, envVars
  <2>2. ASSUME NEW d \in Downloaders, NEW keep, ReleaseConnection(d, keep)
        PROVE  UNCHANGED generation
    BY <2>2 DEF ReleaseConnection, FreeConnection, poolVars
  <2>3. ASSUME NEW d \in Downloaders,
               SkipOutOfRetention(d) \/ DownloadReceivesAll(d) \/ FinishRun(d)
        PROVE  UNCHANGED <<editor, edits, generation>>
    BY <2>2, <2>3 DEF SkipOutOfRetention, DownloadReceivesAll, FinishRun, envVars
  <2>4. ASSUME NEW d \in Downloaders, KeepOrRelease(d)
        PROVE  UNCHANGED <<editor, edits, generation>>
    <3>1. \/ UNCHANGED poolVars
          \/ ReleaseConnection(d, dl[d].status \in {"finished", "notFound"})
      BY <2>4 DEF KeepOrRelease
    <3>2. UNCHANGED envVars
      BY <2>4 DEF KeepOrRelease
    <3> QED BY <2>2, <3>1, <3>2 DEF poolVars, envVars
  <2>5. ASSUME NEW d \in Downloaders,
               \/ EnterRun(d) \/ LeaveWaiting(d) \/ Connect(d) \/ DownloadBreaksOff(d)
               \/ DecideNext(d) \/ Stop(d)
        PROVE  UNCHANGED <<editor, edits, generation>>
    <3>1. UNCHANGED generation
      BY <2>5 DEF EnterRun, LeaveWaiting, Connect, DownloadBreaksOff, DecideNext, Stop, poolVars
    <3>2. UNCHANGED <<editor, edits>>
      BY <2>5 DEF EnterRun, LeaveWaiting, Connect, DownloadBreaksOff, DecideNext, Stop, envVars
    <3> QED BY <3>1, <3>2
  <2>6. ASSUME NEW d \in Downloaders, AccountForAttempt(d)
        PROVE  UNCHANGED <<editor, edits, generation>>
    BY <2>6 DEF AccountForAttempt, BlockServer, poolVars, envVars
  <2>7. CASE PeriodicClose \/ (\E s \in Servers : RetryIntervalPasses(s)) \/ Suspend \/ Resume
             \/ UNCHANGED vars
    BY <2>7 DEF PeriodicClose, CloseUnusedConnections, RetryIntervalPasses, BlockExpires,
                Suspend, Resume, vars, poolVars, dlVars
  <2> QED
    BY <1>1, <2>1, <2>3, <2>4, <2>5, <2>6, <2>7 DEF Next, ThreadStep
<1>3. ~Switches
  BY <1>2 DEF Switches, FixedPool
<1>4. ASSUME UNCHANGED <<active, normLevel>>,
             \/ UNCHANGED levels
             \/ \E c \in Connections, n \in Int :
                   /\ active[ServerOf[c]]
                   /\ levels' = [levels EXCEPT ![normLevel[ServerOf[c]]] = n]
      PROVE  FixedPool' /\ DOMAIN levels' = DOMAIN levels
  <2>1. RankedLevels' = RankedLevels /\ \A s \in Servers : NormalizedLevel(s)' = NormalizedLevel(s)
    BY <1>4 DEF RankedLevels, NormalizedLevel, IsRanked
  <2>2. DOMAIN levels' = DOMAIN levels
    BY <1>4
  <2>3. ASSUME NEW l \in DOMAIN levels, levels'[l] > 0
        PROVE  \E c \in Connections : /\ active[ServerOf[c]]
                                      /\ normLevel[ServerOf[c]] = l
    BY <1>4, <2>3 DEF FixedPool
  <2>4. (Cardinality(RankedLevels))' = Cardinality(RankedLevels)
    BY <2>1
  <2> QED
    BY <1>2, <1>4, <2>1, <2>2, <2>3, <2>4 DEF FixedPool
<1>5. CASE Acquires
  <2> PICK d, from, want, ignore, c : GetConnection(from, want, ignore, c)
    BY <1>5 DEF Acquires
  <2>1. /\ UNCHANGED <<active, normLevel>>
        /\ \/ UNCHANGED levels
           \/ /\ c \in connections /\ active[ServerOf[c]]
              /\ levels' = [levels EXCEPT ![normLevel[ServerOf[c]]] = @ - 1]
    BY <1>0, GetConnectionResult
  <2> QED
    BY <1>0, <1>4, <2>1 DEF PoolTypeOK
<1>6. CASE Releases
  <2> PICK d, keep : d \in Downloaders /\ ReleaseConnection(d, keep)
    BY <1>6 DEF Releases
  <2>1. /\ UNCHANGED <<active, normLevel>>
        /\ \/ UNCHANGED levels
           \/ /\ held[d] # NoConnection /\ active[ServerOf[held[d]]]
              /\ levels' = [levels EXCEPT ![normLevel[ServerOf[held[d]]]] = @ + 1]
    BY DEF ReleaseConnection, FreeConnection, poolVars
  <2>2. held[d] \in Connections \cup {NoConnection}
    BY RecordOf
  <2> QED
    BY <1>0, <1>4, <2>1, <2>2 DEF PoolTypeOK
<1>7. CASE Closes
  BY <1>4, <1>7 DEF Closes, CloseUnusedConnections
<1>8. CASE LeavesPool
  BY <1>4, <1>8 DEF LeavesPool
<1>9. CASE Ranks
  <2>1. generation' = generation + 1 /\ generation \in Nat
    BY <1>0, <1>9 DEF Ranks, InitConnections, PoolTypeOK
  <2> QED BY <1>2, <2>1
<1> QED
  BY <1>3, <1>5, <1>6, <1>7, <1>8, <1>9, StepKinds, <1>4 DEF Closes, CloseUnusedConnections, LeavesPool, GetConnection
LEMMA HasConnection ==
    ASSUME NEW c \in Connections
    PROVE  ServerOf[c] \in Servers /\ MaxConnections(ServerOf[c]) > 0
<1> DEFINE C == {o \in Connections : ServerOf[o] = ServerOf[c]}
<1>1. C # {} /\ C \in SUBSET Connections
  OBVIOUS
<1>2. IsFiniteSet(C) /\ Cardinality(C) \in Nat
  BY <1>1, ConnectionsFinite
<1>3. Cardinality(C) # 0
  <2> HIDE DEF C
  <2> QED BY <1>1, <1>2, FS_EmptySet
<1> QED
  BY <1>2, <1>3, PoolAssumption DEF PoolAssumption, MaxConnections

LEMMA ActiveIsRanked ==
    ASSUME FixedPool, NEW s \in Servers, active[s], MaxConnections(s) > 0
    PROVE  normLevel[s] \in 0 .. MaxNormLevel
<1>1. normLevel[s] = NormalizedLevel(s)
  BY DEF FixedPool
<1>2. IsRanked(s)
  BY DEF IsRanked
<1>3. MaxNormLevel = Cardinality(RankedLevels) - 1
  BY RankedLevelsFinite, LevelsDomain DEF MaxNormLevel, FixedPool
<1> QED
  BY <1>1, <1>2, <1>3, RankIsIndex

(***************************************************************************)
(* The servers that must be tried before an article is given up.           *)
(***************************************************************************)
Needed(s) == active[s] /\ MaxConnections(s) > 0 /\ ~Optional[s]

(***************************************************************************)
(* What GetConnection hands out is not below the level it was asked for,   *)
(* and no server that must be tried is left out on the way there.          *)
(***************************************************************************)
LEMMA GetConnectionClimbs ==
    ASSUME LocalInv, FixedPool, NEW from \in Int, NEW want, NEW ignore,
           NEW c \in Connections, GetConnection(from, want, ignore, c)
    PROVE  /\ normLevel[ServerOf[c]] \in Nat
           /\ from <= normLevel[ServerOf[c]]
           /\ \A k \in from .. normLevel[ServerOf[c]] : LevelsAt(k) > 0
           /\ \A k \in from .. (normLevel[ServerOf[c]] - 1) :
                 LevelIsSkipped(k, want, ignore)
           /\ \A s \in Servers : Needed(s) /\ normLevel[s] < normLevel[ServerOf[c]]
                 => normLevel[s] < from
<1> DEFINE i == normLevel[ServerOf[c]]
<1>0. c # NoConnection /\ normLevel \in [Servers -> Nat \cup {-1}]
  BY PoolAssumption DEF PoolAssumption, LocalInv, TypeOK, PoolTypeOK
<1>1. PICK l \in LevelsTried(from, want, ignore) : c \in Candidates(l, want, ignore)
  BY <1>0 DEF GetConnection
<1>2. i = l /\ active[ServerOf[c]]
  BY <1>1 DEF Candidates, IsSuitable
<1>3. /\ from <= l
      /\ \A k \in from .. l : LevelsAt(k) > 0
      /\ \A k \in from .. (l - 1) : LevelIsSkipped(k, want, ignore)
  BY <1>1 DEF LevelsTried
<1>4. i \in Nat
  <2>1. ServerOf[c] \in Servers /\ MaxConnections(ServerOf[c]) > 0
    BY HasConnection
  <2>2. i \in 0 .. MaxNormLevel
    BY <1>2, <2>1, ActiveIsRanked
  <2> QED BY <1>0, <2>1, <2>2
<1>5. ASSUME NEW s \in Servers, Needed(s), normLevel[s] < l PROVE normLevel[s] < from
  <2>1. normLevel[s] \in Int
    BY <1>0
  <2>2. CASE normLevel[s] < from
    BY <2>2
  <2>3. CASE ~(normLevel[s] < from)
    <3>1. normLevel[s] \in from .. (l - 1)
      BY <1>2, <1>4, <1>5, <2>1, <2>3
    <3>2. Optional[s]
      BY <1>3, <1>5, <3>1 DEF LevelIsSkipped, Needed
    <3> QED BY <1>5, <3>2 DEF Needed
  <2> QED BY <2>2, <2>3
<1> QED
  BY <1>2, <1>3, <1>4, <1>5

(***************************************************************************)
(* The climb of one download through the levels: its connection is not     *)
(* below its level; it decides about the next server with empty hands; and *)
(* unless a server is desired, every server that must be tried and is      *)
(* below its level, or below the connection it has got, was tried.         *)
(***************************************************************************)
Climbs(d, r, h) ==
    /\ h # NoConnection => r.level <= normLevel[ServerOf[h]]
    /\ r.pc = "deciding" /\ r.want = NoServer => h = NoConnection
    /\ Desired[d] = NoServer => \A s \in Servers : Needed(s) =>
          /\ normLevel[s] < r.level => IsIgnored(s, r.failed)
          /\ h # NoConnection /\ normLevel[s] < normLevel[ServerOf[h]]
                => normLevel[s] < r.level

ClimbInv == \A d \in Downloaders : Climbs(d, dl[d], held[d])

(***************************************************************************)
(* A step of thread d that keeps its climb and does not go down.           *)
(***************************************************************************)
ClimbStep(d) ==
    /\ dl' = [dl EXCEPT ![d] = dl'[d]]
    /\ held' = [held EXCEPT ![d] = held'[d]]
    /\ Climbs(d, dl'[d], held'[d])
    /\ dl[d].pc # "idle" /\ dl'[d].pc # "idle" => dl'[d].level >= dl[d].level

(***************************************************************************)
(* Steps that keep level, failed servers and, if any, the connection.      *)
(***************************************************************************)
LEMMA SameLevelClimbs ==
    ASSUME LocalInv, ClimbInv, NEW d \in Downloaders, NEW r, NEW h,
           dl' = [dl EXCEPT ![d] = r], held' = [held EXCEPT ![d] = h],
           r.level = dl[d].level, r.failed = dl[d].failed,
           h = held[d] \/ h = NoConnection,
           r.pc = "deciding" /\ r.want = NoServer => h = NoConnection
    PROVE  ClimbStep(d)
<1>1. dl'[d] = r /\ held'[d] = h
  BY RecordOf
<1>2. Climbs(d, dl[d], held[d])
  BY DEF ClimbInv
<1>3. Climbs(d, r, h)
  BY <1>2 DEF Climbs
<1>4. dl[d].level \in Int
  BY RecordOf DEF RunState
<1>5. dl' = [dl EXCEPT ![d] = dl'[d]] /\ held' = [held EXCEPT ![d] = held'[d]]
  BY <1>1
<1>6. Climbs(d, dl'[d], held'[d])
  BY <1>1, <1>3
<1>7. dl'[d].level >= dl[d].level
  BY <1>1, <1>4
<1> QED
  BY <1>5, <1>6, <1>7 DEF ClimbStep
LEMMA StartClimbs ==
    ASSUME LocalInv, FixedPool, NEW d \in Downloaders, StartArticleDownload(d)
    PROVE  ClimbStep(d)
<1> DEFINE r == [Fresh EXCEPT !.pc = "started"]
           from == IF Desired[d] = NoServer THEN 0 ELSE normLevel[Desired[d]]
<1>1. PICK c \in Connections : /\ GetConnection(from, Desired[d], {}, c)
                               /\ held' = [held EXCEPT ![d] = c]
  BY DEF StartArticleDownload
<1>2. from \in Int
  BY DownloaderAssumption DEF DownloaderAssumption, LocalInv, TypeOK, PoolTypeOK
<1>3. dl' = [dl EXCEPT ![d] = r] /\ dl'[d] = r /\ held'[d] = c
  BY <1>1, RecordOf DEF StartArticleDownload
<1>4. r.level = 0 /\ r.pc = "started"
  BY DEF Fresh
<1>5. /\ normLevel[ServerOf[c]] \in Nat
      /\ \A s \in Servers : Needed(s) /\ normLevel[s] < normLevel[ServerOf[c]]
            => normLevel[s] < from
  <2> HIDE DEF from
  <2> QED BY <1>1, <1>2, GetConnectionClimbs
<1>6. ASSUME NEW s \in Servers, Needed(s) PROVE ~(normLevel[s] < 0)
  BY <1>6, ActiveIsRanked DEF Needed
<1>7. Climbs(d, r, c)
  <2> HIDE DEF r
  <2> QED BY <1>4, <1>5, <1>6 DEF Climbs
<1>8. dl' = [dl EXCEPT ![d] = dl'[d]] /\ held' = [held EXCEPT ![d] = held'[d]]
  BY <1>1, <1>3
<1>9. Climbs(d, dl'[d], held'[d])
  BY <1>3, <1>7
<1>10. dl[d].pc = "idle"
  BY DEF StartArticleDownload, At
<1> QED
  BY <1>8, <1>9, <1>10 DEF ClimbStep

LEMMA PollClimbs ==
    ASSUME LocalInv, FixedPool, ClimbInv, NEW d \in Downloaders, PollForConnection(d)
    PROVE  ClimbStep(d)
<1>1. PICK c \in Connections \cup {NoConnection} :
         /\ GetConnection(dl[d].level, dl[d].want, dl[d].failed, c)
         /\ held' = [held EXCEPT ![d] = c]
  BY DEF PollForConnection
<1>2. dl[d].level \in Int /\ dl[d].pc = "waiting" /\ dl' = dl /\ held'[d] = c
      /\ held[d] = NoConnection
  BY <1>1, RecordOf DEF RunState, PollForConnection, At
<1>3. Climbs(d, dl[d], NoConnection)
  BY <1>2 DEF ClimbInv
<1>4. Climbs(d, dl[d], c)
  <2>1. CASE c = NoConnection
    BY <1>3, <2>1
  <2>2. CASE c # NoConnection
    <3>1. /\ dl[d].level <= normLevel[ServerOf[c]]
          /\ \A s \in Servers : Needed(s) /\ normLevel[s] < normLevel[ServerOf[c]]
                => normLevel[s] < dl[d].level
      BY <1>1, <1>2, <2>2, GetConnectionClimbs
    <3> QED BY <1>2, <1>3, <3>1 DEF Climbs
  <2> QED BY <2>1, <2>2
<1>5. dl' = [dl EXCEPT ![d] = dl'[d]] /\ dl'[d] = dl[d]
  BY <1>2, RecordOf
<1>6. held' = [held EXCEPT ![d] = held'[d]]
  BY <1>1, <1>2
<1> QED
  BY <1>2, <1>4, <1>5, <1>6 DEF ClimbStep

LEMMA LeaveWaitingClimbs ==
    ASSUME LocalInv, ClimbInv, NEW d \in Downloaders, LeaveWaiting(d)
    PROVE  ClimbStep(d)
<1>0. held' = [held EXCEPT ![d] = held[d]] /\ held'[d] = held[d]
  BY RecordOf DEF LeaveWaiting
<1>1. CASE dl' = [dl EXCEPT ![d].status = "retry", ![d].pc = "finishing"]
  <2> DEFINE r == [dl[d] EXCEPT !.status = "retry", !.pc = "finishing"]
  <2>1. dl' = [dl EXCEPT ![d] = r]
    BY <1>1
  <2>2. r.level = dl[d].level /\ r.failed = dl[d].failed /\ r.pc = "finishing"
    BY RecordOf DEF RunState
  <2> HIDE DEF r
  <2> QED BY <1>0, <2>1, <2>2, SameLevelClimbs
<1>2. ASSUME held[d] # NoConnection, NEW x, NEW p \in {"retention", "connecting"},
             dl' = [dl EXCEPT ![d].last = ServerOf[held[d]],
                              ![d].level = normLevel[ServerOf[held[d]]],
                              ![d].status = "failed", ![d].retention = x, ![d].pc = p]
      PROVE  ClimbStep(d)
  <2> DEFINE i == normLevel[ServerOf[held[d]]]
             r == [dl[d] EXCEPT !.last = ServerOf[held[d]], !.level = i,
                                !.status = "failed", !.retention = x, !.pc = p]
  <2>1. dl' = [dl EXCEPT ![d] = r] /\ dl'[d] = r
    BY <1>2, RecordOf
  <2>2. r.level = i /\ r.failed = dl[d].failed /\ r.pc = p
    BY RecordOf DEF RunState
  <2>3. dl[d].level \in Int /\ i \in Int
    BY <1>2, RecordOf, HasConnection DEF RunState, PoolTypeOK
  <2>4. Climbs(d, dl[d], held[d])
    BY DEF ClimbInv
  <2>5. Climbs(d, r, held[d])
    <3> HIDE DEF r
    <3> QED BY <1>2, <2>2, <2>3, <2>4 DEF Climbs
  <2>6. dl[d].level <= i
    BY <1>2, <2>4 DEF Climbs
  <2> HIDE DEF r, i
  <2>7. dl' = [dl EXCEPT ![d] = dl'[d]] /\ held' = [held EXCEPT ![d] = held'[d]]
    BY <1>0, <2>1
  <2> QED BY <1>0, <2>1, <2>2, <2>3, <2>5, <2>6, <2>7 DEF ClimbStep
<1> QED
  BY <1>1, <1>2 DEF LeaveWaiting
(***************************************************************************)
(* The steps between getting the connection and deciding what comes next.  *)
(***************************************************************************)
LEMMA AttemptClimbs ==
    ASSUME LocalInv, ClimbInv, NEW d \in Downloaders,
           \/ EnterRun(d) \/ SkipOutOfRetention(d) \/ Connect(d)
           \/ DownloadBreaksOff(d) \/ DownloadReceivesAll(d) \/ AccountForAttempt(d)
           \/ KeepOrRelease(d) \/ Stop(d)
    PROVE  ClimbStep(d)
<1> DEFINE Same(r) == r.level = dl[d].level /\ r.failed = dl[d].failed
<1>0. dl[d] \in RunState
  BY RecordOf
<1>a. UNCHANGED held => held' = [held EXCEPT ![d] = held[d]]
  BY RecordOf
<1>b. ASSUME NEW keep, ReleaseConnection(d, keep)
      PROVE  held' = [held EXCEPT ![d] = NoConnection]
  BY <1>b, ReleaseConnectionType DEF LocalInv
<1>1. CASE EnterRun(d)
  <2> DEFINE r == [dl[d] EXCEPT !.pc = "waiting", !.generation = generation]
  <2>1. dl' = [dl EXCEPT ![d] = r] /\ UNCHANGED held
    BY <1>1 DEF EnterRun
  <2>2. Same(r) /\ r.pc = "waiting"
    BY <1>0 DEF RunState
  <2> HIDE DEF r
  <2> QED BY <1>a, <2>1, <2>2, SameLevelClimbs
<1>2. CASE SkipOutOfRetention(d)
  <2> DEFINE r == [dl[d] EXCEPT !.pc = "blocking"]
  <2>1. dl' = [dl EXCEPT ![d] = r] /\ held' = [held EXCEPT ![d] = NoConnection]
    BY <1>2, <1>b DEF SkipOutOfRetention
  <2>2. Same(r) /\ r.pc = "blocking"
    BY <1>0 DEF RunState
  <2> HIDE DEF r
  <2> QED BY <2>1, <2>2, SameLevelClimbs
<1>3. CASE Connect(d)
  <2>0. UNCHANGED held
    BY <1>3 DEF Connect
  <2>1. ASSUME NEW p \in {"blocking", "downloading"},
               dl' = [dl EXCEPT ![d].connected = TRUE, ![d].pc = p]
        PROVE  ClimbStep(d)
    <3> DEFINE r == [dl[d] EXCEPT !.connected = TRUE, !.pc = p]
    <3>1. dl' = [dl EXCEPT ![d] = r]
      BY <2>1
    <3>2. Same(r) /\ r.pc = p
      BY <1>0 DEF RunState
    <3> HIDE DEF r
    <3> QED BY <1>a, <2>0, <2>1, <3>1, <3>2, SameLevelClimbs
  <2>2. CASE dl' = [dl EXCEPT ![d].pc = "blocking"]
    <3> DEFINE r == [dl[d] EXCEPT !.pc = "blocking"]
    <3>1. dl' = [dl EXCEPT ![d] = r]
      BY <2>2
    <3>2. Same(r) /\ r.pc = "blocking"
      BY <1>0 DEF RunState
    <3> HIDE DEF r
    <3> QED BY <1>a, <2>0, <3>1, <3>2, SameLevelClimbs
  <2> QED BY <1>3, <2>1, <2>2 DEF Connect
<1>4. ASSUME NEW st, dl' = [dl EXCEPT ![d].status = st, ![d].pc = "blocking"],
             \/ UNCHANGED held
             \/ held' = [held EXCEPT ![d] = NoConnection]
      PROVE  ClimbStep(d)
  <2> DEFINE r == [dl[d] EXCEPT !.status = st, !.pc = "blocking"]
  <2>1. dl' = [dl EXCEPT ![d] = r]
    BY <1>4
  <2>2. Same(r) /\ r.pc = "blocking"
    BY <1>0 DEF RunState
  <2> HIDE DEF r
  <2> QED BY <1>4, <1>a, <2>1, <2>2, SameLevelClimbs
<1>5. CASE DownloadBreaksOff(d)
  BY <1>4, <1>5 DEF DownloadBreaksOff
<1>6. CASE DownloadReceivesAll(d)
  BY <1>4, <1>6, <1>b DEF DownloadReceivesAll
<1>7. CASE AccountForAttempt(d)
  <2> DEFINE connErr == dl[d].status = "connectError"
             conn == dl[d].connected /\ ~connErr
             status == IF connErr THEN "failed" ELSE dl[d].status
             retries == IF CostsRetry(conn, status) THEN dl[d].retries - 1
                        ELSE dl[d].retries
             blocked2 == (~conn /\ held[d] # NoConnection /\ ~dl[d].stopped)
                         /\ Optional[dl[d].last]
  <2>1. dl' = [dl EXCEPT ![d].connected = conn, ![d].status = status,
                         ![d].retries = retries, ![d].optionalBlocked = blocked2,
                         ![d].pc = "releasing"]
    BY <1>7 DEF AccountForAttempt
  <2> DEFINE r == [dl[d] EXCEPT !.connected = conn, !.status = status,
                                !.retries = retries, !.optionalBlocked = blocked2,
                                !.pc = "releasing"]
  <2>2. dl' = [dl EXCEPT ![d] = r] /\ UNCHANGED held
    BY ZenonT(30), <1>7, <2>1 DEF AccountForAttempt
  <2>3. Same(r) /\ r.pc = "releasing"
    BY <1>0 DEF RunState
  <2> HIDE DEF r
  <2> QED BY <1>a, <2>2, <2>3, SameLevelClimbs
<1>8. CASE KeepOrRelease(d)
  <2> DEFINE again == /\ dl[d].connected /\ dl[d].status = "failed"
                      /\ dl[d].retries > 0 /\ ~dl[d].retention
             want == IF again THEN dl[d].last ELSE NoServer
             r == [dl[d] EXCEPT !.want = want, !.pc = "deciding"]
  <2>1. dl' = [dl EXCEPT ![d] = r]
    BY <1>8 DEF KeepOrRelease
  <2>2. Same(r) /\ r.want = want
    BY <1>0 DEF RunState
  <2>3. CASE again
    <3>1. UNCHANGED held
      BY <1>8, <2>3 DEF KeepOrRelease
    <3>2. dl[d].last \in Servers
      BY <1>8, RecordOf DEF KeepOrRelease, At, Consistent, Judging
    <3>3. want # NoServer
      BY <2>3, <3>2, PoolAssumption DEF PoolAssumption
    <3> HIDE DEF r, want, again
    <3> QED BY <1>a, <2>1, <2>2, <3>1, <3>3, SameLevelClimbs
  <2>4. CASE ~again
    <3>1. held' = [held EXCEPT ![d] = NoConnection]
      BY <1>8, <1>b, <2>4 DEF KeepOrRelease
    <3> HIDE DEF r
    <3> QED BY <2>1, <2>2, <3>1, SameLevelClimbs
  <2> QED BY <2>3, <2>4
<1>9. CASE Stop(d)
  <2> DEFINE r == [dl[d] EXCEPT !.stopped = TRUE]
  <2>1. dl' = [dl EXCEPT ![d] = r] /\ UNCHANGED held
    BY <1>9 DEF Stop
  <2>2. Same(r) /\ r.pc = dl[d].pc /\ r.want = dl[d].want
    BY <1>0 DEF RunState
  <2>3. dl[d].pc = "deciding" /\ dl[d].want = NoServer => held[d] = NoConnection
    BY DEF ClimbInv, Climbs
  <2> HIDE DEF r
  <2> QED BY <1>a, <2>1, <2>2, <2>3, SameLevelClimbs
<1> QED
  BY <1>1, <1>2, <1>3, <1>5, <1>6, <1>7, <1>8, <1>9

LEMMA FinishClimbs ==
    ASSUME LocalInv, FixedPool, NEW d \in Downloaders, FinishRun(d)
    PROVE  ClimbStep(d)
<1>1. held' = [held EXCEPT ![d] = NoConnection] /\ held'[d] = NoConnection
  BY ReleaseConnectionType, RecordOf DEF FinishRun, LocalInv
<1>2. dl' = [dl EXCEPT ![d] = Fresh] /\ dl'[d] = Fresh
  BY RecordOf DEF FinishRun
<1>3. Fresh.level = 0 /\ Fresh.pc = "idle"
  BY DEF Fresh
<1>4. ASSUME NEW s \in Servers, Needed(s) PROVE ~(normLevel[s] < 0)
  BY <1>4, ActiveIsRanked DEF Needed
<1>5. Climbs(d, dl'[d], held'[d])
  BY <1>1, <1>2, <1>3, <1>4 DEF Climbs
<1>6. dl' = [dl EXCEPT ![d] = dl'[d]] /\ held' = [held EXCEPT ![d] = held'[d]]
  BY <1>1, <1>2
<1> QED
  BY <1>2, <1>3, <1>5, <1>6 DEF ClimbStep
(***************************************************************************)
(* The three ways in which DecideNext ends.                                *)
(***************************************************************************)
LEMMA DecideNextCases ==
    ASSUME LocalInv, NEW d \in Downloaders, DecideNext(d)
    PROVE  LET r        == dl[d]
               failed   == IF r.optionalBlocked THEN r.failed ELSE r.failed \cup {r.last}
               levelEnd == AllServersOnLevelFailed(r.level, failed)
           IN  \/ \E status \in Statuses :
                    /\ status = "failed" => Desired[d] # NoServer
                    /\ dl'[d] = [r EXCEPT !.status = status, !.pc = "finishing"]
               \/ /\ r.want = NoServer /\ levelEnd /\ IsLastLevel(r.level)
                  /\ dl'[d] = [r EXCEPT !.failed = failed, !.status = "failed",
                                        !.pc = "finishing"]
               \/ /\ r.want = NoServer
                  /\ \E level \in Int :
                       /\ level = r.level \/ (levelEnd /\ level = r.level + 1)
                       /\ dl'[d] = [r EXCEPT !.failed = failed, !.level = level,
                             !.retries = ArticleRetries, !.pc = "waiting",
                             !.last = NoServer, !.connected = FALSE,
                             !.retention = FALSE, !.optionalBlocked = FALSE,
                             !.status = "running"]
               \/ dl'[d] = [r EXCEPT !.pc = "waiting", !.last = NoServer,
                              !.connected = FALSE, !.retention = FALSE,
                              !.optionalBlocked = FALSE, !.status = "running"]
<1> DEFINE r        == dl[d]
           failed   == IF r.optionalBlocked THEN r.failed ELSE r.failed \cup {r.last}
           levelEnd == AllServersOnLevelFailed(r.level, failed)
           nextTry  == r.want = NoServer
                       /\ (r.connected \/ r.retention \/ r.optionalBlocked)
           level    == IF levelEnd THEN r.level + 1 ELSE r.level
<1>0. dl \in [Downloaders -> RunState] /\ r.level \in Int
  BY RecordOf DEF RunState
<1>1. ASSUME NEW status \in Statuses, status = "failed" => Desired[d] # NoServer,
             dl' = [dl EXCEPT ![d].status = status, ![d].pc = "finishing"]
      PROVE  \E st \in Statuses :
                /\ st = "failed" => Desired[d] # NoServer
                /\ dl'[d] = [r EXCEPT !.status = st, !.pc = "finishing"]
  BY <1>0, <1>1
<1>2. CASE r.status \in {"finished", "fatalError", "duplicate"}
  <2>1. dl' = [dl EXCEPT ![d].status = r.status, ![d].pc = "finishing"]
    BY <1>2 DEF DecideNext
  <2>2. r.status \in Statuses /\ r.status # "failed"
    BY <1>2 DEF Statuses
  <2> QED BY <1>1, <2>1, <2>2
<1>3. CASE r.status \notin {"finished", "fatalError", "duplicate"} /\ MustGiveBack(d)
  <2>1. dl' = [dl EXCEPT ![d].status = "retry", ![d].pc = "finishing"]
    BY <1>3 DEF DecideNext
  <2>2. "retry" \in Statuses
    BY DEF Statuses
  <2> QED BY <1>1, <2>1, <2>2
<1>4. CASE /\ r.status \notin {"finished", "fatalError", "duplicate"} /\ ~MustGiveBack(d)
           /\ r.want = NoServer /\ Desired[d] # NoServer
  <2>1. dl' = [dl EXCEPT ![d].status = "failed", ![d].pc = "finishing"]
    BY <1>4 DEF DecideNext
  <2>2. "failed" \in Statuses
    BY DEF Statuses
  <2> QED BY <1>1, <1>4, <2>1, <2>2
<1> DEFINE Goes == /\ r.status \notin {"finished", "fatalError", "duplicate"}
                   /\ ~MustGiveBack(d)
                   /\ ~(r.want = NoServer /\ Desired[d] # NoServer)
<1>5. CASE Goes /\ nextTry /\ levelEnd /\ IsLastLevel(r.level)
  <2>1. dl' = [dl EXCEPT ![d].failed = failed, ![d].status = "failed",
                         ![d].pc = "finishing"]
    BY <1>5 DEF DecideNext
  <2>2. dl'[d] = [r EXCEPT !.failed = failed, !.status = "failed", !.pc = "finishing"]
    BY <1>0, <2>1
  <2> QED BY <1>5, <2>2
<1>6. CASE Goes /\ nextTry /\ ~(levelEnd /\ IsLastLevel(r.level))
  <2> DEFINE n == [r EXCEPT !.failed = failed, !.level = level,
                             !.retries = ArticleRetries, !.pc = "waiting",
                             !.last = NoServer, !.connected = FALSE,
                             !.retention = FALSE, !.optionalBlocked = FALSE,
                             !.status = "running"]
  <2>1. dl' = [dl EXCEPT ![d] = n]
    BY <1>6 DEF DecideNext
  <2>2. dl'[d] = n
    BY <1>0, <2>1
  <2>3. level \in Int /\ (level = r.level \/ (levelEnd /\ level = r.level + 1))
    BY <1>0
  <2> QED BY <1>6, <2>2, <2>3
<1>7. CASE Goes /\ ~nextTry
  <2> DEFINE n == [r EXCEPT !.pc = "waiting", !.last = NoServer,
                            !.connected = FALSE, !.retention = FALSE,
                            !.optionalBlocked = FALSE, !.status = "running"]
  <2>1. dl' = [dl EXCEPT ![d] = n]
    BY <1>7 DEF DecideNext
  <2>2. dl'[d] = n
    BY <1>0, <2>1
  <2> QED BY <2>2
<1> QED
  BY <1>2, <1>3, <1>4, <1>5, <1>6, <1>7
LEMMA DecideNextClimbs ==
    ASSUME LocalInv, ClimbInv, NEW d \in Downloaders, DecideNext(d)
    PROVE  ClimbStep(d)
<1> DEFINE failed == IF dl[d].optionalBlocked THEN dl[d].failed
                     ELSE dl[d].failed \cup {dl[d].last}
<1>0. dl[d] \in RunState /\ dl[d].level \in Int /\ dl[d].pc = "deciding"
  BY RecordOf DEF RunState, DecideNext, At
<1>1. dl' = [dl EXCEPT ![d] = dl'[d]]
  <2>1. \E r : dl' = [dl EXCEPT ![d] = r]
    <3> DEFINE r1(st) == [dl[d] EXCEPT !.status = st, !.pc = "finishing"]
               r2 == [dl[d] EXCEPT !.failed = failed, !.status = "failed",
                                   !.pc = "finishing"]
    <3>1. \A st : dl' = [dl EXCEPT ![d].status = st, ![d].pc = "finishing"]
                    => dl' = [dl EXCEPT ![d] = r1(st)]
      OBVIOUS
    <3>2. dl' = [dl EXCEPT ![d].failed = failed, ![d].status = "failed",
                           ![d].pc = "finishing"]
             => dl' = [dl EXCEPT ![d] = r2]
      OBVIOUS
    <3> QED BY <3>1, <3>2 DEF DecideNext
  <2> QED BY <2>1, RecordOf
<1>2. UNCHANGED held
  BY DEF DecideNext
<1>3. held' = [held EXCEPT ![d] = held'[d]] /\ held'[d] = held[d]
  BY <1>2, RecordOf
<1>4. Climbs(d, dl[d], held[d])
  BY DEF ClimbInv
<1>5. ASSUME NEW s, IsIgnored(s, dl[d].failed) PROVE IsIgnored(s, failed)
  BY <1>5 DEF IsIgnored
<1>6. ASSUME dl'[d].pc # "deciding", dl'[d].level = dl[d].level,
             \/ dl'[d].failed = dl[d].failed
             \/ dl'[d].failed = failed
      PROVE  ClimbStep(d)
  <2>1. Climbs(d, dl'[d], held[d])
    <3> HIDE DEF failed
    <3> QED BY <1>4, <1>5, <1>6 DEF Climbs
  <2>2. dl'[d].level >= dl[d].level
    BY <1>0, <1>6
  <2> QED BY <1>1, <1>3, <2>1, <2>2 DEF ClimbStep
<1>7. ASSUME dl'[d].pc = "waiting", dl'[d].level = dl[d].level + 1,
             dl'[d].failed = failed, dl[d].want = NoServer,
             AllServersOnLevelFailed(dl[d].level, failed)
      PROVE  ClimbStep(d)
  <2>1. held[d] = NoConnection
    BY <1>0, <1>4, <1>7 DEF Climbs
  <2>2. ASSUME Desired[d] = NoServer, NEW s \in Servers, Needed(s),
               normLevel[s] < dl[d].level + 1
        PROVE  IsIgnored(s, failed)
    <3>0. normLevel[s] \in Int
      BY RecordOf DEF PoolTypeOK
    <3>1. CASE normLevel[s] < dl[d].level
      BY <1>4, <1>5, <2>2, <3>1 DEF Climbs
    <3>2. CASE normLevel[s] = dl[d].level
      BY <1>7, <2>2, <3>2 DEF AllServersOnLevelFailed, Needed
    <3> QED BY <1>0, <2>2, <3>0, <3>1, <3>2
  <2>3. Climbs(d, dl'[d], held[d])
    <3> HIDE DEF failed
    <3> QED BY <1>7, <2>1, <2>2 DEF Climbs
  <2>4. dl'[d].level >= dl[d].level
    BY <1>0, <1>7
  <2> QED BY <1>1, <1>3, <2>3, <2>4 DEF ClimbStep
<1>8. ASSUME NEW status \in Statuses,
             dl'[d] = [dl[d] EXCEPT !.status = status, !.pc = "finishing"]
      PROVE  ClimbStep(d)
  <2>1. /\ dl'[d].pc = "finishing" /\ dl'[d].level = dl[d].level
        /\ dl'[d].failed = dl[d].failed
    BY <1>0, <1>8 DEF RunState
  <2> QED BY <1>6, <2>1
<1>9. ASSUME dl'[d] = [dl[d] EXCEPT !.failed = failed, !.status = "failed",
                                    !.pc = "finishing"]
      PROVE  ClimbStep(d)
  <2>1. /\ dl'[d].pc = "finishing" /\ dl'[d].level = dl[d].level
        /\ dl'[d].failed = failed
    <3> HIDE DEF failed
    <3> QED BY <1>0, <1>9 DEF RunState
  <2> QED BY <1>6, <2>1
<1>10. ASSUME NEW level \in Int, dl[d].want = NoServer,
              \/ level = dl[d].level
              \/ /\ AllServersOnLevelFailed(dl[d].level, failed)
                 /\ level = dl[d].level + 1,
              dl'[d] = [dl[d] EXCEPT !.failed = failed, !.level = level,
                          !.retries = ArticleRetries, !.pc = "waiting",
                          !.last = NoServer, !.connected = FALSE,
                          !.retention = FALSE, !.optionalBlocked = FALSE,
                          !.status = "running"]
       PROVE  ClimbStep(d)
  <2>1. /\ dl'[d].pc = "waiting" /\ dl'[d].level = level
        /\ dl'[d].failed = failed
    <3> HIDE DEF failed
    <3> QED BY <1>0, <1>10 DEF RunState
  <2> QED BY <1>6, <1>7, <1>10, <2>1
<1>11. ASSUME dl'[d] = [dl[d] EXCEPT !.pc = "waiting", !.last = NoServer,
                          !.connected = FALSE, !.retention = FALSE,
                          !.optionalBlocked = FALSE, !.status = "running"]
       PROVE  ClimbStep(d)
  <2>1. /\ dl'[d].pc = "waiting" /\ dl'[d].level = dl[d].level
        /\ dl'[d].failed = dl[d].failed
    BY <1>0, <1>11 DEF RunState
  <2> QED BY <1>6, <2>1
<1> QED
  BY <1>8, <1>9, <1>10, <1>11, DecideNextCases

(***************************************************************************)
(* As long as no server is switched, every step of the system is one of a  *)
(* single climbing thread or leaves all threads alone.                     *)
(***************************************************************************)
LEMMA ClimbKinds ==
    ASSUME LocalInv, FixedPool, ClimbInv, [Next]_vars
    PROVE  (\E d \in Downloaders : ClimbStep(d)) \/ UNCHANGED <<dl, held>>
<1>1. ASSUME NEW d \in Downloaders, StartArticleDownload(d) \/ ThreadStep(d) \/ Stop(d)
      PROVE  ClimbStep(d)
  BY <1>1, StartClimbs, PollClimbs, LeaveWaitingClimbs, AttemptClimbs,
     DecideNextClimbs, FinishClimbs DEF ThreadStep
<1>2. ASSUME \/ \E e \in Editors : EditServer(e) \/ ChangedInit(e) \/ ChangedClose(e)
             \/ PeriodicClose
             \/ \E s \in Servers : RetryIntervalPasses(s)
             \/ Suspend \/ Resume
             \/ UNCHANGED vars
      PROVE  UNCHANGED <<dl, held>>
  BY <1>2 DEF EditServer, ChangedInit, ChangedClose, PeriodicClose,
              RetryIntervalPasses, Suspend, Resume, vars, dlVars
<1> QED
  BY <1>1, <1>2 DEF Next

LEMMA InitClimb == Init => ClimbInv
<1> SUFFICES ASSUME Init, NEW d \in Downloaders PROVE Climbs(d, dl[d], held[d])
  BY DEF ClimbInv
<1>1. FixedPool
  BY InitFixed
<1>2. held[d] = NoConnection /\ dl[d].pc = "idle" /\ dl[d].level = 0
  BY DEF Init, Fresh
<1>3. ASSUME NEW s \in Servers, Needed(s) PROVE ~(normLevel[s] < 0)
  BY <1>1, <1>3, ActiveIsRanked DEF Needed
<1> QED
  BY <1>2, <1>3 DEF Climbs

LEMMA ClimbInvStep ==
    ASSUME LocalInv, FixedPool, ClimbInv, [Next]_vars, MaxEdits = 0
    PROVE  ClimbInv'
<1> SUFFICES ASSUME NEW e \in Downloaders PROVE Climbs(e, dl[e], held[e])'
  BY DEF ClimbInv
<1>1. UNCHANGED <<active, normLevel>>
  BY FixedStep
<1>2. Climbs(e, dl'[e], held'[e]) => Climbs(e, dl[e], held[e])'
  BY <1>1 DEF Climbs, Needed, IsIgnored
<1>3. Climbs(e, dl[e], held[e])
  BY DEF ClimbInv
<1>4. CASE UNCHANGED <<dl, held>>
  <2>1. Climbs(e, dl'[e], held'[e])
    BY <1>3, <1>4
  <2> QED BY <1>2, <2>1
<1>5. ASSUME NEW d \in Downloaders, ClimbStep(d) PROVE Climbs(e, dl'[e], held'[e])
  <2>1. CASE e = d
    BY <1>5, <2>1 DEF ClimbStep
  <2>2. CASE e # d
    <3>1. dl'[e] = dl[e] /\ held'[e] = held[e]
      BY <1>5, <2>2, RecordOf DEF ClimbStep
    <3> QED BY <1>3, <3>1
  <2> QED BY <2>1, <2>2
<1> QED
  BY <1>2, <1>4, <1>5, ClimbKinds
LEMMA OwnStep ==
    ASSUME LocalInv, FixedPool, ClimbInv, [Next]_vars, NEW d \in Downloaders,
           dl'[d] # dl[d]
    PROVE  StartArticleDownload(d) \/ ThreadStep(d) \/ Stop(d)
<1>1. ASSUME NEW e \in Downloaders,
             StartArticleDownload(e) \/ ThreadStep(e) \/ Stop(e)
      PROVE  e = d
  <2>1. ClimbStep(e)
    BY <1>1, StartClimbs, PollClimbs, LeaveWaitingClimbs, AttemptClimbs,
       DecideNextClimbs, FinishClimbs DEF ThreadStep
  <2> QED BY <2>1, RecordOf DEF ClimbStep
<1>2. ASSUME \/ \E e \in Editors : EditServer(e) \/ ChangedInit(e) \/ ChangedClose(e)
             \/ PeriodicClose
             \/ \E s \in Servers : RetryIntervalPasses(s)
             \/ Suspend \/ Resume
             \/ UNCHANGED vars
      PROVE  FALSE
  <2>1. UNCHANGED dl
    BY <1>2 DEF EditServer, ChangedInit, ChangedClose, PeriodicClose,
              RetryIntervalPasses, Suspend, Resume, vars, dlVars
  <2> QED BY <2>1
<1> QED
  BY <1>1, <1>2 DEF Next

(***************************************************************************)
(* An article starts above the lowest level only if the lowest level has   *)
(* active servers and all of them are optional.                            *)
(***************************************************************************)
LEMMA StartSparesBackups ==
    ASSUME LocalInv, FixedPool, NEW d \in Downloaders, StartArticleDownload(d),
           Desired[d] = NoServer
    PROVE  LET main == {s \in Servers : HasMinLevel(s) /\ active[s]}
           IN  \/ HasMinLevel(ServerOf[held'[d]])
               \/ main # {} /\ \A s \in main : Optional[s]
<1> DEFINE main == {s \in Servers : HasMinLevel(s) /\ active[s]}
<1>1. PICK c \in Connections : /\ GetConnection(0, NoServer, {}, c)
                               /\ held' = [held EXCEPT ![d] = c]
  BY DEF StartArticleDownload
<1>2. held'[d] = c
  BY <1>1, RecordOf
<1> DEFINE i == normLevel[ServerOf[c]]
<1>3. /\ i \in Nat
      /\ \A k \in 0 .. i : LevelsAt(k) > 0
      /\ \A k \in 0 .. (i - 1) : LevelIsSkipped(k, NoServer, {})
  BY <1>1, GetConnectionClimbs
<1>4. \A s \in Servers : normLevel[s] = 0 <=> HasMinLevel(s)
  BY RankZero DEF FixedPool
<1>5. CASE i = 0
  BY <1>2, <1>4, <1>5, HasConnection
<1>6. CASE i # 0
  <2>1. LevelsAt(0) > 0 /\ LevelIsSkipped(0, NoServer, {})
    BY <1>3, <1>6
  <2>2. \A s \in main : Optional[s]
    BY <1>4, <2>1 DEF LevelIsSkipped
  <2>3. 0 \in DOMAIN levels
    <3>1. PICK m \in Servers : HasMinLevel(m)
      BY MinLevelExists
    <3>2. normLevel[m] \in 0 .. (Cardinality(RankedLevels) - 1) /\ normLevel[m] = 0
      BY <1>4, <3>1, RankIsIndex DEF FixedPool, IsRanked
    <3> QED BY <3>2 DEF FixedPool
  <2>4. PICK o \in Connections : active[ServerOf[o]] /\ normLevel[ServerOf[o]] = 0
    BY <2>1, <2>3 DEF FixedPool, LevelsAt
  <2>5. ServerOf[o] \in main
    BY <1>4, <2>4, HasConnection
  <2> QED BY <2>2, <2>5
<1> QED BY <1>5, <1>6

(***************************************************************************)
(* DecideNext gives an article up only after all servers that must be      *)
(* tried: those below its level by the invariant, those on its level       *)
(* because it is exhausted, and there is no level above.                   *)
(***************************************************************************)
LEMMA GivesUpLast ==
    ASSUME LocalInv, FixedPool, ClimbInv, NEW d \in Downloaders, DecideNext(d),
           dl'[d].pc = "finishing", dl'[d].status = "failed",
           Desired[d] = NoServer, NEW s \in Servers, Needed(s)
    PROVE  IsIgnored(s, dl'[d].failed)
<1> DEFINE failed == IF dl[d].optionalBlocked THEN dl[d].failed
                     ELSE dl[d].failed \cup {dl[d].last}
<1>0. dl[d] \in RunState /\ dl[d].level \in Int /\ normLevel[s] \in Int
  BY RecordOf DEF RunState, PoolTypeOK
<1>1. dl'[d].failed = failed /\ AllServersOnLevelFailed(dl[d].level, failed)
      /\ IsLastLevel(dl[d].level)
  <2>1. ASSUME NEW status \in Statuses, status = "failed" => Desired[d] # NoServer,
               dl'[d] = [dl[d] EXCEPT !.status = status, !.pc = "finishing"]
        PROVE  FALSE
    <3>1. dl'[d].status = status
      BY <1>0, <2>1 DEF RunState
    <3> QED BY <2>1, <3>1
  <2>3. ASSUME dl'[d] = [dl[d] EXCEPT !.pc = "waiting", !.last = NoServer,
                          !.connected = FALSE, !.retention = FALSE,
                          !.optionalBlocked = FALSE, !.status = "running"]
        PROVE  FALSE
    <3>1. dl'[d].pc = "waiting"
      BY <1>0, <2>3 DEF RunState
    <3> QED BY <3>1
  <2>4. ASSUME dl'[d] = [dl[d] EXCEPT !.failed = failed, !.status = "failed",
                                      !.pc = "finishing"]
        PROVE  dl'[d].failed = failed
    <3> HIDE DEF failed
    <3> QED BY <1>0, <2>4 DEF RunState
  <2> DEFINE Ends(status) == dl'[d] = [dl[d] EXCEPT !.status = status, !.pc = "finishing"]
             GivesUp == dl'[d] = [dl[d] EXCEPT !.failed = failed, !.status = "failed",
                                      !.pc = "finishing"]
             Tries(level) == dl'[d] = [dl[d] EXCEPT !.failed = failed, !.level = level,
                          !.retries = ArticleRetries, !.pc = "waiting",
                          !.last = NoServer, !.connected = FALSE,
                          !.retention = FALSE, !.optionalBlocked = FALSE,
                          !.status = "running"]
             Repeats == dl'[d] = [dl[d] EXCEPT !.pc = "waiting", !.last = NoServer,
                          !.connected = FALSE, !.retention = FALSE,
                          !.optionalBlocked = FALSE, !.status = "running"]
  <2>5. \/ \E status \in Statuses : (status = "failed" => Desired[d] # NoServer) /\ Ends(status)
        \/ /\ AllServersOnLevelFailed(dl[d].level, failed)
           /\ IsLastLevel(dl[d].level)
           /\ GivesUp
        \/ \E level \in Int : Tries(level)
        \/ Repeats
    BY DecideNextCases
  <2>6. /\ \A status \in Statuses : ~((status = "failed" => Desired[d] # NoServer) /\ Ends(status))
        /\ \A level \in Int : ~Tries(level)
        /\ ~Repeats
    <3>1. ASSUME NEW status \in Statuses, status = "failed" => Desired[d] # NoServer,
                 Ends(status)
          PROVE  FALSE
      BY ONLY <2>1, <3>1
    <3>2. ASSUME NEW level \in Int, Tries(level) PROVE FALSE
      <4> HIDE DEF failed
      <4>1. dl'[d].pc = "waiting"
        BY <1>0, <3>2 DEF RunState
      <4> QED BY <4>1
    <3>3. ~Repeats
      BY <2>3
    <3> HIDE DEF Ends, Tries, Repeats
    <3> QED BY <3>1, <3>2, <3>3
  <2>7. GivesUp => dl'[d].failed = failed
    BY <2>4
  <2> HIDE DEF Ends, GivesUp, Tries, Repeats, failed
  <2> QED BY <2>5, <2>6, <2>7
<1>2. normLevel[s] \in 0 .. MaxNormLevel
  BY ActiveIsRanked DEF Needed
<1>3. CASE normLevel[s] < dl[d].level
  <2>1. IsIgnored(s, dl[d].failed)
    BY <1>3 DEF ClimbInv, Climbs
  <2> QED BY <1>1, <2>1 DEF IsIgnored
<1>4. CASE normLevel[s] = dl[d].level
  BY <1>1, <1>4 DEF AllServersOnLevelFailed, Needed
<1>5. CASE normLevel[s] > dl[d].level
  <2>1. MaxNormLevel <= dl[d].level
    BY <1>0, <1>1, <1>2 DEF IsLastLevel
  <2>2. MaxNormLevel \in Int
    BY RankedLevelsFinite, LevelsDomain DEF MaxNormLevel, FixedPool
  <2> QED BY <1>0, <1>2, <1>5, <2>1, <2>2
<1> QED BY <1>0, <1>3, <1>4, <1>5
(***************************************************************************)
(* The invariant of a pool whose servers are not switched.                 *)
(***************************************************************************)
LEMMA FixedInv ==
    MaxEdits = 0 => (Spec => [](LocalInv /\ FixedPool /\ ClimbInv))
<1> DEFINE Inv == MaxEdits = 0 /\ LocalInv /\ FixedPool /\ ClimbInv
<1>1. MaxEdits = 0 /\ Init => Inv
  BY InitLocalInv, InitFixed, InitClimb
<1>2. Inv /\ [Next]_vars => Inv'
  BY LocalInvStep, FixedStep, ClimbInvStep
<1> QED
  BY <1>1, <1>2, PTL DEF Spec

(***************************************************************************)
(* While a thread works on an article its level only increases, whatever   *)
(* connections the pool gives it, as long as no server is switched.        *)
(***************************************************************************)
THEOREM LevelsOnlyIncrease == MaxEdits = 0 => (Spec => LevelOnlyIncreases)
<1>1. LocalInv /\ FixedPool /\ ClimbInv /\ [Next]_vars =>
        [\A d \in Downloaders :
            ~At(d, "idle") /\ dl'[d].pc # "idle" => dl'[d].level >= dl[d].level]_vars
  <2> SUFFICES ASSUME LocalInv, FixedPool, ClimbInv, [Next]_vars,
                      NEW d \in Downloaders, dl[d].pc # "idle", dl'[d].pc # "idle"
               PROVE  dl'[d].level >= dl[d].level
    BY DEF At
  <2>0. dl[d].level \in Int
    BY RecordOf DEF RunState
  <2>1. CASE dl'[d] = dl[d]
    BY <2>0, <2>1
  <2>2. ASSUME NEW e \in Downloaders, ClimbStep(e) PROVE dl'[d].level >= dl[d].level
    <3>1. CASE e = d
      BY <2>2, <3>1 DEF ClimbStep
    <3>2. CASE e # d
      <4>1. dl'[d] = dl[d]
        BY <2>2, <3>2, RecordOf DEF ClimbStep
      <4> QED BY <2>1, <4>1
    <3> QED BY <3>1, <3>2
  <2> QED BY <2>1, <2>2, ClimbKinds
<1> QED
  BY <1>1, FixedInv, PTL DEF Spec, LevelOnlyIncreases

(***************************************************************************)
(* Disabled or exhausted main servers do not move the start of a download  *)
(* to a backup server (NormalizeLevels), as long as no server is switched. *)
(***************************************************************************)
THEOREM BackupsSpared == MaxEdits = 0 => (Spec => BackupServersSpared)
<1> DEFINE Spared(d) ==
      At(d, "idle") /\ dl'[d].pc = "started" /\ Desired[d] = NoServer
      => LET main == {s \in Servers : HasMinLevel(s) /\ active[s]}
         IN  \/ HasMinLevel(ServerOf[held'[d]])
             \/ main # {} /\ \A s \in main : Optional[s]
<1>1. LocalInv /\ FixedPool /\ ClimbInv /\ [Next]_vars =>
        [\A d \in Downloaders : Spared(d)]_vars
  <2> SUFFICES ASSUME LocalInv, FixedPool, ClimbInv, [Next]_vars,
                      NEW d \in Downloaders, dl[d].pc = "idle",
                      dl'[d].pc = "started", Desired[d] = NoServer
               PROVE  Spared(d)
    BY DEF At
  <2>1. StartArticleDownload(d) \/ ThreadStep(d) \/ Stop(d)
    BY OwnStep
  <2>2. StartArticleDownload(d)
    BY <2>1 DEF ThreadStep, At, EnterRun, PollForConnection, LeaveWaiting,
       SkipOutOfRetention, Connect, DownloadBreaksOff, DownloadReceivesAll,
       AccountForAttempt, KeepOrRelease, DecideNext, FinishRun, Stop
  <2> QED BY <2>2, StartSparesBackups
<1> QED
  BY <1>1, FixedInv, PTL DEF Spec, BackupServersSpared

(***************************************************************************)
(* Run() reports an article as failed for want of servers only after every *)
(* active server that is not optional, or another one of its group, was    *)
(* tried, as long as no server is switched.                                *)
(***************************************************************************)
THEOREM AllServersTried == MaxEdits = 0 => (Spec => FailsAfterAllServers)
<1> DEFINE Tried(d) ==
      /\ At(d, "deciding") /\ dl'[d].pc = "finishing"
      /\ dl'[d].status = "failed" /\ Desired[d] = NoServer
      /\ \A e \in Editors : editor[e] # "edited"
      => \A s \in Servers :
            active[s] /\ MaxConnections(s) > 0 /\ ~Optional[s]
            => IsIgnored(s, dl'[d].failed)
<1>1. LocalInv /\ FixedPool /\ ClimbInv /\ [Next]_vars =>
        [\A d \in Downloaders : Tried(d)]_vars
  <2> SUFFICES ASSUME LocalInv, FixedPool, ClimbInv, [Next]_vars,
                      NEW d \in Downloaders, dl[d].pc = "deciding",
                      dl'[d].pc = "finishing", dl'[d].status = "failed",
                      Desired[d] = NoServer, NEW s \in Servers, Needed(s)
               PROVE  IsIgnored(s, dl'[d].failed)
    BY DEF At, Needed
  <2>1. StartArticleDownload(d) \/ ThreadStep(d) \/ Stop(d)
    BY OwnStep
  <2>2. ~Stop(d)
    <3>1. dl' = [dl EXCEPT ![d].stopped = TRUE] => dl'[d].pc = dl[d].pc
      BY RecordOf DEF RunState
    <3> QED BY <3>1 DEF Stop
  <2>3. DecideNext(d)
    BY <2>1, <2>2 DEF ThreadStep, At, StartArticleDownload, EnterRun, PollForConnection,
       LeaveWaiting, SkipOutOfRetention, Connect, DownloadBreaksOff, DownloadReceivesAll,
       AccountForAttempt, KeepOrRelease, FinishRun
  <2> QED BY <2>3, GivesUpLast
<1> QED
  BY <1>1, FixedInv, PTL DEF Spec, FailsAfterAllServers
=============================================================================

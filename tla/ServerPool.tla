----------------------------- MODULE ServerPool -----------------------------
(***************************************************************************)
(* The pool of news-server connections, daemon/nntp/ServerPool.cpp.        *)
(*                                                                         *)
(* Every operation of the pool runs under m_connectionsMutex and is one    *)
(* action here.  The flag NewsServer::m_active is the exception: the       *)
(* remote API and the scheduler write it without the mutex and call        *)
(* Changed() later, so SetActive and InitConnections are separate actions. *)
(*                                                                         *)
(* A pooled connection is a slot: Connections is the set of all slots that *)
(* the configured servers may ever have (ServerX.Connections of them for   *)
(* server X).  Clock readings are abstracted to what they decide: whether  *)
(* a server is inside its retry interval, and whether the hold time of the *)
(* connections of a level is over.                                         *)
(***************************************************************************)
EXTENDS Integers, FiniteSets

CONSTANTS
    Servers,        \* the configured news servers
    Connections,    \* the connection slots of all servers
    ServerOf,       \* the server each slot belongs to
    Level,          \* option ServerX.Level
    Group,          \* option ServerX.Group, 0 for no group
    Optional,       \* option ServerX.Optional
    RetryInterval,  \* option ArticleInterval
    BelowLevels,    \* what the memory before m_levels[0] holds: 0 or not
    NoServer,       \* the null NewsServer pointer
    NoConnection    \* the null NntpConnection pointer

(***************************************************************************)
(* What the configuration guarantees about the constants.                  *)
(***************************************************************************)
ASSUME PoolAssumption ==
    /\ IsFiniteSet(Servers) /\ Servers # {}
    /\ IsFiniteSet(Connections)
    /\ ServerOf \in [Connections -> Servers]
    /\ Level \in [Servers -> Nat]
    /\ Group \in [Servers -> Nat]
    /\ Optional \in [Servers -> BOOLEAN]
    /\ RetryInterval \in Nat
    /\ BelowLevels \in Nat
    /\ NoServer \notin Servers
    /\ NoConnection \notin Connections

VARIABLES
    active,         \* NewsServer::m_active of every server
    normLevel,      \* NewsServer::m_normLevel of every server, -1 if unused
    blocked,        \* the servers IsServerBlocked() is true for
    levels,         \* m_levels
    generation,     \* m_generation
    connections,    \* m_connections, the slots that exist
    inUse,          \* the slots with PooledConnection::m_inUse
    connected       \* the slots with Connection::csConnected

poolVars == <<active, normLevel, blocked, levels, generation,
              connections, inUse, connected>>

-----------------------------------------------------------------------------
(***************************************************************************)
(* NormalizeLevels: the servers of the lowest configured level are always  *)
(* counted; the others only if they are active and have connections.  The  *)
(* normalized level is the rank of the level among the levels that count.  *)
(***************************************************************************)
MaxConnections(s) == Cardinality({c \in Connections : ServerOf[c] = s})

HasMinLevel(s) == \A t \in Servers : Level[s] <= Level[t]

\* mutant: servers of the lowest level get no special treatment
IsRankedIfActive(s) == active[s] /\ MaxConnections(s) > 0

IsRanked(s) == (active[s] /\ MaxConnections(s) > 0) \/ HasMinLevel(s)

RankedLevels == {Level[s] : s \in {t \in Servers : IsRanked(t)}}

NormalizedLevel(s) ==
    IF IsRanked(s) THEN Cardinality({l \in RankedLevels : l < Level[s]})
                   ELSE -1

MaxNormLevel == Cardinality(DOMAIN levels) - 1

(***************************************************************************)
(* m_levels[level] as GetConnection reads it: there is no lower bound      *)
(* check, level -1 reads the memory in front of the vector.                *)
(***************************************************************************)
LevelsAt(l) == IF l \in DOMAIN levels THEN levels[l] ELSE BelowLevels

-----------------------------------------------------------------------------
InitConnections ==
    /\ normLevel' = [s \in Servers |-> NormalizedLevel(s)]
    /\ blocked' = {}
    /\ connections' = connections \cup
           {c \in Connections : /\ active[ServerOf[c]]
                                /\ normLevel'[ServerOf[c]] > -1}
    /\ levels' = [l \in 0 .. (Cardinality(RankedLevels) - 1) |->
           Cardinality({c \in connections' : /\ active[ServerOf[c]]
                                             /\ normLevel'[ServerOf[c]] = l})]
    /\ generation' = generation + 1
    /\ UNCHANGED <<active, inUse, connected>>

(***************************************************************************)
(* SetActive as editserver and the scheduler use it: no lock is taken and  *)
(* nothing but the flag changes until Changed() is called.                 *)
(***************************************************************************)
SetActive(s, value) ==
    /\ active' = [active EXCEPT ![s] = value]
    /\ UNCHANGED <<normLevel, blocked, levels, generation,
                   connections, inUse, connected>>

-----------------------------------------------------------------------------
SameGroup(s, t) == Group[s] > 0 /\ Group[s] = Group[t]

(***************************************************************************)
(* The scan of LockedGetConnection clears the block time of every server   *)
(* that has a suitable connection.  An open connection therefore makes the *)
(* other connections of its blocked server suitable as well, if it comes   *)
(* first in the list.                                                      *)
(***************************************************************************)
IsSuitable(c, l, want) ==
    /\ c \in connections \ inUse
    /\ active[ServerOf[c]]
    /\ normLevel[ServerOf[c]] = l
    /\ want = NoServer \/ ServerOf[c] = want \/ SameGroup(want, ServerOf[c])

IsUnblocked(s, l, want) ==
    \/ s \notin blocked
    \/ \E c \in connected : ServerOf[c] = s /\ IsSuitable(c, l, want)

IsIgnored(s, ignore) ==
    \E t \in ignore : s = t \/ (SameGroup(t, s) /\ normLevel[t] = normLevel[s])

Candidates(l, want, ignore) ==
    {c \in Connections :
        /\ IsSuitable(c, l, want)
        /\ IsUnblocked(ServerOf[c], l, want)
        /\ want # NoServer \/ ~IsIgnored(ServerOf[c], ignore)}

(***************************************************************************)
(* GetConnection goes on to the next level only if the level has no        *)
(* connection to give and each of its servers is inactive or is an         *)
(* optional server that is blocked.                                        *)
(***************************************************************************)
LevelIsSkipped(l, want, ignore) ==
    /\ Candidates(l, want, ignore) = {}
    /\ \A s \in Servers : normLevel[s] = l /\ active[s]
           => Optional[s] /\ s \in blocked /\ ~IsUnblocked(s, l, want)

LevelsTried(from, want, ignore) ==
    {l \in DOMAIN levels \cup {from} :
        /\ from <= l /\ l <= MaxNormLevel
        /\ \A k \in from .. l : LevelsAt(k) > 0
        /\ \A k \in from .. (l - 1) : LevelIsSkipped(k, want, ignore)}

(***************************************************************************)
(* The caller gets any one of the candidates of the first level that has   *)
(* some (the code draws a random one), or NoConnection.                    *)
(***************************************************************************)
GetConnection(from, want, ignore, c) ==
    LET tried == LevelsTried(from, want, ignore)
    IN  /\ \/ \E l \in tried :
                  /\ c \in Candidates(l, want, ignore)
                  /\ inUse' = inUse \cup {c}
                  /\ levels' = [levels EXCEPT ![l] = @ - 1]
           \/ /\ c = NoConnection
              /\ \A l \in tried : Candidates(l, want, ignore) = {}
              /\ UNCHANGED <<inUse, levels>>
        /\ blocked' = blocked \
               {s \in Servers : \E l \in tried, o \in Connections :
                   /\ ServerOf[o] = s /\ IsSuitable(o, l, want)
                   /\ IsUnblocked(s, l, want)}
        /\ UNCHANGED <<active, normLevel, generation, connections, connected>>

\* mutant: the level is not told that the connection is free again
FreeConnectionUncounted(c, keepConnected) ==
    /\ connected' = IF keepConnected THEN connected ELSE connected \ {c}
    /\ inUse' = inUse \ {c}
    /\ UNCHANGED <<active, normLevel, blocked, levels, generation, connections>>

(***************************************************************************)
(* ArticleDownloader::FreeConnection and ServerPool::FreeConnection: the   *)
(* connection is closed unless it is to be kept, then goes back to the     *)
(* pool; the level counts it only if the server is still used.             *)
(***************************************************************************)
FreeConnection(c, keepConnected) ==
    LET s == ServerOf[c]
    IN  /\ connected' = IF keepConnected THEN connected ELSE connected \ {c}
        /\ inUse' = inUse \ {c}
        /\ levels' = IF normLevel[s] > -1 /\ active[s]
                     THEN [levels EXCEPT ![normLevel[s]] = @ + 1]
                     ELSE levels
        /\ UNCHANGED <<active, normLevel, blocked, generation, connections>>

(***************************************************************************)
(* BlockServer.  With a zero retry interval IsServerBlocked() stays false. *)
(***************************************************************************)
BlockServer(s) ==
    /\ blocked' = IF RetryInterval > 0 THEN blocked \cup {s} ELSE blocked
    /\ UNCHANGED <<active, normLevel, levels, generation,
                   connections, inUse, connected>>

(***************************************************************************)
(* The retry interval of a blocked server passes.                          *)
(***************************************************************************)
BlockExpires(s) ==
    /\ s \in blocked
    /\ blocked' = blocked \ {s}
    /\ UNCHANGED <<active, normLevel, levels, generation,
                   connections, inUse, connected>>

(***************************************************************************)
(* CloseUnusedConnections deletes the free connections of servers that are *)
(* not used any more and closes those of the idle levels whose hold time   *)
(* is over.                                                                *)
(***************************************************************************)
IsIdleLevel(l) == \A c \in inUse : normLevel[ServerOf[c]] # l

\* mutant: connections of disabled servers are deleted while they are used
CloseAllOfDisabled(overdue) ==
    LET unused == {c \in connections : ~active[ServerOf[c]]}
    IN  /\ connections' = connections \ unused
        /\ connected' = connected \ unused
        /\ UNCHANGED <<active, normLevel, blocked, levels, generation, inUse>>

CloseUnusedConnections(overdue) ==
    LET unused == {c \in connections \ inUse :
                      normLevel[ServerOf[c]] = -1 \/ ~active[ServerOf[c]]}
        idle   == {c \in Connections :
                      /\ normLevel[ServerOf[c]] \in overdue
                      /\ IsIdleLevel(normLevel[ServerOf[c]])}
    IN  /\ connections' = connections \ unused
        /\ connected' = connected \ (unused \cup idle)
        /\ UNCHANGED <<active, normLevel, blocked, levels, generation, inUse>>

(***************************************************************************)
(* The pool as nzbget.cpp leaves it after the first InitConnections().     *)
(***************************************************************************)
PoolInit ==
    /\ active \in [Servers -> BOOLEAN]
    /\ normLevel = [s \in Servers |-> NormalizedLevel(s)]
    /\ blocked = {}
    /\ connections = {c \in Connections : /\ active[ServerOf[c]]
                                          /\ normLevel[ServerOf[c]] > -1}
    /\ levels = [l \in 0 .. (Cardinality(RankedLevels) - 1) |->
           Cardinality({c \in connections : normLevel[ServerOf[c]] = l})]
    /\ generation = 1
    /\ inUse = {}
    /\ connected = {}

(***************************************************************************)
(* Types of the pool's state.                                              *)
(***************************************************************************)
PoolTypeOK ==
    /\ active \in [Servers -> BOOLEAN]
    /\ normLevel \in [Servers -> Nat \cup {-1}]
    /\ blocked \subseteq Servers
    /\ levels \in [0 .. MaxNormLevel -> Int]
    /\ generation \in Nat
    /\ connections \subseteq Connections
    /\ inUse \subseteq Connections
    /\ connected \subseteq Connections
=============================================================================

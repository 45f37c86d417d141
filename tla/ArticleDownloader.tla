-------------------------- MODULE ArticleDownloader --------------------------
(***************************************************************************)
(* The download threads of daemon/nntp/ArticleDownloader.cpp, together     *)
(* with the pool they share, the coordinator that starts them with a first *)
(* connection (QueueCoordinator.cpp) and the callers that switch servers   *)
(* on and off (XmlRpc.cpp, Scheduler.cpp).                                 *)
(*                                                                         *)
(* Each downloader fetches one article at a time.  A step of the thread    *)
(* contains at most one critical section of the pool, so other threads may *)
(* run between any two of them.                                            *)
(***************************************************************************)
EXTENDS ServerPool

CONSTANTS
    Downloaders,    \* the download threads
    Editors,        \* the threads that may call SetActive and Changed
    ArticleRetries, \* option ArticleRetries, at least 1
    Desired,        \* the server a job insists on (speed test), or NoServer
    Reachable,      \* the servers that accept connections
    Unstable,       \* the servers whose connections may break
    OutOfRetention, \* the servers whose retention the article exceeds
    MaxEdits,       \* bound: how often servers are switched on or off
    MaxSuspends,    \* bound: how often downloading is paused
    MaxStops        \* bound: how often a download is stopped

(***************************************************************************)
(* What the options guarantee about the constants.                         *)
(***************************************************************************)
ASSUME DownloaderAssumption ==
    /\ ArticleRetries \in Nat \ {0}
    /\ Desired \in [Downloaders -> Servers \cup {NoServer}]
    /\ Reachable \subseteq Servers /\ Unstable \subseteq Servers
    /\ OutOfRetention \subseteq Servers
    /\ MaxEdits \in Nat /\ MaxSuspends \in Nat /\ MaxStops \in Nat

VARIABLES
    held,       \* m_connection of each downloader
    dl,         \* the other variables of ArticleDownloader::Run
    editor,     \* where each editor is: "idle", "edited", "closing"
    edits,      \* how many times a server was switched
    suspended,  \* downloads are paused or the quota is reached
    suspends,   \* how many times downloading was paused
    stops       \* how many times a download was stopped

dlVars == <<held, dl, editor, edits, suspended, suspends, stops>>

envVars == <<editor, edits, suspended, suspends, stops>>

vars == <<poolVars, dlVars>>

Statuses == {"running", "finished", "failed", "notFound", "crcError",
             "connectError", "fatalError", "duplicate", "retry"}

Locations == {"idle", "started", "waiting", "retention", "connecting",
              "downloading", "blocking", "releasing", "deciding", "finishing"}

Fresh == [pc |-> "idle", level |-> 0, want |-> NoServer, last |-> NoServer,
          failed |-> {}, retries |-> ArticleRetries, generation |-> 0,
          stopped |-> FALSE, connected |-> FALSE, retention |-> FALSE,
          optionalBlocked |-> FALSE, status |-> "running"]

RunState ==
    [pc : Locations, level : Int, want : Servers \cup {NoServer},
     last : Servers \cup {NoServer}, failed : SUBSET Servers,
     retries : 0 .. ArticleRetries, generation : Nat, stopped : BOOLEAN,
     connected : BOOLEAN, retention : BOOLEAN, optionalBlocked : BOOLEAN,
     status : Statuses]

(***************************************************************************)
(* The types of the downloaders' state.                                    *)
(***************************************************************************)
DownloaderTypeOK ==
    /\ held \in [Downloaders -> Connections \cup {NoConnection}]
    /\ dl \in [Downloaders -> RunState]
    /\ editor \in [Editors -> {"idle", "edited", "closing"}]
    /\ edits \in Nat
    /\ suspended \in BOOLEAN
    /\ suspends \in Nat
    /\ stops \in Nat

(***************************************************************************)
(* Every variable of the pool and of the downloaders has its type.         *)
(***************************************************************************)
TypeOK == PoolTypeOK /\ DownloaderTypeOK

Init ==
    /\ PoolInit
    /\ held = [d \in Downloaders |-> NoConnection]
    /\ dl = [d \in Downloaders |-> Fresh]
    /\ editor = [e \in Editors |-> "idle"]
    /\ edits = 0
    /\ suspended = FALSE
    /\ suspends = 0
    /\ stops = 0

-----------------------------------------------------------------------------
(* Shapes shared by the thread's steps. *)

At(d, pc) == dl[d].pc = pc

(***************************************************************************)
(* The condition under which Run() gives the article back to the queue.    *)
(***************************************************************************)
MustGiveBack(d) ==
    dl[d].stopped \/ suspended \/ dl[d].generation # generation

(***************************************************************************)
(* ArticleDownloader::FreeConnection.  A cancelled connection is closed    *)
(* even if the caller wants to keep it.                                    *)
(***************************************************************************)
ReleaseConnection(d, keepConnected) ==
    IF held[d] = NoConnection
    THEN UNCHANGED <<poolVars, held>>
    ELSE /\ FreeConnection(held[d], keepConnected /\ ~dl[d].stopped)
         /\ held' = [held EXCEPT ![d] = NoConnection]

-----------------------------------------------------------------------------
(***************************************************************************)
(* The coordinator found an article and asks the pool for a connection:    *)
(* from level 0, or from the level of the desired server.                  *)
(***************************************************************************)
StartArticleDownload(d) ==
    /\ At(d, "idle")
    /\ ~suspended
    /\ \E c \in Connections :
          /\ GetConnection(IF Desired[d] = NoServer THEN 0
                           ELSE normLevel[Desired[d]], Desired[d], {}, c)
          /\ held' = [held EXCEPT ![d] = c]
    /\ dl' = [dl EXCEPT ![d] = [Fresh EXCEPT !.pc = "started"]]
    /\ UNCHANGED envVars

(***************************************************************************)
(* The new thread enters Run() and notes the generation of the pool.       *)
(***************************************************************************)
EnterRun(d) ==
    /\ At(d, "started")
    /\ dl' = [dl EXCEPT ![d].pc = "waiting", ![d].generation = generation]
    /\ UNCHANGED <<poolVars, held, envVars>>

\* mutant: the search starts from the beginning again
PollFromBeginning(d) ==
    /\ At(d, "waiting")
    /\ held[d] = NoConnection
    /\ ~dl[d].stopped /\ dl[d].generation = generation
    /\ \E c \in Connections \cup {NoConnection} :
          /\ GetConnection(0, dl[d].want, {}, c)
          /\ held' = [held EXCEPT ![d] = c]
    /\ UNCHANGED <<dl, envVars>>

(***************************************************************************)
(* One round of the loop that polls the pool for a connection.             *)
(***************************************************************************)
PollForConnection(d) ==
    /\ At(d, "waiting")
    /\ held[d] = NoConnection
    /\ ~dl[d].stopped /\ dl[d].generation = generation
    /\ \E c \in Connections \cup {NoConnection} :
          /\ GetConnection(dl[d].level, dl[d].want, dl[d].failed, c)
          /\ held' = [held EXCEPT ![d] = c]
    /\ UNCHANGED <<dl, envVars>>

(***************************************************************************)
(* The loop ends: with a connection whose server and level are taken over, *)
(* or because the article must be given back.                              *)
(***************************************************************************)
LeaveWaiting(d) ==
    /\ At(d, "waiting")
    /\ \/ /\ held[d] # NoConnection
          /\ ~MustGiveBack(d)
          /\ LET s == ServerOf[held[d]]
             IN  dl' = [dl EXCEPT ![d].last = s,
                                  ![d].level = normLevel[s],
                                  ![d].status = "failed",
                                  ![d].retention = s \in OutOfRetention,
                                  ![d].pc = IF s \in OutOfRetention
                                            THEN "retention" ELSE "connecting"]
       \/ /\ held[d] # NoConnection \/ dl[d].stopped
             \/ dl[d].generation # generation
          /\ MustGiveBack(d)
          /\ dl' = [dl EXCEPT ![d].status = "retry", ![d].pc = "finishing"]
    /\ UNCHANGED <<poolVars, held, envVars>>

(***************************************************************************)
(* The article is older than the server keeps articles.                    *)
(***************************************************************************)
SkipOutOfRetention(d) ==
    /\ At(d, "retention")
    /\ ReleaseConnection(d, TRUE)
    /\ dl' = [dl EXCEPT ![d].pc = "blocking"]
    /\ UNCHANGED envVars

(***************************************************************************)
(* NntpConnection::Connect: an open connection is reused, a closed one is  *)
(* opened if the server answers.                                           *)
(***************************************************************************)
Connect(d) ==
    LET c == held[d]
    IN  /\ At(d, "connecting")
        /\ \/ /\ c \in connected \/ ServerOf[c] \in Reachable
              /\ connected' = connected \cup {c}
              /\ dl' = [dl EXCEPT ![d].connected = TRUE,
                                  ![d].pc = IF dl[d].stopped THEN "blocking"
                                            ELSE "downloading"]
           \/ /\ c \notin connected
              /\ ServerOf[c] \notin Reachable \/ dl[d].stopped
              /\ dl' = [dl EXCEPT ![d].pc = "blocking"]
              /\ UNCHANGED connected
        /\ UNCHANGED <<active, normLevel, blocked, levels, generation,
                       connections, inUse, held, envVars>>

(***************************************************************************)
(* Download() ends early, with the connection still in the thread's hands: *)
(* an answer of the server that is not success, a connection that breaks,  *)
(* a file that cannot be written or exists already, or a stop request.     *)
(***************************************************************************)
DownloadBreaksOff(d) ==
    /\ At(d, "downloading")
    /\ \E st \in {"notFound", "failed", "connectError"} \cup
                 (IF dl[d].stopped THEN {} ELSE {"fatalError", "duplicate"}) :
          /\ st = "connectError" => dl[d].stopped \/ dl[d].last \in Unstable
          /\ dl' = [dl EXCEPT ![d].status = st, ![d].pc = "blocking"]
    /\ UNCHANGED <<poolVars, held, envVars>>

(***************************************************************************)
(* The whole article was received: the connection is released before the   *)
(* decoded data is checked.                                                *)
(***************************************************************************)
DownloadReceivesAll(d) ==
    /\ At(d, "downloading")
    /\ ~dl[d].stopped
    /\ ReleaseConnection(d, TRUE)
    /\ \E st \in {"finished", "crcError", "failed"} :
          dl' = [dl EXCEPT ![d].status = st, ![d].pc = "blocking"]
    /\ UNCHANGED envVars

\* mutant: an attempt to connect that fails costs a retry, too
CostsRetryAlways(conn, status) == status = "failed"

CostsRetry(conn, status) == conn /\ status = "failed"

(***************************************************************************)
(* After the attempt: a failed connection blocks its server, a failed      *)
(* download costs a retry.                                                 *)
(***************************************************************************)
AccountForAttempt(d) ==
    LET connErr == dl[d].status = "connectError"
        conn    == dl[d].connected /\ ~connErr
        status  == IF connErr THEN "failed" ELSE dl[d].status
        blocks  == ~conn /\ held[d] # NoConnection /\ ~dl[d].stopped
    IN  /\ At(d, "blocking")
        /\ dl' = [dl EXCEPT
                    ![d].connected = conn,
                    ![d].status = status,
                    ![d].retries = IF CostsRetry(conn, status) THEN @ - 1 ELSE @,
                    ![d].optionalBlocked = blocks /\ Optional[dl[d].last],
                    ![d].pc = "releasing"]
        /\ IF blocks THEN BlockServer(dl[d].last) ELSE UNCHANGED poolVars
        /\ UNCHANGED <<held, envVars>>

(***************************************************************************)
(* The connection is kept for another attempt on the same server or goes   *)
(* back to the pool.                                                       *)
(***************************************************************************)
KeepOrRelease(d) ==
    LET again == /\ dl[d].connected /\ dl[d].status = "failed"
                 /\ dl[d].retries > 0 /\ ~dl[d].retention
    IN  /\ At(d, "releasing")
        /\ IF again THEN UNCHANGED <<poolVars, held>>
           ELSE ReleaseConnection(d, dl[d].status \in {"finished", "notFound"})
        /\ dl' = [dl EXCEPT ![d].want = IF again THEN dl[d].last ELSE NoServer,
                            ![d].pc = "deciding"]
        /\ UNCHANGED envVars

\* mutant: blocked optional servers are waited for
AllServersOnLevelTried(l, failed) ==
    \A s \in Servers : normLevel[s] = l =>
        ~active[s] \/ MaxConnections(s) = 0 \/ IsIgnored(s, failed)

(***************************************************************************)
(* All servers of the level were tried, cannot be tried or are optional    *)
(* and blocked.                                                            *)
(***************************************************************************)
AllServersOnLevelFailed(l, failed) ==
    \A s \in Servers : normLevel[s] = l =>
        \/ ~active[s]
        \/ MaxConnections(s) = 0
        \/ Optional[s] /\ s \in blocked
        \/ IsIgnored(s, failed)

\* mutant: the last level is left out
IsLastLevelEarly(l) == l + 1 >= MaxNormLevel

IsLastLevel(l) == l >= MaxNormLevel

(***************************************************************************)
(* The end of the loop body: stop with a result, or choose the server or   *)
(* the level to try next.                                                  *)
(***************************************************************************)
DecideNext(d) ==
    LET r        == dl[d]
        failed   == IF r.optionalBlocked THEN r.failed ELSE r.failed \cup {r.last}
        nextTry  == r.want = NoServer
                    /\ (r.connected \/ r.retention \/ r.optionalBlocked)
        levelEnd == AllServersOnLevelFailed(r.level, failed)
        Finish(status) == dl' = [dl EXCEPT ![d].status = status,
                                           ![d].pc = "finishing"]
        \* the variables of one pass are set anew in LeaveWaiting
        Again(next) == dl' = [dl EXCEPT ![d] =
                         [next EXCEPT !.pc = "waiting", !.last = NoServer,
                                      !.connected = FALSE, !.retention = FALSE,
                                      !.optionalBlocked = FALSE,
                                      !.status = "running"]]
    IN  /\ At(d, "deciding")
        /\ IF r.status \in {"finished", "fatalError", "duplicate"}
           THEN Finish(r.status)
           ELSE IF MustGiveBack(d) THEN Finish("retry")
           ELSE IF r.want = NoServer /\ Desired[d] # NoServer THEN Finish("failed")
           ELSE IF nextTry /\ levelEnd /\ IsLastLevel(r.level)
           THEN dl' = [dl EXCEPT ![d].failed = failed, ![d].status = "failed",
                                 ![d].pc = "finishing"]
           ELSE IF nextTry
           THEN Again([r EXCEPT !.failed = failed,
                                !.level = IF levelEnd THEN @ + 1 ELSE @,
                                !.retries = ArticleRetries])
           ELSE Again(r)
        /\ UNCHANGED <<poolVars, held, envVars>>

(***************************************************************************)
(* The end of Run(): any connection left is released and the coordinator   *)
(* is notified; the thread's slot is free for another article.  What the   *)
(* coordinator makes of the result is modelled with the queue.             *)
(***************************************************************************)
FinishRun(d) ==
    /\ At(d, "finishing")
    /\ ReleaseConnection(d, dl[d].status = "finished")
    /\ dl' = [dl EXCEPT ![d] = Fresh]
    /\ UNCHANGED envVars

-----------------------------------------------------------------------------
(***************************************************************************)
(* Stop(): the file was deleted, the download hangs or nzbget shuts down.  *)
(***************************************************************************)
Stop(d) ==
    /\ ~At(d, "idle") /\ ~dl[d].stopped
    /\ stops < MaxStops
    /\ dl' = [dl EXCEPT ![d].stopped = TRUE]
    /\ stops' = stops + 1
    /\ UNCHANGED <<poolVars, held, editor, edits, suspended, suspends>>

Suspend ==
    /\ ~suspended /\ suspends < MaxSuspends
    /\ suspended' = TRUE /\ suspends' = suspends + 1
    /\ UNCHANGED <<poolVars, held, dl, editor, edits, stops>>

Resume ==
    /\ suspended
    /\ suspended' = FALSE
    /\ UNCHANGED <<poolVars, held, dl, editor, edits, suspends, stops>>

(***************************************************************************)
(* editserver and the scheduler: the flag, then the two critical sections  *)
(* of Changed().                                                           *)
(***************************************************************************)
EditServer(e) ==
    /\ editor[e] \in {"idle", "edited"}
    /\ edits < MaxEdits
    /\ \E s \in Servers : SetActive(s, ~active[s])
    /\ editor' = [editor EXCEPT ![e] = "edited"]
    /\ edits' = edits + 1
    /\ UNCHANGED <<held, dl, suspended, suspends, stops>>

ChangedInit(e) ==
    /\ editor[e] = "edited"
    /\ InitConnections
    /\ editor' = [editor EXCEPT ![e] = "closing"]
    /\ UNCHANGED <<held, dl, edits, suspended, suspends, stops>>

ChangedClose(e) ==
    /\ editor[e] = "closing"
    /\ \E overdue \in SUBSET (DOMAIN levels) : CloseUnusedConnections(overdue)
    /\ editor' = [editor EXCEPT ![e] = "idle"]
    /\ UNCHANGED <<held, dl, edits, suspended, suspends, stops>>

(***************************************************************************)
(* The coordinator calls CloseUnusedConnections() once a second.           *)
(***************************************************************************)
PeriodicClose ==
    /\ \E overdue \in SUBSET (DOMAIN levels) : CloseUnusedConnections(overdue)
    /\ UNCHANGED dlVars

(***************************************************************************)
(* The retry interval passes.  It is counted in seconds: it does not pass  *)
(* between BlockServer and the decision that follows in the same thread.   *)
(***************************************************************************)
RetryIntervalPasses(s) ==
    /\ \A d \in Downloaders :
          ~(dl[d].pc \in {"releasing", "deciding"} /\ dl[d].last = s)
    /\ BlockExpires(s)
    /\ UNCHANGED dlVars

ThreadStep(d) ==
    \/ EnterRun(d) \/ PollForConnection(d) \/ LeaveWaiting(d)
    \/ SkipOutOfRetention(d) \/ Connect(d) \/ DownloadBreaksOff(d)
    \/ DownloadReceivesAll(d) \/ AccountForAttempt(d) \/ KeepOrRelease(d)
    \/ DecideNext(d) \/ FinishRun(d)

Next ==
    \/ \E d \in Downloaders : StartArticleDownload(d) \/ ThreadStep(d) \/ Stop(d)
    \/ \E e \in Editors : EditServer(e) \/ ChangedInit(e) \/ ChangedClose(e)
    \/ PeriodicClose
    \/ \E s \in Servers : RetryIntervalPasses(s)
    \/ Suspend \/ Resume

Spec == Init /\ [][Next]_vars

(***************************************************************************)
(* Threads keep running, retry intervals pass, and a thread that polls the *)
(* pool every 5 ms does not miss every moment at which a connection of its *)
(* level is free.                                                          *)
(***************************************************************************)
Fairness ==
    /\ \A d \in Downloaders : /\ WF_vars(ThreadStep(d))
                              /\ SF_vars(PollForConnection(d))
    /\ \A s \in Servers : WF_vars(RetryIntervalPasses(s))
    /\ WF_vars(Resume)

FairSpec == Spec /\ Fairness

-----------------------------------------------------------------------------
(***************************************************************************)
(* What holds of the local variables of Run() from one iteration to the    *)
(* next.  An idle slot holds no connection; a thread that is about to use  *)
(* its server has a connection; from then until the next iteration the     *)
(* last server is known; and the retries run out only in an attempt that   *)
(* was connected and failed, after which no server is insisted on.         *)
(***************************************************************************)
Attempting == {"retention", "connecting", "downloading"}

Judging == {"blocking", "releasing", "deciding"}

Consistent(r, connection) ==
    /\ r.pc = "idle" => connection = NoConnection
    /\ r.pc \in Attempting => connection # NoConnection
    /\ r.pc \in Attempting \cup Judging => r.last \in Servers
    /\ r.retries = 0 =>
          /\ r.pc \in {"releasing", "deciding", "finishing"}
          /\ r.connected
          /\ r.pc = "releasing" => r.status = "failed"
          /\ r.pc = "deciding" => r.want = NoServer

AttemptConsistent == \A d \in Downloaders : Consistent(dl[d], held[d])

(***************************************************************************)
(* Every connection marked in-use is the connection of exactly one         *)
(* downloader and exists: none is handed out twice, deleted while it is    *)
(* used, or lost to the pool because nobody gives it back.                 *)
(***************************************************************************)
ConnectionOwnership ==
    /\ inUse \subseteq connections
    /\ \A c \in inUse : \E d \in Downloaders : held[d] = c
    /\ \A d \in Downloaders : held[d] # NoConnection => held[d] \in inUse
    /\ \A d, e \in Downloaders :
          d # e /\ held[d] # NoConnection => held[d] # held[e]

FreeOnLevel(l) == {c \in connections \ inUse : /\ active[ServerOf[c]]
                                              /\ normLevel[ServerOf[c]] = l}

(***************************************************************************)
(* m_levels never hides a free connection: GetConnection looks for one     *)
(* only if m_levels[level] is positive, so once Changed() has been called  *)
(* the count of a level is at least the number of its free connections.    *)
(***************************************************************************)
NoHiddenConnection ==
    (\A e \in Editors : editor[e] # "edited") =>
        \A l \in DOMAIN levels : Cardinality(FreeOnLevel(l)) <= levels[l]

(***************************************************************************)
(* An article is reported as failed for want of servers only after every   *)
(* active non-optional server was tried, or another account of its group.  *)
(***************************************************************************)
FailsAfterAllServers ==
    [][\A d \in Downloaders :
          /\ At(d, "deciding") /\ dl'[d].pc = "finishing"
          /\ dl'[d].status = "failed" /\ Desired[d] = NoServer
          /\ \A e \in Editors : editor[e] # "edited"
          => \A s \in Servers :
                active[s] /\ MaxConnections(s) > 0 /\ ~Optional[s]
                => IsIgnored(s, dl'[d].failed)]_vars

(***************************************************************************)
(* Backup servers do not act as main servers (NormalizeLevels): an article *)
(* without desired server is started on a server that is not of the lowest *)
(* level only if this level has active servers and all of them are         *)
(* optional.  Disabling the main servers does not move downloads to the    *)
(* backup servers.                                                         *)
(***************************************************************************)
BackupServersSpared ==
    [][\A d \in Downloaders :
          At(d, "idle") /\ dl'[d].pc = "started" /\ Desired[d] = NoServer
          => LET main == {s \in Servers : HasMinLevel(s) /\ active[s]}
             IN  \/ HasMinLevel(ServerOf[held'[d]])
                 \/ main # {} /\ \A s \in main : Optional[s]]_vars

(***************************************************************************)
(* While a thread works on an article its level only increases.            *)
(***************************************************************************)
LevelOnlyIncreases ==
    [][\A d \in Downloaders :
          ~At(d, "idle") /\ dl'[d].pc # "idle"
          => dl'[d].level >= dl[d].level]_vars

(***************************************************************************)
(* Every started download ends.                                            *)
(***************************************************************************)
DownloadEnds ==
    \A d \in Downloaders : At(d, "started") ~> At(d, "idle")
=============================================================================

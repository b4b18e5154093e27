------------------------------ MODULE DbManager ------------------------------
(***************************************************************************)
(* core/src/database/db_manager.h and .cpp: one mutex, one connection, one *)
(* cached ban list, and withRetry around every transaction.                *)
(*                                                                         *)
(* Its callers are the loop of TdlibClient, which runs the commands, and   *)
(* the threads of the REST API (api_controller.h).  An exception leaves a  *)
(* handler of the API as an answer 500 and ping as false; nothing catches  *)
(* it on the loop, so that the core is terminated, and started again by    *)
(* docker (docker-compose.yml, restart: unless-stopped).                   *)
(***************************************************************************)
EXTENDS Database

CONSTANTS
  Loop,         \* the loop's thread, the others are the API's
  ApiCalls,     \* the calls that the API's threads make, which only read
  MaxAttempts,  \* kMaxAttempts
  NoOne

ASSUME DbManagerAssumption ==
  /\ Loop \in Threads
  /\ NoOne \notin Threads
  /\ FirstDev \in Users
  /\ Calls \subseteq AllCalls
  /\ ApiCalls \subseteq Calls
  /\ \A c \in ApiCalls : c.op \in {"getGlobalBans", "getChatRank", "getMute", "ping"}
  /\ NoCall \notin AllCalls
  /\ Waiting # Failed
  /\ \A c \in AllCalls : \A x \in ResultsOf(c) : x # Waiting /\ x # Failed
  /\ Untils \subseteq Nat
  /\ MaxAttempts \in Nat \ {0}

VARIABLES
  up,               \* the core runs
  serverUp,         \* PostgreSQL accepts connections
  conn,             \* conn_: good, dead (is_open() without a server) or closed
  holder,           \* who holds mutex_
  at,               \* where the holder is
  attempt,          \* its attempt in withRetry
  globalBansCache   \* globalBansCache_

coreVars == <<up, serverUp, conn, holder, at, attempt, globalBansCache>>
managerVars == <<db, call, answer, up, serverUp, conn, holder, at, attempt, globalBansCache>>

(***************************************************************************)
(*   idle     nobody holds the mutex                                       *)
(*   connect  ensureConnected                                              *)
(*   run      the transaction                                              *)
(*   caught   in the handler of broken_connection                          *)
(*   leave    the call has its answer, or raises                           *)
(***************************************************************************)
Places == {"idle", "connect", "run", "caught", "leave"}

MInit ==
  /\ DbInit
  /\ up = FALSE
  /\ serverUp = TRUE
  /\ conn = "closed"
  /\ holder = NoOne
  /\ at = "idle"
  /\ attempt = 0
  /\ globalBansCache = {}

-----------------------------------------------------------------------------
(* The process and the server.                                               *)

\* create and initSchema with loadGlobalBansLocked.  A start that fails, fails
\* before any thread runs, and is tried again.
Boot ==
  /\ ~up
  /\ serverUp
  /\ up' = TRUE
  /\ conn' = "good"
  /\ Started
  /\ globalBansCache' = db.bans
  /\ UNCHANGED <<serverUp, holder, at, attempt>>

\* The process is gone, with its threads, its connection and its memory.
Die ==
  /\ up' = FALSE
  /\ conn' = "closed"
  /\ holder' = NoOne
  /\ at' = "idle"
  /\ attempt' = 0
  /\ globalBansCache' = {}
  /\ Lose
  /\ UNCHANGED serverUp

Crash == up /\ Die

Drop == IF conn = "good" THEN "dead" ELSE conn

ServerStops ==
  /\ serverUp
  /\ serverUp' = FALSE
  /\ conn' = Drop
  /\ UNCHANGED <<db, call, answer, up, holder, at, attempt, globalBansCache>>

ServerStarts ==
  /\ ~serverUp
  /\ serverUp' = TRUE
  /\ UNCHANGED <<db, call, answer, up, conn, holder, at, attempt, globalBansCache>>

LinkLost ==
  /\ conn = "good"
  /\ conn' = Drop
  /\ UNCHANGED <<db, call, answer, up, serverUp, holder, at, attempt, globalBansCache>>

-----------------------------------------------------------------------------
(* One call.                                                                 *)

Start(t, c) ==
  /\ up
  /\ t = Loop \/ c \in ApiCalls
  /\ Begin(t, c)
  /\ UNCHANGED coreVars

CacheOnly(c) == c.op \in {"isGloballyBanned", "getGlobalBans"}

\* The lock, for a call that runs a transaction ...
Lock(t) ==
  /\ Open(t)
  /\ holder = NoOne
  /\ ~CacheOnly(call[t])
  /\ holder' = t
  /\ at' = "connect"
  /\ attempt' = 1
  /\ UNCHANGED <<db, call, answer, up, serverUp, conn, globalBansCache>>

FromCache(c) ==
  IF c.op = "isGloballyBanned" THEN c.user \in globalBansCache ELSE globalBansCache

\* Mutant of LockAndRead: the cache is read without the mutex.
ReadUnlocked(t) ==
  /\ Open(t)
  /\ CacheOnly(call[t])
  /\ answer' = [answer EXCEPT ![t] = FromCache(call[t])]
  /\ UNCHANGED <<db, call, coreVars>>

\* ... or reads nothing but the cache.
LockAndRead(t) ==
  /\ Open(t)
  /\ holder = NoOne
  /\ CacheOnly(call[t])
  /\ holder' = t
  /\ at' = "leave"
  /\ answer' = [answer EXCEPT ![t] = FromCache(call[t])]
  /\ UNCHANGED <<db, call, up, serverUp, conn, attempt, globalBansCache>>

\* ensureConnected: is_open() does not see that the server has gone.
EnsureConnected(t) ==
  /\ holder = t
  /\ at = "connect"
  /\ IF conn = "closed" /\ ~serverUp THEN at' = "caught" /\ UNCHANGED conn
     ELSE at' = "run" /\ conn' = IF conn = "closed" THEN "good" ELSE conn
  /\ UNCHANGED <<db, call, answer, up, serverUp, holder, attempt, globalBansCache>>

\* The transaction, with its commit.
Commit(t) ==
  /\ holder = t
  /\ at = "run"
  /\ conn = "good"
  /\ TakeEffect(t)
  /\ at' = "leave"
  /\ UNCHANGED <<up, serverUp, conn, holder, attempt, globalBansCache>>

\* The connection is lost before the commit: broken_connection.
RunBroken(t) ==
  /\ holder = t
  /\ at = "run"
  /\ conn = "dead"
  /\ conn' = "closed"
  /\ at' = "caught"
  /\ UNCHANGED <<db, call, answer, up, serverUp, holder, attempt, globalBansCache>>

\* The connection is lost in the commit: in_doubt_error, which is no
\* broken_connection and leaves withRetry.
CommitInDoubt(t) ==
  /\ holder = t
  /\ at = "run"
  /\ conn = "good"
  /\ Fail(t, db) \/ Fail(t, Effect(call[t], db))
  /\ conn' = "closed"
  /\ at' = "leave"
  /\ UNCHANGED <<up, serverUp, holder, attempt, globalBansCache>>

\* The server refuses the statement: sql_error, not caught either.
Refused(t) ==
  /\ holder = t
  /\ at = "run"
  /\ conn = "good"
  /\ Fail(t, db)
  /\ at' = "leave"
  /\ UNCHANGED <<up, serverUp, conn, holder, attempt, globalBansCache>>

\* Mutant of Reconnect: the attempts are not counted.
ReconnectForEver(t) ==
  /\ holder = t
  /\ at = "caught"
  /\ serverUp
  /\ at' = "connect"
  /\ conn' = "good"
  /\ UNCHANGED <<db, call, answer, up, serverUp, holder, attempt, globalBansCache>>

\* Mutant of Reconnect: one attempt too many.
ReconnectOnceMore(t) ==
  /\ holder = t
  /\ at = "caught"
  /\ attempt <= MaxAttempts
  /\ serverUp
  /\ at' = "connect"
  /\ conn' = "good"
  /\ attempt' = attempt + 1
  /\ UNCHANGED <<db, call, answer, up, serverUp, holder, globalBansCache>>

\* The handler: a new connection, and once more.
Reconnect(t) ==
  /\ holder = t
  /\ at = "caught"
  /\ attempt < MaxAttempts
  /\ serverUp
  /\ at' = "connect"
  /\ conn' = "good"
  /\ attempt' = attempt + 1
  /\ UNCHANGED <<db, call, answer, up, serverUp, holder, globalBansCache>>

\* The handler raises: the last attempt is over, or connect fails in it.
GiveUp(t) ==
  /\ holder = t
  /\ at = "caught"
  /\ attempt = MaxAttempts \/ ~serverUp
  /\ Fail(t, db)
  /\ at' = "leave"
  /\ UNCHANGED <<up, serverUp, conn, holder, attempt, globalBansCache>>

-----------------------------------------------------------------------------
CacheAfter(c, cache) ==
  CASE c.op = "addGlobalBan" -> cache \union {c.user}
    [] c.op = "removeGlobalBan" -> cache \ {c.user}
    [] OTHER -> cache

Unlock ==
  /\ holder' = NoOne
  /\ at' = "idle"
  /\ attempt' = 0

\* Mutant of Leave: the loop goes on after an exception.
LeaveAlways(t) ==
  /\ holder = t
  /\ at = "leave"
  /\ globalBansCache' =
       IF answer[t] = Failed THEN globalBansCache ELSE CacheAfter(call[t], globalBansCache)
  /\ Finish(t)
  /\ Unlock
  /\ UNCHANGED <<up, serverUp, conn>>

\* The call returns, after the cache has followed the table, or raises in the API.
Leave(t) ==
  /\ holder = t
  /\ at = "leave"
  /\ answer[t] = Failed => t # Loop
  /\ globalBansCache' =
       IF answer[t] = Failed THEN globalBansCache ELSE CacheAfter(call[t], globalBansCache)
  /\ Finish(t)
  /\ Unlock
  /\ UNCHANGED <<up, serverUp, conn>>

\* It raises on the loop: std::terminate.
Terminate(t) ==
  /\ holder = t
  /\ at = "leave"
  /\ answer[t] = Failed
  /\ t = Loop
  /\ Die

\* What the holder of the mutex does before its call has its answer.
Transact(t) ==
  \/ EnsureConnected(t)
  \/ Commit(t) \/ RunBroken(t) \/ CommitInDoubt(t) \/ Refused(t)
  \/ Reconnect(t) \/ GiveUp(t)

Server == ServerStops \/ ServerStarts \/ LinkLost

MNext ==
  \/ Boot \/ Crash \/ Server
  \/ \E t \in Threads :
       \/ \E c \in Calls : Start(t, c)
       \/ Lock(t) \/ LockAndRead(t) \/ Transact(t) \/ Leave(t) \/ Terminate(t)

MSpec == MInit /\ [][MNext]_managerVars

-----------------------------------------------------------------------------
(* Properties.                                                               *)

MTypeOK ==
  /\ db \in Tables
  /\ call \in [Threads -> Calls \union {NoCall}]
  /\ DOMAIN answer = Threads
  /\ \A t \in Threads : \/ answer[t] \in {Waiting, Failed}
                         \/ (call[t] # NoCall /\ answer[t] \in ResultsOf(call[t]))
  /\ up \in BOOLEAN /\ serverUp \in BOOLEAN
  /\ conn \in {"good", "dead", "closed"}
  /\ holder \in Threads \union {NoOne}
  /\ at \in Places
  /\ attempt \in 0..MaxAttempts
  /\ globalBansCache \subseteq Users

\* The cached ban list is the table whenever somebody may read it: a commit whose
\* outcome is unknown cannot leave them apart, because the core does not survive it.
BanCacheMatches == up /\ holder = NoOne => globalBansCache = db.bans

\* Retries, lost commits and the cache cannot be told from one database that
\* executes each call once.
Promised == INSTANCE Database
ImplementsDatabase == Promised!DbSpec
=============================================================================

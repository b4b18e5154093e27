--------------------------- MODULE RankCacheProofs ---------------------------
(***************************************************************************)
(* DbManager implements Database, its cached ban list is the table, and    *)
(* auto-mod's cached ranks are no older than they may be, for any number   *)
(* of threads, users and attempts and any times.                           *)
(***************************************************************************)
EXTENDS RankCache, TLAPS

\* The fields a call of each kind has.
LEMMA CallFields ==
  ASSUME NEW c \in AllCalls
  PROVE  /\ c.op \in UserOps => c.user \in Users
         /\ c.op = "setChatRank" => c.user \in Users /\ c.rank \in 1..4
         /\ c.op = "addMute" => c.user \in Users /\ c.until \in Untils
         /\ c.op = "recordChat" => c.chat \in Chats
BY DEF AllCalls, UserOps

\* A statement leaves tables that are tables ...
LEMMA EffectTables ==
  ASSUME NEW c \in AllCalls, NEW d \in Tables
  PROVE  Effect(c, d) \in Tables
<1>1. CASE c.op \in {"addGlobalBan", "removeGlobalBan", "addDev"}
  BY <1>1, CallFields DEF UserOps, Effect, Tables
<1>2. CASE c.op = "setChatRank"
  BY <1>2, CallFields DEF Effect, Tables
<1>3. CASE c.op = "addMute"
  BY <1>3, CallFields DEF Effect, Tables
<1>4. CASE c.op = "removeMute"
  BY <1>4, CallFields DEF UserOps, Effect, Tables
<1>5. CASE c.op = "recordChat"
  BY <1>5, CallFields DEF Effect, Tables
<1>6. QED
  BY <1>1, <1>2, <1>3, <1>4, <1>5 DEF Effect

\* ... and the cache follows the bans in them.
LEMMA EffectBans ==
  ASSUME NEW c \in AllCalls, NEW d \in Tables
  PROVE  Effect(c, d).bans = CacheAfter(c, d.bans)
BY CallFields DEF UserOps, Effect, Tables, CacheAfter

LEMMA RankRange ==
  ASSUME NEW u \in Users, NEW d \in Tables
  PROVE  RankIn(u, d) \in 0..4
BY DEF RankIn, Tables, NoRow

\* A call returns what it is there for.
LEMMA ResultRange ==
  ASSUME NEW c \in AllCalls, NEW d \in Tables
  PROVE  Result(c, d) \in ResultsOf(c)
<1>1. CASE c.op = "getChatRank"
  BY <1>1, CallFields, RankRange DEF UserOps, Result, ResultsOf
<1>2. CASE c.op = "getChatRanks"
  <2>1. \A u \in Users : d.ranks[u] \in 1..3 => <<d.ranks[u], u>> \in (1..3) \X Users
    OBVIOUS
  <2>2. Result(c, d) = {<<d.ranks[u], u>> : u \in {v \in Users : d.ranks[v] \in 1..3}}
    BY <1>2 DEF Result
  <2>3. ResultsOf(c) = SUBSET ((1..3) \X Users)
    BY <1>2 DEF ResultsOf
  <2>4. QED
    BY <2>1, <2>2, <2>3
<1>3. CASE c.op = "isGloballyBanned"
  BY <1>3 DEF Result, ResultsOf
<1>4. CASE c.op = "isDev"
  BY <1>4 DEF Result, ResultsOf
<1>5. CASE c.op = "getMute"
  BY <1>5, CallFields DEF UserOps, Result, ResultsOf, Tables
<1>6. CASE c.op \in {"getGlobalBans", "getKnownChats"}
  BY <1>6 DEF Result, ResultsOf, Tables
<1>7. QED
  BY <1>1, <1>2, <1>3, <1>4, <1>5, <1>6 DEF Result, ResultsOf

-----------------------------------------------------------------------------
(* The database manager.                                                     *)

\* Answers belong to the holder of the mutex, at its end.  The cache is the table but
\* for a change that is committed and not yet cached, and a failure that the loop is
\* about to die of.
MInv ==
  /\ MTypeOK
  /\ holder = NoOne <=> at = "idle"
  /\ holder # NoOne => call[holder] # NoCall
  /\ \A t \in Threads : answer[t] # Waiting <=> holder = t /\ at = "leave"
  /\ \A t \in Threads : call[t] # NoCall => up /\ (t = Loop \/ call[t] \in ApiCalls)
  /\ up /\ at # "leave" => globalBansCache = db.bans
  /\ up /\ at = "leave" /\ answer[holder] # Failed =>
       CacheAfter(call[holder], globalBansCache) = db.bans
  /\ up /\ at = "leave" /\ answer[holder] = Failed /\ holder # Loop =>
       globalBansCache = db.bans

LEMMA MInitMInv == MInit => MInv
<1>1. MInit => db \in Tables
  BY DEF MInit, DbInit, EmptyTables, Tables
<1>2. ASSUME MInit PROVE MTypeOK
  <2>1. call \in [Threads -> Calls \union {NoCall}]
    BY <1>2 DEF MInit, DbInit
  <2>2. DOMAIN answer = Threads /\ \A t \in Threads : answer[t] = Waiting
    BY <1>2 DEF MInit, DbInit
  <2>3. attempt \in 0..MaxAttempts
    BY <1>2, DbManagerAssumption DEF MInit
  <2>4. QED
    BY <1>1, <1>2, <2>1, <2>2, <2>3 DEF MInit, MTypeOK, Places
<1>3. QED
  BY <1>2, DbManagerAssumption DEF MInit, DbInit, MInv

\* The API only reads.
LEMMA ApiReads ==
  ASSUME NEW c \in ApiCalls
  PROVE  /\ \A d \in Tables : Effect(c, d) = d
         /\ \A b : CacheAfter(c, b) = b
BY DbManagerAssumption DEF Effect, CacheAfter

\* A call may start only when the last one has ended.
LEMMA StartMInv == ASSUME MInv, NEW t \in Threads, NEW c \in Calls, Start(t, c)
                   PROVE  MInv'
<1>1. /\ up /\ call[t] = NoCall /\ call' = [call EXCEPT ![t] = c]
      /\ t = Loop \/ c \in ApiCalls
      /\ UNCHANGED <<db, answer, up, serverUp, conn, holder, at, attempt, globalBansCache>>
  BY DEF Start, Begin, coreVars
<1>2. holder # t
  BY <1>1, DbManagerAssumption DEF MInv
<1>3. answer[t] = Waiting
  BY <1>2 DEF MInv
<1>4. c # NoCall
  BY DbManagerAssumption
<1>5. \A s \in Threads : s # t => call'[s] = call[s]
  BY <1>1 DEF MInv, MTypeOK
<1>6. call'[t] = c
  BY <1>1 DEF MInv, MTypeOK
<1>7. MTypeOK'
  BY <1>1, <1>3, <1>5, <1>6 DEF MInv, MTypeOK
<1>8. QED
  BY <1>1, <1>2, <1>4, <1>5, <1>6, <1>7 DEF MInv, MTypeOK

LEMMA LockMInv == ASSUME MInv, NEW t \in Threads, Lock(t) PROVE MInv'
<1>1. MTypeOK'
  BY DbManagerAssumption DEF MInv, MTypeOK, Lock, Places
<1>2. QED
  BY <1>1, DbManagerAssumption DEF MInv, MTypeOK, Lock, Open

\* What the cache says is what the table says.
LEMMA LockAndReadMInv ==
  ASSUME MInv, NEW t \in Threads, LockAndRead(t)
  PROVE  MInv' /\ TakeEffect(t)
<1> DEFINE c == call[t]
<1>1. c \in AllCalls /\ CacheOnly(c) /\ up /\ at = "idle" /\ holder = NoOne
  BY DbManagerAssumption DEF MInv, MTypeOK, LockAndRead, Open
<1>2. globalBansCache = db.bans
  BY <1>1 DEF MInv
<1>3. FromCache(c) = Result(c, db)
  BY <1>1, <1>2 DEF CacheOnly, FromCache, Result
<1>4. Effect(c, db) = db /\ CacheAfter(c, globalBansCache) = globalBansCache
  BY <1>1 DEF CacheOnly, Effect, CacheAfter
<1>5. TakeEffect(t)
  BY <1>3, <1>4 DEF LockAndRead, TakeEffect
<1>6. Result(c, db) \in ResultsOf(c) /\ Result(c, db) # Waiting
  BY <1>1, ResultRange, DbManagerAssumption DEF MInv, MTypeOK
<1>7. answer' = [answer EXCEPT ![t] = Result(c, db)]
  BY <1>3 DEF LockAndRead
<1>8. MTypeOK'
  BY <1>1, <1>6, <1>7 DEF MInv, MTypeOK, LockAndRead, Places, Open
<1>9. QED
  BY <1>1, <1>2, <1>4, <1>5, <1>6, <1>7, <1>8, DbManagerAssumption
  DEF MInv, MTypeOK, LockAndRead

\* The steps of the holder before its call has an answer.
LEMMA ConnectMInv ==
  ASSUME MInv, NEW t \in Threads, EnsureConnected(t) \/ RunBroken(t) \/ Reconnect(t)
  PROVE  MInv' /\ UNCHANGED dbVars
<1>1. /\ holder = t /\ at \in {"connect", "run", "caught"}
      /\ at' \in {"connect", "run", "caught"}
      /\ UNCHANGED <<db, call, answer, up, serverUp, holder, globalBansCache>>
  BY DEF EnsureConnected, RunBroken, Reconnect
<1>2. conn' \in {"good", "dead", "closed"}
  BY DEF EnsureConnected, RunBroken, Reconnect, MInv, MTypeOK
<1>3. attempt' \in 0..MaxAttempts
  BY DbManagerAssumption DEF EnsureConnected, RunBroken, Reconnect, MInv, MTypeOK
<1>4. MTypeOK'
  BY <1>1, <1>2, <1>3 DEF MInv, MTypeOK, Places
<1>5. QED
  BY <1>1, <1>4 DEF MInv, dbVars

LEMMA CommitMInv == ASSUME MInv, NEW t \in Threads, Commit(t) PROVE MInv'
<1> DEFINE c == call[t]
<1>1. c \in AllCalls /\ db \in Tables /\ up /\ at = "run" /\ holder = t
  BY DbManagerAssumption DEF MInv, MTypeOK, Commit, TakeEffect, Open
<1>2. globalBansCache = db.bans
  BY <1>1 DEF MInv
<1>3. Effect(c, db) \in Tables /\ Effect(c, db).bans = CacheAfter(c, globalBansCache)
  BY <1>1, <1>2, EffectTables, EffectBans
<1>4. Result(c, db) \in ResultsOf(c) /\ Result(c, db) # Waiting /\ Result(c, db) # Failed
  BY <1>1, ResultRange, DbManagerAssumption
<1>5. /\ db' = Effect(c, db) /\ answer' = [answer EXCEPT ![t] = Result(c, db)]
      /\ at' = "leave"
      /\ UNCHANGED <<call, up, serverUp, conn, holder, attempt, globalBansCache>>
  BY DEF Commit, TakeEffect
<1>6. MTypeOK'
  BY <1>1, <1>3, <1>4, <1>5, DbManagerAssumption DEF MInv, MTypeOK, Places
<1>7. QED
  BY <1>1, <1>3, <1>4, <1>5, <1>6, DbManagerAssumption DEF MInv, MTypeOK

\* A failure may leave its change in the tables: then it is the loop's.
LEMMA FailMInv ==
  ASSUME MInv, NEW t \in Threads, CommitInDoubt(t) \/ Refused(t) \/ GiveUp(t)
  PROVE  MInv'
<1> DEFINE c == call[t]
<1>1. /\ c \in AllCalls /\ db \in Tables /\ up /\ at # "leave" /\ holder = t
      /\ t = Loop \/ c \in ApiCalls
  BY DbManagerAssumption
  DEF MInv, MTypeOK, CommitInDoubt, Refused, GiveUp, Fail, Open
<1>2. globalBansCache = db.bans
  BY <1>1 DEF MInv
<1>3. /\ db' \in {db, Effect(c, db)} /\ answer' = [answer EXCEPT ![t] = Failed]
      /\ at' = "leave" /\ conn' \in {conn, "closed"}
      /\ UNCHANGED <<call, up, serverUp, holder, attempt, globalBansCache>>
  BY DEF CommitInDoubt, Refused, GiveUp, Fail
<1>4. db' \in Tables
  BY <1>1, <1>3, EffectTables
<1>5. t # Loop => db' = db
  BY <1>1, <1>3, ApiReads
<1>6. MTypeOK'
  BY <1>1, <1>3, <1>4 DEF MInv, MTypeOK, Places
<1>7. Waiting # Failed
  BY DbManagerAssumption
<1>8. QED
  BY <1>1, <1>2, <1>3, <1>5, <1>6, <1>7, DbManagerAssumption DEF MInv, MTypeOK

LEMMA LeaveMInv == ASSUME MInv, NEW t \in Threads, Leave(t) PROVE MInv'
<1> DEFINE c == call[t]
<1>1. /\ c \in AllCalls /\ db \in Tables /\ up /\ at = "leave" /\ holder = t
      /\ t = Loop \/ c \in ApiCalls
      /\ answer[t] = Failed => t # Loop
  BY DbManagerAssumption DEF MInv, MTypeOK, Leave, Finish
<1>2. /\ globalBansCache' = db.bans
      /\ call' = [call EXCEPT ![t] = NoCall] /\ answer' = [answer EXCEPT ![t] = Waiting]
      /\ holder' = NoOne /\ at' = "idle" /\ attempt' = 0
      /\ UNCHANGED <<db, up, serverUp, conn>>
  BY <1>1 DEF MInv, Leave, Finish, Unlock
<1>3. globalBansCache' \subseteq Users
  BY <1>1, <1>2 DEF Tables
<1>4. MTypeOK'
  BY <1>1, <1>2, <1>3, DbManagerAssumption DEF MInv, MTypeOK, Places
<1>5. QED
  BY <1>1, <1>2, <1>4, DbManagerAssumption DEF MInv, MTypeOK

LEMMA DieMInv == ASSUME MInv, Die PROVE MInv'
<1>1. /\ call' = [t \in Threads |-> NoCall] /\ answer' = [t \in Threads |-> Waiting]
      /\ up' = FALSE /\ conn' = "closed" /\ holder' = NoOne /\ at' = "idle"
      /\ attempt' = 0 /\ globalBansCache' = {} /\ UNCHANGED <<db, serverUp>>
  BY DEF Die, Lose
<1>2. call' \in [Threads -> Calls \union {NoCall}]
  BY <1>1
<1>3. DOMAIN answer' = Threads /\ \A t \in Threads : answer'[t] = Waiting /\ call'[t] = NoCall
  BY <1>1
<1>4. 0 \in 0..MaxAttempts
  BY DbManagerAssumption
<1>5. MTypeOK'
  BY <1>1, <1>2, <1>3, <1>4 DEF MInv, MTypeOK, Places
<1>6. QED
  BY <1>1, <1>3, <1>5, DbManagerAssumption DEF MInv

LEMMA BootMInv == ASSUME MInv, Boot PROVE MInv'
<1>1. db' \in Tables /\ db'.bans = db.bans
  BY DbManagerAssumption DEF MInv, MTypeOK, Tables, Boot, Started
<1>2. holder = NoOne /\ at = "idle"
  BY DbManagerAssumption DEF MInv, MTypeOK, Boot
<1>3. /\ up' = TRUE /\ conn' = "good" /\ globalBansCache' = db.bans
      /\ UNCHANGED <<call, answer, serverUp, holder, at, attempt>>
  BY DEF Boot, Started
<1>4. globalBansCache' \subseteq Users
  BY <1>3 DEF MInv, MTypeOK, Tables
<1>5. MTypeOK'
  BY <1>1, <1>3, <1>4 DEF MInv, MTypeOK
<1>6. QED
  BY <1>1, <1>2, <1>3, <1>5 DEF MInv

LEMMA ServerMInv == ASSUME MInv, Server PROVE MInv' /\ UNCHANGED dbVars
<1>1. /\ UNCHANGED <<db, call, answer, up, holder, at, attempt, globalBansCache>>
      /\ conn' \in {conn, "dead"} /\ serverUp' \in BOOLEAN
  <2>1. CASE ServerStops BY <2>1 DEF ServerStops, Drop
  <2>2. CASE ServerStarts BY <2>2 DEF ServerStarts
  <2>3. CASE LinkLost BY <2>3 DEF LinkLost, Drop, MInv, MTypeOK
  <2>4. QED BY <2>1, <2>2, <2>3 DEF Server
<1>2. MTypeOK'
  BY <1>1 DEF MInv, MTypeOK
<1>3. QED
  BY <1>1, <1>2 DEF MInv, dbVars

-----------------------------------------------------------------------------
\* Every step of the whole is one of the manager's or leaves it alone.
LEMMA NextManager == Next => MNext \/ UNCHANGED managerVars
<1> SUFFICES ASSUME Next PROVE MNext \/ UNCHANGED managerVars
  OBVIOUS
<1>1. CASE \E t \in Threads, u \in Users : Ask(t, u)
  BY <1>1 DEF Ask, MNext
<1>2. CASE \E t \in Threads, c \in Calls : AskOther(t, c)
  BY <1>2 DEF AskOther, MNext
<1>3. CASE \E t \in Threads : Beside(Lock(t)) \/ Beside(LockAndRead(t)) \/ Work(t)
  BY <1>3 DEF Beside, Work, Reply, MNext
<1>4. CASE \E t \in Threads : Store(t) \/ FetchLost(t)
  BY <1>4 DEF Store, FetchLost
<1>5. CASE Beside(Boot) \/ Beside(Server) \/ Crash
  BY <1>5 DEF Beside, MNext
<1>6. CASE AutoModRestarts \/ Tick
  BY <1>6 DEF AutoModRestarts, Tick
<1>7. QED
  BY <1>1, <1>2, <1>3, <1>4, <1>5, <1>6 DEF Next

\* A step of the manager keeps its invariant and is a step of the database, or of
\* nothing that can be seen.
LEMMA MStep == MInv /\ [MNext]_managerVars => MInv' /\ [Promised!DbNext]_dbVars
<1> SUFFICES ASSUME MInv, [MNext]_managerVars
             PROVE  MInv' /\ [Promised!DbNext]_dbVars
  OBVIOUS
<1> USE DEF Promised!DbNext, Promised!dbVars
<1>1. CASE UNCHANGED managerVars
  BY <1>1 DEF managerVars, dbVars, MInv, MTypeOK
<1>2. CASE Boot
  BY <1>2, BootMInv DEF Boot, Started, Promised!Started
<1>3. CASE Crash
  BY <1>3, DieMInv DEF Crash, Die, Lose, Promised!Lose
<1>4. CASE Server
  BY <1>4, ServerMInv
<1>5. ASSUME NEW t \in Threads, NEW c \in Calls, Start(t, c)
      PROVE  MInv' /\ [Promised!DbNext]_dbVars
  BY <1>5, StartMInv DEF Start, Begin, Promised!Begin
<1>6. ASSUME NEW t \in Threads, Lock(t)
      PROVE  MInv' /\ [Promised!DbNext]_dbVars
  BY <1>6, LockMInv DEF Lock, dbVars
<1>7. ASSUME NEW t \in Threads, LockAndRead(t)
      PROVE  MInv' /\ [Promised!DbNext]_dbVars
  BY <1>7, LockAndReadMInv
  DEF TakeEffect, Open, Effect, Result, RankIn, NoRow, Promised!TakeEffect, Promised!Open,
      Promised!Effect, Promised!Result, Promised!RankIn, Promised!NoRow
<1>8. ASSUME NEW t \in Threads, EnsureConnected(t) \/ RunBroken(t) \/ Reconnect(t)
      PROVE  MInv' /\ [Promised!DbNext]_dbVars
  BY <1>8, ConnectMInv
<1>9. ASSUME NEW t \in Threads, Commit(t)
      PROVE  MInv' /\ [Promised!DbNext]_dbVars
  BY <1>9, CommitMInv
  DEF Commit, TakeEffect, Open, Effect, Result, RankIn, NoRow, Promised!TakeEffect,
      Promised!Open, Promised!Effect, Promised!Result, Promised!RankIn, Promised!NoRow
<1>10. ASSUME NEW t \in Threads, CommitInDoubt(t) \/ Refused(t) \/ GiveUp(t)
       PROVE  MInv' /\ [Promised!DbNext]_dbVars
  BY <1>10, FailMInv
  DEF CommitInDoubt, Refused, GiveUp, Fail, Open, Effect, NoRow,
      Promised!Fail, Promised!Open, Promised!Effect, Promised!NoRow
<1>11. ASSUME NEW t \in Threads, Leave(t)
       PROVE  MInv' /\ [Promised!DbNext]_dbVars
  BY <1>11, LeaveMInv DEF Leave, Finish, Promised!Finish
<1>12. ASSUME NEW t \in Threads, Terminate(t)
       PROVE  MInv' /\ [Promised!DbNext]_dbVars
  BY <1>12, DieMInv DEF Terminate, Die, Lose, Promised!Lose
<1>13. QED
  BY <1>1, <1>2, <1>3, <1>4, <1>5, <1>6, <1>7, <1>8, <1>9, <1>10, <1>11, <1>12
  DEF MNext, Transact

\* The types of a run, and that a thread answers only from the end of its call.
THEOREM ManagerInvariant == Spec => []MInv
<1>1. Init => MInv
  BY MInitMInv DEF Init
<1>2. MInv /\ [Next]_vars => MInv'
  BY MStep, NextManager DEF vars
<1>3. QED
  BY <1>1, <1>2, PTL DEF Spec

\* Whoever reads the cached ban list reads the table, in spite of commits in doubt.
THEOREM BanCacheMatchesHolds == Spec => []BanCacheMatches
<1>1. MInv => BanCacheMatches
  BY DEF MInv, BanCacheMatches
<1>2. QED
  BY <1>1, ManagerInvariant, PTL

\* Connection, retries and cache implement one database that takes each call once.
THEOREM ImplementsDatabaseHolds == Spec => ImplementsDatabase
<1>1. Init => Promised!DbInit
  BY DEF Init, MInit, DbInit, EmptyTables, NoRow,
         Promised!DbInit, Promised!EmptyTables, Promised!NoRow
<1>2. MInv /\ [Next]_vars => [Promised!DbNext]_(Promised!dbVars)
  BY MStep, NextManager DEF vars, dbVars, Promised!dbVars
<1>3. QED
  BY <1>1, <1>2, ManagerInvariant, PTL DEF Spec, ImplementsDatabase, Promised!DbSpec

-----------------------------------------------------------------------------
(* The rank cache.                                                           *)

CacheTypeOK ==
  /\ cache \in [Users -> [rank : 0..4, age : 0..Ttl] \union {NoEntry}]
  /\ fetch \in [Threads -> [user : Users, age : 0..FetchTime, rank : 0..4 \union {NoRow}]
                           \union {NoFetch}]
  /\ unseen \in [Users -> [0..4 -> 0..MaxAge]]

\* A thread asked for a rank is in that call until it has answered, and the rank it
\* has read was in the tables no longer ago than it was asked.
FetchInv ==
  \A t \in Threads : Asking(t) =>
    /\ fetch[t].rank = NoRow =>
         /\ call[t] = GetChatRank(fetch[t].user)
         /\ answer[t] \notin {Waiting, Failed} =>
              unseen[fetch[t].user][answer[t]] <= fetch[t].age
    /\ fetch[t].rank # NoRow =>
         /\ call[t] = NoCall
         /\ unseen[fetch[t].user][fetch[t].rank] <= fetch[t].age

EntryInv ==
  \A u \in Users : cache[u] # NoEntry =>
    unseen[u][cache[u].rank] <= cache[u].age + FetchTime

SeenInv == \A u \in Users : unseen[u][RankIn(u, db)] = 0

RInv == MInv /\ CacheTypeOK /\ FetchInv /\ EntryInv /\ SeenInv

LEMMA InitRInv == Init => RInv
<1> SUFFICES ASSUME Init PROVE RInv
  OBVIOUS
<1>1. MInv
  BY MInitMInv DEF Init
<1>2. CacheTypeOK
  BY RankCacheAssumption DEF Init, CacheTypeOK, MaxAge
<1>3. FetchInv /\ EntryInv
  BY DEF Init, FetchInv, EntryInv, Asking
<1>4. SeenInv
  BY <1>1, RankRange DEF Init, SeenInv, MInv, MTypeOK
<1>5. QED
  BY <1>1, <1>2, <1>3, <1>4 DEF RInv

\* A step of the core beside auto-mod: a rank that is read is in the tables.
LEMMA BesideRInv ==
  ASSUME RInv, MInv', Seen, UNCHANGED <<cache, fetch>>,
         \/ UNCHANGED <<call, answer>>
         \/ \E t \in Threads : LockAndRead(t) \/ Commit(t)
         \/ \E t \in Threads : /\ answer' = [answer EXCEPT ![t] = Failed]
                               /\ UNCHANGED call
  PROVE  RInv'
<1>1. db' \in Tables /\ \A u \in Users : RankIn(u, db') \in 0..4
  BY RankRange DEF MInv, MTypeOK
<1>2. \A u \in Users, r \in 0..4 :
        /\ unseen'[u][r] <= unseen[u][r]
        /\ unseen'[u][r] \in 0..MaxAge
        /\ RankIn(u, db') = r => unseen'[u][r] = 0
  BY <1>1, RankCacheAssumption DEF Seen, RInv, CacheTypeOK, MaxAge
<1>3. CacheTypeOK'
  BY <1>2 DEF RInv, CacheTypeOK, Seen
<1>4. SeenInv'
  BY <1>1, <1>2 DEF SeenInv
<1>5. EntryInv'
  <2> SUFFICES ASSUME NEW u \in Users, cache[u] # NoEntry
               PROVE  unseen'[u][cache[u].rank] <= cache[u].age + FetchTime
    BY DEF EntryInv
  <2>1. cache[u].rank \in 0..4 /\ cache[u].age \in Nat
    BY RankCacheAssumption DEF RInv, CacheTypeOK
  <2>2. unseen[u][cache[u].rank] <= cache[u].age + FetchTime
    BY DEF RInv, EntryInv
  <2>3. unseen[u][cache[u].rank] \in Nat
    BY <2>1, RankCacheAssumption DEF RInv, CacheTypeOK, MaxAge
  <2>4. QED
    BY <2>1, <2>2, <2>3, <1>2, RankCacheAssumption
<1>6. FetchInv'
  <2> SUFFICES ASSUME NEW t \in Threads, fetch[t] # NoFetch
               PROVE  /\ fetch[t].rank = NoRow =>
                           /\ call'[t] = GetChatRank(fetch[t].user)
                           /\ answer'[t] \notin {Waiting, Failed} =>
                                unseen'[fetch[t].user][answer'[t]] <= fetch[t].age
                      /\ fetch[t].rank # NoRow =>
                           /\ call'[t] = NoCall
                           /\ unseen'[fetch[t].user][fetch[t].rank] <= fetch[t].age
    BY DEF FetchInv, Asking, GetChatRank
  <2>1. fetch[t].user \in Users /\ fetch[t].age \in Nat /\ fetch[t].rank \in 0..4 \union {NoRow}
    BY DEF RInv, CacheTypeOK
  <2>2. UNCHANGED call
    BY DEF LockAndRead, Commit, TakeEffect
  <2>3. CASE fetch[t].rank # NoRow
    <3>1. unseen[fetch[t].user][fetch[t].rank] <= fetch[t].age /\ call[t] = NoCall
      BY <2>3 DEF RInv, FetchInv, Asking
    <3>2. unseen[fetch[t].user][fetch[t].rank] \in Nat
      BY <2>1, <2>3, RankCacheAssumption DEF RInv, CacheTypeOK, MaxAge
    <3>3. QED
      BY <2>1, <2>2, <2>3, <3>1, <3>2, <1>2
  <2>4. CASE fetch[t].rank = NoRow
    <3> DEFINE u == fetch[t].user
    <3>1. call[t] = GetChatRank(u) /\ call[t] # NoCall /\ call'[t].op = "getChatRank"
      <4>1. call[t] = GetChatRank(u)
        BY <2>4 DEF RInv, FetchInv, Asking
      <4>2. GetChatRank(u) \in AllCalls
        BY <2>1 DEF GetChatRank, AllCalls, UserOps
      <4>3. QED
        BY <4>1, <4>2, <2>2, DbManagerAssumption DEF GetChatRank
    <3>2. CASE answer'[t] \in {Waiting, Failed}
      BY <3>1, <3>2, <2>2, <2>4
    <3>3. CASE answer'[t] \notin {Waiting, Failed} /\ answer'[t] = answer[t]
      <4>1. answer[t] \in 0..4
        BY <3>1, <3>3 DEF RInv, MInv, MTypeOK, ResultsOf
      <4>2. unseen[u][answer[t]] <= fetch[t].age
        BY <2>4, <3>3 DEF RInv, FetchInv, Asking
      <4>3. QED
        BY <4>1, <4>2, <3>1, <3>3, <2>1, <2>2, <2>4, <1>2, RankCacheAssumption
        DEF RInv, CacheTypeOK, MaxAge
    <3>4. CASE answer'[t] \notin {Waiting, Failed} /\ answer'[t] # answer[t]
      <4>1. PICK s \in Threads : LockAndRead(s) \/ Commit(s)
        BY <3>4 DEF RInv, MInv, MTypeOK
      <4>2. s = t
        BY <4>1, <3>4 DEF LockAndRead, Commit, TakeEffect, RInv, MInv, MTypeOK
      <4>3. ~CacheOnly(call[t])
        BY <3>1, <2>2 DEF CacheOnly
      <4>4. Commit(t)
        BY <4>1, <4>2, <4>3 DEF LockAndRead
      <4>5. db' = db /\ answer'[t] = RankIn(u, db)
        <5>1. db' = Effect(call[t], db) /\ answer' = [answer EXCEPT ![t] = Result(call[t], db)]
          BY <4>4 DEF Commit, TakeEffect
        <5>2. call[t].op = "getChatRank" /\ call[t].user = u
          BY <3>1 DEF GetChatRank
        <5>3. Effect(call[t], db) = db
          BY <5>2 DEF Effect
        <5>4. Result(call[t], db) = RankIn(u, db)
          BY <5>2 DEF Result
        <5>5. DOMAIN answer = Threads
          BY DEF RInv, MInv, MTypeOK
        <5> QED
          BY <5>1, <5>3, <5>4, <5>5
      <4>6. QED
        BY <4>5, <3>1, <2>1, <2>2, <2>4, <1>1, <1>2
    <3>5. QED
      BY <3>2, <3>3, <3>4
  <2>5. QED
    BY <2>3, <2>4
<1>7. QED
  BY <1>3, <1>4, <1>5, <1>6 DEF RInv

LEMMA AskRInv == ASSUME RInv, MInv', NEW t \in Threads, NEW u \in Users, Ask(t, u)
                 PROVE  RInv'
<1>1. /\ fetch' = [fetch EXCEPT ![t] = [user |-> u, age |-> 0, rank |-> NoRow]]
      /\ call' = [call EXCEPT ![t] = GetChatRank(u)] /\ call[t] = NoCall
      /\ UNCHANGED <<db, answer, cache, unseen>>
  BY DEF Ask, Start, Begin
<1>2. [user |-> u, age |-> 0, rank |-> NoRow]
        \in [user : Users, age : 0..FetchTime, rank : 0..4 \union {NoRow}]
  BY RankCacheAssumption
<1>3. CacheTypeOK'
  BY <1>1, <1>2 DEF RInv, CacheTypeOK
<1>4. answer[t] = Waiting
  BY <1>1, DbManagerAssumption DEF RInv, MInv
<1>5. FetchInv'
  BY <1>1, <1>4 DEF RInv, FetchInv, Asking, CacheTypeOK, MInv, MTypeOK, GetChatRank
<1>6. QED
  BY <1>1, <1>3, <1>5 DEF RInv, EntryInv, SeenInv, RankIn

LEMMA AskOtherRInv == ASSUME RInv, MInv', NEW t \in Threads, NEW c \in Calls, AskOther(t, c)
                      PROVE  RInv'
<1>1. /\ ~Asking(t) /\ call' = [call EXCEPT ![t] = c]
      /\ UNCHANGED <<db, answer, cache, fetch, unseen>>
  BY DEF AskOther, Start, Begin
<1>2. FetchInv'
  BY <1>1 DEF RInv, FetchInv, Asking, MInv, MTypeOK, GetChatRank
<1>3. QED
  BY <1>1, <1>2 DEF RInv, CacheTypeOK, EntryInv, SeenInv, RankIn

\* What goes out is what the call has read.
LEMMA ReplyRInv == ASSUME RInv, MInv', NEW t \in Threads, Reply(t) PROVE RInv'
<1>1. /\ call' = [call EXCEPT ![t] = NoCall] /\ answer' = [answer EXCEPT ![t] = Waiting]
      /\ call[t] # NoCall /\ answer[t] # Waiting
      /\ fetch' = IF ~Asking(t) THEN fetch
                  ELSE [fetch EXCEPT ![t] = IF answer[t] = Failed THEN NoFetch
                                            ELSE [@ EXCEPT !.rank = answer[t]]]
      /\ UNCHANGED <<db, cache, unseen>>
  BY DEF Reply, Leave, Finish
<1>2. ASSUME Asking(t), answer[t] # Failed
      PROVE  /\ answer[t] \in 0..4 /\ fetch[t].user \in Users /\ fetch[t].age \in 0..FetchTime
             /\ unseen[fetch[t].user][answer[t]] <= fetch[t].age
  <2>1. fetch[t] \in [user : Users, age : 0..FetchTime, rank : 0..4 \union {NoRow}]
    BY <1>2 DEF RInv, CacheTypeOK, Asking
  <2>2. fetch[t].rank = NoRow
    BY <1>1, <1>2 DEF RInv, FetchInv
  <2>3. call[t] = GetChatRank(fetch[t].user)
        /\ unseen[fetch[t].user][answer[t]] <= fetch[t].age
    BY <1>1, <1>2, <2>2 DEF RInv, FetchInv
  <2>4. answer[t] \in 0..4
    BY <1>1, <1>2, <2>3 DEF RInv, MInv, MTypeOK, ResultsOf, GetChatRank
  <2>5. QED
    BY <2>1, <2>3, <2>4
<1>3. CASE ~Asking(t)
  BY <1>1, <1>3
  DEF RInv, CacheTypeOK, EntryInv, SeenInv, RankIn, FetchInv, Asking, MInv, MTypeOK, GetChatRank
<1>4. CASE Asking(t) /\ answer[t] = Failed
  BY <1>1, <1>4
  DEF RInv, CacheTypeOK, EntryInv, SeenInv, RankIn, FetchInv, Asking, MInv, MTypeOK, GetChatRank
<1>5. CASE Asking(t) /\ answer[t] # Failed
  <2> DEFINE told == [fetch[t] EXCEPT !.rank = answer[t]]
  <2>1. told \in [user : Users, age : 0..FetchTime, rank : 0..4 \union {NoRow}]
        /\ told.user = fetch[t].user /\ told.age = fetch[t].age /\ told.rank = answer[t]
    BY <1>2, <1>5 DEF RInv, CacheTypeOK, Asking
  <2>2. fetch' = [fetch EXCEPT ![t] = told]
    BY <1>1, <1>5
  <2>3. CacheTypeOK'
    BY <1>1, <2>1, <2>2 DEF RInv, CacheTypeOK
  <2>4. answer[t] # NoRow /\ call'[t] = NoCall
    BY <1>1, <1>2, <1>5 DEF NoRow, RInv, MInv, MTypeOK
  <2>5. fetch'[t] = told
    BY <2>2 DEF RInv, CacheTypeOK
  <2>6. \A s \in Threads : s # t => fetch'[s] = fetch[s] /\ call'[s] = call[s] /\ answer'[s] = answer[s]
    BY <1>1, <2>2 DEF RInv, CacheTypeOK, MInv, MTypeOK
  <2>7. FetchInv'
    BY <1>1, <1>2, <1>5, <2>1, <2>4, <2>5, <2>6 DEF RInv, FetchInv, Asking, GetChatRank
  <2>8. QED
    BY <1>1, <2>3, <2>7 DEF RInv, EntryInv, SeenInv, RankIn
<1>6. QED
  BY <1>3, <1>4, <1>5

LEMMA StoreRInv == ASSUME RInv, MInv', NEW t \in Threads, Store(t) PROVE RInv'
<1> DEFINE f == fetch[t]
<1>1. /\ fetch[t] # NoFetch /\ f.rank # NoRow
      /\ f \in [user : Users, age : 0..FetchTime, rank : 0..4 \union {NoRow}]
      /\ unseen[f.user][f.rank] <= f.age
  BY DEF Store, Asking, RInv, CacheTypeOK, FetchInv
<1>2. /\ cache' = [cache EXCEPT ![f.user] = [rank |-> f.rank, age |-> 0]]
      /\ fetch' = [fetch EXCEPT ![t] = NoFetch]
      /\ UNCHANGED <<db, call, answer, unseen>>
  BY DEF Store, managerVars
<1>3. [rank |-> f.rank, age |-> 0] \in [rank : 0..4, age : 0..Ttl]
  BY <1>1, RankCacheAssumption DEF NoRow
<1>4. CacheTypeOK'
  BY <1>1, <1>2, <1>3 DEF RInv, CacheTypeOK
<1>5. FetchInv'
  BY <1>2 DEF RInv, FetchInv, Asking, CacheTypeOK, GetChatRank
<1>6. EntryInv'
  <2> SUFFICES ASSUME NEW u \in Users, cache'[u] # NoEntry
               PROVE  unseen[u][cache'[u].rank] <= cache'[u].age + FetchTime
    BY <1>2 DEF EntryInv
  <2>1. CASE u = f.user
    <3>1. cache'[u] = [rank |-> f.rank, age |-> 0]
      BY <1>2, <2>1 DEF RInv, CacheTypeOK
    <3>2. unseen[u][f.rank] \in Nat
      BY <1>1, <2>1, RankCacheAssumption DEF NoRow, RInv, CacheTypeOK, MaxAge
    <3>3. QED
      BY <1>1, <2>1, <3>1, <3>2, RankCacheAssumption
  <2>2. CASE u # f.user
    BY <1>2, <2>2 DEF RInv, EntryInv, CacheTypeOK
  <2>3. QED
    BY <2>1, <2>2
<1>7. QED
  BY <1>2, <1>4, <1>5, <1>6 DEF RInv, SeenInv, RankIn

LEMMA LostRInv ==
  ASSUME RInv, MInv',
         \/ \E t \in Threads : FetchLost(t)
         \/ AutoModRestarts
  PROVE  RInv'
<1>1. CASE AutoModRestarts
  BY <1>1
  DEF AutoModRestarts, managerVars, RInv, CacheTypeOK, EntryInv, SeenInv, RankIn, FetchInv, Asking
<1>2. ASSUME NEW t \in Threads, FetchLost(t)
      PROVE  RInv'
  BY <1>2
  DEF FetchLost, managerVars, RInv, CacheTypeOK, EntryInv, SeenInv, RankIn, FetchInv, Asking,
      GetChatRank
<1>3. QED
  BY <1>1, <1>2

\* The core's death leaves only fetches that have their answer.
LEMMA DieRInv == ASSUME RInv, MInv', Die, CoreDies PROVE RInv'
<1>1. /\ call' = [t \in Threads |-> NoCall]
      /\ fetch' = [t \in Threads |->
                     IF Asking(t) /\ fetch[t].rank = NoRow THEN NoFetch ELSE fetch[t]]
      /\ UNCHANGED <<db, cache, unseen>>
  BY DEF Die, Lose, CoreDies
<1>2. \A t \in Threads : fetch'[t] # NoFetch =>
        fetch'[t] = fetch[t] /\ fetch[t].rank # NoRow /\ call'[t] = NoCall
  BY <1>1 DEF Asking
<1>3. FetchInv'
  BY <1>1, <1>2 DEF RInv, FetchInv, Asking
<1>4. CacheTypeOK'
  BY <1>1 DEF RInv, CacheTypeOK
<1>5. QED
  BY <1>1, <1>3, <1>4 DEF RInv, EntryInv, SeenInv, RankIn

\* Time passes for fetches and entries as it does for the ranks behind them.
LEMMA TickRInv == ASSUME RInv, MInv', Tick PROVE RInv'
<1> USE RankCacheAssumption
<1>1. UNCHANGED <<db, call, answer>>
  BY DEF Tick, managerVars
<1>2. \A u \in Users, r \in 0..4 :
        /\ unseen'[u][r] \in 0..MaxAge
        /\ unseen'[u][r] <= unseen[u][r] + 1
        /\ RankIn(u, db) = r => unseen'[u][r] = 0
  BY DEF Tick, Older, RInv, CacheTypeOK, MaxAge
<1>3. \A u \in Users : cache'[u] # NoEntry =>
        /\ cache[u] # NoEntry
        /\ cache[u].rank \in 0..4 /\ cache[u].age \in 0..Ttl
        /\ cache'[u] = [cache[u] EXCEPT !.age = Older(cache[u].age, Ttl)]
        /\ cache'[u] \in [rank : 0..4, age : 0..Ttl]
        /\ cache'[u].rank = cache[u].rank
        /\ cache'[u].age = Older(cache[u].age, Ttl)
  BY DEF Tick, Older, RInv, CacheTypeOK
<1>4. \A t \in Threads : fetch'[t] # NoFetch =>
        /\ fetch[t] # NoFetch
        /\ fetch[t].user \in Users /\ fetch[t].age \in 0..FetchTime
        /\ fetch[t].rank \in 0..4 \union {NoRow}
        /\ fetch'[t] \in [user : Users, age : 0..FetchTime, rank : 0..4 \union {NoRow}]
        /\ fetch'[t].user = fetch[t].user /\ fetch'[t].rank = fetch[t].rank
        /\ fetch'[t].age = fetch[t].age + 1
  BY DEF Tick, Asking, RInv, CacheTypeOK
<1>5. CacheTypeOK'
  <2>1. unseen' \in [Users -> [0..4 -> 0..MaxAge]]
    BY DEF Tick, Older, RInv, CacheTypeOK, MaxAge
  <2>2. cache' \in [Users -> [rank : 0..4, age : 0..Ttl] \union {NoEntry}]
    BY <1>3 DEF Tick
  <2>3. fetch' \in [Threads -> [user : Users, age : 0..FetchTime, rank : 0..4 \union {NoRow}]
                               \union {NoFetch}]
    BY <1>4 DEF Tick
  <2>4. QED
    BY <2>1, <2>2, <2>3 DEF CacheTypeOK
<1>6. \A u \in Users, r \in 0..4 : unseen[u][r] \in 0..MaxAge
  BY DEF RInv, CacheTypeOK
<1>7. EntryInv'
  <2> SUFFICES ASSUME NEW u \in Users, cache'[u] # NoEntry
               PROVE  unseen'[u][cache'[u].rank] <= cache'[u].age + FetchTime
    BY DEF EntryInv
  <2>1. unseen[u][cache[u].rank] <= cache[u].age + FetchTime
    BY <1>3 DEF RInv, EntryInv
  <2> DEFINE r == cache[u].rank
             a == cache[u].age
  <2>2. r \in 0..4 /\ a \in 0..Ttl /\ cache'[u].rank = r /\ cache'[u].age = Older(a, Ttl)
    BY <1>3
  <2>3. unseen'[u][r] \in 0..MaxAge /\ unseen'[u][r] <= unseen[u][r] + 1
        /\ unseen[u][r] \in 0..MaxAge
    BY <1>2, <1>6, <2>2
  <2>4. CASE a < Ttl
    <3>1. Older(a, Ttl) = a + 1
      BY <2>4 DEF Older
    <3>2. unseen'[u][r] <= a + 1 + FetchTime
      BY <2>1, <2>2, <2>3 DEF MaxAge
    <3>3. QED
      BY <2>2, <3>1, <3>2
  <2>5. CASE ~(a < Ttl)
    BY <2>2, <2>3, <2>5 DEF Older, MaxAge
  <2>6. QED
    BY <2>4, <2>5
<1>8. FetchInv'
  <2> SUFFICES ASSUME NEW t \in Threads, fetch'[t] # NoFetch
               PROVE  /\ fetch'[t].rank = NoRow =>
                           /\ call[t] = GetChatRank(fetch'[t].user)
                           /\ answer[t] \notin {Waiting, Failed} =>
                                unseen'[fetch'[t].user][answer[t]] <= fetch'[t].age
                      /\ fetch'[t].rank # NoRow =>
                           /\ call[t] = NoCall
                           /\ unseen'[fetch'[t].user][fetch'[t].rank] <= fetch'[t].age
    BY <1>1 DEF FetchInv, Asking, GetChatRank
  <2>1. CASE fetch[t].rank # NoRow
    BY <2>1, <1>2, <1>4, <1>6 DEF RInv, FetchInv, Asking, MaxAge
  <2>2. CASE fetch[t].rank = NoRow
    <3>1. call[t] = GetChatRank(fetch[t].user)
      BY <1>4, <2>2 DEF RInv, FetchInv, Asking
    <3>2. answer[t] \notin {Waiting, Failed} => answer[t] \in 0..4
      BY <3>1 DEF RInv, MInv, MTypeOK, ResultsOf, GetChatRank
    <3>3. answer[t] \notin {Waiting, Failed} =>
            unseen[fetch[t].user][answer[t]] <= fetch[t].age
      BY <1>4, <2>2 DEF RInv, FetchInv, Asking
    <3>4. QED
      BY <2>2, <3>1, <3>2, <3>3, <1>2, <1>4, <1>6 DEF MaxAge
  <2>3. QED
    BY <2>1, <2>2
<1>9. SeenInv'
  BY <1>1, <1>2, RankRange DEF SeenInv, RankIn, RInv, MInv, MTypeOK
<1>10. QED
  BY <1>5, <1>7, <1>8, <1>9 DEF RInv

LEMMA RStep == RInv /\ [Next]_vars => RInv'
<1> SUFFICES ASSUME RInv, [Next]_vars PROVE RInv'
  OBVIOUS
<1>1. MInv'
  BY MStep, NextManager DEF RInv, vars
<1>2. CASE UNCHANGED vars
  BY <1>1, <1>2
  DEF vars, managerVars, RInv, CacheTypeOK, FetchInv, EntryInv, SeenInv, Asking, RankIn,
      GetChatRank
<1>3. ASSUME NEW t \in Threads, NEW u \in Users, Ask(t, u) PROVE RInv'
  BY <1>1, <1>3, AskRInv
<1>4. ASSUME NEW t \in Threads, NEW c \in Calls, AskOther(t, c) PROVE RInv'
  BY <1>1, <1>4, AskOtherRInv
<1>5. ASSUME NEW t \in Threads,
             Beside(Lock(t)) \/ Beside(LockAndRead(t)) \/ Beside(Transact(t))
      PROVE  RInv'
  <2>1. Seen /\ UNCHANGED <<cache, fetch>>
    BY <1>5 DEF Beside
  <2>2. CASE Lock(t) \/ LockAndRead(t)
    BY <2>1, <2>2, <1>1, BesideRInv DEF Lock
  <2>3. CASE Transact(t)
    BY <2>1, <2>3, <1>1, BesideRInv
    DEF Transact, EnsureConnected, RunBroken, Reconnect, CommitInDoubt, Refused, GiveUp, Fail
  <2>4. QED
    BY <1>5, <2>2, <2>3 DEF Beside
<1>6. CASE Beside(Boot) \/ Beside(Server)
  <2>1. Seen /\ UNCHANGED <<cache, fetch>> /\ UNCHANGED <<call, answer>>
    BY <1>6 DEF Beside, Boot, Started, Server, ServerStops, ServerStarts, LinkLost
  <2>2. QED
    BY <2>1, <1>1, BesideRInv
<1>7. ASSUME NEW t \in Threads, Reply(t) PROVE RInv'
  BY <1>1, <1>7, ReplyRInv
<1>8. ASSUME NEW t \in Threads, Store(t) PROVE RInv'
  BY <1>1, <1>8, StoreRInv
<1>9. CASE AutoModRestarts \/ \E t \in Threads : FetchLost(t)
  BY <1>1, <1>9, LostRInv
<1>10. CASE CoreDies /\ (Crash \/ \E t \in Threads : Terminate(t))
  BY <1>1, <1>10, DieRInv DEF Crash, Terminate
<1>11. CASE Tick
  BY <1>1, <1>11, TickRInv
<1>12. QED
  BY <1>2, <1>3, <1>4, <1>5, <1>6, <1>7, <1>8, <1>9, <1>10, <1>11 DEF Next, Work

THEOREM RankCacheInvariant == Spec => []RInv
<1>1. QED
  BY InitRInv, RStep, PTL DEF Spec

\* Every variable keeps to its type.
THEOREM TypeCorrect == Spec => []TypeOK
<1>1. RInv => TypeOK
  BY DEF RInv, MInv, CacheTypeOK, TypeOK
<1>2. QED
  BY <1>1, RankCacheInvariant, PTL

\* A rank that auto-mod acts on is no older than the time to live and one fetch.
THEOREM RankFreshHolds == Spec => []RankFresh
<1>1. ASSUME RInv, NEW u \in Users, Fresh(u)
      PROVE  unseen[u][cache[u].rank] < MaxAge
  <2>1. /\ cache[u].rank \in 0..4 /\ cache[u].age \in 0..Ttl /\ cache[u].age < Ttl
        /\ unseen[u][cache[u].rank] <= cache[u].age + FetchTime
    BY <1>1 DEF RInv, CacheTypeOK, EntryInv, Fresh
  <2>2. unseen[u][cache[u].rank] \in 0..MaxAge
    BY <1>1, <2>1 DEF RInv, CacheTypeOK
  <2>3. QED
    BY <2>1, <2>2, RankCacheAssumption DEF MaxAge
<1>2. RInv => RankFresh
  BY <1>1 DEF RankFresh
<1>3. QED
  BY <1>2, RankCacheInvariant, PTL
=============================================================================

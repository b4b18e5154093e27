------------------------------ MODULE RankCache ------------------------------
(***************************************************************************)
(* The rank cache of auto-mod/src/core_client.cpp over the core's REST API *)
(* (/config/chat/{chatId}/rank/{userId}), and so over DbManager.           *)
(*                                                                         *)
(* A thread of auto-mod that misses the cache asks a thread of the API.    *)
(* Several may ask for one user at a time, and what they are told is       *)
(* stored in the order in which they come to it.                           *)
(*                                                                         *)
(* Time is kept in ages, each capped where nothing depends on it any more. *)
(***************************************************************************)
EXTENDS DbManager

CONSTANTS
  Ttl,        \* cache_ttl_seconds
  FetchTime,  \* assumption: how long a fetch takes.  The code sets no limit
  NoEntry, NoFetch

ASSUME RankCacheAssumption ==
  /\ Ttl \in Nat \ {0}
  /\ FetchTime \in Nat
  /\ NoEntry \notin [rank : 0..4, age : 0..Ttl]
  /\ NoFetch \notin [user : Users, age : 0..FetchTime, rank : 0..4 \union {NoRow}]

VARIABLES
  cache,      \* cache_: each user's rank and the time since it was stored
  fetch,      \* what auto-mod is asking each thread of the API
  unseen      \* history: how long ago each user last had each rank in the tables

vars == <<managerVars, cache, fetch, unseen>>

MaxAge == Ttl + FetchTime
Older(age, cap) == IF age < cap THEN age + 1 ELSE cap

Init ==
  /\ MInit
  /\ cache = [u \in Users |-> NoEntry]
  /\ fetch = [t \in Threads |-> NoFetch]
  /\ unseen = [u \in Users |-> [r \in 0..4 |-> IF RankIn(u, db) = r THEN 0 ELSE MaxAge]]

\* What is in the tables now has been seen now.
Seen == unseen' =
  [u \in Users |-> [r \in 0..4 |-> IF RankIn(u, db') = r THEN 0 ELSE unseen[u][r]]]

Fresh(u) == cache[u] # NoEntry /\ cache[u].age < Ttl

Asking(t) == fetch[t] # NoFetch

-----------------------------------------------------------------------------
\* Mutant of Ask: the entry that is used is made young again.
AskSliding(t, u) ==
  \/ /\ Fresh(u)
     /\ cache' = [cache EXCEPT ![u].age = 0]
     /\ UNCHANGED <<managerVars, fetch, unseen>>
  \/ /\ ~Fresh(u)
     /\ ~Asking(t)
     /\ GetChatRank(u) \in Calls
     /\ Start(t, GetChatRank(u))
     /\ fetch' = [fetch EXCEPT ![t] = [user |-> u, age |-> 0, rank |-> NoRow]]
     /\ UNCHANGED <<cache, unseen>>

\* A miss.  A hit changes nothing, nor does a core that is down.
Ask(t, u) ==
  /\ ~Fresh(u)
  /\ ~Asking(t)
  /\ GetChatRank(u) \in Calls
  /\ Start(t, GetChatRank(u))
  /\ fetch' = [fetch EXCEPT ![t] = [user |-> u, age |-> 0, rank |-> NoRow]]
  /\ UNCHANGED <<cache, unseen>>

\* Other clients ask for bans and mutes, and docker for /health.
AskOther(t, c) ==
  /\ ~Asking(t)
  /\ t # Loop => c.op # "getChatRank"
  /\ Start(t, c)
  /\ UNCHANGED <<cache, fetch, unseen>>

\* DbManager's call returns, and a 200 or a 500 goes out.
Reply(t) ==
  /\ Leave(t)
  /\ fetch' = IF ~Asking(t) THEN fetch
              ELSE [fetch EXCEPT ![t] = IF answer[t] = Failed THEN NoFetch
                                        ELSE [@ EXCEPT !.rank = answer[t]]]
  /\ UNCHANGED <<cache, unseen>>

\* The answer has arrived and is stored, whatever has been stored meanwhile.
Store(t) ==
  /\ Asking(t)
  /\ fetch[t].rank # NoRow
  /\ cache' = [cache EXCEPT ![fetch[t].user] = [rank |-> fetch[t].rank, age |-> 0]]
  /\ fetch' = [fetch EXCEPT ![t] = NoFetch]
  /\ UNCHANGED <<managerVars, unseen>>

\* The connection to the core breaks before the answer is in, which is -1.
FetchLost(t) ==
  /\ Asking(t)
  /\ fetch' = [fetch EXCEPT ![t] = NoFetch]
  /\ UNCHANGED <<managerVars, cache, unseen>>

AutoModRestarts ==
  /\ cache' = [u \in Users |-> NoEntry]
  /\ fetch' = [t \in Threads |-> NoFetch]
  /\ UNCHANGED <<managerVars, unseen>>

\* The core dies: only what has been answered is still under way.
CoreDies ==
  /\ fetch' = [t \in Threads |-> IF Asking(t) /\ fetch[t].rank = NoRow THEN NoFetch ELSE fetch[t]]
  /\ UNCHANGED <<cache, unseen>>

Beside(A) == A /\ Seen /\ UNCHANGED <<cache, fetch>>

\* The holder of the mutex goes on.
Work(t) ==
  \/ Beside(Transact(t))
  \/ Reply(t)
  \/ Terminate(t) /\ CoreDies

Tick ==
  /\ \A t \in Threads : Asking(t) => fetch[t].age < FetchTime
  /\ cache' = [u \in Users |-> IF cache[u] = NoEntry THEN NoEntry
                               ELSE [cache[u] EXCEPT !.age = Older(@, Ttl)]]
  /\ fetch' = [t \in Threads |-> IF Asking(t) THEN [fetch[t] EXCEPT !.age = @ + 1] ELSE NoFetch]
  /\ unseen' = [u \in Users |-> [r \in 0..4 |->
       IF RankIn(u, db) = r THEN 0 ELSE Older(unseen[u][r], MaxAge)]]
  /\ UNCHANGED managerVars

Next ==
  \/ \E t \in Threads :
       \/ \E u \in Users : t # Loop /\ Ask(t, u)
       \/ \E c \in Calls : AskOther(t, c)
       \/ Beside(Lock(t)) \/ Beside(LockAndRead(t)) \/ Work(t)
       \/ Store(t) \/ FetchLost(t)
  \/ Beside(Boot) \/ Beside(Server)
  \/ Crash /\ CoreDies
  \/ AutoModRestarts
  \/ Tick

Spec == Init /\ [][Next]_vars

\* A thread that holds the mutex goes on: connect has a timeout, and a statement on
\* a lost connection fails in the end.
FairSpec == Spec /\ WF_vars(\E t \in Threads : Work(t))

-----------------------------------------------------------------------------
(* Properties.                                                               *)

TypeOK ==
  /\ MTypeOK
  /\ cache \in [Users -> [rank : 0..4, age : 0..Ttl] \union {NoEntry}]
  /\ fetch \in [Threads -> [user : Users, age : 0..FetchTime, rank : 0..4 \union {NoRow}]
                           \union {NoFetch}]
  /\ unseen \in [Users -> [0..4 -> 0..MaxAge]]

\* A rank that auto-mod acts on was the user's within the time to live and the time
\* of one fetch, whichever of several fetches was stored last.
RankFresh ==
  \A u \in Users : Fresh(u) => unseen[u][cache[u].rank] < MaxAge

\* withRetry comes to an end, however often the connection is lost.
MutexReleased == []<>(holder = NoOne)
=============================================================================

------------------------------ MODULE Database ------------------------------
(***************************************************************************)
(* What DbManager (core/src/database) promises its callers: a call that    *)
(* returns has read and written the tables at one moment between its start *)
(* and its end.  A call that fails has done so or has done nothing.        *)
(* Neither the connection nor the cached ban list can be seen.             *)
(***************************************************************************)
EXTENDS Integers

CONSTANTS
  Threads,    \* the threads of the core that call it
  Calls,      \* the calls they may make
  Users,
  Chats,
  Untils,     \* when mutes end, 0 for never
  FirstDev,   \* the developer that initSchema inserts
  NoCall, Waiting, Failed

VARIABLES
  db,         \* the tables
  call,       \* the call each thread is in
  answer      \* what it will return or, once it has, has returned

dbVars == <<db, call, answer>>

NoRow == -1

(***************************************************************************)
(* The rows of chat_ranks and chat_mutes are those of one chat.            *)
(***************************************************************************)
Tables == [bans : SUBSET Users, devs : SUBSET Users, chats : SUBSET Chats,
           ranks : [Users -> 0..4 \union {NoRow}], mutes : [Users -> Untils \union {NoRow}]]

EmptyTables ==
  [bans |-> {}, devs |-> {}, chats |-> {},
   ranks |-> [u \in Users |-> NoRow], mutes |-> [u \in Users |-> NoRow]]

AddGlobalBan(u) == [op |-> "addGlobalBan", user |-> u]
RemoveGlobalBan(u) == [op |-> "removeGlobalBan", user |-> u]
SetChatRank(u, r) == [op |-> "setChatRank", user |-> u, rank |-> r]
AddDev(u) == [op |-> "addDev", user |-> u]
AddMute(u, until) == [op |-> "addMute", user |-> u, until |-> until]
RemoveMute(u) == [op |-> "removeMute", user |-> u]
RecordChat(c) == [op |-> "recordChat", chat |-> c]

IsGloballyBanned(u) == [op |-> "isGloballyBanned", user |-> u]
GetGlobalBans == [op |-> "getGlobalBans"]
GetChatRank(u) == [op |-> "getChatRank", user |-> u]
GetChatRanks == [op |-> "getChatRanks"]
IsDev(u) == [op |-> "isDev", user |-> u]
GetMute(u) == [op |-> "getMute", user |-> u]
GetKnownChats == [op |-> "getKnownChats"]
Ping == [op |-> "ping"]

UserOps == {"addGlobalBan", "removeGlobalBan", "addDev", "removeMute",
            "isGloballyBanned", "getChatRank", "isDev", "getMute"}

AllCalls ==
  [op : UserOps, user : Users]
  \union [op : {"setChatRank"}, user : Users, rank : 1..4]
  \union [op : {"addMute"}, user : Users, until : Untils]
  \union [op : {"recordChat"}, chat : Chats]
  \union [op : {"getGlobalBans", "getChatRanks", "getKnownChats", "ping"}]

\* What a call's statement leaves in the tables.
Effect(c, d) ==
  CASE c.op = "addGlobalBan" -> [d EXCEPT !.bans = @ \union {c.user}]
    [] c.op = "removeGlobalBan" -> [d EXCEPT !.bans = @ \ {c.user}]
    [] c.op = "setChatRank" -> [d EXCEPT !.ranks[c.user] = c.rank]
    [] c.op = "addDev" -> [d EXCEPT !.devs = @ \union {c.user}]
    [] c.op = "addMute" -> [d EXCEPT !.mutes[c.user] = c.until]
    [] c.op = "removeMute" -> [d EXCEPT !.mutes[c.user] = NoRow]
    [] c.op = "recordChat" -> [d EXCEPT !.chats = @ \union {c.chat}]
    [] OTHER -> d

\* A developer has rank 0 everywhere, and who has no row is a member.
RankIn(u, d) ==
  IF u \in d.devs THEN 0 ELSE IF d.ranks[u] = NoRow THEN 4 ELSE d.ranks[u]

\* What a call returns.  Whether a mute still holds follows from its row and the time.
Result(c, d) ==
  CASE c.op = "isGloballyBanned" -> c.user \in d.bans
    [] c.op = "getGlobalBans" -> d.bans
    [] c.op = "getChatRank" -> RankIn(c.user, d)
    [] c.op = "getChatRanks" -> {<<d.ranks[u], u>> : u \in {v \in Users : d.ranks[v] \in 1..3}}
    [] c.op = "isDev" -> c.user \in d.devs
    [] c.op = "getMute" -> d.mutes[c.user]
    [] c.op = "getKnownChats" -> d.chats
    [] OTHER -> TRUE

ResultsOf(c) ==
  CASE c.op = "getChatRank" -> 0..4
    [] c.op = "getGlobalBans" -> SUBSET Users
    [] c.op = "getChatRanks" -> SUBSET ((1..3) \X Users)
    [] c.op = "getMute" -> Untils \union {NoRow}
    [] c.op = "getKnownChats" -> SUBSET Chats
    [] OTHER -> BOOLEAN

-----------------------------------------------------------------------------
DbInit ==
  /\ db = EmptyTables
  /\ call = [t \in Threads |-> NoCall]
  /\ answer = [t \in Threads |-> Waiting]

Open(t) == call[t] # NoCall /\ answer[t] = Waiting

\* The core comes up: initSchema.
Started ==
  /\ db' = [db EXCEPT !.devs = @ \union {FirstDev}]
  /\ UNCHANGED <<call, answer>>

Begin(t, c) ==
  /\ call[t] = NoCall
  /\ call' = [call EXCEPT ![t] = c]
  /\ UNCHANGED <<db, answer>>

TakeEffect(t) ==
  /\ Open(t)
  /\ db' = Effect(call[t], db)
  /\ answer' = [answer EXCEPT ![t] = Result(call[t], db)]
  /\ UNCHANGED call

\* ping answers false, the other calls raise, with the tables as d.
Fail(t, d) ==
  /\ Open(t)
  /\ db' = d
  /\ answer' = [answer EXCEPT ![t] = Failed]
  /\ UNCHANGED call

Finish(t) ==
  /\ call[t] # NoCall
  /\ answer[t] # Waiting
  /\ call' = [call EXCEPT ![t] = NoCall]
  /\ answer' = [answer EXCEPT ![t] = Waiting]
  /\ UNCHANGED db

\* The core dies.
Lose ==
  /\ call' = [t \in Threads |-> NoCall]
  /\ answer' = [t \in Threads |-> Waiting]
  /\ UNCHANGED db

DbNext ==
  \/ Started \/ Lose
  \/ \E t \in Threads :
       \/ \E c \in Calls : Begin(t, c)
       \/ TakeEffect(t) \/ Finish(t)
       \/ Fail(t, db) \/ Fail(t, Effect(call[t], db))

DbSpec == DbInit /\ [][DbNext]_dbVars
=============================================================================

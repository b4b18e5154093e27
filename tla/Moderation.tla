----------------------------- MODULE Moderation -----------------------------
(***************************************************************************)
(* The moderation commands of the core service:                            *)
(* core/src/commands/moderation_commands.cpp over the tables of            *)
(* core/src/database/db_manager.cpp and the Telegram calls of              *)
(* core/src/tdlib/tdlib_client.cpp.                                        *)
(*                                                                         *)
(* One thread (TdlibClient::loop) runs every message handler and every     *)
(* callback, so a handler and a callback are one action each.  Between     *)
(* them other messages are handled: a command whose target is an @username *)
(* or a reply, a /rank and a status change are all continued by a callback *)
(* that runs later, on state that may have changed.                        *)
(***************************************************************************)
EXTENDS Integers, Sequences

CONSTANTS
  Users,            \* Telegram user ids
  NoUser,           \* "not a user": a failed lookup, a message that replies to nothing
  Groups,           \* group chats; the chat id of a direct message is the user's id
  Devs,             \* rows of the devs table; no command writes it
  Required,         \* [commands] of config.toml: the rank each command requires
  RankTables,       \* the contents the chat_ranks table may start with
  Messages,         \* the command messages users may send
  AdminCandidates,  \* the users whom people may make Telegram admins by hand
  MaxCommands,      \* bound: commands that pass the rate limit in one behaviour
  MaxTicks,         \* bound: clock ticks
  TicksPerSecond,   \* resolution of the clock below the whole seconds of unixNow()
  MaxRestarts       \* bound: restarts of the process

Chats == Groups \union Users
Ranks == 1..4
Cmds == 1..MaxCommands
Never == -1

Statuses == {"member", "admin", "restricted", "removed"}

\* The commands that act on one member of the chat through Telegram, and the
\* status each asks Telegram for.
StatusCommands == {"mute", "unmute", "kick", "ban", "unban"}
RequestedStatus(name) ==
  CASE name = "mute" -> "restricted"
    [] name \in {"unmute", "unban"} -> "member"
    [] OTHER -> "removed"

\* The commands that name a user to act on, and those that are answered at once:
\* the RP commands after a call of the RP service that blocks the loop.
TargetCommands == StatusCommands \union {"rank", "globalban", "globalunban"}
AnswerCommands == {"start", "devc", "rplist", "rpadd", "rpremove", "rpedit"}

\* /gclone and /ai are left to TdlibClient and AiRequests.
Names == TargetCommands \union AnswerCommands \union {"gnotify", "ranks"}

\* A word of the command line, as the parsers tell words apart: a duration with
\* a unit, an @username (of a user, or of nobody), or a plain number.
Words == [kind : {"duration"}, user : {NoUser}]
         \union [kind : {"username"}, user : Users \union {NoUser}]
         \union [kind : {"number"}, user : Users]

\* newRank is the first argument of /rank (0 when it is no integer), args are
\* the words after it, reply is the author of the message replied to.
MessageType == [name : Names, caller : Users, chat : Chats, newRank : Nat,
                args : Seq(Words), reply : Users \union {NoUser}]

ASSUME ModerationAssumption ==
  /\ NoUser \notin Users
  /\ Groups \intersect Users = {}
  /\ Devs \subseteq Users
  /\ Required \in [Names -> 0..4]
  /\ RankTables \subseteq [Chats -> [Users -> Ranks]]
  /\ Messages \subseteq MessageType
  /\ AdminCandidates \subseteq Users
  /\ MaxCommands \in Nat
  /\ MaxTicks \in Nat
  /\ TicksPerSecond \in Nat \ {0}
  /\ MaxRestarts \in Nat

VARIABLES
  rank,             \* chat_ranks, absent rows read as 4
  banned,           \* global_bans (table and cache: see DbManager)
  mutes,            \* chat_mutes
  known,            \* known_chats
  member,           \* Telegram: the status of each user in each chat
  lastCommandAt,    \* ModerationCommands::lastCommandAt_, in seconds
  clock,            \* ticks since the start
  restarts,         \* restarts so far
  cmds              \* the accepted commands, each with its continuation

vars == <<rank, banned, mutes, known, member, lastCommandAt, clock, restarts, cmds>>

-----------------------------------------------------------------------------
(***************************************************************************)
(* An accepted command.  stage says which callback continues it:           *)
(*   free        the slot is unused                                        *)
(*   resolving   resolveUsername or getMessage is in flight                *)
(*   asking      getChatMember is in flight                                *)
(*   told        Telegram has answered isAdmin, the callback has not run   *)
(*   calling     setChatMemberStatus or banChatMember is in flight         *)
(*   settled     Telegram has carried out or refused the call              *)
(*   notifying   sends of /gnotify to the chats in pending are unsettled   *)
(*   naming      getUser of /ranks is in flight for the users in pending   *)
(*   done        the command has been answered                             *)
(*   lost        the process was restarted while it was in flight          *)
(* replies counts the answers sent to the caller; born is the process and  *)
(* the tick in which the command was accepted.                             *)
(***************************************************************************)
Stages == {"free", "resolving", "asking", "told", "calling", "settled",
           "notifying", "naming", "done", "lost"}
InFlight == Stages \ {"free", "done", "lost"}

NoMessage == [name |-> "none"]
Command == [stage : Stages, msg : Messages \union {NoMessage},
            target : Users \union {NoUser}, isAdmin : BOOLEAN,
            pending : SUBSET Chats, replies : Nat, born : Nat \X Nat]

FreeCommand == [stage |-> "free", msg |-> NoMessage, target |-> NoUser,
                isAdmin |-> FALSE, pending |-> {}, replies |-> 0, born |-> <<0, 0>>]

Now == clock \div TicksPerSecond

\* getChatRank: developers rank 0 in every chat, whatever chat_ranks says.
ChatRank(chat, u) == IF u \in Devs THEN 0 ELSE rank[chat][u]

\* Mutant of CanModerate: equals may moderate each other.
CanModerateEquals(m, u) == ChatRank(m.chat, u) >= ChatRank(m.chat, m.caller)

\* canModerateTarget: the target must rank strictly below the caller.
CanModerate(m, u) == ChatRank(m.chat, u) > ChatRank(m.chat, m.caller)

\* parseDuration accepts a plain number too, as minutes.
IsDuration(w) == w.kind \in {"duration", "number"}

\* The words left for the target: /mute takes a leading duration off.
TargetWords(m) ==
  IF m.name = "mute" /\ m.args # <<>> /\ IsDuration(m.args[1])
    THEN Tail(m.args) ELSE m.args

\* resolveTarget: a number is the user at once, an @username or a replied-to
\* message is looked up by Telegram, anything else is an error.
TargetIs(m, kind) == TargetWords(m) # <<>> /\ TargetWords(m)[1].kind = kind
NeedsLookup(m) ==
  \/ TargetIs(m, "username")
  \/ TargetWords(m) = <<>> /\ m.reply # NoUser
TargetUser(m) ==
  IF TargetWords(m) # <<>> THEN TargetWords(m)[1].user ELSE m.reply

\* Mutant of RankArgumentOK: only the owner's rank is refused.
RankArgumentNotOwner(m) == m.name = "rank" => m.newRank # 1

\* executeRank refuses rank 1 and whatever is not 2, 3 or 4.
RankArgumentOK(m) == m.name = "rank" => m.newRank \in 2..4

\* Mutant of HasRank: the next lower rank passes.
HasRankOffByOne(m) == m.name = "start" \/ ChatRank(m.chat, m.caller) <= Required[m.name] + 1

\* requireRank, which /start does without.
HasRank(m) == m.name = "start" \/ ChatRank(m.chat, m.caller) <= Required[m.name]

\* The errors a handler answers before it has a target.
Refused(m) ==
  \/ ~RankArgumentOK(m)
  \/ ~HasRank(m)
  \/ m.name = "gnotify" /\ m.args = <<>>
  \/ m.name \in TargetCommands /\ ~TargetIs(m, "number") /\ ~NeedsLookup(m)

\* executeGNotify: every known chat, but for the direct messages of banned users.
Recipients(chats) == {c \in chats : ~(c \in Users /\ c \in banned)}

\* getChatRanks: the rows of ranks 1 to 3, developers' rows too.
Ranked(where) == {u \in Users : rank[where][u] \in 1..3}

Answered(c) == [c EXCEPT !.stage = "done", !.replies = @ + 1]

-----------------------------------------------------------------------------
Init ==
  /\ rank \in RankTables
  /\ banned = {}
  /\ mutes = {}
  /\ known = {}
  /\ member = [c \in Chats |-> [u \in Users |-> "member"]]
  /\ lastCommandAt = [u \in Users |-> Never]
  /\ clock \in 0..(TicksPerSecond - 1)
  /\ restarts = 0
  /\ cmds = [k \in Cmds |-> FreeCommand]

(***************************************************************************)
(* The target of c is known to be u: the onResolved callbacks, with        *)
(* applyRankChange up to getChatMember.  Ranks are read again here.        *)
(***************************************************************************)
Resolved(k, c, u) ==
  \/ /\ c.msg.name = "globalban"
     /\ banned' = banned \union {u}
     /\ cmds' = [cmds EXCEPT ![k] = Answered(c)]
     /\ UNCHANGED mutes
  \/ /\ c.msg.name = "globalunban"
     /\ banned' = banned \ {u}
     /\ cmds' = [cmds EXCEPT ![k] = Answered(c)]
     /\ UNCHANGED mutes
  \/ /\ c.msg.name \in StatusCommands \union {"rank"}
     /\ ~CanModerate(c.msg, u)
     /\ cmds' = [cmds EXCEPT ![k] = Answered(c)]
     /\ UNCHANGED <<banned, mutes>>
  \/ /\ c.msg.name = "rank"
     /\ CanModerate(c.msg, u)
     /\ cmds' = [cmds EXCEPT ![k] = [c EXCEPT !.stage = "asking", !.target = u]]
     /\ UNCHANGED <<banned, mutes>>
  \/ /\ c.msg.name \in StatusCommands
     /\ CanModerate(c.msg, u)
     /\ mutes' = IF c.msg.name = "unmute"
                   THEN mutes \ {<<c.msg.chat, u>>} ELSE mutes
     /\ cmds' = [cmds EXCEPT ![k] = [c EXCEPT !.stage = "calling", !.target = u]]
     /\ UNCHANGED banned

\* The handler of the command c: an answer at once, a target known at once, a
\* target to look up, the broadcast of /gnotify or the names that /ranks lists.
Handle(k, c) ==
  \/ /\ Refused(c.msg) \/ c.msg.name \in AnswerCommands
     /\ cmds' = [cmds EXCEPT ![k] = Answered(c)]
     /\ UNCHANGED <<banned, mutes>>
  \/ /\ ~Refused(c.msg)
     /\ c.msg.name \in TargetCommands
     /\ ~NeedsLookup(c.msg)
     /\ Resolved(k, c, TargetUser(c.msg))
  \/ /\ ~Refused(c.msg)
     /\ c.msg.name \in TargetCommands
     /\ NeedsLookup(c.msg)
     /\ cmds' = [cmds EXCEPT ![k] =
                   [c EXCEPT !.stage = "resolving", !.target = TargetUser(c.msg)]]
     /\ UNCHANGED <<banned, mutes>>
  \/ /\ ~Refused(c.msg)
     /\ c.msg.name = "gnotify"
     /\ LET to == Recipients(known \union {c.msg.chat})
        IN  cmds' = [cmds EXCEPT ![k] =
                       IF to = {} THEN Answered(c)
                       ELSE [c EXCEPT !.stage = "notifying", !.pending = to]]
     /\ UNCHANGED <<banned, mutes>>
  \/ /\ ~Refused(c.msg)
     /\ c.msg.name = "ranks"
     /\ LET listed == Ranked(c.msg.chat)
        IN  cmds' = [cmds EXCEPT ![k] =
                       IF listed = {} THEN Answered(c)
                       ELSE [c EXCEPT !.stage = "naming", !.pending = listed]]
     /\ UNCHANGED <<banned, mutes>>

\* Mutant of CooldownOver: a second command passes within the same second.
CooldownZero(u) == lastCommandAt[u] = Never \/ Now - lastCommandAt[u] >= 0

\* allowCommand: the cooldown of one second, counted in whole seconds.
CooldownOver(u) == lastCommandAt[u] = Never \/ Now - lastCommandAt[u] >= 1

\* handleMessage for a command that is accepted.
Receive(k, m) ==
  /\ cmds[k].stage = "free"
  /\ \A j \in Cmds : j < k => cmds[j].stage # "free"
  /\ m.caller \notin banned
  /\ CooldownOver(m.caller)
  /\ known' = known \union {m.chat}
  /\ lastCommandAt' = [lastCommandAt EXCEPT ![m.caller] = Now]
  /\ Handle(k, [FreeCommand EXCEPT !.msg = m, !.born = <<restarts, clock>>])
  /\ UNCHANGED <<rank, member, clock, restarts>>

\* handleMessage for a command that is dropped: the chat is recorded all the same.
Drop(m) ==
  /\ m.caller \in banned \/ ~CooldownOver(m.caller)
  /\ known' = known \union {m.chat}
  /\ UNCHANGED <<rank, banned, mutes, member, lastCommandAt, clock, restarts, cmds>>

-----------------------------------------------------------------------------
(* Callbacks and the Telegram server.                                      *)

\* The callbacks of resolveUsername and getMessage: the user is found ...
TargetFound(k) ==
  /\ cmds[k].stage = "resolving"
  /\ cmds[k].target # NoUser
  /\ Resolved(k, cmds[k], cmds[k].target)
  /\ UNCHANGED <<rank, known, member, lastCommandAt, clock, restarts>>

\* Mutant of TargetNotFound: the missing return lets the handler go on after the error.
TargetNotFoundGoesOn(k) ==
  /\ cmds[k].stage = "resolving"
  /\ cmds[k].replies < 2
  /\ cmds' = [cmds EXCEPT ![k].replies = @ + 1]
  /\ UNCHANGED <<rank, banned, mutes, known, member, lastCommandAt, clock, restarts>>

\* ... or the lookup fails, or finds something that is not a user.
TargetNotFound(k) ==
  /\ cmds[k].stage = "resolving"
  /\ cmds' = [cmds EXCEPT ![k] = Answered(@)]
  /\ UNCHANGED <<rank, banned, mutes, known, member, lastCommandAt, clock, restarts>>

\* Telegram answers getChatMember; the answer waits for the loop to read it.
TelegramTellsStatus(k) ==
  /\ cmds[k].stage = "asking"
  /\ cmds' = [cmds EXCEPT ![k].stage = "told",
                ![k].isAdmin = member[cmds[k].msg.chat][cmds[k].target] = "admin"]
  /\ UNCHANGED <<rank, banned, mutes, known, member, lastCommandAt, clock, restarts>>

\* getChatMember fails and /rank answers the error.
StatusUnknown(k) ==
  /\ cmds[k].stage = "asking"
  /\ cmds' = [cmds EXCEPT ![k] = Answered(@)]
  /\ UNCHANGED <<rank, banned, mutes, known, member, lastCommandAt, clock, restarts>>

\* Ranks 2 and 3 are for Telegram admins, rank 4 for those who are not.
AdminStatusFits(c) == (c.msg.newRank \in {2, 3}) = c.isAdmin

\* The callback of getChatMember in applyRankChange.
ApplyRank(k) ==
  LET c == cmds[k] IN
  /\ c.stage = "told"
  /\ rank' = IF AdminStatusFits(c)
               THEN [rank EXCEPT ![c.msg.chat][c.target] = c.msg.newRank] ELSE rank
  /\ cmds' = [cmds EXCEPT ![k] = Answered(c)]
  /\ UNCHANGED <<banned, mutes, known, member, lastCommandAt, clock, restarts>>

\* Telegram carries out a status change (it has members only in groups) ...
TelegramCarriesOut(k) ==
  LET c == cmds[k] IN
  /\ c.stage = "calling"
  /\ c.msg.chat \in Groups
  /\ member' = [member EXCEPT ![c.msg.chat][c.target] = RequestedStatus(c.msg.name)]
  /\ cmds' = [cmds EXCEPT ![k].stage = "settled"]
  /\ UNCHANGED <<rank, banned, mutes, known, lastCommandAt, clock, restarts>>

\* ... or refuses it.
TelegramRefuses(k) ==
  /\ cmds[k].stage = "calling"
  /\ cmds' = [cmds EXCEPT ![k].stage = "settled"]
  /\ UNCHANGED <<rank, banned, mutes, known, member, lastCommandAt, clock, restarts>>

\* The callbacks of setMemberStatus and banWithReply report success or failure.
ReportOutcome(k) ==
  /\ cmds[k].stage = "settled"
  /\ cmds' = [cmds EXCEPT ![k] = Answered(@)]
  /\ UNCHANGED <<rank, banned, mutes, known, member, lastCommandAt, clock, restarts>>

\* Mutant of CountDown: an answer after the first callback, and again after the last.
CountDownTwice(c, x) ==
  LET rest == c.pending \ {x} IN
  IF rest = {} THEN Answered([c EXCEPT !.pending = rest])
               ELSE [c EXCEPT !.pending = rest, !.replies = 1]

\* Mutant of CountDown: a failed direct message never calls onSent.
CountDownGroupsOnly(c, x) ==
  LET rest == c.pending \ {x} IN
  IF x \in Users THEN c
  ELSE IF rest = {} THEN Answered([c EXCEPT !.pending = rest])
  ELSE [c EXCEPT !.pending = rest]

\* The callback that brings the pending count to zero answers the command.
CountDown(c, x) ==
  LET rest == c.pending \ {x} IN
  IF rest = {} THEN Answered([c EXCEPT !.pending = rest])
               ELSE [c EXCEPT !.pending = rest]

\* onSent of one /gnotify message, delivered or failed.
Notified(k, chat) ==
  /\ cmds[k].stage = "notifying"
  /\ chat \in cmds[k].pending
  /\ cmds' = [cmds EXCEPT ![k] = CountDown(@, chat)]
  /\ UNCHANGED <<rank, banned, mutes, known, member, lastCommandAt, clock, restarts>>

\* getUser of one user of /ranks, with a name or an error.
Named(k, u) ==
  /\ cmds[k].stage = "naming"
  /\ u \in cmds[k].pending
  /\ cmds' = [cmds EXCEPT ![k] = CountDown(@, u)]
  /\ UNCHANGED <<rank, banned, mutes, known, member, lastCommandAt, clock, restarts>>

-----------------------------------------------------------------------------
(* The environment.                                                        *)

\* People make and unmake Telegram admins by hand.
AdminByHand(chat, u) ==
  /\ member[chat][u] # "removed"
  /\ member' = [member EXCEPT ![chat][u] = IF @ = "admin" THEN "member" ELSE "admin"]
  /\ UNCHANGED <<rank, banned, mutes, known, lastCommandAt, clock, restarts, cmds>>

Tick ==
  /\ clock < MaxTicks
  /\ clock' = clock + 1
  /\ UNCHANGED <<rank, banned, mutes, known, member, lastCommandAt, restarts, cmds>>

\* The process is restarted: the tables survive, callbacks and the rate limit
\* do not.  A handler whose database call throws ends the process the same way.
Restart ==
  /\ restarts < MaxRestarts
  /\ restarts' = restarts + 1
  /\ lastCommandAt' = [u \in Users |-> Never]
  /\ cmds' = [k \in Cmds |-> IF cmds[k].stage \in InFlight
                               THEN [cmds[k] EXCEPT !.stage = "lost"] ELSE cmds[k]]
  /\ UNCHANGED <<rank, banned, mutes, known, member, clock>>

\* What continues command k once it is accepted.
Continue(k) ==
  \/ TargetFound(k)
  \/ TargetNotFound(k)
  \/ TelegramTellsStatus(k)
  \/ StatusUnknown(k)
  \/ ApplyRank(k)
  \/ TelegramCarriesOut(k)
  \/ TelegramRefuses(k)
  \/ ReportOutcome(k)
  \/ \E chat \in Chats : Notified(k, chat)
  \/ \E u \in Users : Named(k, u)

Next ==
  \/ \E k \in Cmds, m \in Messages : Receive(k, m)
  \/ \E m \in Messages : Drop(m)
  \/ \E k \in Cmds : Continue(k)
  \/ \E chat \in Groups, u \in AdminCandidates : AdminByHand(chat, u)
  \/ Tick
  \/ Restart

Spec == Init /\ [][Next]_vars

\* The receive loop never stops (TdlibClient::loop) and TDLib answers every
\* request it is given, with a result or an error.
Fairness == \A k \in Cmds : WF_vars(Continue(k))
FairSpec == Spec /\ Fairness
-----------------------------------------------------------------------------
(* Properties.                                                             *)

\* Every variable has its type; in particular a rank row is always one of 1..4,
\* whatever the caller wrote as the argument of /rank (executeRank).
TypeOK ==
  /\ rank \in [Chats -> [Users -> Ranks]]
  /\ banned \subseteq Users
  /\ mutes \subseteq Chats \X Users
  /\ known \subseteq Chats
  /\ member \in [Chats -> [Users -> Statuses]]
  /\ lastCommandAt \in [Users -> Nat \union {Never}]
  /\ clock \in Nat
  /\ restarts \in Nat
  /\ cmds \in [Cmds -> Command]

\* The commands past canModerateTarget whose effect is still to come.
Checked(k) == cmds[k].stage \in {"asking", "told", "calling", "settled"}

\* Across every callback and every rank change in between: nobody moderates
\* himself or a developer, and a user who is owner of the chat by now is being
\* moderated by a developer only (canModerateTarget is not asked again).
RankHierarchy ==
  \A k \in Cmds : Checked(k) =>
    LET c == cmds[k] IN
    /\ c.target # c.msg.caller
    /\ c.target \notin Devs
    /\ rank[c.msg.chat][c.target] = 1 => c.msg.caller \in Devs

\* An owner loses rank 1 only by the /rank of a developer, and no /rank, however
\* late its callback runs, makes anyone an owner.
OwnersFixed ==
  [][\A chat \in Chats, u \in Users :
       (rank[chat][u] = 1) # (rank'[chat][u] = 1) =>
         /\ rank[chat][u] = 1
         /\ \E k \in Cmds : /\ cmds[k].stage = "told" /\ cmds'[k].stage = "done"
                            /\ cmds[k].target = u
                            /\ cmds[k].msg.caller \in Devs]_rank

\* A command is answered when it is done and never before or twice, whichever of
\* the error and success callbacks runs: the counters of /gnotify and /ranks included.
OneReply ==
  \A k \in Cmds :
    /\ cmds[k].replies = IF cmds[k].stage = "done" THEN 1 ELSE 0
    /\ cmds[k].stage \in {"notifying", "naming"} => cmds[k].pending # {}
    /\ cmds[k].stage = "done" => cmds[k].pending = {}

\* Two commands of one user are never accepted by one process within the same
\* second of its clock (allowCommand).
CommandCooldown ==
  \A j, k \in Cmds :
    /\ j # k
    /\ cmds[j].stage # "free" /\ cmds[k].stage # "free"
    /\ cmds[j].msg.caller = cmds[k].msg.caller
    /\ cmds[j].born[1] = cmds[k].born[1]
    => cmds[j].born[2] \div TicksPerSecond # cmds[k].born[2] \div TicksPerSecond

\* A developer's command on the global ban list is answered.
ByDev ==
  \E k \in Cmds : /\ cmds[k].stage # "done" /\ cmds'[k].stage = "done"
                 /\ cmds'[k].msg.name \in {"globalban", "globalunban"}
                 /\ cmds'[k].msg.caller \in Devs

\* The global ban list changes only by a command of a developer, though the rank
\* is checked before the target is looked up and not again.
BansByDevs == [][ByDev]_banned

\* Every accepted command is answered in the end, unless the process restarts.
EveryCommandAnswered ==
  \A k \in Cmds : cmds[k].stage # "free" ~> cmds[k].stage \in {"done", "lost"}
=============================================================================

---------------------------- MODULE MCModeration ----------------------------
(***************************************************************************)
(* Instances of Moderation for TLC: a developer, two chat owners, an admin *)
(* and an ordinary member in one group.                                    *)
(***************************************************************************)
EXTENDS Moderation, TLC

CONSTANTS dev, ann, oleg, bob, nobody, chat

MCRequired == [n \in Names |->
  CASE n \in {"mute", "unmute"} -> 3
    [] n = "kick" -> 2
    [] n \in {"ban", "unban", "rank"} -> 1
    [] n \in {"rplist", "rpadd", "rpremove", "rpedit"} -> 1
    [] n = "ranks" -> 4
    [] OTHER -> 0]

RankTable(f) == [c \in Chats |-> [u \in Users |-> IF c \in Groups THEN f[u] ELSE 4]]

Name(u) == [kind |-> "username", user |-> u]
Number(u) == [kind |-> "number", user |-> u]
Duration == [kind |-> "duration", user |-> nobody]

Message(name, caller, where, newRank, args, reply) ==
  [name |-> name, caller |-> caller, chat |-> where, newRank |-> newRank,
   args |-> args, reply |-> reply]
Ask(name, caller, args, reply) == Message(name, caller, chat, 0, args, reply)
SetRank(caller, r, args, reply) == Message("rank", caller, chat, r, args, reply)

\* The commands on members: two owners, or an owner and an admin, with /rank
\* commands that race the status commands and each other.
MCUsers == {dev, ann, oleg, bob}
MemberTables ==
  {RankTable((dev :> 4) @@ (ann :> 1) @@ (oleg :> r) @@ (bob :> 4)) : r \in {1, 2}}
StatusTables == {RankTable((dev :> 4) @@ (ann :> 1) @@ (oleg :> 2) @@ (bob :> 4))}
MemberMessages ==
  {SetRank(ann, 2, <<Name(bob)>>, nobody), SetRank(ann, 4, <<Number(oleg)>>, nobody),
   SetRank(ann, 3, <<Number(ann)>>, nobody), SetRank(oleg, 2, <<>>, bob),
   SetRank(dev, 4, <<Name(ann)>>, nobody), SetRank(dev, 1, <<Number(bob)>>, nobody),
   SetRank(dev, 0, <<>>, bob), SetRank(dev, 2, <<Number(oleg)>>, nobody),
   Ask("mute", oleg, <<Name(bob)>>, nobody), Ask("mute", oleg, <<Number(ann)>>, bob),
   Ask("mute", oleg, <<Duration>>, nobody), Ask("mute", ann, <<Duration, Name(oleg)>>, nobody),
   Ask("unmute", oleg, <<>>, bob), Ask("unmute", ann, <<Name(nobody)>>, nobody),
   Ask("kick", oleg, <<Number(bob)>>, nobody), Ask("kick", bob, <<Name(oleg)>>, nobody),
   Ask("ban", ann, <<Name(oleg)>>, nobody), Ask("ban", oleg, <<>>, dev),
   Ask("unban", ann, <<Number(oleg)>>, nobody),
   Message("unban", ann, ann, 0, <<Number(bob)>>, nobody)}

\* The global commands: bans, /gnotify and messages that only record a chat.
GlobalTables == {RankTable((dev :> 4) @@ (ann :> 1) @@ (oleg :> 4) @@ (bob :> 4))}
GlobalMessages ==
  {Ask("globalban", dev, <<Name(bob)>>, nobody), Ask("globalban", dev, <<>>, ann),
   Ask("globalunban", dev, <<Number(bob)>>, nobody), Ask("globalban", ann, <<Name(bob)>>, nobody),
   Message("gnotify", dev, dev, 0, <<Duration>>, nobody), Ask("gnotify", dev, <<>>, nobody),
   Message("kick", bob, bob, 0, <<Number(ann)>>, nobody)}

\* The commands that report, while ranks change.
ReportMessages ==
  {Ask("ranks", bob, <<>>, nobody), Message("ranks", dev, dev, 0, <<>>, nobody),
   SetRank(ann, 4, <<Number(oleg)>>, nobody), SetRank(dev, 4, <<Name(ann)>>, nobody),
   Ask("rplist", ann, <<>>, nobody), Ask("rpadd", bob, <<>>, nobody),
   Ask("rpremove", oleg, <<>>, nobody), Ask("start", bob, <<>>, nobody)}

(***************************************************************************)
(* One of three instances: the commands on members, in one second of the   *)
(* clock and the next; three commands about the global lists, with a       *)
(* restart; or two commands that report.                                   *)
(***************************************************************************)
VARIABLE instance

MCMessages == MemberMessages \union GlobalMessages \union ReportMessages
MCTables == MemberTables \union GlobalTables
MCInit ==
  /\ Init
  /\ \/ instance = "members" /\ rank \in MemberTables /\ clock = 1
     \/ instance = "global" /\ rank \in GlobalTables /\ clock = 0
     \/ instance = "reports" /\ rank \in StatusTables /\ clock = 1

Of == CASE instance = "members" -> MemberMessages
        [] instance = "global" -> GlobalMessages
        [] OTHER -> ReportMessages

MCNext ==
  /\ \/ \E k \in Cmds, m \in Of : Receive(k, m)
     \/ \E m \in Of : Drop(m)
     \/ \E k \in Cmds : Continue(k)
     \/ instance = "members" /\ \E u \in AdminCandidates : AdminByHand(chat, u)
     \/ Tick
     \/ instance # "members" /\ Restart
  /\ instance # "global" => cmds'[3].stage = "free"
  /\ UNCHANGED instance

MCSpec == MCInit /\ [][MCNext]_<<vars, instance>> /\ Fairness
=============================================================================

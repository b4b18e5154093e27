-------------------------- MODULE ModerationProofs --------------------------
(***************************************************************************)
(* Proofs about Moderation, for every set of users, chats and messages and *)
(* every bound: types, the rank hierarchy across callbacks and the single  *)
(* reply of a command.                                                     *)
(***************************************************************************)
EXTENDS Moderation, TLAPS

CheckedStages == {"asking", "told", "calling", "settled"}
Counting == {"notifying", "naming"}

\* What holds of one command slot c when chat_ranks is table; the conjunction
\* over all slots is what makes the three invariants inductive.
Sound(c, table) ==
  /\ c.stage # "free" => c.msg \in Messages
  /\ c.stage \in {"resolving", "asking", "told"} => RankArgumentOK(c.msg)
  /\ c.stage \in {"asking", "told"} => c.msg.name = "rank"
  /\ c.stage \in CheckedStages =>
       /\ c.target \in Users
       /\ c.target # c.msg.caller
       /\ c.target \notin Devs
       /\ table[c.msg.chat][c.target] = 1 => c.msg.caller \in Devs
  /\ c.replies = IF c.stage = "done" THEN 1 ELSE 0
  /\ c.stage \in Counting => c.pending # {}
  /\ c.stage \notin Counting \union {"lost"} => c.pending = {}

IInv == TypeOK /\ \A k \in Cmds : Sound(cmds[k], rank)

\* A command whose handler runs: accepted, unanswered, with nothing to notify.
Open(c) ==
  /\ c \in Command
  /\ c.msg \in Messages
  /\ c.replies = 0
  /\ c.pending = {}
  /\ RankArgumentOK(c.msg)

-----------------------------------------------------------------------------
LEMMA MessageTypes ==
  ASSUME NEW m \in Messages
  PROVE  /\ m.name \in Names /\ m.caller \in Users /\ m.chat \in Chats
         /\ m.newRank \in Nat /\ m.args \in Seq(Words)
         /\ m.reply \in Users \union {NoUser}
BY ModerationAssumption DEF MessageType

LEMMA DivisionNat ==
  ASSUME NEW a \in Nat, NEW b \in Nat \ {0}
  PROVE  a \div b \in Nat
OBVIOUS

LEMMA NowNat ==
  ASSUME clock \in Nat
  PROVE  Now \in Nat
BY DivisionNat, ModerationAssumption DEF Now

\* The target of a message that needs no lookup and is not refused is a user;
\* that of a lookup is a user or nobody.
LEMMA TargetTypes ==
  ASSUME NEW m \in Messages
  PROVE  /\ NeedsLookup(m) => TargetUser(m) \in Users \union {NoUser}
         /\ TargetIs(m, "number") => TargetUser(m) \in Users
<1>1. TargetWords(m) \in Seq(Words)
  BY MessageTypes DEF TargetWords
<1>2. TargetWords(m) # <<>> => TargetWords(m)[1] \in Words
  BY <1>1
<1>3. \A w \in Words : /\ w.user \in Users \union {NoUser}
                       /\ w.kind = "number" => w.user \in Users
  BY DEF Words
<1> QED
  BY <1>2, <1>3, MessageTypes DEF NeedsLookup, TargetIs, TargetUser

\* A permitted target is not the caller, not a developer, and an owner only
\* when the caller is a developer (canModerateTarget).
LEMMA PermittedTarget ==
  ASSUME TypeOK, NEW m \in Messages, NEW u \in Users, CanModerate(m, u)
  PROVE  /\ u # m.caller
         /\ u \notin Devs
         /\ rank[m.chat][u] = 1 => m.caller \in Devs
<1>1. \A c \in Chats, v \in Users : rank[c][v] \in 1..4
  BY DEF TypeOK, Ranks
<1> QED
  BY <1>1, MessageTypes DEF CanModerate, ChatRank

LEMMA AnsweredSound ==
  ASSUME NEW c \in Command, NEW table, c.msg \in Messages, c.replies = 0, c.pending = {}
  PROVE  /\ Answered(c) \in Command
         /\ Sound(Answered(c), table)
<1>1. Answered(c) \in Command
  <2>1. "done" \in Stages /\ c.replies + 1 \in Nat
    BY DEF Stages
  <2> QED
    BY <2>1 DEF Command, Answered
<1>2. /\ Answered(c).stage = "done" /\ Answered(c).msg = c.msg
      /\ Answered(c).replies = 1 /\ Answered(c).pending = {}
  BY DEF Command, Answered
<1> QED
  BY <1>1, <1>2 DEF Sound, CheckedStages, Counting

\* Replacing one slot by a sound command keeps every slot sound, as long as
\* nobody becomes an owner.
LEMMA SlotUpdate ==
  ASSUME IInv, NEW k \in Cmds, NEW d \in Command, NEW table, Sound(d, table),
         table \in [Chats -> [Users -> Ranks]],
         \A c \in Chats, u \in Users : table[c][u] = 1 => rank[c][u] = 1
  PROVE  LET new == [cmds EXCEPT ![k] = d] IN
         new \in [Cmds -> Command] /\ \A j \in Cmds : Sound(new[j], table)
<1> DEFINE new == [cmds EXCEPT ![k] = d]
<1>1. new \in [Cmds -> Command]
  BY DEF IInv, TypeOK
<1>2. ASSUME NEW j \in Cmds PROVE Sound(new[j], table)
  <2>1. CASE j = k
    BY <2>1 DEF IInv, TypeOK
  <2>2. CASE j # k
    <3>1. new[j] = cmds[j] /\ cmds[j] \in Command /\ Sound(cmds[j], rank)
      BY <2>2 DEF IInv, TypeOK
    <3>2. cmds[j].stage \in CheckedStages => cmds[j].msg \in Messages
      BY <3>1 DEF Sound, CheckedStages, Counting
    <3>3. cmds[j].stage \in CheckedStages => cmds[j].msg.chat \in Chats
      BY <3>2, MessageTypes
    <3> QED
      BY <3>1, <3>3 DEF Sound
  <2> QED
    BY <2>1, <2>2
<1> QED
  BY <1>1, <1>2

\* The onResolved callbacks.
LEMMA ResolvedSound ==
  ASSUME IInv, NEW k \in Cmds, NEW c, Open(c), NEW u \in Users, Resolved(k, c, u)
  PROVE  /\ banned' \subseteq Users
         /\ mutes' \subseteq Chats \X Users
         /\ \E d \in Command : Sound(d, rank) /\ cmds' = [cmds EXCEPT ![k] = d]
<1>1. c.msg \in Messages /\ c \in Command /\ TypeOK
  BY DEF Open, IInv
<1>2. Answered(c) \in Command /\ Sound(Answered(c), rank)
  BY AnsweredSound DEF Open
<1>3. CASE cmds' = [cmds EXCEPT ![k] = Answered(c)]
  BY <1>1, <1>2, <1>3 DEF Resolved, TypeOK
<1>4. ASSUME CanModerate(c.msg, u), NEW s \in CheckedStages,
             s \in {"asking", "told"} => c.msg.name = "rank"
      PROVE  LET d == [c EXCEPT !.stage = s, !.target = u]
             IN  d \in Command /\ Sound(d, rank)
  <2> DEFINE d == [c EXCEPT !.stage = s, !.target = u]
  <2>1. d \in Command
    BY <1>1 DEF Command, Stages, CheckedStages
  <2>2. /\ d.stage = s /\ d.target = u /\ d.msg = c.msg /\ d.replies = 0
        /\ d.pending = {} /\ RankArgumentOK(d.msg)
    BY <1>1 DEF Command, Open
  <2>3. /\ u # c.msg.caller /\ u \notin Devs
        /\ rank[c.msg.chat][u] = 1 => c.msg.caller \in Devs
    BY <1>1, <1>4, PermittedTarget
  <2> QED
    BY <1>1, <1>4, <2>1, <2>2, <2>3 DEF Sound, CheckedStages, Counting
<1>5. CASE /\ c.msg.name = "rank" /\ CanModerate(c.msg, u)
           /\ cmds' = [cmds EXCEPT ![k] = [c EXCEPT !.stage = "asking", !.target = u]]
           /\ UNCHANGED <<banned, mutes>>
  BY <1>1, <1>4, <1>5 DEF TypeOK, CheckedStages
<1>6. CASE /\ c.msg.name \in StatusCommands /\ CanModerate(c.msg, u)
           /\ mutes' = IF c.msg.name = "unmute"
                         THEN mutes \ {<<c.msg.chat, u>>} ELSE mutes
           /\ cmds' = [cmds EXCEPT ![k] = [c EXCEPT !.stage = "calling", !.target = u]]
           /\ UNCHANGED banned
  BY <1>1, <1>4, <1>6 DEF TypeOK, CheckedStages
<1> QED
  BY <1>3, <1>5, <1>6 DEF Resolved

-----------------------------------------------------------------------------
LEMMA InitInv == Init => IInv
<1> SUFFICES ASSUME Init PROVE IInv
  OBVIOUS
<1>1. FreeCommand \in Command
  BY DEF FreeCommand, Command, Stages
<1>2. cmds \in [Cmds -> Command]
  BY <1>1 DEF Init
<1>3. rank \in [Chats -> [Users -> Ranks]]
  BY ModerationAssumption DEF Init
<1>4. member \in [Chats -> [Users -> Statuses]]
  BY DEF Init, Statuses
<1>5. TypeOK
  BY <1>2, <1>3, <1>4 DEF Init, TypeOK, Never
<1>6. \A k \in Cmds : Sound(cmds[k], rank)
  BY DEF Init, Sound, FreeCommand, CheckedStages, Counting
<1> QED
  BY <1>5, <1>6 DEF IInv

\* The handler of an accepted command.
LEMMA HandleSound ==
  ASSUME IInv, NEW k \in Cmds, NEW c \in Command, c.stage = "free",
         c.msg \in Messages, c.replies = 0, c.pending = {}, Handle(k, c)
  PROVE  /\ banned' \subseteq Users
         /\ mutes' \subseteq Chats \X Users
         /\ \E d \in Command : Sound(d, rank) /\ cmds' = [cmds EXCEPT ![k] = d]
<1>1. TypeOK /\ known \subseteq Chats
  BY DEF IInv, TypeOK
<1>2. Answered(c) \in Command /\ Sound(Answered(c), rank)
  BY AnsweredSound
<1>3. CASE /\ cmds' = [cmds EXCEPT ![k] = Answered(c)]
           /\ UNCHANGED <<banned, mutes>>
  BY <1>1, <1>2, <1>3 DEF TypeOK
<1>4. ~Refused(c.msg) => RankArgumentOK(c.msg)
  BY DEF Refused
<1>5. CASE /\ ~Refused(c.msg) /\ c.msg.name \in TargetCommands /\ ~NeedsLookup(c.msg)
           /\ Resolved(k, c, TargetUser(c.msg))
  <2>1. TargetIs(c.msg, "number")
    BY <1>5 DEF Refused
  <2>2. TargetUser(c.msg) \in Users
    BY <2>1, TargetTypes
  <2> QED
    BY <1>4, <1>5, <2>2, ResolvedSound DEF Open
<1>6. CASE /\ ~Refused(c.msg) /\ NeedsLookup(c.msg)
           /\ cmds' = [cmds EXCEPT ![k] =
                         [c EXCEPT !.stage = "resolving", !.target = TargetUser(c.msg)]]
           /\ UNCHANGED <<banned, mutes>>
  <2> DEFINE d == [c EXCEPT !.stage = "resolving", !.target = TargetUser(c.msg)]
  <2>1. TargetUser(c.msg) \in Users \union {NoUser}
    BY <1>6, TargetTypes
  <2>2. d \in Command
    BY <2>1 DEF Command, Stages
  <2>3. d.stage = "resolving" /\ d.msg = c.msg /\ d.replies = 0 /\ d.pending = {}
    BY DEF Command
  <2>4. Sound(d, rank)
    BY <1>4, <1>6, <2>3 DEF Sound, CheckedStages, Counting
  <2> QED
    BY <1>1, <1>6, <2>2, <2>4 DEF TypeOK
<1>7. CASE /\ ~Refused(c.msg) /\ c.msg.name = "gnotify"
           /\ LET to == Recipients(known \union {c.msg.chat})
              IN  cmds' = [cmds EXCEPT ![k] =
                             IF to = {} THEN Answered(c)
                             ELSE [c EXCEPT !.stage = "notifying", !.pending = to]]
           /\ UNCHANGED <<banned, mutes>>
  <2> DEFINE to == Recipients(known \union {c.msg.chat})
             d == [c EXCEPT !.stage = "notifying", !.pending = to]
  <2>1. to \subseteq Chats
    BY <1>1, MessageTypes DEF Recipients
  <2>2. d \in Command
    BY <2>1 DEF Command, Stages
  <2>3. d.stage = "notifying" /\ d.msg = c.msg /\ d.replies = 0 /\ d.pending = to
    BY DEF Command
  <2>4. to # {} => Sound(d, rank)
    BY <2>3 DEF Sound, CheckedStages, Counting
  <2> HIDE DEF to, d
  <2>5. CASE to = {}
    BY <1>1, <1>2, <1>7, <2>5 DEF TypeOK, to
  <2>6. CASE to # {}
    BY <1>1, <1>7, <2>2, <2>4, <2>6 DEF TypeOK, to, d
  <2> QED
    BY <2>5, <2>6
<1>8. CASE /\ c.msg.name = "ranks"
           /\ LET listed == Ranked(c.msg.chat)
              IN  cmds' = [cmds EXCEPT ![k] =
                             IF listed = {} THEN Answered(c)
                             ELSE [c EXCEPT !.stage = "naming", !.pending = listed]]
           /\ UNCHANGED <<banned, mutes>>
  <2> DEFINE listed == Ranked(c.msg.chat)
             d == [c EXCEPT !.stage = "naming", !.pending = listed]
  <2>1. listed \subseteq Chats
    BY DEF Ranked, Chats
  <2>2. d \in Command
    BY <2>1 DEF Command, Stages
  <2>3. d.stage = "naming" /\ d.msg = c.msg /\ d.replies = 0 /\ d.pending = listed
    BY DEF Command
  <2>4. listed # {} => Sound(d, rank)
    BY <2>3 DEF Sound, CheckedStages, Counting
  <2> HIDE DEF listed, d
  <2>5. CASE listed = {}
    BY <1>1, <1>2, <1>8, <2>5 DEF TypeOK, listed
  <2>6. CASE listed # {}
    BY <1>1, <1>8, <2>2, <2>4, <2>6 DEF TypeOK, listed, d
  <2> QED
    BY <2>5, <2>6
<1> QED
  BY <1>3, <1>5, <1>6, <1>7, <1>8 DEF Handle

\* The slot that a callback continues.
LEMMA OpenSlot ==
  ASSUME IInv, NEW k \in Cmds, cmds[k].stage \in InFlight \ Counting
  PROVE  /\ cmds[k] \in Command /\ cmds[k].msg \in Messages
         /\ cmds[k].replies = 0 /\ cmds[k].pending = {}
<1>1. cmds[k] \in Command /\ Sound(cmds[k], rank)
  BY DEF IInv, TypeOK
<1> QED
  BY <1>1 DEF Sound, InFlight, Stages, Counting

\* A step that only writes slot k, with a sound command.
LEMMA SlotStep ==
  ASSUME IInv, NEW k \in Cmds, NEW d \in Command, Sound(d, rank),
         cmds' = [cmds EXCEPT ![k] = d], rank' = rank,
         banned' \subseteq Users, mutes' \subseteq Chats \X Users,
         known' \subseteq Chats, member' \in [Chats -> [Users -> Statuses]],
         lastCommandAt' \in [Users -> Nat \union {Never}],
         clock' \in Nat, restarts' \in Nat
  PROVE  IInv'
<1>1. rank \in [Chats -> [Users -> Ranks]]
  BY DEF IInv, TypeOK
<1>2. cmds' \in [Cmds -> Command] /\ \A j \in Cmds : Sound(cmds'[j], rank)
  BY <1>1, SlotUpdate
<1>3. TypeOK'
  BY <1>1, <1>2 DEF TypeOK
<1>4. (\A j \in Cmds : Sound(cmds[j], rank))'
  BY <1>2
<1> QED
  BY <1>3, <1>4 DEF IInv

\* One step of the program or of its environment keeps the invariant.
LEMMA NextInv == IInv /\ [Next]_vars => IInv'
<1> SUFFICES ASSUME IInv, [Next]_vars PROVE IInv'
  OBVIOUS
<1> USE DEF InFlight, Stages, Counting
<1>0. TypeOK /\ \A k \in Cmds : cmds[k] \in Command /\ Sound(cmds[k], rank)
  BY DEF IInv, TypeOK
<1>1. ASSUME NEW k \in Cmds, NEW m \in Messages, Receive(k, m) PROVE IInv'
  <2> DEFINE c == [FreeCommand EXCEPT !.msg = m, !.born = <<restarts, clock>>]
  <2>1. c \in Command
    BY <1>0 DEF TypeOK, FreeCommand, Command
  <2>2. c.stage = "free" /\ c.msg = m /\ c.replies = 0 /\ c.pending = {}
    BY DEF FreeCommand
  <2>3. Handle(k, c)
    BY <1>1 DEF Receive
  <2> HIDE DEF c
  <2>4. /\ banned' \subseteq Users
        /\ mutes' \subseteq Chats \X Users
        /\ \E d \in Command : Sound(d, rank) /\ cmds' = [cmds EXCEPT ![k] = d]
    BY <2>1, <2>2, <2>3, HandleSound
  <2>5. Now \in Nat
    BY <1>0, NowNat DEF TypeOK
  <2>6. /\ known' \subseteq Chats
        /\ lastCommandAt' \in [Users -> Nat \union {Never}]
        /\ rank' = rank /\ member' \in [Chats -> [Users -> Statuses]]
        /\ clock' \in Nat /\ restarts' \in Nat
    BY <1>0, <1>1, <2>5, MessageTypes DEF Receive, TypeOK
  <2> QED
    BY <2>4, <2>6, SlotStep
<1>2. ASSUME NEW m \in Messages, Drop(m) PROVE IInv'
  BY <1>0, <1>2, MessageTypes DEF Drop, TypeOK, IInv
<1>3. ASSUME NEW k \in Cmds, TargetFound(k) PROVE IInv'
  <2>1. Open(cmds[k])
    BY <1>0, <1>3, OpenSlot DEF TargetFound, Open, Sound
  <2>2. cmds[k].target \in Users
    BY <1>0, <1>3 DEF TargetFound, Command
  <2>3. /\ banned' \subseteq Users
        /\ mutes' \subseteq Chats \X Users
        /\ \E d \in Command : Sound(d, rank) /\ cmds' = [cmds EXCEPT ![k] = d]
    BY <1>3, <2>1, <2>2, ResolvedSound DEF TargetFound
  <2> QED
    BY <1>0, <1>3, <2>3, SlotStep DEF TargetFound, TypeOK
<1>4. ASSUME NEW k \in Cmds, cmds[k].stage \in InFlight \ Counting,
             cmds' = [cmds EXCEPT ![k] = Answered(@)],
             UNCHANGED <<rank, banned, mutes, known, member, lastCommandAt, clock, restarts>>
      PROVE  IInv'
  <2>1. Answered(cmds[k]) \in Command /\ Sound(Answered(cmds[k]), rank)
    BY <1>4, OpenSlot, AnsweredSound
  <2> QED
    BY <1>0, <1>4, <2>1, SlotStep DEF TypeOK
<1>5. ASSUME NEW k \in Cmds, TargetNotFound(k) PROVE IInv'
  BY <1>4, <1>5 DEF TargetNotFound
<1>6. ASSUME NEW k \in Cmds, TelegramTellsStatus(k) PROVE IInv'
  <2> DEFINE c == cmds[k]
             b == member[c.msg.chat][c.target] = "admin"
             d == [c EXCEPT !.stage = "told", !.isAdmin = b]
  <2>1. c \in Command /\ Sound(c, rank) /\ c.stage = "asking"
    BY <1>0, <1>6 DEF TelegramTellsStatus
  <2>2. d \in Command
    BY <2>1 DEF Command
  <2>3. /\ d.stage = "told" /\ d.msg = c.msg /\ d.target = c.target
        /\ d.replies = c.replies /\ d.pending = c.pending
    BY <2>1 DEF Command
  <2>4. Sound(d, rank)
    BY <2>1, <2>3 DEF Sound, CheckedStages, Counting
  <2>5. cmds' = [cmds EXCEPT ![k] = d]
    BY <1>0, <1>6 DEF TelegramTellsStatus, TypeOK
  <2> QED
    BY <1>0, <1>6, <2>2, <2>4, <2>5, SlotStep DEF TelegramTellsStatus, TypeOK
<1>7. ASSUME NEW k \in Cmds, StatusUnknown(k) PROVE IInv'
  BY <1>4, <1>7 DEF StatusUnknown
<1>8. ASSUME NEW k \in Cmds, ApplyRank(k) PROVE IInv'
  <2> DEFINE c == cmds[k]
  <2>1. c \in Command /\ c.stage = "told" /\ Sound(c, rank)
    BY <1>0, <1>8 DEF ApplyRank
  <2>2. /\ c.msg \in Messages /\ c.target \in Users /\ c.msg.newRank \in 2..4
        /\ c.msg.chat \in Chats
    BY <2>1, MessageTypes DEF Sound, CheckedStages, Counting, RankArgumentOK
  <2>3. /\ rank' \in [Chats -> [Users -> Ranks]]
        /\ \A x \in Chats, u \in Users : rank'[x][u] = 1 => rank[x][u] = 1
    BY <1>0, <1>8, <2>2 DEF ApplyRank, TypeOK, Ranks
  <2>4. Answered(c) \in Command /\ Sound(Answered(c), rank')
    BY <1>0, <2>1, OpenSlot, AnsweredSound
  <2>5. cmds' = [cmds EXCEPT ![k] = Answered(c)]
    BY <1>8 DEF ApplyRank
  <2> HIDE DEF c
  <2>6. cmds' \in [Cmds -> Command] /\ \A j \in Cmds : Sound(cmds'[j], rank')
    BY <2>3, <2>4, <2>5, SlotUpdate
  <2> QED
    BY <1>0, <1>8, <2>3, <2>6 DEF ApplyRank, TypeOK, IInv
<1>9. ASSUME NEW k \in Cmds, cmds[k].stage = "calling",
             cmds' = [cmds EXCEPT ![k].stage = "settled"],
             member' \in [Chats -> [Users -> Statuses]],
             UNCHANGED <<rank, banned, mutes, known, lastCommandAt, clock, restarts>>
      PROVE  IInv'
  <2> DEFINE c == cmds[k]
             d == [c EXCEPT !.stage = "settled"]
  <2>1. c \in Command /\ Sound(c, rank)
    BY <1>0
  <2>2. d \in Command
    BY <2>1 DEF Command
  <2>3. /\ d.stage = "settled" /\ d.msg = c.msg /\ d.target = c.target
        /\ d.replies = c.replies /\ d.pending = c.pending
    BY <2>1 DEF Command
  <2>4. Sound(d, rank)
    BY <1>9, <2>1, <2>3 DEF Sound, CheckedStages, Counting
  <2>5. cmds' = [cmds EXCEPT ![k] = d]
    BY <1>0, <1>9 DEF TypeOK
  <2> QED
    BY <1>0, <1>9, <2>2, <2>4, <2>5, SlotStep DEF TypeOK
<1>10. ASSUME NEW k \in Cmds, TelegramCarriesOut(k) PROVE IInv'
  <2>1. member' \in [Chats -> [Users -> Statuses]]
    BY <1>0, <1>10 DEF TelegramCarriesOut, TypeOK, RequestedStatus, Statuses
  <2> QED
    BY <1>9, <1>10, <2>1 DEF TelegramCarriesOut
<1>11. ASSUME NEW k \in Cmds, TelegramRefuses(k) PROVE IInv'
  BY <1>0, <1>9, <1>11 DEF TelegramRefuses, TypeOK
<1>12. ASSUME NEW k \in Cmds, ReportOutcome(k) PROVE IInv'
  BY <1>4, <1>12 DEF ReportOutcome
<1>13. ASSUME NEW k \in Cmds, NEW x \in Chats, cmds[k].stage \in Counting,
              cmds' = [cmds EXCEPT ![k] = CountDown(@, x)],
              UNCHANGED <<rank, banned, mutes, known, member, lastCommandAt, clock, restarts>>
       PROVE  IInv'
  <2> DEFINE c == cmds[k]
             rest == c.pending \ {x}
             e == [c EXCEPT !.pending = rest]
  <2>1. c \in Command /\ Sound(c, rank) /\ c.stage \in Counting
    BY <1>0, <1>13
  <2>2. e \in Command
    BY <2>1 DEF Command
  <2>3. /\ e.stage = c.stage /\ e.msg = c.msg /\ e.msg \in Messages
        /\ e.replies = 0 /\ e.pending = rest
    BY <2>1 DEF Command, Sound, Counting
  <2>4. cmds' = [cmds EXCEPT ![k] = IF rest = {} THEN Answered(e) ELSE e]
    BY <1>13 DEF CountDown
  <2> HIDE DEF e, rest
  <2>5. rest = {} => Answered(e) \in Command /\ Sound(Answered(e), rank)
    BY <2>2, <2>3, AnsweredSound
  <2>6. rest # {} => Sound(e, rank)
    BY <2>1, <2>3 DEF Sound, CheckedStages, Counting
  <2> QED
    BY <1>0, <1>13, <2>2, <2>4, <2>5, <2>6, SlotStep DEF TypeOK
<1>14. ASSUME NEW k \in Cmds, NEW x \in Chats, Notified(k, x) PROVE IInv'
  <2>1. /\ cmds[k].stage \in Counting
        /\ cmds' = [cmds EXCEPT ![k] = CountDown(@, x)]
        /\ UNCHANGED <<rank, banned, mutes, known, member, lastCommandAt, clock, restarts>>
    BY <1>14 DEF Notified
  <2> QED
    BY <1>13, <2>1
<1>15. ASSUME NEW k \in Cmds, NEW u \in Users, Named(k, u) PROVE IInv'
  <2>1. /\ cmds[k].stage \in Counting
        /\ cmds' = [cmds EXCEPT ![k] = CountDown(@, u)]
        /\ UNCHANGED <<rank, banned, mutes, known, member, lastCommandAt, clock, restarts>>
    BY <1>15 DEF Named
  <2>2. u \in Chats
    BY DEF Chats
  <2> QED
    BY <1>13, <2>1, <2>2
<1>16. ASSUME NEW x \in Groups, NEW u \in AdminCandidates, AdminByHand(x, u) PROVE IInv'
  <2>1. member' \in [Chats -> [Users -> Statuses]]
    BY <1>0, <1>16, ModerationAssumption DEF AdminByHand, TypeOK, Statuses, Chats
  <2> QED
    BY <1>0, <1>16, <2>1 DEF AdminByHand, TypeOK, IInv
<1>17. CASE Tick
  BY <1>0, <1>17 DEF Tick, TypeOK, IInv
<1>18. CASE Restart
  <2>1. ASSUME NEW k \in Cmds
        PROVE  cmds'[k] \in Command /\ Sound(cmds'[k], rank)
    <3>1. CASE cmds[k].stage \in InFlight
      <4> DEFINE d == [cmds[k] EXCEPT !.stage = "lost"]
      <4>1. cmds'[k] = d
        BY <1>18, <3>1 DEF Restart
      <4>2. d \in Command /\ d.stage = "lost" /\ d.msg = cmds[k].msg
            /\ d.replies = cmds[k].replies
        BY <1>0 DEF Command
      <4>3. cmds[k].msg \in Messages /\ cmds[k].replies = 0
        BY <1>0, <3>1 DEF Sound
      <4> QED
        BY <4>1, <4>2, <4>3 DEF Sound, CheckedStages, Counting
    <3>2. CASE cmds[k].stage \notin InFlight
      BY <1>0, <1>18, <3>2 DEF Restart
    <3> QED
      BY <3>1, <3>2
  <2>2. cmds' \in [Cmds -> Command]
    BY <1>18, <2>1 DEF Restart
  <2>3. TypeOK'
    BY <1>0, <1>18, <2>2 DEF Restart, TypeOK
  <2> QED
    BY <1>18, <2>1, <2>3 DEF Restart, IInv
<1>19. CASE UNCHANGED vars
  BY <1>0, <1>19 DEF vars, TypeOK, IInv
<1> QED
  BY <1>1, <1>2, <1>3, <1>5, <1>6, <1>7, <1>8, <1>10, <1>11, <1>12, <1>14,
     <1>16, <1>17, <1>18, <1>19, <1>15 DEF Next, Continue

THEOREM Invariant == Spec => []IInv
BY InitInv, NextInv, PTL DEF Spec

-----------------------------------------------------------------------------
\* Every variable keeps its type, the rank table included: whatever users write
\* as the argument of /rank, a row is one of 1..4.
THEOREM TypeCorrect == Spec => []TypeOK
<1>1. IInv => TypeOK
  BY DEF IInv
<1> QED
  BY <1>1, Invariant, PTL

\* Nobody moderates himself or a developer, and an owner only a developer,
\* whatever ranks change between the check and the effect.
THEOREM RankHierarchyHolds == Spec => []RankHierarchy
<1>1. IInv => RankHierarchy
  BY DEF IInv, Sound, RankHierarchy, Checked, CheckedStages
<1> QED
  BY <1>1, Invariant, PTL

\* A command is answered when it is done, never before and never twice.
THEOREM OneReplyHolds == Spec => []OneReply
<1>1. IInv => OneReply
  BY DEF IInv, Sound, OneReply, Counting
<1> QED
  BY <1>1, Invariant, PTL

\* Only a developer's /rank takes rank 1 from anybody, and none gives it.
THEOREM OwnersFixedHolds == Spec => OwnersFixed
<1> DEFINE Fixed ==
      \A chat \in Chats, u \in Users :
        (rank[chat][u] = 1) # (rank'[chat][u] = 1) =>
          /\ rank[chat][u] = 1
          /\ \E k \in Cmds : /\ cmds[k].stage = "told" /\ cmds'[k].stage = "done"
                             /\ cmds[k].target = u
                             /\ cmds[k].msg.caller \in Devs
<1>1. ASSUME IInv, [Next]_vars PROVE Fixed \/ UNCHANGED rank
  <2>1. ASSUME NEW k \in Cmds, ApplyRank(k) PROVE Fixed
    <3> DEFINE c == cmds[k]
    <3>1. c \in Command /\ c.stage = "told" /\ Sound(c, rank) /\ TypeOK
      BY <1>1, <2>1 DEF ApplyRank, IInv, TypeOK
    <3>2. /\ c.msg \in Messages /\ c.target \in Users /\ c.msg.newRank \in 2..4
          /\ c.msg.chat \in Chats
          /\ rank[c.msg.chat][c.target] = 1 => c.msg.caller \in Devs
      BY <3>1, MessageTypes DEF Sound, CheckedStages, Counting, RankArgumentOK
    <3>3. cmds'[k].stage = "done"
      BY <2>1, <3>1 DEF ApplyRank, Answered, TypeOK, Command
    <3>4. ASSUME NEW x \in Chats, NEW u \in Users, (rank[x][u] = 1) # (rank'[x][u] = 1)
          PROVE  x = c.msg.chat /\ u = c.target /\ rank[x][u] = 1
      BY <2>1, <3>1, <3>2, <3>4 DEF ApplyRank, TypeOK
    <3> QED
      BY <3>1, <3>2, <3>3, <3>4
  <2>2. ASSUME NEW k \in Cmds, Continue(k) PROVE ApplyRank(k) \/ UNCHANGED rank
    BY <2>2 DEF Continue, TargetFound, TargetNotFound, TelegramTellsStatus, StatusUnknown,
                TelegramCarriesOut, TelegramRefuses, ReportOutcome, Notified, Named
  <2> QED
    BY <1>1, <2>1, <2>2 DEF Next, vars, Receive, Drop, AdminByHand, Tick, Restart
<1> QED
  BY <1>1, Invariant, PTL DEF Spec, OwnersFixed

-----------------------------------------------------------------------------
(* The command cooldown.                                                   *)

Second(c) == c.born[2] \div TicksPerSecond

\* lastCommandAt_ covers every command that this process accepted.
Covered ==
  \A k \in Cmds : cmds[k].stage # "free" =>
    /\ cmds[k].born[1] <= restarts
    /\ cmds[k].born[1] = restarts =>
         /\ lastCommandAt[cmds[k].msg.caller] # Never
         /\ Second(cmds[k]) <= lastCommandAt[cmds[k].msg.caller]

CooldownInv == Covered /\ CommandCooldown

\* What the cooldown depends on of a slot.
Birth(c) == <<c.stage = "free", c.msg, c.born>>

\* Continuing a command changes neither its message nor when it was accepted.
LEMMA ContinueBirth ==
  ASSUME IInv, NEW k \in Cmds, Continue(k)
  PROVE  \A j \in Cmds : Birth(cmds'[j]) = Birth(cmds[j])
<1>1. cmds \in [Cmds -> Command] /\ cmds[k] \in Command
  BY DEF IInv, TypeOK
<1>2. ASSUME NEW d, cmds' = [cmds EXCEPT ![k] = d], Birth(d) = Birth(cmds[k])
      PROVE  \A j \in Cmds : Birth(cmds'[j]) = Birth(cmds[j])
  BY <1>1, <1>2
<1>3. /\ Answered(cmds[k]).msg = cmds[k].msg
      /\ Answered(cmds[k]).born = cmds[k].born
      /\ Answered(cmds[k]).stage = "done"
  BY <1>1 DEF Answered, Command
<1>4. \A s : /\ [cmds[k] EXCEPT !.stage = s].msg = cmds[k].msg
             /\ [cmds[k] EXCEPT !.stage = s].born = cmds[k].born
             /\ [cmds[k] EXCEPT !.stage = s].stage = s
  BY <1>1 DEF Command
<1>5. CASE cmds[k].stage # "free" /\ cmds' = [cmds EXCEPT ![k] = Answered(@)]
  BY <1>1, <1>2, <1>3, <1>5 DEF Birth
<1>6. CASE TargetFound(k)
  <2>1. \A s, u : LET d == [cmds[k] EXCEPT !.stage = s, !.target = u]
                  IN  d.msg = cmds[k].msg /\ d.born = cmds[k].born /\ d.stage = s
    BY <1>1 DEF Command
  <2>2. CASE \E s \in {"asking", "calling"} :
               cmds' = [cmds EXCEPT ![k] = [cmds[k] EXCEPT !.stage = s, !.target = cmds[k].target]]
    BY <1>2, <1>6, <2>1, <2>2 DEF Birth, TargetFound
  <2> QED
    BY <1>5, <1>6, <2>2 DEF TargetFound, Resolved
<1>7. CASE TargetNotFound(k) \/ StatusUnknown(k) \/ ReportOutcome(k) \/ ApplyRank(k)
  BY <1>5, <1>7 DEF TargetNotFound, StatusUnknown, ReportOutcome, ApplyRank
<1>8. CASE TelegramTellsStatus(k)
  <2> DEFINE b == member[cmds[k].msg.chat][cmds[k].target] = "admin"
             d == [cmds[k] EXCEPT !.stage = "told", !.isAdmin = b]
  <2>1. d.msg = cmds[k].msg /\ d.born = cmds[k].born /\ d.stage = "told"
    BY <1>1 DEF Command
  <2>2. cmds' = [cmds EXCEPT ![k] = d]
    BY <1>1, <1>8 DEF TelegramTellsStatus
  <2> QED
    BY <1>2, <1>8, <2>1, <2>2 DEF Birth, TelegramTellsStatus
<1>9. CASE TelegramCarriesOut(k) \/ TelegramRefuses(k)
  <2>1. cmds' = [cmds EXCEPT ![k] = [cmds[k] EXCEPT !.stage = "settled"]]
    BY <1>1, <1>9 DEF TelegramCarriesOut, TelegramRefuses
  <2> QED
    BY <1>2, <1>4, <1>9, <2>1 DEF Birth, TelegramCarriesOut, TelegramRefuses
<1>10. ASSUME NEW x, cmds[k].stage \in Counting, cmds' = [cmds EXCEPT ![k] = CountDown(@, x)]
       PROVE  \A j \in Cmds : Birth(cmds'[j]) = Birth(cmds[j])
  <2> DEFINE e == [cmds[k] EXCEPT !.pending = cmds[k].pending \ {x}]
  <2>1. e \in Command /\ e.msg = cmds[k].msg /\ e.born = cmds[k].born /\ e.stage = cmds[k].stage
    BY <1>1, <1>10 DEF Command
  <2>2. /\ Answered(e).msg = e.msg /\ Answered(e).born = e.born
        /\ Answered(e).stage = "done"
    BY <2>1 DEF Answered, Command
  <2>3. \E d \in {e, Answered(e)} : cmds' = [cmds EXCEPT ![k] = d]
    BY <1>10 DEF CountDown
  <2> QED
    BY <1>2, <1>10, <2>1, <2>2, <2>3 DEF Birth, Counting
<1>11. ASSUME \/ \E x \in Chats : Notified(k, x)
              \/ \E u \in Users : Named(k, u)
       PROVE  \A j \in Cmds : Birth(cmds'[j]) = Birth(cmds[j])
  BY <1>10, <1>11 DEF Notified, Named, Counting
<1> QED
  BY <1>6, <1>7, <1>8, <1>9, <1>11 DEF Continue

\* A step that accepts no command and starts no process keeps the cooldown.
LEMMA CooldownStable ==
  ASSUME IInv, CooldownInv, \A j \in Cmds : Birth(cmds'[j]) = Birth(cmds[j]),
         lastCommandAt' = lastCommandAt, restarts' = restarts
  PROVE  CooldownInv'
<1>1. \A j \in Cmds : /\ (cmds'[j].stage = "free") = (cmds[j].stage = "free")
                      /\ cmds'[j].msg = cmds[j].msg /\ cmds'[j].born = cmds[j].born
  BY DEF Birth
<1>2. Covered'
  BY <1>1 DEF CooldownInv, Covered, Second
<1>3. CommandCooldown'
  BY <1>1 DEF CooldownInv, CommandCooldown
<1> QED
  BY <1>2, <1>3 DEF CooldownInv

\* Accepting a command: the cooldown of its caller is over, so every earlier
\* command of his that this process accepted was in an earlier second.
LEMMA ReceiveCooldown ==
  ASSUME IInv, CooldownInv, NEW k \in Cmds, NEW m \in Messages, Receive(k, m)
  PROVE  CooldownInv'
<1> DEFINE c == [FreeCommand EXCEPT !.msg = m, !.born = <<restarts, clock>>]
<1>1. /\ TypeOK /\ cmds \in [Cmds -> Command]
      /\ clock \in Nat /\ restarts \in Nat
      /\ lastCommandAt \in [Users -> Nat \union {Never}]
  BY DEF IInv, TypeOK
<1>2. c \in Command /\ c.msg = m /\ c.born = <<restarts, clock>>
  BY <1>1 DEF FreeCommand, Command, Stages
<1>3. cmds[k].stage = "free" /\ Handle(k, c)
  BY DEF Receive
<1> HIDE DEF c
<1>4. ASSUME NEW s, NEW u
      PROVE  LET d == [c EXCEPT !.stage = s, !.target = u]
             IN  d.msg = m /\ d.born = <<restarts, clock>> /\ d.stage = s
  BY <1>2 DEF Command
<1>5. ASSUME NEW s, NEW p
      PROVE  LET d == [c EXCEPT !.stage = s, !.pending = p]
             IN  d.msg = m /\ d.born = <<restarts, clock>> /\ d.stage = s
  BY <1>2 DEF Command
<1>6. Answered(c).msg = m /\ Answered(c).born = <<restarts, clock>> /\ Answered(c).stage = "done"
  BY <1>2 DEF Answered, Command
<1>7. ASSUME NEW d, d.msg = m, d.born = <<restarts, clock>>,
             cmds' = [cmds EXCEPT ![k] = d]
      PROVE  /\ cmds'[k].msg = m /\ cmds'[k].born = <<restarts, clock>>
             /\ \A j \in Cmds \ {k} : cmds'[j] = cmds[j]
  BY <1>1, <1>7
<1>8. /\ cmds'[k].msg = m /\ cmds'[k].born = <<restarts, clock>>
      /\ \A j \in Cmds \ {k} : cmds'[j] = cmds[j]
  <2>1. CASE cmds' = [cmds EXCEPT ![k] = Answered(c)]
    BY <1>6, <1>7, <2>1
  <2>2. CASE \E s, u : cmds' = [cmds EXCEPT ![k] = [c EXCEPT !.stage = s, !.target = u]]
    <3>1. PICK s, u : cmds' = [cmds EXCEPT ![k] = [c EXCEPT !.stage = s, !.target = u]]
      BY <2>2
    <3> DEFINE d == [c EXCEPT !.stage = s, !.target = u]
    <3>2. d.msg = m /\ d.born = <<restarts, clock>> /\ cmds' = [cmds EXCEPT ![k] = d]
      BY <1>4, <3>1
    <3> HIDE DEF d
    <3> QED
      BY <1>7, <3>2
  <2>3. CASE \E s, p : cmds' = [cmds EXCEPT ![k] = [c EXCEPT !.stage = s, !.pending = p]]
    <3>1. PICK s, p : cmds' = [cmds EXCEPT ![k] = [c EXCEPT !.stage = s, !.pending = p]]
      BY <2>3
    <3> DEFINE d == [c EXCEPT !.stage = s, !.pending = p]
    <3>2. d.msg = m /\ d.born = <<restarts, clock>> /\ cmds' = [cmds EXCEPT ![k] = d]
      BY <1>5, <3>1
    <3> HIDE DEF d
    <3> QED
      BY <1>7, <3>2
  <2>4. ASSUME NEW u, Resolved(k, c, u)
        PROVE  \/ cmds' = [cmds EXCEPT ![k] = Answered(c)]
               \/ \E s, v : cmds' = [cmds EXCEPT ![k] = [c EXCEPT !.stage = s, !.target = v]]
    BY <2>4 DEF Resolved
  <2> QED
    BY ZenonT(40), <1>3, <2>1, <2>2, <2>3, <2>4 DEF Handle
<1>9. /\ m.caller \in Users /\ Now \in Nat
      /\ lastCommandAt' = [lastCommandAt EXCEPT ![m.caller] = Now]
      /\ restarts' = restarts
      /\ lastCommandAt[m.caller] = Never \/ Now - lastCommandAt[m.caller] >= 1
  BY <1>1, NowNat, MessageTypes DEF Receive, CooldownOver
<1>10. \A j \in Cmds : cmds[j].stage # "free" =>
         /\ cmds[j].msg \in Messages /\ cmds[j].msg.caller \in Users
         /\ cmds[j].born \in Nat \X Nat /\ Second(cmds[j]) \in Nat
  <2> SUFFICES ASSUME NEW j \in Cmds, cmds[j].stage # "free"
               PROVE  /\ cmds[j].msg \in Messages /\ cmds[j].msg.caller \in Users
                      /\ cmds[j].born \in Nat \X Nat /\ Second(cmds[j]) \in Nat
    OBVIOUS
  <2>1. cmds[j].msg \in Messages
    BY DEF IInv, Sound
  <2>2. cmds[j].born \in Nat \X Nat
    BY <1>1 DEF Command
  <2> QED
    BY <2>1, <2>2, MessageTypes, DivisionNat, ModerationAssumption DEF Second
<1>11. Second(cmds'[k]) = Now
  BY <1>8 DEF Second, Now
<1>12. \A j \in Cmds \ {k} :
         /\ cmds[j].stage # "free"
         /\ cmds[j].msg.caller = m.caller
         /\ cmds[j].born[1] = restarts
         => Second(cmds[j]) < Now
  BY <1>1, <1>9, <1>10 DEF CooldownInv, Covered, Never
<1>13. Covered'
  <2> SUFFICES ASSUME NEW j \in Cmds, cmds'[j].stage # "free"
               PROVE  /\ cmds'[j].born[1] <= restarts'
                      /\ cmds'[j].born[1] = restarts' =>
                           /\ lastCommandAt'[cmds'[j].msg.caller] # Never
                           /\ Second(cmds'[j]) <= lastCommandAt'[cmds'[j].msg.caller]
    BY DEF Covered, Second
  <2>1. CASE j = k
    BY <1>1, <1>8, <1>9, <1>11, <2>1 DEF Never
  <2>2. CASE j # k
    <3>1. cmds'[j] = cmds[j] /\ cmds[j].stage # "free"
      BY <1>8, <2>2
    <3>2. CASE cmds[j].msg.caller = m.caller
      BY <1>1, <1>9, <1>10, <1>12, <2>2, <3>1, <3>2 DEF CooldownInv, Covered, Never
    <3>3. CASE cmds[j].msg.caller # m.caller
      BY <1>1, <1>9, <1>10, <3>1, <3>3 DEF CooldownInv, Covered
    <3> QED
      BY <3>2, <3>3
  <2> QED
    BY <2>1, <2>2
<1>14. CommandCooldown'
  <2> SUFFICES ASSUME NEW i \in Cmds, NEW j \in Cmds, i # j,
                      cmds'[i].stage # "free", cmds'[j].stage # "free",
                      cmds'[i].msg.caller = cmds'[j].msg.caller,
                      cmds'[i].born[1] = cmds'[j].born[1]
               PROVE  Second(cmds'[i]) # Second(cmds'[j])
    BY DEF CommandCooldown, Second
  <2>1. CASE i = k
    BY <1>8, <1>9, <1>10, <1>11, <1>12, <2>1
  <2>2. CASE j = k
    BY <1>8, <1>9, <1>10, <1>11, <1>12, <2>2
  <2>3. CASE i # k /\ j # k
    BY <1>8, <2>3 DEF CooldownInv, CommandCooldown, Second
  <2> QED
    BY <2>1, <2>2, <2>3
<1> QED
  BY <1>13, <1>14 DEF CooldownInv

LEMMA NextCooldown == IInv /\ CooldownInv /\ [Next]_vars => CooldownInv'
<1> SUFFICES ASSUME IInv, CooldownInv, [Next]_vars PROVE CooldownInv'
  OBVIOUS
<1>1. ASSUME NEW k \in Cmds, NEW m \in Messages, Receive(k, m) PROVE CooldownInv'
  BY <1>1, ReceiveCooldown
<1>2. ASSUME NEW k \in Cmds, Continue(k) PROVE CooldownInv'
  <2>1. lastCommandAt' = lastCommandAt /\ restarts' = restarts
    BY <1>2 DEF Continue, TargetFound, TargetNotFound, TelegramTellsStatus, StatusUnknown,
                ApplyRank, TelegramCarriesOut, TelegramRefuses, ReportOutcome, Notified, Named
  <2> QED
    BY <1>2, <2>1, ContinueBirth, CooldownStable
<1>3. CASE Restart
  <2>1. restarts \in Nat /\ restarts' = restarts + 1 /\ cmds \in [Cmds -> Command]
    BY <1>3 DEF Restart, IInv, TypeOK
  <2>2. \A j \in Cmds : /\ (cmds'[j].stage = "free") = (cmds[j].stage = "free")
                        /\ cmds'[j].msg = cmds[j].msg /\ cmds'[j].born = cmds[j].born
    BY <1>3, <2>1 DEF Restart, Command, InFlight
  <2>3. \A j \in Cmds : cmds[j].stage # "free" =>
          cmds[j].born[1] \in Nat /\ cmds[j].born[1] <= restarts
    BY <2>1 DEF CooldownInv, Covered, Command
  <2>4. Covered'
    BY <2>1, <2>2, <2>3 DEF Covered
  <2>5. CommandCooldown'
    BY <2>2 DEF CooldownInv, CommandCooldown
  <2> QED
    BY <2>4, <2>5 DEF CooldownInv
<1>4. CASE \/ \E m \in Messages : Drop(m)
           \/ \E x \in Groups, u \in AdminCandidates : AdminByHand(x, u)
           \/ Tick
           \/ UNCHANGED vars
  <2>1. cmds' = cmds /\ lastCommandAt' = lastCommandAt /\ restarts' = restarts
    BY <1>4 DEF Drop, AdminByHand, Tick, vars
  <2> QED
    BY <2>1, CooldownStable
<1> QED
  BY <1>1, <1>2, <1>3, <1>4 DEF Next

\* One process never accepts two commands of a user in the same second.
THEOREM CommandCooldownHolds == Spec => []CommandCooldown
<1>1. Init => CooldownInv
  BY DEF Init, CooldownInv, Covered, CommandCooldown, FreeCommand
<1>2. CooldownInv => CommandCooldown
  BY DEF CooldownInv
<1> QED
  BY <1>1, <1>2, NextCooldown, Invariant, PTL DEF Spec

-----------------------------------------------------------------------------
(* The global ban list.                                                      *)

GlobalBans == {"globalban", "globalunban"}
ForDevs == \A n \in GlobalBans : Required[n] = 0

\* Whoever has a global ban under way has passed requireRank.
BansInv ==
  \A k \in Cmds :
    cmds[k].stage \notin {"free", "done"} /\ cmds[k].msg.name \in GlobalBans
      => cmds[k].msg.caller \in Devs

\* A handler that goes on has a developer as its caller if it requires rank 0.
LEMMA RankZero ==
  ASSUME TypeOK, ForDevs, NEW m \in Messages, m.name \in GlobalBans, ~Refused(m)
  PROVE  m.caller \in Devs
<1>1. m.name \in Names /\ m.caller \in Users /\ m.chat \in Chats
  BY MessageTypes
<1>2. ChatRank(m.chat, m.caller) <= 0
  BY DEF Refused, HasRank, ForDevs, GlobalBans
<1>3. rank[m.chat][m.caller] \in 1..4
  BY <1>1 DEF TypeOK, Ranks
<1> QED
  BY <1>2, <1>3 DEF ChatRank

\* A command that is accepted keeps its message, and is answered at once or not refused.
LEMMA HandleMessage ==
  ASSUME NEW k \in Cmds, NEW c \in Command, Handle(k, c), cmds \in [Cmds -> Command]
  PROVE  /\ cmds'[k].msg = c.msg
         /\ cmds'[k].stage = "done" \/ ~Refused(c.msg)
         /\ \A j \in Cmds : j # k => cmds'[j] = cmds[j]
<1>1. Answered(c).msg = c.msg /\ Answered(c).stage = "done"
  BY DEF Answered, Command
<1>2. \A s, u : [c EXCEPT !.stage = s, !.target = u].msg = c.msg
  BY DEF Command
<1>3. \A s, p : [c EXCEPT !.stage = s, !.pending = p].msg = c.msg
  BY DEF Command
<1>4. CASE cmds' = [cmds EXCEPT ![k] = Answered(c)]
  BY <1>1, <1>4
<1>5. CASE ~Refused(c.msg) /\ \E s, u : cmds' = [cmds EXCEPT ![k] =
                                         [c EXCEPT !.stage = s, !.target = u]]
  BY <1>2, <1>5
<1>6. CASE ~Refused(c.msg) /\ \E s, p : cmds' = [cmds EXCEPT ![k] =
                                         [c EXCEPT !.stage = s, !.pending = p]]
  BY <1>3, <1>6
<1>7. CASE ~Refused(c.msg) /\ Resolved(k, c, TargetUser(c.msg))
  BY <1>4, <1>5, <1>7 DEF Resolved
<1>8. CASE ~Refused(c.msg) /\ cmds' = [cmds EXCEPT ![k] =
                                  [c EXCEPT !.stage = "resolving", !.target = TargetUser(c.msg)]]
  BY <1>5, <1>8
<1>9. CASE /\ ~Refused(c.msg)
           /\ LET to == Recipients(known \union {c.msg.chat})
              IN  cmds' = [cmds EXCEPT ![k] =
                             IF to = {} THEN Answered(c)
                             ELSE [c EXCEPT !.stage = "notifying", !.pending = to]]
  BY <1>4, <1>6, <1>9
<1>10. CASE /\ ~Refused(c.msg)
            /\ LET listed == Ranked(c.msg.chat)
               IN  cmds' = [cmds EXCEPT ![k] =
                              IF listed = {} THEN Answered(c)
                              ELSE [c EXCEPT !.stage = "naming", !.pending = listed]]
  BY <1>4, <1>6, <1>10
<1> QED
  BY <1>4, <1>7, <1>8, <1>9, <1>10 DEF Handle

LEMMA NextBans == IInv /\ ForDevs /\ BansInv /\ [Next]_vars => BansInv'
<1> SUFFICES ASSUME IInv, ForDevs, BansInv, [Next]_vars PROVE BansInv'
  OBVIOUS
<1>1. cmds \in [Cmds -> Command] /\ TypeOK
  BY DEF IInv, TypeOK
<1>2. ASSUME \A j \in Cmds : /\ cmds'[j].msg = cmds[j].msg
                             /\ cmds[j].stage \in {"free", "done"}
                                  => cmds'[j].stage \in {"free", "done"}
      PROVE  BansInv'
  BY <1>2 DEF BansInv
<1>3. ASSUME NEW k \in Cmds, NEW m \in Messages, Receive(k, m) PROVE BansInv'
  <2>1. [FreeCommand EXCEPT !.msg = m, !.born = <<restarts, clock>>] \in Command
    BY <1>1 DEF FreeCommand, Command, Stages, IInv, TypeOK
  <2>2. PICK c \in Command : c.msg = m /\ Handle(k, c)
    BY <1>3, <2>1 DEF Receive, FreeCommand, Command
  <2>3. /\ cmds'[k].msg = m
        /\ cmds'[k].stage = "done" \/ ~Refused(m)
        /\ \A j \in Cmds : j # k => cmds'[j] = cmds[j]
    BY <1>1, <2>2, HandleMessage
  <2>4. cmds'[k].stage # "done" /\ m.name \in GlobalBans => m.caller \in Devs
    BY <1>1, <2>3, RankZero
  <2> QED
    BY <2>3, <2>4 DEF BansInv
<1>4. ASSUME NEW k \in Cmds, Continue(k) PROVE BansInv'
  <2>1. cmds[k].stage \notin {"free", "done"}
    BY <1>4 DEF Continue, TargetFound, TargetNotFound, TelegramTellsStatus, StatusUnknown,
                ApplyRank, TelegramCarriesOut, TelegramRefuses, ReportOutcome, Notified, Named
  <2>2. \A j \in Cmds \ {k} : cmds'[j] = cmds[j]
    BY <1>1, <1>4 DEF Continue, TargetFound, Resolved, TargetNotFound, TelegramTellsStatus,
                StatusUnknown, ApplyRank, TelegramCarriesOut, TelegramRefuses, ReportOutcome,
                Notified, Named
  <2>3. \A j \in Cmds : cmds'[j].msg = cmds[j].msg
    BY <1>4, ContinueBirth DEF Birth
  <2> QED
    BY <1>2, <2>1, <2>2, <2>3
<1>5. CASE Restart
  BY <1>1, <1>2, <1>5 DEF Restart, Command, InFlight
<1>6. CASE \/ \E m \in Messages : Drop(m)
           \/ \E x \in Groups, u \in AdminCandidates : AdminByHand(x, u)
           \/ Tick
           \/ UNCHANGED vars
  <2>1. cmds' = cmds
    BY <1>6 DEF Drop, AdminByHand, Tick, vars
  <2> QED
    BY <1>2, <2>1
<1> QED
  BY <1>3, <1>4, <1>5, <1>6 DEF Next

\* Where config.toml requires rank 0 for both commands, the global ban list changes
\* by the commands of developers only, though the rank is checked before the target
\* is looked up (executeGlobalBan, executeGlobalUnban).
THEOREM BansByDevsHolds == ForDevs /\ Spec => BansByDevs
<1> DEFINE DevInv == ForDevs /\ BansInv
<1>1. ForDevs /\ Init => DevInv
  BY DEF Init, BansInv, FreeCommand
<1>2. IInv /\ DevInv /\ [Next]_vars => ByDev \/ UNCHANGED banned
  <2> SUFFICES ASSUME IInv, ForDevs, BansInv, [Next]_vars PROVE ByDev \/ UNCHANGED banned
    OBVIOUS
  <2>1. cmds \in [Cmds -> Command] /\ TypeOK
    BY DEF IInv, TypeOK
  <2>2. ASSUME NEW k \in Cmds, NEW c \in Command, NEW u, Resolved(k, c, u), c.msg \in Messages,
               c.msg.name \in GlobalBans => c.msg.caller \in Devs, cmds[k].stage # "done"
        PROVE  ByDev \/ UNCHANGED banned
    <3>1. Answered(c).msg = c.msg /\ Answered(c).stage = "done"
      BY <2>2 DEF Answered, Command
    <3>2. UNCHANGED banned \/ (c.msg.name \in GlobalBans /\ cmds' = [cmds EXCEPT ![k] = Answered(c)])
      BY <2>2 DEF Resolved, GlobalBans
    <3>3. cmds' = [cmds EXCEPT ![k] = Answered(c)] => cmds'[k] = Answered(c)
      BY <2>1
    <3> QED
      BY <2>2, <3>1, <3>2, <3>3 DEF GlobalBans, ByDev
  <2>3. ASSUME NEW k \in Cmds, NEW m \in Messages, Receive(k, m) PROVE ByDev \/ UNCHANGED banned
    <3> DEFINE c == [FreeCommand EXCEPT !.msg = m, !.born = <<restarts, clock>>]
    <3>1. c \in Command /\ c.msg = m
      BY <2>1 DEF FreeCommand, Command, Stages, TypeOK
    <3>2. Handle(k, c) /\ cmds[k].stage = "free"
      BY <2>3 DEF Receive
    <3> HIDE DEF c
    <3>3. UNCHANGED banned \/ (~Refused(m) /\ Resolved(k, c, TargetUser(m)))
      BY <3>1, <3>2 DEF Handle
    <3> QED
      BY <2>1, <2>2, <3>1, <3>2, <3>3, RankZero
  <2>4. ASSUME NEW k \in Cmds, Continue(k) PROVE ByDev \/ UNCHANGED banned
    <3>1. CASE TargetFound(k)
      <4>1. cmds[k].stage = "resolving" /\ Resolved(k, cmds[k], cmds[k].target)
        BY <3>1 DEF TargetFound
      <4>2. cmds[k] \in Command /\ cmds[k].msg \in Messages
        BY <2>1, <4>1 DEF IInv, Sound
      <4> QED
        BY <2>2, <4>1, <4>2 DEF BansInv
    <3>2. CASE ~TargetFound(k)
      BY <2>4, <3>2 DEF Continue, TargetNotFound, TelegramTellsStatus, StatusUnknown, ApplyRank,
                  TelegramCarriesOut, TelegramRefuses, ReportOutcome, Notified, Named
    <3> QED
      BY <3>1, <3>2
  <2> QED
    BY <2>3, <2>4 DEF Next, vars, Drop, AdminByHand, Tick, Restart
<1>3. IInv /\ DevInv /\ [Next]_vars => DevInv'
  BY NextBans DEF ForDevs, GlobalBans
<1> HIDE DEF DevInv
<1> QED
  BY <1>1, <1>2, <1>3, Invariant, PTL DEF Spec, BansByDevs
=============================================================================

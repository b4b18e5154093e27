---------------------------- MODULE AutoModerator ----------------------------
(***************************************************************************)
(* The moderator of auto-mod: the /moderate endpoint of main.cpp and       *)
(* AutoModerator of automoderator.cpp.                                     *)
(*                                                                         *)
(* One handler thread per message.  The timestamp is the caller's or is    *)
(* read before mutex_ is taken, so the trackers may see stamps out of      *)
(* order.  What runs under mutex_ is one action.                           *)
(*                                                                         *)
(* A tracked timestamp is represented by the message it belongs to: a      *)
(* vector of timestamps, equal ones included, is a set of messages.        *)
(***************************************************************************)
EXTENDS Integers, FiniteSets

CONSTANTS
  Messages,             \* messages, each handled by a thread of its own
  Senders,              \* (chat_id, user_id) pairs
  NoSender,
  CallerStamps,         \* timestamps that callers may supply
  SpamWindow,           \* spam_window_seconds
  SpamLimit,            \* spam_limit
  TrackedCap,           \* tracked_cap
  PrivilegedMaxRank,    \* privileged_max_rank
  MaxClock              \* bound: seconds

ASSUME AutoModeratorAssumption ==
  /\ IsFiniteSet(Messages)
  /\ NoSender \notin Senders
  /\ CallerStamps \subseteq Nat
  /\ SpamWindow \in Nat \ {0}
  /\ SpamLimit \in Nat
  /\ TrackedCap \in Nat
  /\ PrivilegedMaxRank \in Nat
  /\ MaxClock \in Nat

VARIABLES
  sender,           \* who sent each message that has arrived
  filtered,         \* whether its text holds a forbidden phrase
  stamp,            \* its timestamp
  counted,          \* history: the messages that reached the spam tracker
  verdict,          \* the action returned, or "none"
  spam_trackers,    \* the messages whose timestamps each sender's vector holds
  tracked_count,    \* tracked_count_
  clock             \* unixNow()

vars == <<sender, filtered, stamp, counted, verdict, spam_trackers, tracked_count, clock>>

Verdicts == {"none", "Allow", "MuteTemporary", "MutePermanent"}

Init ==
  /\ sender = [m \in Messages |-> NoSender]
  /\ filtered = [m \in Messages |-> FALSE]
  /\ stamp = [m \in Messages |-> 0]
  /\ counted = {}
  /\ verdict = [m \in Messages |-> "none"]
  /\ spam_trackers = [s \in Senders |-> {}]
  /\ tracked_count = 0
  /\ clock = 0

\* getChatRank: -1 when core cannot be asked.
CoreRanks == -1..4

\* Devs, owners and admins are exempt; if core is unreachable nobody is.
Privileged(rank) == rank >= 0 /\ rank <= PrivilegedMaxRank

Pending(m) == sender[m] # NoSender /\ verdict[m] = "none"

\* The endpoint up to process_message: the rank and the timestamp.
Moderate(m, s, f, rank, t) ==
  /\ sender[m] = NoSender
  /\ sender' = [sender EXCEPT ![m] = s]
  /\ filtered' = [filtered EXCEPT ![m] = f]
  /\ stamp' = [stamp EXCEPT ![m] = t]
  /\ verdict' = IF Privileged(rank) THEN [verdict EXCEPT ![m] = "Allow"] ELSE verdict
  /\ UNCHANGED <<counted, spam_trackers, tracked_count, clock>>

\* The keyword filter, before the spam tracker and without mutex_.
FilterHit(m) ==
  /\ Pending(m)
  /\ filtered[m]
  /\ verdict' = [verdict EXCEPT ![m] = "MutePermanent"]
  /\ UNCHANGED <<sender, filtered, stamp, counted, spam_trackers, tracked_count, clock>>

\* Mutant of Recent: the window includes the timestamp at its start.
RecentInclusive(held, now) == {x \in held : stamp[x] >= now - SpamWindow}

\* The timestamps of held inside the window that ends at now.
Recent(held, now) == {x \in held : stamp[x] > now - SpamWindow}

\* The timestamps held, over all senders.
Held(trackers) == UNION {trackers[s] : s \in Senders}

\* Mutant of Pruned: the collector drops everything.
PrunedAll(trackers, count, now) ==
  IF count <= TrackedCap THEN trackers ELSE [s \in Senders |-> {}]

\* prune_locked: once more than the cap is counted, every sender's vector is
\* cut to the window and the count is taken anew.
Pruned(trackers, count, now) ==
  IF count <= TrackedCap THEN trackers
  ELSE [s \in Senders |-> Recent(trackers[s], now)]
\* Mutant of PrunedCount: counts the senders that are left.
PrunedCountSenders(trackers, count, now) ==
  IF count <= TrackedCap THEN count
  ELSE Cardinality({s \in Senders : Pruned(trackers, count, now)[s] # {}})
PrunedCount(trackers, count, now) ==
  IF count <= TrackedCap THEN count
  ELSE Cardinality(Held(Pruned(trackers, count, now)))

\* The spam tracker, under mutex_.  Only a message over the limit prunes.
Track(m) ==
  LET now == stamp[m]
      mine == Recent(spam_trackers[sender[m]], now) \union {m}
      pushed == [spam_trackers EXCEPT ![sender[m]] = mine]
      over == Cardinality(mine) > SpamLimit
  IN
  /\ Pending(m)
  /\ ~filtered[m]
  /\ counted' = counted \union {m}
  /\ verdict' = [verdict EXCEPT ![m] = IF over THEN "MuteTemporary" ELSE "Allow"]
  /\ spam_trackers' = IF over THEN Pruned(pushed, tracked_count + 1, now) ELSE pushed
  /\ tracked_count' = IF over THEN PrunedCount(pushed, tracked_count + 1, now)
                              ELSE tracked_count + 1
  /\ UNCHANGED <<sender, filtered, stamp, clock>>

Tick ==
  /\ clock < MaxClock
  /\ clock' = clock + 1
  /\ UNCHANGED <<sender, filtered, stamp, counted, verdict, spam_trackers, tracked_count>>

Next ==
  \/ \E m \in Messages, s \in Senders, f \in BOOLEAN, rank \in CoreRanks,
        t \in CallerStamps \union {clock} : Moderate(m, s, f, rank, t)
  \/ \E m \in Messages : FilterHit(m) \/ Track(m)
  \/ Tick

Spec == Init /\ [][Next]_vars

-----------------------------------------------------------------------------
(* Properties.                                                             *)

TypeOK ==
  /\ sender \in [Messages -> Senders \union {NoSender}]
  /\ filtered \in [Messages -> BOOLEAN]
  /\ stamp \in [Messages -> Nat]
  /\ counted \subseteq Messages
  /\ verdict \in [Messages -> Verdicts]
  /\ spam_trackers \in [Senders -> SUBSET Messages]
  /\ tracked_count \in Nat
  /\ clock \in Nat

\* The counted messages of a sender in the window that ends at an instant.
InWindow(s, end) ==
  {x \in counted : sender[x] = s /\ stamp[x] > end - SpamWindow /\ stamp[x] <= end}

\* In whatever order threads reach mutex_ and whatever the garbage collector
\* dropped: a temporary mute is backed by more than SpamLimit counted messages
\* of that sender in the window that ends with the message, unless a newer
\* message of the same sender was counted (as ImplementsWindow has it, before it).
MutedInOrder ==
  \A m \in Messages : verdict[m] = "MuteTemporary" =>
    \/ Cardinality(InWindow(sender[m], stamp[m])) > SpamLimit
    \/ \E x \in counted : sender[x] = sender[m] /\ stamp[x] > stamp[m]

\* tracked_count_ is never less than the timestamps held, so that the collector
\* is never late (it may be early: erasing from a vector is not counted).
CountCoversHeld == Cardinality(Held(spam_trackers)) <= tracked_count

\* The moderator implements the sliding window, though it erases timestamps, and
\* collects those of one sender when another one is muted.
Window == INSTANCE SlidingWindow
ImplementsWindow == Window!SSpec

-----------------------------------------------------------------------------
(* What the repository's comments say and the code does not do.            *)

\* automoderator.hpp 34-36: a temporary mute takes more than SpamLimit messages
\* of the sender within SpamWindow seconds.  Any window that holds the muted
\* message would do, wherever it ends.
NoFalseMute ==
  \A m \in Messages : verdict[m] = "MuteTemporary" =>
    \E end \in stamp[m]..(stamp[m] + SpamWindow - 1) :
      Cardinality(InWindow(sender[m], end)) > SpamLimit
=============================================================================

---------------------------- MODULE SlidingWindow ----------------------------
(***************************************************************************)
(* What auto-mod does (automoderator.hpp 31-36): a message with a          *)
(* forbidden phrase is muted for good and counts for nothing; any other    *)
(* message is muted for a while when its sender has sent more than         *)
(* SpamLimit counted messages within the window that ends with it.         *)
(*                                                                         *)
(* The header promises this of every message.  The code keeps it for those *)
(* that come in the order of their stamps.  A message that comes after a   *)
(* newer one may be let off, and one that comes after a newer one of its   *)
(* own sender is counted together with what is after its window as well.   *)
(* Nothing is ever forgotten here, and there is no garbage collection.     *)
(***************************************************************************)
EXTENDS Integers, FiniteSets

CONSTANTS Messages, Senders, NoSender, SpamWindow, SpamLimit

VARIABLES sender, filtered, stamp, counted, verdict

svars == <<sender, filtered, stamp, counted, verdict>>

SInit ==
  /\ sender = [m \in Messages |-> NoSender]
  /\ filtered = [m \in Messages |-> FALSE]
  /\ stamp = [m \in Messages |-> 0]
  /\ counted = {}
  /\ verdict = [m \in Messages |-> "none"]

\* The counted messages of m's sender since the start of m's window, m included, ...
Since(m) == {x \in counted \union {m} :
               sender[x] = sender[m] /\ stamp[x] > stamp[m] - SpamWindow}

\* ... and those of them in the window, which ends with m.
InWindow(m) == {x \in Since(m) : stamp[x] <= stamp[m]}

\* A message arrives; one whose sender is exempt by rank is allowed at once.
Arrives(m) ==
  /\ sender[m] = NoSender
  /\ sender'[m] \in Senders
  /\ sender' = [sender EXCEPT ![m] = sender'[m]]
  /\ filtered' \in {filtered, [filtered EXCEPT ![m] = TRUE]}
  /\ stamp' = [stamp EXCEPT ![m] = stamp'[m]]
  /\ verdict' \in {verdict, [verdict EXCEPT ![m] = "Allow"]}
  /\ UNCHANGED counted

IsFiltered(m) ==
  /\ sender[m] # NoSender /\ verdict[m] = "none"
  /\ filtered[m]
  /\ verdict' = [verdict EXCEPT ![m] = "MutePermanent"]
  /\ UNCHANGED <<sender, filtered, stamp, counted>>

\* A message with a later stamp was counted first.
Late(m) == \E x \in counted : stamp[x] > stamp[m]

\* One of m's own sender was.
Overtaken(m) == InWindow(m) # Since(m)

IsCounted(m) ==
  /\ sender[m] # NoSender /\ verdict[m] = "none"
  /\ ~filtered[m]
  /\ counted' = counted \union {m}
  /\ \/ /\ Cardinality(InWindow(m)) > SpamLimit
        /\ verdict' = [verdict EXCEPT ![m] = "MuteTemporary"]
     \/ /\ Cardinality(InWindow(m)) <= SpamLimit \/ Late(m)
        /\ verdict' = [verdict EXCEPT ![m] = "Allow"]
     \/ /\ Overtaken(m) /\ Cardinality(Since(m)) > SpamLimit
        /\ verdict' = [verdict EXCEPT ![m] = "MuteTemporary"]
  /\ UNCHANGED <<sender, filtered, stamp>>

SNext == \E m \in Messages : Arrives(m) \/ IsFiltered(m) \/ IsCounted(m)

SSpec == SInit /\ [][SNext]_svars
=============================================================================

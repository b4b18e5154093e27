-------------------------------- MODULE Sends --------------------------------
(***************************************************************************)
(* What a message send of TdlibClient promises its caller                  *)
(* (tdlib_client.h 30-34): onSent is called once, with the id of the       *)
(* message after the server has confirmed it, or with a failure when it    *)
(* never will.                                                             *)
(***************************************************************************)
CONSTANT Texts      \* the sends that wait for their outcome

VARIABLES
  asked,      \* the sends that were asked for
  confirmed,  \* the messages that the server has confirmed
  told        \* what onSent was called with

svars == <<asked, confirmed, told>>

SInit ==
  /\ asked = {}
  /\ confirmed = {}
  /\ told = [t \in Texts |-> "nothing"]

Ask(t) ==
  /\ t \notin asked
  /\ asked' = asked \union {t}
  /\ UNCHANGED <<confirmed, told>>

Confirm(t) ==
  /\ t \in asked \ confirmed
  /\ told[t] = "nothing"
  /\ confirmed' = confirmed \union {t}
  /\ UNCHANGED <<asked, told>>

TellSent(t) ==
  /\ t \in confirmed
  /\ told[t] = "nothing"
  /\ told' = [told EXCEPT ![t] = "sent"]
  /\ UNCHANGED <<asked, confirmed>>

\* One callback may concern several sends: a deletion names all its messages.
TellFailed(T) ==
  /\ T \subseteq asked \ confirmed
  /\ \A t \in T : told[t] = "nothing"
  /\ told' = [t \in Texts |-> IF t \in T THEN "failed" ELSE told[t]]
  /\ UNCHANGED <<asked, confirmed>>

SNext ==
  \/ \E t \in Texts : Ask(t) \/ Confirm(t) \/ TellSent(t)
  \/ \E T \in SUBSET Texts : TellFailed(T)

SSpec == SInit /\ [][SNext]_svars
=============================================================================

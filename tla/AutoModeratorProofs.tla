------------------------- MODULE AutoModeratorProofs -------------------------
(***************************************************************************)
(* Proofs about AutoModerator, for any number of messages and senders and  *)
(* every window, limit and cap, in whatever order the threads come: a mute *)
(* has its cause in the window or in a newer message, the count covers     *)
(* what is held, and the tracker implements SlidingWindow.                 *)
(***************************************************************************)
EXTENDS AutoModerator, FiniteSetTheorems, TLAPS

\* Only messages that arrived have a text or are judged, and only judged ones
\* are counted.
HistoryInv ==
  \A x \in Messages :
    /\ filtered[x] \/ verdict[x] # "none" => sender[x] \in Senders
    /\ x \in counted => verdict[x] # "none"

\* A tracker holds counted messages of its sender.
TrackInv ==
  \A s \in Senders : \A x \in spam_trackers[s] : x \in counted /\ sender[x] = s

\* A counted message leaves its tracker only when it is too old for the window
\* of some message already counted.
WindowInv ==
  \A x \in counted :
    \/ x \in spam_trackers[sender[x]]
    \/ \E y \in counted : stamp[x] <= stamp[y] - SpamWindow

IInv == TypeOK /\ HistoryInv /\ TrackInv /\ MutedInOrder /\ CountCoversHeld /\ WindowInv

\* The messages of c that a sender has sent since the start of the window that ends at
\* an instant, and those of them in the window.
Backing(c, s, now) == {x \in c : sender[x] = s /\ stamp[x] > now - SpamWindow}
Within(c, s, now) == {x \in Backing(c, s, now) : stamp[x] <= now}

-----------------------------------------------------------------------------
\* Every set of messages is finite, and cardinality is monotone on them.
LEMMA MessageSets ==
  ASSUME NEW S \in SUBSET Messages, NEW T \in SUBSET S
  PROVE  /\ IsFiniteSet(S) /\ Cardinality(S) \in Nat
         /\ Cardinality(T) \in Nat /\ Cardinality(T) <= Cardinality(S)
<1>1. IsFiniteSet(S)
  BY FS_Subset, AutoModeratorAssumption DEF AutoModeratorAssumption
<1> QED
  BY <1>1, FS_Subset, FS_CardinalityType

LEMMA InitInv == Init => IInv
<1> SUFFICES ASSUME Init PROVE IInv
  OBVIOUS
<1>1. Held(spam_trackers) = {}
  BY DEF Init, Held
<1>2. Cardinality(Held(spam_trackers)) = 0
  BY <1>1, FS_EmptySet, Zenon
<1>3. CountCoversHeld
  BY <1>2 DEF Init, CountCoversHeld
<1> QED
  BY <1>3, AutoModeratorAssumption
     DEF Init, IInv, AutoModeratorAssumption, TypeOK, HistoryInv, TrackInv, MutedInOrder,
         WindowInv, Verdicts

\* The endpoint touches a message that is not judged yet: nothing counted moves.
LEMMA ModerateInv ==
  ASSUME IInv, NEW m \in Messages, NEW s \in Senders, NEW f \in BOOLEAN,
         NEW rank \in CoreRanks, NEW t \in CallerStamps \union {clock},
         Moderate(m, s, f, rank, t)
  PROVE  IInv'
<1> USE DEF IInv
<1>1. t \in Nat
  BY AutoModeratorAssumption DEF AutoModeratorAssumption, TypeOK
<1>2. sender[m] = NoSender /\ m \notin counted /\ verdict[m] = "none"
  BY AutoModeratorAssumption DEF AutoModeratorAssumption, Moderate, HistoryInv
<1>3. /\ TypeOK'
      /\ counted' = counted /\ spam_trackers' = spam_trackers
      /\ tracked_count' = tracked_count
  BY <1>1 DEF Moderate, TypeOK, Verdicts
<1>4. \A x \in Messages \ {m} :
        /\ sender'[x] = sender[x] /\ stamp'[x] = stamp[x]
        /\ verdict'[x] = verdict[x] /\ filtered'[x] = filtered[x]
  BY DEF Moderate, TypeOK
<1>5. sender'[m] = s /\ verdict'[m] \in {"none", "Allow"}
  BY <1>2 DEF Moderate, TypeOK
<1>6. counted \subseteq Messages \ {m}
  BY <1>2 DEF TypeOK
<1>7. HistoryInv'
  BY <1>3, <1>4, <1>5, <1>6 DEF HistoryInv
<1>8. TrackInv'
  BY <1>3, <1>4, <1>6 DEF TrackInv
<1>9. MutedInOrder'
  <2> SUFFICES ASSUME NEW x \in Messages, verdict'[x] = "MuteTemporary"
               PROVE  \/ Cardinality(InWindow(sender[x], stamp[x])') > SpamLimit
                      \/ \E y \in counted' : sender'[y] = sender'[x] /\ stamp'[y] > stamp'[x]
    BY DEF MutedInOrder
  <2>1. x # m /\ verdict[x] = "MuteTemporary"
    BY <1>4, <1>5
  <2>2. InWindow(sender[x], stamp[x])' = InWindow(sender[x], stamp[x])
    BY <1>3, <1>4, <1>6, <2>1 DEF InWindow
  <2>3. CASE Cardinality(InWindow(sender[x], stamp[x])) > SpamLimit
    BY <2>2, <2>3
  <2>4. CASE \E y \in counted : sender[y] = sender[x] /\ stamp[y] > stamp[x]
    BY <1>3, <1>4, <1>6, <2>1, <2>4
  <2> QED
    BY <2>1, <2>3, <2>4 DEF MutedInOrder
<1>10. CountCoversHeld'
  BY <1>3 DEF CountCoversHeld, Held
<1>11. WindowInv'
  BY <1>3, <1>4, <1>6 DEF WindowInv
<1> QED
  BY <1>3, <1>7, <1>8, <1>9, <1>10, <1>11

\* The keyword filter only judges.
LEMMA FilterInv ==
  ASSUME IInv, NEW m \in Messages, FilterHit(m)
  PROVE  IInv'
<1> USE DEF IInv
<1>1. /\ TypeOK'
      /\ UNCHANGED <<sender, filtered, stamp, counted, spam_trackers, tracked_count>>
      /\ sender[m] \in Senders
      /\ verdict' = [verdict EXCEPT ![m] = "MutePermanent"]
  BY DEF FilterHit, Pending, TypeOK, Verdicts
<1>2. HistoryInv' /\ TrackInv' /\ WindowInv'
  BY <1>1 DEF HistoryInv, TrackInv, WindowInv, TypeOK
<1>3. MutedInOrder'
  BY <1>1 DEF MutedInOrder, InWindow, TypeOK
<1>4. CountCoversHeld'
  BY <1>1 DEF CountCoversHeld, Held
<1> QED
  BY <1>1, <1>2, <1>3, <1>4

-----------------------------------------------------------------------------
\* The spam tracker: what a step of Track leaves in the trackers.
Mine(m) == Recent(spam_trackers[sender[m]], stamp[m]) \union {m}
Pushed(m) == [spam_trackers EXCEPT ![sender[m]] = Mine(m)]

LEMMA TrackStep ==
  ASSUME IInv, NEW m \in Messages, Track(m)
  PROVE  /\ sender[m] \in Senders /\ m \notin counted /\ verdict[m] = "none"
         /\ counted' = counted \union {m}
         /\ UNCHANGED <<sender, filtered, stamp, clock>>
         /\ Mine(m) \subseteq Backing(counted \union {m}, sender[m], stamp[m])
         /\ Pushed(m) \in [Senders -> SUBSET Messages]
         /\ verdict' = [verdict EXCEPT ![m] =
              IF Cardinality(Mine(m)) > SpamLimit THEN "MuteTemporary" ELSE "Allow"]
         /\ \/ /\ spam_trackers' = Pushed(m)
               /\ tracked_count' = tracked_count + 1
            \/ /\ spam_trackers' = [s \in Senders |-> Recent(Pushed(m)[s], stamp[m])]
               /\ tracked_count' = Cardinality(Held(spam_trackers'))
<1> USE DEF IInv
<1>1. sender[m] \in Senders /\ verdict[m] = "none" /\ m \notin counted
  BY DEF Track, Pending, TypeOK, HistoryInv
<1>2. Mine(m) \subseteq Messages
  BY <1>1 DEF Mine, Recent, TypeOK
<1>3. Pushed(m) \in [Senders -> SUBSET Messages]
  BY <1>1, <1>2 DEF Pushed, TypeOK
<1>4. Mine(m) \subseteq Backing(counted \union {m}, sender[m], stamp[m])
  BY <1>1, AutoModeratorAssumption
     DEF Mine, Recent, Backing, TrackInv, TypeOK, AutoModeratorAssumption
<1>5. /\ counted' = counted \union {m}
      /\ UNCHANGED <<sender, filtered, stamp, clock>>
      /\ verdict' = [verdict EXCEPT ![m] =
           IF Cardinality(Mine(m)) > SpamLimit THEN "MuteTemporary" ELSE "Allow"]
  BY DEF Track, Mine
<1>6. \/ /\ spam_trackers' = Pushed(m)
         /\ tracked_count' = tracked_count + 1
      \/ /\ spam_trackers' = Pruned(Pushed(m), tracked_count + 1, stamp[m])
         /\ tracked_count' = PrunedCount(Pushed(m), tracked_count + 1, stamp[m])
  BY DEF Track, Mine, Pushed
<1>7. \/ /\ spam_trackers' = Pushed(m)
         /\ tracked_count' = tracked_count + 1
      \/ /\ spam_trackers' = [s \in Senders |-> Recent(Pushed(m)[s], stamp[m])]
         /\ tracked_count' = Cardinality(Held(spam_trackers'))
  BY <1>6 DEF Pruned, PrunedCount
<1> QED
  BY <1>1, <1>3, <1>4, <1>5, <1>7

LEMMA TrackKeeps ==
  ASSUME IInv, NEW m \in Messages, Track(m)
  PROVE  IInv'
<1> USE DEF IInv
<1>1. /\ sender[m] \in Senders /\ m \notin counted /\ verdict[m] = "none"
      /\ counted' = counted \union {m}
      /\ UNCHANGED <<sender, filtered, stamp, clock>>
      /\ verdict' = [verdict EXCEPT ![m] =
           IF Cardinality(Mine(m)) > SpamLimit THEN "MuteTemporary" ELSE "Allow"]
  BY TrackStep
<1>2. Mine(m) \subseteq Backing(counted \union {m}, sender[m], stamp[m])
  BY TrackStep
<1>3. Pushed(m) \in [Senders -> SUBSET Messages]
  BY TrackStep
<1>4. \/ /\ spam_trackers' = Pushed(m)
         /\ tracked_count' = tracked_count + 1
      \/ /\ spam_trackers' = [s \in Senders |-> Recent(Pushed(m)[s], stamp[m])]
         /\ tracked_count' = Cardinality(Held(spam_trackers'))
  BY TrackStep
<1>5. spam_trackers' \in [Senders -> SUBSET Messages]
  BY <1>3, <1>4 DEF Recent
<1>6. \A s \in Senders : spam_trackers'[s] \subseteq Pushed(m)[s]
  BY <1>3, <1>4 DEF Recent
<1>7. \A s \in Senders : Pushed(m)[s] \subseteq spam_trackers[s] \union {m}
  BY <1>1 DEF Pushed, Mine, Recent, TypeOK
<1>8. Held(spam_trackers') \subseteq Held(spam_trackers) \union {m}
  BY <1>6, <1>7 DEF Held
<1>9. /\ Held(spam_trackers) \in SUBSET Messages
      /\ Held(spam_trackers') \in SUBSET Messages
  BY <1>5 DEF Held, TypeOK
<1>10. TypeOK'
  <2>1. tracked_count' \in Nat
    BY <1>4, <1>9, MessageSets DEF TypeOK
  <2> QED
    BY <1>1, <1>5, <2>1 DEF TypeOK, Verdicts
<1>11. HistoryInv'
  BY <1>1 DEF HistoryInv, TypeOK
<1>12. TrackInv'
  <2> SUFFICES ASSUME NEW s \in Senders, NEW x \in spam_trackers'[s]
               PROVE  x \in counted' /\ sender'[x] = s
    BY DEF TrackInv
  <2>1. x \in Pushed(m)[s]
    BY <1>6
  <2>2. CASE s = sender[m]
    BY <1>1, <1>2, <2>1, <2>2 DEF Pushed, Backing, TypeOK
  <2>3. CASE s # sender[m]
    BY <1>1, <2>1, <2>3 DEF Pushed, TypeOK, TrackInv
  <2> QED
    BY <2>2, <2>3
<1>13. MutedInOrder'
  <2> SUFFICES ASSUME NEW x \in Messages, verdict'[x] = "MuteTemporary",
                      \A y \in counted \union {m} : ~(sender[y] = sender[x] /\ stamp[y] > stamp[x])
               PROVE  Cardinality(Within(counted \union {m}, sender[x], stamp[x])) > SpamLimit
    <3>1. \A x \in Messages : InWindow(sender[x], stamp[x])'
                               = Within(counted \union {m}, sender[x], stamp[x])
      BY <1>1 DEF InWindow, Within, Backing
    <3> QED
      BY <1>1, <3>1 DEF MutedInOrder
  <2>1. /\ Within(counted \union {m}, sender[x], stamp[x]) \in SUBSET Messages
        /\ Cardinality(Within(counted \union {m}, sender[x], stamp[x])) \in Nat
    BY MessageSets DEF Within, Backing, TypeOK
  <2>2. CASE x = m
    <3>1. Cardinality(Mine(m)) > SpamLimit
      BY <1>1, <2>2 DEF TypeOK
    <3>2. Backing(counted \union {m}, sender[m], stamp[m])
            \subseteq Within(counted \union {m}, sender[m], stamp[m])
      BY <2>2 DEF Backing, Within, TypeOK
    <3>3. Mine(m) \in SUBSET Within(counted \union {m}, sender[m], stamp[m])
      BY <1>2, <3>2
    <3>4. /\ Cardinality(Mine(m)) \in Nat
          /\ Cardinality(Mine(m))
               <= Cardinality(Within(counted \union {m}, sender[m], stamp[m]))
      BY <2>1, <2>2, <3>3, MessageSets
    <3> QED
      BY <2>1, <2>2, <3>1, <3>4, AutoModeratorAssumption
         DEF AutoModeratorAssumption
  <2>3. CASE x # m
    <3>1. Cardinality(Within(counted, sender[x], stamp[x])) > SpamLimit
      <4>1. InWindow(sender[x], stamp[x]) = Within(counted, sender[x], stamp[x])
        BY DEF InWindow, Within, Backing
      <4> QED
        BY <1>1, <2>3, <4>1 DEF MutedInOrder, TypeOK
    <3>2. Within(counted, sender[x], stamp[x])
            \in SUBSET Within(counted \union {m}, sender[x], stamp[x])
      BY DEF Within, Backing
    <3>3. /\ Cardinality(Within(counted, sender[x], stamp[x])) \in Nat
          /\ Cardinality(Within(counted, sender[x], stamp[x]))
               <= Cardinality(Within(counted \union {m}, sender[x], stamp[x]))
      BY <2>1, <3>2, MessageSets
    <3> QED
      BY <2>1, <3>1, <3>3, AutoModeratorAssumption
         DEF AutoModeratorAssumption
  <2> QED
    BY <2>2, <2>3
<1>14. CountCoversHeld'
  <2>1. /\ IsFiniteSet(Held(spam_trackers)) /\ Cardinality(Held(spam_trackers)) \in Nat
        /\ Cardinality(Held(spam_trackers')) \in Nat
    BY <1>9, MessageSets
  <2>2. Cardinality(Held(spam_trackers) \union {m}) <= Cardinality(Held(spam_trackers)) + 1
    <3>1. \/ Cardinality(Held(spam_trackers) \union {m}) = Cardinality(Held(spam_trackers))
          \/ Cardinality(Held(spam_trackers) \union {m}) = Cardinality(Held(spam_trackers)) + 1
      BY <2>1, FS_AddElement, ZenonT(30)
    <3> QED
      BY <2>1, <3>1
  <2>3. /\ Cardinality(Held(spam_trackers')) <= Cardinality(Held(spam_trackers) \union {m})
        /\ Cardinality(Held(spam_trackers) \union {m}) \in Nat
    BY <1>8, <1>9, MessageSets
  <2>4. Held(spam_trackers)' = Held(spam_trackers')
    BY DEF Held
  <2> QED
    BY <1>4, <2>1, <2>2, <2>3, <2>4 DEF CountCoversHeld, TypeOK
<1>15. WindowInv'
  <2> SUFFICES ASSUME NEW x \in counted'
               PROVE  \/ x \in spam_trackers'[sender'[x]]
                      \/ \E y \in counted' : stamp'[x] <= stamp'[y] - SpamWindow
    BY DEF WindowInv
  <2>1. SpamWindow \in Nat \ {0} /\ \A y \in Messages : stamp[y] \in Nat
    BY AutoModeratorAssumption DEF AutoModeratorAssumption, TypeOK
  <2>2. x \in Messages /\ sender[x] \in Senders
    BY <1>1 DEF TypeOK, HistoryInv
  <2>3. CASE x = m
    BY <1>1, <1>4, <2>1, <2>3 DEF Pushed, Mine, Recent, TypeOK
  <2>4. CASE x # m /\ x \notin spam_trackers[sender[x]]
    BY <1>1, <2>4 DEF WindowInv
  <2>5. CASE x # m /\ x \in spam_trackers[sender[x]] /\ stamp[x] <= stamp[m] - SpamWindow
    BY <1>1, <2>5
  <2>6. CASE x # m /\ x \in spam_trackers[sender[x]] /\ stamp[x] > stamp[m] - SpamWindow
    BY <1>1, <1>4, <2>2, <2>6 DEF Pushed, Mine, Recent, TypeOK
  <2> QED
    BY <2>1, <2>2, <2>3, <2>4, <2>5, <2>6
<1> QED
  BY <1>10, <1>11, <1>12, <1>13, <1>14, <1>15

LEMMA IdleInv ==
  ASSUME IInv, Tick \/ UNCHANGED vars
  PROVE  IInv'
<1> USE DEF IInv
<1>1. /\ TypeOK'
      /\ UNCHANGED <<sender, filtered, stamp, counted, verdict, spam_trackers, tracked_count>>
  BY DEF Tick, vars, TypeOK
<1>2. HistoryInv' /\ TrackInv' /\ WindowInv'
  BY <1>1 DEF HistoryInv, TrackInv, WindowInv
<1>3. MutedInOrder'
  BY <1>1 DEF MutedInOrder, InWindow
<1>4. CountCoversHeld'
  BY <1>1 DEF CountCoversHeld, Held
<1> QED
  BY <1>1, <1>2, <1>3, <1>4

LEMMA NextInv == IInv /\ [Next]_vars => IInv'
BY ModerateInv, FilterInv, TrackKeeps, IdleInv DEF Next

THEOREM Invariant == Spec => []IInv
BY InitInv, NextInv, PTL DEF Spec

-----------------------------------------------------------------------------
\* Every variable keeps its type.
THEOREM TypeCorrect == Spec => []TypeOK
<1>1. IInv => TypeOK
  BY DEF IInv
<1> QED
  BY <1>1, Invariant, PTL

\* Whatever the order of the threads and whatever was collected, a temporary
\* mute is backed by more than the limit of counted messages in the window that ends
\* with the message, unless the sender has sent a newer one (process_message).
THEOREM MutedInOrderHolds == Spec => []MutedInOrder
<1>1. IInv => MutedInOrder
  BY DEF IInv
<1> QED
  BY <1>1, Invariant, PTL

\* The count the collector goes by is never less than what is held.
THEOREM CountCoversHeldHolds == Spec => []CountCoversHeld
<1>1. IInv => CountCoversHeld
  BY DEF IInv
<1> QED
  BY <1>1, Invariant, PTL

-----------------------------------------------------------------------------
\* What the sender's tracker holds after the erasure is not before the window, and it
\* is the window unless a message with a later stamp came first.
LEMMA TrackerIsWindow ==
  ASSUME IInv, NEW m \in Messages, Track(m)
  PROVE  /\ Mine(m) \subseteq Window!Since(m)
         /\ ~Window!Late(m) => Mine(m) = Window!InWindow(m)
<1> USE DEF IInv
<1>1. /\ sender[m] \in Senders
      /\ Mine(m) \subseteq Backing(counted \union {m}, sender[m], stamp[m])
  BY TrackStep
<1>2. SpamWindow \in Nat \ {0} /\ \A y \in Messages : stamp[y] \in Nat
  BY AutoModeratorAssumption DEF AutoModeratorAssumption, TypeOK
<1>3. Mine(m) \subseteq Window!Since(m)
  BY <1>1 DEF Backing, Window!Since
<1>4. ASSUME ~Window!Late(m), NEW x \in Window!InWindow(m), x # m
      PROVE  x \in Mine(m)
  <2>1. x \in counted /\ sender[x] = sender[m] /\ stamp[x] > stamp[m] - SpamWindow
    BY <1>4 DEF Window!InWindow, Window!Since
  <2>2. \A y \in counted : ~(stamp[x] <= stamp[y] - SpamWindow)
    BY <1>2, <1>4, <2>1 DEF TypeOK, Window!Late
  <2>3. x \in spam_trackers[sender[m]]
    BY <2>1, <2>2 DEF WindowInv
  <2> QED
    BY <2>1, <2>3 DEF Mine, Recent
<1>5. ASSUME ~Window!Late(m), NEW x \in Mine(m)
      PROVE  x \in Window!InWindow(m)
  BY <1>2, <1>3, <1>5 DEF Window!InWindow, Window!Since, Window!Late, TypeOK
<1> QED
  BY <1>3, <1>4, <1>5 DEF Mine

\* The abstract module counts with the same cardinality.
LEMMA SameCardinality ==
  \A S : Window!Cardinality(S) = Cardinality(S)
BY Zenon DEF Window!Cardinality, Cardinality

\* The detailed step is a step of the promise, or leaves what it speaks of alone.
LEMMA StepImplements ==
  ASSUME IInv, [Next]_vars
  PROVE  [Window!SNext]_Window!svars
<1> USE DEF IInv
<1>1. ASSUME NEW m \in Messages, NEW s \in Senders, NEW f \in BOOLEAN,
             NEW rank \in CoreRanks, NEW t \in CallerStamps \union {clock},
             Moderate(m, s, f, rank, t)
      PROVE  Window!Arrives(m)
  <2>1. sender'[m] = s /\ stamp'[m] = t
    BY <1>1 DEF Moderate, TypeOK
  <2>2. filtered' \in {filtered, [filtered EXCEPT ![m] = TRUE]}
    <3>1. filtered[m] = FALSE
      BY <1>1, AutoModeratorAssumption
         DEF AutoModeratorAssumption, Moderate, TypeOK, HistoryInv
    <3>2. CASE f = FALSE
      <4>1. filtered' = filtered
        BY <1>1, <3>1, <3>2 DEF Moderate, TypeOK
      <4> QED
        BY <4>1
    <3>3. CASE f = TRUE
      BY <1>1, <3>3 DEF Moderate
    <3> QED
      BY <3>2, <3>3
  <2> QED
    BY <1>1, <2>1, <2>2 DEF Moderate, Window!Arrives
<1>2. ASSUME NEW m \in Messages, FilterHit(m)
      PROVE  Window!IsFiltered(m)
  BY <1>2 DEF FilterHit, Pending, Window!IsFiltered
<1>3. ASSUME NEW m \in Messages, Track(m)
      PROVE  Window!IsCounted(m)
  <2>1. /\ sender[m] # NoSender /\ verdict[m] = "none" /\ ~filtered[m]
        /\ counted' = counted \union {m}
        /\ UNCHANGED <<sender, filtered, stamp>>
    BY <1>3 DEF Track, Pending
  <2>2. verdict' = [verdict EXCEPT ![m] =
          IF Cardinality(Mine(m)) > SpamLimit THEN "MuteTemporary" ELSE "Allow"]
    BY <1>3, TrackStep
  <2>3. /\ Cardinality(Mine(m)) \in Nat
        /\ Cardinality(Window!Since(m)) \in Nat
        /\ Cardinality(Mine(m)) <= Cardinality(Window!Since(m))
    <3>1. Window!Since(m) \in SUBSET Messages
      BY DEF Window!Since, TypeOK
    <3>2. Mine(m) \in SUBSET Window!Since(m)
      BY <1>3, TrackerIsWindow
    <3> QED
      BY <3>1, <3>2, MessageSets
  <2>4. Window!Late(m) \/ Cardinality(Mine(m)) = Cardinality(Window!InWindow(m))
    BY <1>3, TrackerIsWindow, Zenon
  <2>5. SpamLimit \in Nat
    BY AutoModeratorAssumption DEF AutoModeratorAssumption
  <2>6. \/ /\ Cardinality(Window!InWindow(m)) > SpamLimit
           /\ verdict' = [verdict EXCEPT ![m] = "MuteTemporary"]
        \/ /\ Cardinality(Window!InWindow(m)) <= SpamLimit \/ Window!Late(m)
           /\ verdict' = [verdict EXCEPT ![m] = "Allow"]
        \/ /\ Window!Overtaken(m) /\ Cardinality(Window!Since(m)) > SpamLimit
           /\ verdict' = [verdict EXCEPT ![m] = "MuteTemporary"]
    <3>1. CASE Cardinality(Mine(m)) > SpamLimit
      <4>1. verdict' = [verdict EXCEPT ![m] = "MuteTemporary"]
        BY <2>2, <3>1, Zenon
      <4>2. Cardinality(Window!Since(m)) > SpamLimit
        BY <2>3, <2>5, <3>1
      <4>3. Window!Overtaken(m) \/ Cardinality(Window!InWindow(m)) > SpamLimit
        BY <4>2, Zenon DEF Window!Overtaken
      <4> QED
        BY <4>1, <4>2, <4>3, Zenon
    <3>2. CASE ~(Cardinality(Mine(m)) > SpamLimit)
      <4>1. verdict' = [verdict EXCEPT ![m] = "Allow"]
        BY <2>2, <3>2, Zenon
      <4>2. Cardinality(Mine(m)) <= SpamLimit
        BY <2>3, <2>5, <3>2
      <4>3. Cardinality(Window!InWindow(m)) <= SpamLimit \/ Window!Late(m)
        BY <2>4, <4>2, Zenon
      <4> QED
        BY <4>1, <4>3, Zenon
    <3> QED
      BY <3>1, <3>2, Zenon
  <2>7. \/ /\ Window!Cardinality(Window!InWindow(m)) > SpamLimit
           /\ verdict' = [verdict EXCEPT ![m] = "MuteTemporary"]
        \/ /\ Window!Cardinality(Window!InWindow(m)) <= SpamLimit \/ Window!Late(m)
           /\ verdict' = [verdict EXCEPT ![m] = "Allow"]
        \/ /\ Window!Overtaken(m) /\ Window!Cardinality(Window!Since(m)) > SpamLimit
           /\ verdict' = [verdict EXCEPT ![m] = "MuteTemporary"]
    <3>1. /\ Window!Cardinality(Window!InWindow(m)) = Cardinality(Window!InWindow(m))
          /\ Window!Cardinality(Window!Since(m)) = Cardinality(Window!Since(m))
      BY SameCardinality
    <3> QED
      BY <2>6, <3>1, Zenon
  <2> QED
    BY <2>1, <2>7, Zenon DEF Window!IsCounted
<1>4. CASE Tick \/ UNCHANGED vars
  BY <1>4 DEF Tick, vars, Window!svars
<1> QED
  BY <1>1, <1>2, <1>3, <1>4 DEF Next, Window!SNext

\* The tracker, with its erasures and its collector, gives the verdicts of the
\* sliding window in every interleaving of the threads: exactly those for messages in
\* the order of their stamps, and what SlidingWindow allows for late ones.
THEOREM ImplementsWindowHolds == Spec => ImplementsWindow
<1>1. Init => Window!SInit
  BY DEF Init, Window!SInit
<1>2. IInv /\ [Next]_vars => [Window!SNext]_Window!svars
  BY StepImplements
<1> QED
  BY <1>1, <1>2, Invariant, PTL DEF Spec, ImplementsWindow, Window!SSpec
=============================================================================

--------------------------- MODULE RpServiceProofs ---------------------------
(* Theorems about RpService, for any requests, triggers and defaults.        *)
EXTENDS RpService, FiniteSetTheorems, TLAPS

-----------------------------------------------------------------------------
(* Types.                                                                    *)

Typed == request \in [Requests -> RequestType]

\* The ways a thread goes on keep its type.
LEMMA ThreadTyped ==
  ASSUME Typed, NEW r \in Requests
  PROVE  /\ \A s \in Stages : Go(r, s) => Typed'
         /\ \A a \in Answers : Answer(r, a) => Typed'
         /\ StartSeeding(r) => Typed'
         /\ \A t : NextLeft(r, t) => Typed'
<1> USE DEF Typed
<1>1. request[r] \in RequestType
  OBVIOUS
<1>2. \A s \in Stages : [request[r] EXCEPT !.stage = s] \in RequestType
  BY <1>1 DEF RequestType
<1>3. \A s \in Stages, a \in Answers :
        [request[r] EXCEPT !.stage = s, !.answer = a] \in RequestType
  BY <1>1 DEF RequestType
<1>4. \A s \in Stages, l \in SUBSET Defaults :
        [request[r] EXCEPT !.stage = s, !.left = l] \in RequestType
  BY <1>1 DEF RequestType
<1>5. \A s \in Stages : Go(r, s) => Typed'
  BY <1>2 DEF Go
<1>6. \A a \in Answers : Answer(r, a) => Typed'
  BY <1>3 DEF Answer, Stages
<1>7. ASSUME StartSeeding(r) PROVE Typed'
  <2> DEFINE s == IF Defaults = {} THEN "act" ELSE "seed"
  <2>1. [request[r] EXCEPT !.stage = s, !.left = Defaults] \in RequestType
    BY <1>4 DEF Stages
  <2>2. request' = [request EXCEPT ![r] = [request[r] EXCEPT !.stage = s, !.left = Defaults]]
    BY <1>7 DEF StartSeeding
  <2> HIDE DEF s
  <2> QED
    BY <2>1, <2>2
<1>8. ASSUME NEW t, NextLeft(r, t) PROVE Typed'
  <2> DEFINE left == request[r].left \ {t}
             s == IF left = {} THEN "mark" ELSE "seed"
  <2>1. left \in SUBSET Defaults /\ s \in Stages
    BY <1>1 DEF RequestType, Stages
  <2>2. [request[r] EXCEPT !.stage = s, !.left = left] \in RequestType
    BY <2>1, <1>4
  <2>3. request' = [request EXCEPT ![r] = [request[r] EXCEPT !.stage = s, !.left = left]]
    BY <1>8 DEF NextLeft
  <2> HIDE DEF left, s
  <2> QED
    BY <2>2, <2>3
<1> QED
  BY <1>5, <1>6, <1>7, <1>8

LEMMA TypeInit == Init => TypeOK
<1>1. Idle \in RequestType
  BY DEF Idle, RequestType, Stages, Answers
<1> QED
  BY <1>1 DEF Init, TypeOK

LEMMA TypeStep == TypeOK /\ [Next]_vars => TypeOK'
<1> SUFFICES ASSUME TypeOK, [Next]_vars PROVE TypeOK'
  OBVIOUS
<1>0. Typed
  BY DEF TypeOK, Typed
<1> USE RpServiceAssumption
<1>1. CASE UNCHANGED vars
  BY <1>1 DEF vars, TypeOK, RequestType
<1>2. ASSUME NEW r \in Requests, NEW op \in Operations, NEW t \in Triggers, Begin(r, op, t)
      PROVE  TypeOK'
  BY <1>2 DEF Begin, FirstStage, TypeOK, RequestType, Stages, Answers
<1>3. ASSUME NEW r \in Requests, Refuse(r) \/ Step(r) PROVE TypeOK'
  <2>1. Typed'
    BY <1>0, <1>3, ThreadTyped
       DEF Refuse, Step, IsSeeded, Seed, Mark, Read, AddChecks, EditChecks, Store,
           SetAnswer, Remove, Stages, Answers
  <2>2. commands' \in [Triggers -> Requests \union {DefaultText, Absent}]
    BY <1>3 DEF Refuse, Step, IsSeeded, Seed, AddIfAbsent, Mark, Read, AddChecks,
                EditChecks, Store, SetCommand, Remove, TypeOK
  <2>3. seeded' \in BOOLEAN /\ failed' \in BOOLEAN
    BY <1>3 DEF Refuse, Step, IsSeeded, Seed, Mark, Read, AddChecks, EditChecks, Store,
                Remove, Reply, Error, TypeOK
  <2> QED
    BY <2>1, <2>2, <2>3 DEF TypeOK, Typed
<1>4. CASE Restart
  <2>1. \A r \in Requests : [request[r] EXCEPT !.stage = "lost"] \in RequestType
    BY <1>0 DEF Typed, RequestType, Stages
  <2> QED
    BY <1>0, <1>4, <2>1 DEF Restart, Typed, TypeOK
<1> QED
  BY <1>1, <1>2, <1>3, <1>4 DEF Next

\* Every variable keeps its type (rp_service.cpp, redis_storage.cpp): nothing but
\* responses and defaults is stored, and seeding is about the defaults only.
THEOREM TypeCorrect == Spec => []TypeOK
BY TypeInit, TypeStep, PTL DEF Spec

-----------------------------------------------------------------------------
(* A seeded chat has its defaults.                                           *)

\* The default is there, or there is a reason why not.
Excused(t) == Of("remove", t) # {} \/ failed
Settled(t) == Exists(t) \/ Excused(t)

\* What a thread that seeds knows.
Progress(r) ==
  /\ At(r, "seed") => \A t \in Defaults \ request[r].left : Settled(t)
  /\ At(r, "mark") \/ (At(r, "act") /\ request[r].op = "read")
       => \A t \in Defaults : Settled(t)

\* A thread that has not begun has no operation and no answer.
Fresh(r) == At(r, "idle") => request[r] = Idle

IInv ==
  /\ TypeOK
  /\ seeded => \A t \in Defaults : Settled(t)
  /\ \A r \in Requests : Progress(r) /\ Fresh(r)
  /\ DefaultsFound

\* A thread keeps its operation and its trigger, and the others keep everything.
LEMMA OperationKept ==
  ASSUME Typed, NEW r \in Requests, Refuse(r) \/ Step(r)
  PROVE  /\ \A q \in Requests : /\ request'[q].op = request[q].op
                               /\ request'[q].trigger = request[q].trigger
         /\ \A q \in Requests \ {r} : request'[q] = request[q]
<1> DEFINE Kept == /\ \A q \in Requests : /\ request'[q].op = request[q].op
                                          /\ request'[q].trigger = request[q].trigger
                  /\ \A q \in Requests \ {r} : request'[q] = request[q]
<1>0. request \in [Requests -> RequestType]
  BY DEF Typed
<1>1. \A s : Go(r, s) => Kept
  BY <1>0 DEF Go, RequestType
<1>2. \A a : Answer(r, a) => Kept
  BY <1>0 DEF Answer, RequestType
<1>3. StartSeeding(r) => Kept
  BY <1>0 DEF StartSeeding, RequestType
<1>4. \A t : NextLeft(r, t) => Kept
  BY <1>0 DEF NextLeft, RequestType
<1> HIDE DEF Kept
<1>5. Kept
  BY <1>1, <1>2, <1>3, <1>4
     DEF Refuse, Step, IsSeeded, Seed, Mark, Read, AddChecks, EditChecks, Store, Remove
<1> QED
  BY <1>5 DEF Kept

\* A thread keeps its operation, and adds and edits remove nothing.
LEMMA SettledStays ==
  ASSUME IInv, [Next]_vars, NEW t \in Triggers
  PROVE  /\ Excused(t) => Excused(t)'
         /\ Settled(t) => Settled(t)'
<1> USE DEF Settled, Excused, Exists
<1>1. CASE UNCHANGED vars
  BY <1>1 DEF vars, Of
<1>2. ASSUME NEW r \in Requests, NEW op \in Operations, NEW u \in Triggers, Begin(r, op, u)
      PROVE  Of("remove", t) \subseteq Of("remove", t)' /\ UNCHANGED <<commands, failed>>
  BY <1>2 DEF IInv, TypeOK, Begin, Fresh, Idle, Of
<1>3. ASSUME NEW r \in Requests, Refuse(r) \/ Step(r)
      PROVE  (Excused(t) => Excused(t)') /\ (Settled(t) => Settled(t)')
  <2>1. Of("remove", t) \subseteq Of("remove", t)'
    BY <1>3, OperationKept DEF IInv, TypeOK, Typed, Of
  <2>2. failed => failed'
    BY <1>3 DEF Refuse, Step, IsSeeded, Seed, Mark, Read, AddChecks, EditChecks, Store, Remove,
                Reply, Error
  <2>3. CASE ~Remove(r)
    <3>1. Exists(t) => Exists(t)'
      BY <1>3, <2>3, RpServiceAssumption
         DEF IInv, TypeOK, Refuse, Step, IsSeeded, Seed, AddIfAbsent, Mark, Read, AddChecks,
             EditChecks, Store, SetCommand
    <3> QED
      BY <2>1, <2>2, <3>1
  <2>4. CASE Remove(r)
    <3>1. request[r].trigger # t => commands'[t] = commands[t]
      BY <2>4 DEF IInv, TypeOK, Remove
    <3>2. request[r].trigger = t => r \in Of("remove", t)
      BY <2>4 DEF Remove, Of
    <3> QED
      BY <2>1, <2>2, <3>1, <3>2
  <2> QED
    BY <2>3, <2>4
<1>4. CASE Restart
  BY <1>4 DEF IInv, TypeOK, RequestType, Restart, Of
<1> QED
  BY <1>1, <1>2, <1>3, <1>4 DEF Next

LEMMA IInvInit == Init => IInv
BY TypeInit DEF Init, IInv, Settled, Excused, Progress, Fresh, DefaultsFound, At, Of, Idle

\* Where a thread is after it went on or answered.
LEMMA ThreadMoves ==
  ASSUME Typed, NEW r \in Requests
  PROVE  /\ \A s : Go(r, s) => request'[r].stage = s /\ request'[r].answer = request[r].answer
         /\ \A a : Answer(r, a) => request'[r].stage = "done" /\ request'[r].answer = a
         /\ StartSeeding(r) => /\ request'[r].stage \in {"act", "seed"}
                               /\ request'[r].stage = "act" => Defaults = {}
                               /\ request'[r].left = Defaults
                               /\ request'[r].answer = request[r].answer
         /\ \A t : NextLeft(r, t) => request'[r].answer = request[r].answer
BY DEF Typed, RequestType, Go, Answer, StartSeeding, NextLeft

\* The thread that moves, step by step.
LEMMA ThreadProgress ==
  ASSUME IInv, [Next]_vars, NEW r \in Requests, Refuse(r) \/ Step(r)
  PROVE  Progress(r)' /\ Fresh(r)'
<1>1. \A t \in Defaults : Settled(t) => Settled(t)'
  BY SettledStays, RpServiceAssumption
<1>2. request \in [Requests -> RequestType] /\ Progress(r)
  BY DEF IInv, TypeOK
<1>3. request'[r].op = request[r].op
  BY <1>2, OperationKept DEF Typed
<1>4. CASE IsSeeded(r)
  <2>1. CASE seeded /\ Go(r, "act")
    <3>1. At(r, "act")' /\ \A t \in Defaults : Settled(t)'
      BY <1>1, <1>2, <2>1 DEF IInv, Go, At
    <3> QED
      BY <3>1 DEF Progress, Fresh, At
  <2>2. CASE StartSeeding(r)
    <3>1. /\ request'[r].left = Defaults
          /\ request'[r].stage = "seed" \/ (request'[r].stage = "act" /\ Defaults = {})
      BY <1>2, <2>2, ThreadMoves DEF Typed
    <3> QED
      BY <3>1 DEF Progress, Fresh, At
  <2> QED
    BY <1>4, <2>1, <2>2 DEF IsSeeded
<1>5. CASE Seed(r)
  <2>1. PICK t \in request[r].left :
          /\ \/ Reply /\ AddIfAbsent(t)
             \/ Error /\ (AddIfAbsent(t) \/ UNCHANGED commands)
          /\ NextLeft(r, t)
    BY <1>5 DEF Seed
  <2>2. t \in Defaults /\ t \in Triggers
    BY <1>2, RpServiceAssumption DEF RequestType
  <2>3. Settled(t)'
    BY <2>1, <2>2, RpServiceAssumption DEF IInv, TypeOK, AddIfAbsent, Error, Settled, Excused, Exists
  <2>4. \A u \in Defaults \ (request[r].left \ {t}) : Settled(u)'
    BY <1>1, <1>2, <1>5, <2>3 DEF Progress, Seed, At
  <2>5. /\ request'[r].left = request[r].left \ {t}
        /\ request'[r].stage = IF request[r].left \ {t} = {} THEN "mark" ELSE "seed"
    BY <1>2, <2>1 DEF NextLeft, RequestType
  <2> QED
    BY <2>4, <2>5 DEF Progress, Fresh, At
<1>6. CASE Mark(r)
  <2>1. At(r, "mark") /\ Go(r, "act")
    BY <1>6 DEF Mark
  <2>2. request'[r].stage = "act"
    BY <1>2, <2>1, ThreadMoves DEF Typed
  <2>3. \A t \in Defaults : Settled(t)'
    BY <1>1, <1>2, <2>1 DEF Progress
  <2> QED
    BY <2>2, <2>3 DEF Progress, Fresh, At
<1>7. CASE Refuse(r) \/ Read(r) \/ AddChecks(r) \/ EditChecks(r) \/ Store(r) \/ Remove(r)
  <2>1. request'[r].stage \in {"done", "store"}
    <3>1. Go(r, "store") \/ \E a : Answer(r, a)
      BY <1>7 DEF Refuse, Read, AddChecks, EditChecks, Store, Remove
    <3> QED
      BY <1>2, <3>1, ThreadMoves DEF Typed
  <2> QED
    BY <2>1 DEF Progress, Fresh, At
<1> QED
  BY <1>4, <1>5, <1>6, <1>7 DEF Step

LEMMA IInvStep == IInv /\ [Next]_vars => IInv'
<1> SUFFICES ASSUME IInv, [Next]_vars PROVE IInv'
  OBVIOUS
<1>1. TypeOK'
  BY TypeStep DEF IInv
<1>2. \A t \in Defaults : Settled(t) => Settled(t)'
  BY SettledStays, RpServiceAssumption
<1>3. request \in [Requests -> RequestType]
  BY DEF IInv, TypeOK
<1>4. seeded' => \A t \in Defaults : Settled(t)'
  <2>1. UNCHANGED seeded \/ \E r \in Requests : Mark(r)
    BY DEF vars, Next, Begin, Refuse, Step, IsSeeded, Seed, Read, AddChecks, EditChecks,
           Store, Remove, Restart
  <2>2. seeded' => \A t \in Defaults : Settled(t)
    BY <2>1 DEF IInv, Progress, Mark
  <2> QED
    BY <1>2, <2>2
<1>5. ASSUME NEW q \in Requests PROVE Progress(q)' /\ Fresh(q)'
  <2>1. ASSUME request'[q] = request[q] PROVE Progress(q)' /\ Fresh(q)'
    BY <1>2, <2>1 DEF IInv, Progress, Fresh, At
  <2>2. CASE UNCHANGED vars
    BY <2>1, <2>2 DEF vars
  <2>3. ASSUME NEW r \in Requests, NEW op \in Operations, NEW t \in Triggers, Begin(r, op, t)
        PROVE  Progress(q)' /\ Fresh(q)'
    <3>1. CASE q # r
      BY <1>3, <2>1, <2>3, <3>1 DEF Begin
    <3>2. CASE q = r
      <4>1. request'[q].op = op /\ request'[q].stage = FirstStage(op)
        BY <1>3, <2>3, <3>2 DEF Begin
      <4> QED
        BY <4>1 DEF FirstStage, Progress, Fresh, At
    <3> QED
      BY <3>1, <3>2
  <2>4. ASSUME NEW r \in Requests, Refuse(r) \/ Step(r)
        PROVE  Progress(q)' /\ Fresh(q)'
    <3>1. q # r => request'[q] = request[q]
      BY <1>3, <2>4, OperationKept DEF Typed
    <3> QED
      BY <2>1, <2>4, <3>1, ThreadProgress
  <2>5. CASE Restart
    <3>1. request'[q] = request[q] \/ request'[q].stage = "lost"
      BY <1>3, <2>5 DEF Restart, RequestType
    <3> QED
      BY <2>1, <3>1 DEF Progress, Fresh, At
  <2> QED
    BY <2>2, <2>3, <2>4, <2>5 DEF Next
<1>6. ASSUME NEW t \in Defaults, NEW q \in Of("read", t)', request'[q].answer = "absent"
      PROVE  Excused(t)'
  <2>1. Excused(t) => Excused(t)'
    BY SettledStays, RpServiceAssumption
  <2>2. q \in Requests /\ request'[q].op = "read" /\ request'[q].trigger = t
    BY DEF Of
  <2>3. ASSUME request[q].op = "read", request[q].trigger = t, request[q].answer = "absent"
        PROVE  Excused(t)'
    BY <2>1, <2>2, <2>3 DEF IInv, DefaultsFound, Of, Excused
  <2>4. CASE UNCHANGED vars
    BY <1>6, <2>2, <2>3, <2>4 DEF vars
  <2>5. ASSUME NEW r \in Requests, NEW op \in Operations, NEW u \in Triggers, Begin(r, op, u)
        PROVE  Excused(t)'
    BY <1>3, <1>6, <2>2, <2>3, <2>5 DEF Begin
  <2>6. ASSUME NEW r \in Requests, Refuse(r) \/ Step(r) PROVE Excused(t)'
    <3>1. request[q].op = "read" /\ request[q].trigger = t
      BY <1>3, <2>2, <2>6, OperationKept DEF Typed
    <3>2. CASE q # r
      BY <1>3, <1>6, <2>2, <2>3, <2>6, <3>1, <3>2, OperationKept DEF Typed
    <3>3. CASE q = r /\ Read(q)
      <4>1. Settled(t) /\ request[q].trigger = t
        BY <2>2, <3>1, <3>3 DEF IInv, Progress, Read
      <4>2. failed' \/ ~Exists(t)
        BY <1>3, <1>6, <2>2, <3>1, <3>3, ThreadMoves DEF Typed, Read, Error
      <4> QED
        BY <2>1, <4>1, <4>2 DEF Settled, Excused
    <3>4. CASE q = r /\ ~Read(q)
      <4>1. \/ Answer(q, "refused") \/ Answer(q, "exists") \/ Answer(q, "missing")
            \/ Answer(q, "ok") \/ Answer(q, "unsaved")
            \/ StartSeeding(q) \/ (\E s : Go(q, s)) \/ (\E u : NextLeft(q, u))
        BY <2>6, <3>4 DEF Refuse, Step, IsSeeded, Seed, Mark, AddChecks, EditChecks, Store,
                          SetAnswer, Remove
      <4>2. request[q].answer = "absent"
        BY <1>3, <1>6, <2>2, <4>1, ThreadMoves DEF Typed
      <4> QED
        BY <2>3, <3>1, <4>2
    <3> QED
      BY <3>2, <3>3, <3>4
  <2>7. CASE Restart
    <3>1. /\ request[q].op = request'[q].op
          /\ request[q].trigger = request'[q].trigger
          /\ request[q].answer = request'[q].answer
      BY <1>3, <2>2, <2>7 DEF Restart, RequestType
    <3> QED
      BY <1>6, <2>2, <2>3, <3>1
  <2> QED
    BY <2>4, <2>5, <2>6, <2>7 DEF Next
<1> QED
  BY <1>1, <1>4, <1>5, <1>6 DEF IInv, DefaultsFound, Excused

\* A default is missing for a reader only if it was removed or Redis has failed,
\* however the threads that seed the chat are interleaved and cut off by restarts
\* (seedDefaults): the mark is set after the last default.
THEOREM DefaultsFoundHolds == Spec => []DefaultsFound
<1>1. IInv => DefaultsFound
  BY DEF IInv
<1> QED
  BY <1>1, IInvInit, IInvStep, PTL DEF Spec

-----------------------------------------------------------------------------
\* Seeding never puts a default over a response (redis_storage.h 32-33).
THEOREM SeedKeepsResponsesHolds == Spec => SeedKeepsResponses
<1>1. TypeOK /\ [Next]_vars =>
        [\A t \in Triggers : commands[t] \in Requests => commands'[t] # DefaultText]_vars
  <2> SUFFICES ASSUME TypeOK, Next, NEW t \in Triggers, commands[t] \in Requests
               PROVE  commands'[t] # DefaultText
    OBVIOUS
  <2>1. ASSUME NEW r \in Requests, Step(r) PROVE commands'[t] # DefaultText
    BY <2>1, RpServiceAssumption
       DEF TypeOK, Step, IsSeeded, Seed, AddIfAbsent, Exists, Mark, Read, AddChecks, EditChecks,
           Store, SetCommand, Remove
  <2>2. CASE UNCHANGED commands
    BY <2>2, RpServiceAssumption
  <2> QED
    BY <2>1, <2>2 DEF Next, Begin, Refuse, Restart
<1> QED
  BY <1>1, TypeCorrect, PTL DEF Spec, SeedKeepsResponses

-----------------------------------------------------------------------------
(* One add of a trigger is told that it has succeeded.                       *)

Begun == {r \in Requests : ~At(r, "idle")}
OkAdds(t) == {r \in Of("add", t) : request[r].answer = "ok"}
RemovedBy(t) == {r \in Of("remove", t) : At(r, "done")}

\* Every add that was told so has made the command, and every other command in
\* between was removed.
Counted(t) ==
  Cardinality(OkAdds(t)) <= Cardinality(RemovedBy(t)) + (IF Exists(t) THEN 1 ELSE 0)

AddInv == IsFiniteSet(Begun) /\ \A t \in Triggers : Counted(t)

\* The sets that are counted are finite.
LEMMA CountsFinite ==
  ASSUME IInv, IsFiniteSet(Begun), NEW t \in Triggers
  PROVE  /\ IsFiniteSet(OkAdds(t)) /\ Cardinality(OkAdds(t)) \in Nat
         /\ IsFiniteSet(RemovedBy(t)) /\ Cardinality(RemovedBy(t)) \in Nat
         /\ IsFiniteSet(Of("remove", t)) /\ Cardinality(Of("remove", t)) \in Nat
         /\ Cardinality(RemovedBy(t)) <= Cardinality(Of("remove", t))
<1>1. Of("add", t) \subseteq Begun /\ Of("remove", t) \subseteq Begun
  BY DEF IInv, Fresh, Idle, Of, Begun, At
<1>2. OkAdds(t) \subseteq Begun /\ RemovedBy(t) \subseteq Of("remove", t)
  BY <1>1 DEF OkAdds, RemovedBy
<1> QED
  BY <1>1, <1>2, FS_Subset, FS_CardinalityType

LEMMA BegunFinite == TypeOK /\ IsFiniteSet(Begun) /\ [Next]_vars => IsFiniteSet(Begun')
<1> SUFFICES ASSUME TypeOK, IsFiniteSet(Begun), [Next]_vars PROVE IsFiniteSet(Begun')
  OBVIOUS
<1>1. \A r \in Requests : IsFiniteSet(Begun \union {r})
  BY FS_AddElement
<1>2. ASSUME NEW r \in Requests, \A q \in Requests \ {r} : request'[q] = request[q]
      PROVE  IsFiniteSet(Begun')
  <2>1. Begun' \subseteq Begun \union {r}
    BY <1>2 DEF Begun, At
  <2> QED
    BY <1>1, <2>1, FS_Subset
<1>3. ASSUME Begun' \subseteq Begun PROVE IsFiniteSet(Begun')
  BY <1>3, FS_Subset
<1>4. CASE UNCHANGED vars
  BY <1>3, <1>4 DEF vars, Begun, At
<1>5. ASSUME NEW r \in Requests, NEW op \in Operations, NEW t \in Triggers, Begin(r, op, t)
      PROVE  IsFiniteSet(Begun')
  BY <1>2, <1>5 DEF Begin, TypeOK
<1>6. ASSUME NEW r \in Requests, Refuse(r) \/ Step(r) PROVE IsFiniteSet(Begun')
  BY <1>2, <1>6, OperationKept DEF TypeOK, Typed
<1>7. CASE Restart
  BY <1>3, <1>7 DEF Restart, Begun, At, Active
<1> QED
  BY <1>4, <1>5, <1>6, <1>7 DEF Next

\* Fewer adds, more removals and a command that is there keep the count.
LEMMA CountKept ==
  ASSUME NEW A, NEW A2, NEW B, NEW B2, NEW e \in {0, 1}, NEW e2 \in {0, 1},
         IsFiniteSet(A), A2 \subseteq A, IsFiniteSet(B2), B \subseteq B2, e <= e2,
         Cardinality(A) <= Cardinality(B) + e
  PROVE  Cardinality(A2) <= Cardinality(B2) + e2
<1>1. IsFiniteSet(A2) /\ Cardinality(A2) <= Cardinality(A) /\ IsFiniteSet(B)
        /\ Cardinality(B) <= Cardinality(B2)
  BY FS_Subset
<1>2. /\ Cardinality(A) \in Nat /\ Cardinality(A2) \in Nat
      /\ Cardinality(B) \in Nat /\ Cardinality(B2) \in Nat
  BY <1>1, FS_CardinalityType
<1> HIDE DEF Cardinality
<1> QED
  BY <1>1, <1>2

\* A store is told a success if the command was not there, and a removal makes up
\* for the command that goes.
LEMMA CountedThread ==
  ASSUME IInv, AddInv, NEW t \in Triggers, NEW r \in Requests, Refuse(r) \/ Step(r)
  PROVE  Counted(t)'
<1> DEFINE there == IF Exists(t) THEN 1 ELSE 0
           there2 == IF Exists(t)' THEN 1 ELSE 0
<1>1. request \in [Requests -> RequestType] /\ Typed
  BY DEF IInv, TypeOK, Typed
<1>2. /\ \A q \in Requests : /\ request'[q].op = request[q].op
                             /\ request'[q].trigger = request[q].trigger
      /\ \A q \in Requests \ {r} : request'[q] = request[q]
  BY <1>1, OperationKept
<1>3. /\ IsFiniteSet(OkAdds(t)) /\ Cardinality(OkAdds(t)) \in Nat
      /\ IsFiniteSet(RemovedBy(t)) /\ Cardinality(RemovedBy(t)) \in Nat
      /\ Cardinality(OkAdds(t)) <= Cardinality(RemovedBy(t)) + there
  BY CountsFinite DEF AddInv, Counted
<1>4. request[r].stage # "done"
  BY DEF Refuse, Step, IsSeeded, Seed, Mark, Read, AddChecks, EditChecks, Store, Remove, At
<1>5. /\ RemovedBy(t) \subseteq RemovedBy(t)'
      /\ RemovedBy(t)' \subseteq RemovedBy(t) \union {r}
      /\ OkAdds(t)' \subseteq OkAdds(t) \union {r}
  BY <1>2, <1>4 DEF RemovedBy, OkAdds, Of, At
<1>6. IsFiniteSet(RemovedBy(t)') /\ IsFiniteSet(OkAdds(t)')
  BY <1>3, <1>5, FS_AddElement, FS_Subset
<1>7. ASSUME OkAdds(t)' \subseteq OkAdds(t), Exists(t) => Exists(t)'
      PROVE  Counted(t)'
  <2>1. there \in {0, 1} /\ there2 \in {0, 1} /\ there <= there2
    BY <1>7
  <2> HIDE DEF there, there2
  <2>2. Cardinality(OkAdds(t)') <= Cardinality(RemovedBy(t)') + there2
    BY <1>3, <1>5, <1>6, <1>7, <2>1, CountKept
  <2> QED
    BY <2>2 DEF Counted, there2
<1>8. CASE Remove(r) /\ request[r].trigger = t
  <2>1. OkAdds(t)' \subseteq OkAdds(t)
    BY <1>2, <1>8 DEF Remove, OkAdds, Of
  <2>2. r \notin RemovedBy(t)
    BY <1>4 DEF RemovedBy, At
  <2>3. RemovedBy(t)' = RemovedBy(t) \union {r}
    <3>1. request'[r].stage = "done" /\ request[r].op = "remove"
      BY <1>1, <1>8, ThreadMoves DEF Remove
    <3> QED
      BY <1>2, <1>5, <1>8, <3>1 DEF RemovedBy, Of, At
  <2>4. Cardinality(RemovedBy(t)') = Cardinality(RemovedBy(t)) + 1
    BY <1>3, <2>2, <2>3, FS_AddElement
  <2>5. Cardinality(OkAdds(t)') <= Cardinality(OkAdds(t))
          /\ Cardinality(OkAdds(t)') \in Nat
    BY <1>3, <1>6, <2>1, FS_Subset, FS_CardinalityType
  <2>6. there \in {0, 1} /\ there2 \in {0, 1}
    OBVIOUS
  <2> HIDE DEF there, there2
  <2>7. Cardinality(OkAdds(t)') <= Cardinality(RemovedBy(t)') + there2
    BY <1>3, <2>4, <2>5, <2>6
  <2> QED
    BY <2>7 DEF Counted, there2
<1>9. CASE Remove(r) /\ request[r].trigger # t
  <2>1. OkAdds(t)' \subseteq OkAdds(t)
    BY <1>2, <1>9 DEF Remove, OkAdds, Of
  <2>2. commands'[t] = commands[t]
    BY <1>9 DEF IInv, TypeOK, Remove
  <2> QED
    BY <1>7, <2>1, <2>2 DEF Exists
<1>10. ASSUME ~Remove(r) PROVE Exists(t) => Exists(t)'
  BY <1>10, RpServiceAssumption
     DEF IInv, TypeOK, Refuse, Step, IsSeeded, Seed, AddIfAbsent, Mark, Read, AddChecks,
         EditChecks, Store, SetCommand, Exists
<1>11. CASE Store(r) /\ r \in OkAdds(t)' /\ r \notin OkAdds(t)
  <2>1. request[r].op = "add" /\ request[r].trigger = t /\ request'[r].answer = "ok"
    BY <1>2, <1>11 DEF OkAdds, Of
  <2>2. SetCommand(r) /\ SetAnswer(r) = "ok"
    <3>1. \/ SetCommand(r) /\ Answer(r, SetAnswer(r))
          \/ Answer(r, "unsaved")
      BY <1>11 DEF Store
    <3> QED
      BY <1>1, <2>1, <3>1, ThreadMoves
  <2>3. ~Exists(t)
    BY <2>1, <2>2 DEF SetAnswer
  <2>4. commands'[t] = r
    BY <2>1, <2>2 DEF IInv, TypeOK, SetCommand
  <2>5. Exists(t)'
    BY <2>4, RpServiceAssumption DEF Exists
  <2>6. Cardinality(OkAdds(t) \union {r}) = Cardinality(OkAdds(t)) + 1
          /\ IsFiniteSet(OkAdds(t) \union {r})
    BY <1>3, <1>11, FS_AddElement
  <2>7. Cardinality(OkAdds(t)') <= Cardinality(OkAdds(t)) + 1
          /\ Cardinality(OkAdds(t)') \in Nat
    BY <1>5, <1>6, <2>6, FS_Subset, FS_CardinalityType
  <2>8. Cardinality(RemovedBy(t)) <= Cardinality(RemovedBy(t)')
          /\ Cardinality(RemovedBy(t)') \in Nat
    BY <1>5, <1>6, FS_Subset, FS_CardinalityType
  <2>9. there = 0 /\ there2 = 1
    BY <2>3, <2>5
  <2> HIDE DEF there, there2
  <2>10. Cardinality(OkAdds(t)') <= Cardinality(RemovedBy(t)') + there2
    BY <1>3, <2>7, <2>8, <2>9
  <2> QED
    BY <2>10 DEF Counted, there2
<1>12. CASE ~Remove(r) /\ ~Store(r)
  <2>1. \/ Answer(r, "refused") \/ Answer(r, "exists") \/ Answer(r, "missing")
        \/ Answer(r, "found") \/ Answer(r, "absent")
        \/ StartSeeding(r) \/ (\E s : Go(r, s)) \/ (\E u : NextLeft(r, u))
    BY <1>12 DEF Refuse, Step, IsSeeded, Seed, Mark, Read, AddChecks, EditChecks
  <2>2. request'[r].answer = "ok" => request[r].answer = "ok"
    BY <1>1, <2>1, ThreadMoves
  <2>3. OkAdds(t)' \subseteq OkAdds(t)
    BY <1>2, <2>2 DEF OkAdds, Of
  <2> QED
    BY <1>7, <1>10, <1>12, <2>3
<1>13. CASE Store(r) /\ (r \notin OkAdds(t)' \/ r \in OkAdds(t))
  <2>1. OkAdds(t)' \subseteq OkAdds(t) /\ ~Remove(r)
    BY <1>5, <1>13 DEF Store, Remove, At
  <2> QED
    BY <1>7, <1>10, <2>1
<1> QED
  BY <1>8, <1>9, <1>11, <1>12, <1>13

LEMMA AddInvStep == IInv /\ AddInv /\ [Next]_vars => AddInv'
<1> SUFFICES ASSUME IInv, AddInv, [Next]_vars PROVE AddInv'
  OBVIOUS
<1>1. IsFiniteSet(Begun')
  BY BegunFinite DEF IInv, AddInv
<1>2. ASSUME NEW t \in Triggers PROVE Counted(t)'
  <2>1. ASSUME OkAdds(t)' = OkAdds(t), RemovedBy(t)' = RemovedBy(t), UNCHANGED commands
        PROVE  Counted(t)'
    BY <2>1 DEF AddInv, Counted, Exists
  <2>2. CASE UNCHANGED vars
    BY <2>1, <2>2 DEF vars, OkAdds, RemovedBy, Of, At
  <2>3. ASSUME NEW r \in Requests, NEW op \in Operations, NEW u \in Triggers, Begin(r, op, u)
        PROVE  Counted(t)'
    <3>1. request[r] = Idle /\ request'[r].answer = "none" /\ request'[r].stage # "done"
            /\ \A q \in Requests \ {r} : request'[q] = request[q]
      BY <2>3 DEF IInv, TypeOK, Begin, FirstStage, Fresh
    <3>2. OkAdds(t)' = OkAdds(t) /\ RemovedBy(t)' = RemovedBy(t)
      BY <3>1 DEF OkAdds, RemovedBy, Of, At, Idle
    <3> QED
      BY <2>1, <2>3, <3>2 DEF Begin
  <2>4. CASE Restart
    <3>1. \A q \in Requests :
            /\ request'[q].op = request[q].op /\ request'[q].trigger = request[q].trigger
            /\ request'[q].answer = request[q].answer
            /\ request'[q].stage = "done" <=> request[q].stage = "done"
      BY <2>4 DEF IInv, TypeOK, RequestType, Restart, Active
    <3>2. OkAdds(t)' = OkAdds(t) /\ RemovedBy(t)' = RemovedBy(t)
      BY <3>1 DEF OkAdds, RemovedBy, Of, At
    <3> QED
      BY <2>1, <2>4, <3>2 DEF Restart
  <2> QED
    BY <2>2, <2>3, <2>4, CountedThread DEF Next
<1> QED
  BY <1>1, <1>2 DEF AddInv

\* However the checks and the HSETs of any number of adds, edits and removals of one
\* trigger are interleaved (addCommand), with Redis errors and restarts, one more add
\* than there were removals is told that it has succeeded.
THEOREM AddedByOneHolds == Spec => []AddedByOne
<1>1. Init => AddInv
  <2> SUFFICES ASSUME Init PROVE AddInv
    OBVIOUS
  <2>1. Begun = {} /\ \A t \in Triggers : OkAdds(t) = {} /\ RemovedBy(t) = {} /\ ~Exists(t)
    BY DEF Init, Begun, At, OkAdds, RemovedBy, Of, Idle, Exists
  <2>2. IsFiniteSet({}) /\ Cardinality({}) = 0
    BY FS_EmptySet
  <2> QED
    BY <2>1, <2>2 DEF AddInv, Counted
<1>2. IInv /\ AddInv => AddedByOne
  <2> SUFFICES ASSUME IInv, AddInv, NEW t \in Triggers
               PROVE  Cardinality(OkAdds(t)) <= 1 + Cardinality(Of("remove", t))
    BY DEF AddedByOne, OkAdds
  <2>1. Cardinality(OkAdds(t)) <= Cardinality(RemovedBy(t)) + 1
    BY CountsFinite DEF AddInv, Counted
  <2> QED
    BY <2>1, CountsFinite DEF AddInv
<1> QED
  BY <1>1, <1>2, AddInvStep, IInvInit, IInvStep, PTL DEF Spec
=============================================================================

-------------------------- MODULE AiRequestsProofs --------------------------
(* Theorems about AiRequests, for any questions, users and sizes of context. *)
EXTENDS AiRequests, FiniteSetTheorems, TLAPS

ChatType == [placeholder : {"none", "shown", "deleted"},
             edited : Postable \union {"nothing"},
             posted : Postable \union {"nothing", "refused"}]

-----------------------------------------------------------------------------
(* Types.                                                                    *)

\* Only users are looked up.
LEMMA LookUpsTyped ==
  ASSUME TypeOK, NEW Q \in SUBSET Questions, StartNaming(Q)
  PROVE  /\ stage' \in [Questions -> Stages]
         /\ lookups' \in [Questions -> SUBSET Users]
         /\ pending' \in [Questions -> Int]
<1> DEFINE userIds(q) == Authors \union {AskerOf[q]}
<1>1. \A q \in Questions : userIds(q) \in SUBSET Users
  BY AiRequestsAssumption DEF TypeOK, Authors
<1>2. \A q \in Questions : Cardinality(userIds(q)) \in Nat
  BY <1>1, AiRequestsAssumption, FS_Subset, FS_CardinalityType
<1>3. stage' \in [Questions -> Stages]
  BY DEF StartNaming, TypeOK, Stages
<1>4. lookups' = [q \in Questions |-> IF q \in Q THEN userIds(q) ELSE lookups[q]]
  BY DEF StartNaming, LookUpNames
<1>5. pending' = [q \in Questions |-> IF q \in Q THEN Cardinality(userIds(q)) ELSE pending[q]]
  BY DEF StartNaming, LookUpNames
<1> HIDE DEF userIds
<1>6. lookups' \in [Questions -> SUBSET Users]
  BY <1>1, <1>4 DEF TypeOK
<1>7. pending' \in [Questions -> Int]
  BY <1>2, <1>5 DEF TypeOK
<1> QED
  BY <1>3, <1>6, <1>7

LEMMA TypeInit == Init => TypeOK
<1> SUFFICES ASSUME Init PROVE TypeOK
  OBVIOUS
<1>1. recent \in Seq(Users) /\ Len(recent) <= MaxContext
  BY AiRequestsAssumption DEF Init
<1>2. chat \in [Questions -> ChatType]
  BY DEF Init, NothingShown, ChatType
<1>3. asked \subseteq Questions /\ confirmed \subseteq Questions
        /\ told \in [Questions -> {"nothing", "sent", "failed"}]
  BY DEF Init, Placeholder!SInit
<1> QED
  BY <1>1, <1>2, <1>3 DEF Init, TypeOK, Stages, ChatType

LEMMA TypeNext == TypeOK /\ [Next]_vars => TypeOK'
<1> SUFFICES ASSUME TypeOK, [Next]_vars PROVE TypeOK'
  OBVIOUS
<1> USE DEF TypeOK
<1>1. ASSUME NEW u \in Users, Remember(u) PROVE TypeOK'
  <2> DEFINE longer == Append(recent, u)
  <2>1. longer \in Seq(Users) /\ Len(longer) = Len(recent) + 1
    OBVIOUS
  <2>2. recent' = IF Len(longer) > MaxContext THEN Tail(longer) ELSE longer
    BY <1>1 DEF Remember
  <2> HIDE DEF longer
  <2>3. Tail(longer) \in Seq(Users) /\ Len(Tail(longer)) = Len(recent)
    <3>1. longer # <<>> /\ Len(recent) \in Nat
      BY <2>1
    <3> QED
      BY <2>1, <3>1
  <2>4. recent' \in Seq(Users) /\ Len(recent') <= MaxContext
    BY <2>1, <2>2, <2>3, AiRequestsAssumption
  <2> QED
    BY <1>1, <2>4 DEF Remember
<1>2. ASSUME NEW q \in Questions, Ask(q) PROVE TypeOK'
  BY <1>2 DEF Ask, Goto, Placeholder!Ask, Stages
<1>3. ASSUME NEW q \in Questions, DeletePlaceholder(q) PROVE TypeOK'
  BY <1>3 DEF DeletePlaceholder
<1>4. ASSUME NEW q \in Questions, Confirm(q) PROVE TypeOK'
  BY <1>4 DEF Confirm, Placeholder!Confirm
<1>5. ASSUME NEW q \in Questions, PlaceholderSent(q) PROVE TypeOK'
  <2>1. StartNaming({q})
    BY <1>5 DEF PlaceholderSent
  <2>2. told' \in [Questions -> {"nothing", "sent", "failed"}] /\ UNCHANGED <<asked, confirmed>>
    BY <1>5 DEF PlaceholderSent, Placeholder!TellSent
  <2>3. UNCHANGED <<recent, names, answer, chat>>
    BY <2>1 DEF StartNaming
  <2> QED
    BY <2>1, <2>2, <2>3, LookUpsTyped
<1>6. ASSUME NEW Q \in SUBSET Questions, PlaceholderFailed(Q) PROVE TypeOK'
  <2>1. StartNaming(Q)
    BY <1>6 DEF PlaceholderFailed
  <2>2. told' \in [Questions -> {"nothing", "sent", "failed"}] /\ UNCHANGED <<asked, confirmed>>
    BY <1>6 DEF PlaceholderFailed, Placeholder!TellFailed
  <2>3. UNCHANGED <<recent, names, answer, chat>>
    BY <2>1 DEF StartNaming
  <2> QED
    BY <2>1, <2>2, <2>3, LookUpsTyped
<1>7. ASSUME NEW q \in Questions, Named(q) PROVE TypeOK'
  <2> PICK u \in Users, known \in BOOLEAN : NameAnswered(q, u, known)
    BY <1>7 DEF Named
  <2>1. stage' \in [Questions -> Stages]
    BY DEF NameAnswered, Goto, Stages
  <2>2. lookups' \in [Questions -> SUBSET Users] /\ names' \in [Questions -> SUBSET Users]
    BY DEF NameAnswered
  <2>3. pending' \in [Questions -> Int]
    BY DEF NameAnswered
  <2> QED
    BY <2>1, <2>2, <2>3 DEF NameAnswered
<1>8. ASSUME NEW q \in Questions, NEW text \in AnswerKinds, AiAnswers(q, text) PROVE TypeOK'
  BY <1>8 DEF AiAnswers, Goto, Stages
<1>9. ASSUME NEW q \in Questions, Telegram(q) PROVE TypeOK'
  <2>1. CASE EditSucceeds(q)
    <3>1. chat' \in [Questions -> ChatType]
      BY <2>1 DEF EditSucceeds, ChatType
    <3> QED
      BY <2>1, <3>1 DEF EditSucceeds, Goto, Stages, ChatType
  <2>2. CASE EditFails(q)
    BY <2>2 DEF EditFails, Goto, Stages
  <2>3. CASE PostSucceeds(q)
    <3>1. chat' \in [Questions -> ChatType]
      BY <2>3 DEF PostSucceeds, ChatType
    <3> QED
      BY <2>3, <3>1 DEF PostSucceeds, Goto, Stages, ChatType
  <2>4. CASE PostFails(q)
    BY <2>4 DEF PostFails, Goto, Stages
  <2> QED
    BY <1>9, <2>1, <2>2, <2>3, <2>4 DEF Telegram
<1>10. CASE Restart
  <2>1. recent' \in Seq(Users) /\ Len(recent') <= MaxContext
    BY <1>10, AiRequestsAssumption DEF Restart
  <2> QED
    BY <1>10, <2>1 DEF Restart, Stages
<1>11. CASE UNCHANGED vars
  BY <1>11 DEF vars
<1> QED
  BY <1>1, <1>2, <1>3, <1>4, <1>5, <1>6, <1>7, <1>8, <1>9, <1>10, <1>11 DEF Next, SendEnds

\* Every variable keeps its type: recentMessages_ its limit, and the look-ups, names
\* and answers of each question theirs.
THEOREM TypeCorrect == Spec => []TypeOK
<1> QED
  BY TypeInit, TypeNext, PTL DEF Spec

-----------------------------------------------------------------------------
(* The inductive invariants.                                                 *)

\* The count of a question that is looking up names is that of the look-ups that are
\* owed to it, and no other question that a callback may still reach is owed any.
LookUpsCounted ==
  \A q \in Questions :
    /\ stage[q] = "naming" => pending[q] = Cardinality(lookups[q])
    /\ stage[q] \notin {"naming", "lost"} => lookups[q] = {}

\* The chat shows no answer of a question that is not finished.
NothingEarly ==
  \A q \in Questions : stage[q] \notin {"done", "lost"} =>
    chat[q].edited = "nothing" /\ chat[q].posted = "nothing"

\* A placeholder that was told sent is confirmed, one that is confirmed was shown,
\* and only one that was told sent is edited.
SentShown ==
  \A q \in Questions :
    /\ told[q] = "sent" => q \in confirmed
    /\ q \in confirmed => chat[q].placeholder # "none"
    /\ stage[q] = "editing" => told[q] = "sent"

\* Look-ups, once a question starts them.
LEMMA LookUpsStarted ==
  ASSUME TypeOK, LookUpsCounted, NEW Q \in SUBSET Questions, StartNaming(Q)
  PROVE  LookUpsCounted'
BY DEF TypeOK, LookUpsCounted, StartNaming, LookUpNames

\* The last name that is answered is the last one owed.
LEMMA LookUpsAnswered ==
  ASSUME TypeOK, LookUpsCounted, NEW q \in Questions, Named(q)
  PROVE  LookUpsCounted'
<1> PICK u \in Users, known \in BOOLEAN : NameAnswered(q, u, known)
  BY DEF Named
<1>1. stage[q] = "naming" /\ u \in lookups[q] /\ pending[q] = Cardinality(lookups[q])
  BY DEF NameAnswered, LookUpsCounted
<1>2. IsFiniteSet(lookups[q])
  BY AiRequestsAssumption, FS_Subset DEF TypeOK
<1>3. IsFiniteSet(lookups[q] \ {u})
        /\ Cardinality(lookups[q] \ {u}) = Cardinality(lookups[q]) - 1
  BY <1>1, <1>2, FS_RemoveElement
<1>4. lookups'[q] = lookups[q] \ {u} /\ pending'[q] = pending[q] - 1
  BY DEF NameAnswered, TypeOK
<1>5. \A p \in Questions \ {q} :
        lookups'[p] = lookups[p] /\ pending'[p] = pending[p] /\ stage'[p] = stage[p]
  BY DEF NameAnswered, TypeOK, Goto
<1>6. pending'[q] = Cardinality(lookups'[q])
  BY <1>1, <1>3, <1>4
<1>7. stage'[q] # "naming" => lookups'[q] = {}
  <2> SUFFICES ASSUME pending[q] = 1 PROVE lookups'[q] = {}
    BY <1>1 DEF NameAnswered
  <2>1. Cardinality(lookups[q] \ {u}) = 0
    BY <1>1, <1>3
  <2> QED
    BY <2>1, <1>3, <1>4, FS_EmptySet
<1> QED
  BY <1>5, <1>6, <1>7 DEF LookUpsCounted

\* No step leaves a question with another count.
LEMMA CountedNext == TypeOK /\ LookUpsCounted /\ [Next]_vars => LookUpsCounted'
<1> SUFFICES ASSUME TypeOK, LookUpsCounted, [Next]_vars PROVE LookUpsCounted'
  OBVIOUS
<1>1. ASSUME UNCHANGED <<stage, lookups, pending>> PROVE LookUpsCounted'
  BY <1>1 DEF LookUpsCounted
<1>2. ASSUME NEW q \in Questions, NEW s \in Stages \ {"naming", "lost"},
             stage[q] \notin {"naming", "lost"}, Goto(q, s), UNCHANGED <<lookups, pending>>
      PROVE  LookUpsCounted'
  BY <1>2 DEF LookUpsCounted, Goto, TypeOK
<1>3. ASSUME NEW q \in Questions, SendEnds(q) PROVE LookUpsCounted'
  <2>1. CASE Confirm(q)
    BY <2>1, <1>1 DEF Confirm
  <2>2. CASE PlaceholderSent(q)
    BY <2>2, LookUpsStarted DEF PlaceholderSent
  <2>3. CASE PlaceholderFailed({q})
    BY <2>3, LookUpsStarted DEF PlaceholderFailed
  <2> QED
    BY <1>3, <2>1, <2>2, <2>3 DEF SendEnds
<1>4. ASSUME NEW q \in Questions, Telegram(q) PROVE LookUpsCounted'
  BY <1>4, <1>2 DEF Telegram, EditSucceeds, EditFails, PostSucceeds, PostFails, Stages
<1>5. ASSUME NEW q \in Questions, NEW text \in AnswerKinds, AiAnswers(q, text)
      PROVE  LookUpsCounted'
  BY <1>5, <1>2 DEF AiAnswers, Stages
<1>6. ASSUME NEW q \in Questions, Ask(q) PROVE LookUpsCounted'
  BY <1>6, <1>2 DEF Ask, Stages
<1>7. ASSUME NEW q \in Questions, DeletePlaceholder(q) PROVE LookUpsCounted'
  BY <1>7, <1>1 DEF DeletePlaceholder
<1>8. ASSUME NEW u \in Users, Remember(u) PROVE LookUpsCounted'
  BY <1>8, <1>1 DEF Remember
<1>9. ASSUME NEW Q \in SUBSET Questions, PlaceholderFailed(Q) PROVE LookUpsCounted'
  BY <1>9, LookUpsStarted DEF PlaceholderFailed
<1>10. CASE Restart
  BY <1>10 DEF Restart, LookUpsCounted, TypeOK
<1>11. CASE UNCHANGED vars
  BY <1>11, <1>1 DEF vars
<1> QED
  BY <1>3, <1>4, <1>5, <1>6, <1>7, <1>8, <1>9, <1>10, <1>11, LookUpsAnswered DEF Next

\* The AI service is asked when every look-up has been answered, and not before, for
\* any number of questions, users and messages (onNameResolved).
THEOREM PromptCompleteHolds == Spec => []PromptComplete
<1>1. Init => LookUpsCounted
  BY DEF Init, LookUpsCounted
<1>2. LookUpsCounted => PromptComplete
  BY DEF LookUpsCounted, PromptComplete
<1> QED
  BY <1>1, <1>2, CountedNext, TypeInit, TypeNext, PTL DEF Spec

-----------------------------------------------------------------------------
(* What the chat shows.                                                      *)

\* What a step does to the chat, the answers and the stages: nothing to what is
\* finished, and an answer where a question becomes so.
Untouched(q) ==
  /\ chat'[q].edited = chat[q].edited
  /\ chat'[q].posted = chat[q].posted
  /\ answer'[q] = answer[q]
  /\ stage'[q] = stage[q] \/ (stage[q] # "done" /\ stage'[q] # "done")
  /\ stage[q] = "lost" => stage'[q] = "lost"

AnswerComes(q) ==
  /\ stage[q] = "asking" /\ stage'[q] \in {"editing", "posting"}
  /\ chat'[q] = chat[q]

EditShown(q) ==
  /\ stage[q] = "editing" /\ stage'[q] = "done"
  /\ chat'[q].edited = Clipped(answer[q]) /\ chat'[q].posted = chat[q].posted
  /\ answer'[q] = answer[q]

PostShown(q) ==
  /\ stage[q] = "posting" /\ stage'[q] = "done"
  /\ chat'[q].edited = chat[q].edited /\ chat'[q].posted \in {answer[q], "refused"}
  /\ answer'[q] = answer[q]

LEMMA EveryStep ==
  ASSUME TypeOK, LookUpsCounted, [Next]_vars, NEW q \in Questions
  PROVE  Untouched(q) \/ AnswerComes(q) \/ EditShown(q) \/ PostShown(q)
<1> USE DEF TypeOK
<1>1. ASSUME UNCHANGED <<stage, chat, answer>> PROVE Untouched(q)
  BY <1>1 DEF Untouched
<1>2. ASSUME NEW Q \in SUBSET Questions, StartNaming(Q), \A p \in Q : stage[p] = "sending"
      PROVE  Untouched(q)
  BY <1>2 DEF StartNaming, Untouched
<1>3. ASSUME NEW p \in Questions, Confirm(p) \/ DeletePlaceholder(p) PROVE Untouched(q)
  <2>1. \A x \in {"shown", "deleted"} :
          LET c == [chat[p] EXCEPT !.placeholder = x]
          IN  c.edited = chat[p].edited /\ c.posted = chat[p].posted
    OBVIOUS
  <2>2. \E x \in {"shown", "deleted"} :
          chat' = [chat EXCEPT ![p] = [chat[p] EXCEPT !.placeholder = x]]
    BY <1>3 DEF Confirm, DeletePlaceholder
  <2>3. chat'[q].edited = chat[q].edited /\ chat'[q].posted = chat[q].posted
    BY <2>1, <2>2
  <2> QED
    BY <1>3, <2>3 DEF Confirm, DeletePlaceholder, Untouched
<1>4. ASSUME NEW p \in Questions, Ask(p) PROVE Untouched(q)
  BY <1>4 DEF Ask, Goto, Untouched
<1>5. ASSUME NEW p \in Questions, SendEnds(p) PROVE Untouched(q)
  BY <1>5, <1>2, <1>3 DEF SendEnds, PlaceholderSent, PlaceholderFailed
<1>6. ASSUME NEW Q \in SUBSET Questions, PlaceholderFailed(Q) PROVE Untouched(q)
  BY <1>6, <1>2 DEF PlaceholderFailed
<1>7. ASSUME NEW p \in Questions, Named(p) PROVE Untouched(q)
  <2> PICK u \in Users, known \in BOOLEAN : NameAnswered(p, u, known)
    BY <1>7 DEF Named
  <2>1. stage[p] = "naming"
    BY DEF NameAnswered, LookUpsCounted
  <2>2. stage'[q] = stage[q] \/ (stage[q] = "naming" /\ stage'[q] = "asking")
    BY <2>1 DEF NameAnswered, Goto
  <2>3. chat' = chat /\ answer' = answer
    BY DEF NameAnswered
  <2> QED
    BY <2>2, <2>3 DEF Untouched
<1>8. ASSUME NEW p \in Questions, NEW text \in AnswerKinds, AiAnswers(p, text)
      PROVE  Untouched(q) \/ AnswerComes(q)
  BY <1>8 DEF AiAnswers, Goto, Untouched, AnswerComes
<1>9. ASSUME NEW p \in Questions, EditSucceeds(p) PROVE Untouched(q) \/ EditShown(q)
  <2> DEFINE text == Clipped(answer[p])
             c == [chat[p] EXCEPT !.edited = text]
  <2>1. c.edited = text /\ c.posted = chat[p].posted
    OBVIOUS
  <2>2. chat' = [chat EXCEPT ![p] = c]
    BY <1>9 DEF EditSucceeds
  <2> HIDE DEF c
  <2> QED
    BY <1>9, <2>1, <2>2 DEF EditSucceeds, Goto, Untouched, EditShown
<1>10. ASSUME NEW p \in Questions, EditFails(p) PROVE Untouched(q)
  BY <1>10 DEF EditFails, Goto, Untouched
<1>11. ASSUME NEW p \in Questions, PostSucceeds(p) \/ PostFails(p)
       PROVE  Untouched(q) \/ PostShown(q)
  <2>1. PICK text \in {answer[p], "refused"} :
          chat' = [chat EXCEPT ![p] = [chat[p] EXCEPT !.posted = text]]
    BY <1>11 DEF PostSucceeds, PostFails
  <2> DEFINE c == [chat[p] EXCEPT !.posted = text]
  <2>2. c.posted = text /\ c.edited = chat[p].edited
    OBVIOUS
  <2>3. chat' = [chat EXCEPT ![p] = c]
    BY <2>1
  <2> HIDE DEF c
  <2> QED
    BY <1>11, <2>2, <2>3 DEF PostSucceeds, PostFails, Goto, Untouched, PostShown
<1>12. CASE Restart
  BY <1>12 DEF Restart, Untouched
<1>13. ASSUME NEW u \in Users, Remember(u) PROVE Untouched(q)
  BY <1>13, <1>1 DEF Remember
<1>14. CASE UNCHANGED vars
  BY <1>14, <1>1 DEF vars
<1> QED
  BY <1>3, <1>4, <1>5, <1>6, <1>7, <1>8, <1>9, <1>10, <1>11, <1>12, <1>13, <1>14
     DEF Next, Telegram

\* The chat shows an answer of a finished question only, in one place, and what it
\* shows of a finished question is its answer.
AnswersShown == NothingEarly /\ AnsweredOnce /\ AnswerLeft

LEMMA AnswersNext == TypeOK /\ LookUpsCounted /\ AnswersShown /\ [Next]_vars => AnswersShown'
<1> SUFFICES ASSUME TypeOK, LookUpsCounted, AnswersShown, [Next]_vars, NEW q \in Questions
    PROVE  /\ stage'[q] \notin {"done", "lost"} =>
                chat'[q].edited = "nothing" /\ chat'[q].posted = "nothing"
           /\ chat'[q].edited = "nothing" \/ chat'[q].posted = "nothing"
           /\ stage'[q] = "done" => \/ chat'[q].edited = Clipped(answer'[q])
                                   \/ chat'[q].posted \in {answer'[q], "refused"}
  BY DEF AnswersShown, NothingEarly, AnsweredOnce, AnswerLeft, Clipped
<1> USE DEF AnswersShown, NothingEarly, AnsweredOnce, AnswerLeft
<1>1. CASE Untouched(q)
  BY <1>1 DEF Untouched
<1>2. CASE AnswerComes(q)
  BY <1>2 DEF AnswerComes
<1>3. CASE EditShown(q)
  BY <1>3 DEF EditShown
<1>4. CASE PostShown(q)
  BY <1>4 DEF PostShown
<1> QED
  BY <1>1, <1>2, <1>3, <1>4, EveryStep

LEMMA AnswersAlways == Spec => []AnswersShown
<1>1. Init => LookUpsCounted
  BY DEF Init, LookUpsCounted
<1>2. Init => AnswersShown
  BY DEF Init, NothingShown, AnswersShown, NothingEarly, AnsweredOnce, AnswerLeft
<1> QED
  BY <1>1, <1>2, AnswersNext, CountedNext, TypeInit, TypeNext, PTL DEF Spec

\* In every interleaving of edits, deletions, failures and restarts, a question is
\* answered in the placeholder or in a message of its own (replaceAiPlaceholder).
THEOREM AnsweredOnceHolds == Spec => []AnsweredOnce
<1>1. AnswersShown => AnsweredOnce
  BY DEF AnswersShown
<1> QED
  BY <1>1, AnswersAlways, PTL

\* A finished question has left its answer, or Telegram has refused it
\* (replaceAiPlaceholder and its fallback).
THEOREM AnswerLeftHolds == Spec => []AnswerLeft
<1>1. AnswersShown => AnswerLeft
  BY DEF AnswersShown
<1> QED
  BY <1>1, AnswersAlways, PTL

-----------------------------------------------------------------------------
(* What may be edited.                                                       *)

LEMMA SentNext == TypeOK /\ LookUpsCounted /\ SentShown /\ [Next]_vars => SentShown'
<1> SUFFICES ASSUME TypeOK, LookUpsCounted, SentShown, [Next]_vars PROVE SentShown'
  OBVIOUS
<1> USE DEF TypeOK, SentShown
<1>1. ASSUME NEW Q \in SUBSET Questions, StartNaming(Q), UNCHANGED confirmed,
             \A q \in Questions : told'[q] = told[q] \/ (told[q] = "nothing" /\
                                  (told'[q] = "sent" => q \in confirmed))
      PROVE  SentShown'
  BY <1>1 DEF StartNaming
<1>2. ASSUME NEW q \in Questions, Confirm(q) PROVE SentShown'
  <2> DEFINE c == [chat[q] EXCEPT !.placeholder = "shown"]
  <2>1. c.placeholder = "shown"
    OBVIOUS
  <2>2. chat' = [chat EXCEPT ![q] = c]
    BY <1>2 DEF Confirm
  <2> HIDE DEF c
  <2> QED
    BY <1>2, <2>1, <2>2 DEF Confirm, Placeholder!Confirm
<1>3. ASSUME NEW q \in Questions, PlaceholderSent(q) PROVE SentShown'
  BY <1>3, <1>1 DEF PlaceholderSent, Placeholder!TellSent
<1>4. ASSUME NEW Q \in SUBSET Questions, PlaceholderFailed(Q) PROVE SentShown'
  BY <1>4, <1>1 DEF PlaceholderFailed, Placeholder!TellFailed
<1>5. ASSUME NEW q \in Questions, DeletePlaceholder(q) PROVE SentShown'
  <2> DEFINE c == [chat[q] EXCEPT !.placeholder = "deleted"]
  <2>1. c.placeholder = "deleted"
    OBVIOUS
  <2>2. chat' = [chat EXCEPT ![q] = c]
    BY <1>5 DEF DeletePlaceholder
  <2> HIDE DEF c
  <2> QED
    BY <1>5, <2>1, <2>2 DEF DeletePlaceholder
<1>6. ASSUME NEW q \in Questions, Ask(q) PROVE SentShown'
  BY <1>6 DEF Ask, Goto, Placeholder!Ask
<1>7. ASSUME NEW q \in Questions, Named(q) PROVE SentShown'
  BY <1>7 DEF Named, NameAnswered, Goto
<1>8. ASSUME NEW q \in Questions, NEW text \in AnswerKinds, AiAnswers(q, text) PROVE SentShown'
  BY <1>8 DEF AiAnswers, Goto
<1>9. ASSUME NEW q \in Questions, EditSucceeds(q) PROVE SentShown'
  <2> DEFINE text == Clipped(answer[q])
             c == [chat[q] EXCEPT !.edited = text]
  <2>1. c.placeholder = chat[q].placeholder
    OBVIOUS
  <2>2. chat' = [chat EXCEPT ![q] = c]
    BY <1>9 DEF EditSucceeds
  <2> HIDE DEF c
  <2> QED
    BY <1>9, <2>1, <2>2 DEF EditSucceeds, Goto
<1>10. ASSUME NEW q \in Questions, EditFails(q) PROVE SentShown'
  BY <1>10 DEF EditFails, Goto
<1>11. ASSUME NEW q \in Questions, PostSucceeds(q) \/ PostFails(q) PROVE SentShown'
  <2>1. PICK text \in {answer[q], "refused"} :
          chat' = [chat EXCEPT ![q] = [chat[q] EXCEPT !.posted = text]]
    BY <1>11 DEF PostSucceeds, PostFails
  <2> DEFINE c == [chat[q] EXCEPT !.posted = text]
  <2>2. c.placeholder = chat[q].placeholder
    OBVIOUS
  <2>3. chat' = [chat EXCEPT ![q] = c]
    BY <2>1
  <2> HIDE DEF c
  <2> QED
    BY <1>11, <2>2, <2>3 DEF PostSucceeds, PostFails, Goto
<1>12. CASE Restart
  BY <1>12 DEF Restart
<1>13. ASSUME NEW u \in Users, Remember(u) PROVE SentShown'
  BY <1>13 DEF Remember
<1>14. CASE UNCHANGED vars
  BY <1>14 DEF vars
<1> QED
  BY <1>2, <1>3, <1>4, <1>5, <1>6, <1>7, <1>8, <1>9, <1>10, <1>11, <1>12, <1>13, <1>14
     DEF Next, Telegram, SendEnds

\* No edit is asked for before the chat has shown the message under its final id
\* (onSent of sendTextPlain; the comment on "Message can't be edited").
THEOREM EditsShownHolds == Spec => []EditsShown
<1>1. Init => LookUpsCounted
  BY DEF Init, LookUpsCounted
<1>2. Init => SentShown
  BY DEF Init, Placeholder!SInit, SentShown
<1>3. SentShown => EditsShown
  BY DEF SentShown, EditsShown
<1> QED
  BY <1>1, <1>2, <1>3, SentNext, CountedNext, TypeInit, TypeNext, PTL DEF Spec
=============================================================================

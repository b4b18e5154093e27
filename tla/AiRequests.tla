----------------------------- MODULE AiRequests -----------------------------
(***************************************************************************)
(* The /ai command of core/src/commands/moderation_commands.cpp, from the  *)
(* placeholder to the answer, in one chat, over the sends that TdlibClient *)
(* promises (Sends).                                                       *)
(*                                                                         *)
(* The loop of TdlibClient runs every callback; the call of the AI service *)
(* blocks a thread of its own for each question.  Meanwhile people write,  *)
(* and may delete the placeholder.                                         *)
(***************************************************************************)
EXTENDS Integers, Sequences, FiniteSets

CONSTANTS
  Questions,    \* /ai commands past the rank check, with a question
  Users,
  AskerOf,      \* who asks each of them
  MaxContext    \* kAiContextMessages

ASSUME AiRequestsAssumption ==
  /\ AskerOf \in [Questions -> Users]
  /\ MaxContext \in Nat
  /\ IsFiniteSet(Users)

VARIABLES
  recent,       \* recentMessages_: the authors of the chat's last messages
  stage,        \* where each question is
  lookups,      \* the authors whose names TDLib still owes
  pending,      \* pending: how many answers are counted down
  names,        \* names: the authors whose names are known
  answer,       \* what the AI service answered
  chat,         \* what the chat shows of each question's placeholder and answer
  asked, confirmed, told    \* the placeholders' sends

vars == <<recent, stage, lookups, pending, names, answer, chat, asked, confirmed, told>>

Placeholder == INSTANCE Sends WITH Texts <- Questions

-----------------------------------------------------------------------------
(***************************************************************************)
(*   idle     not asked                                                    *)
(*   sending  the placeholder is being sent                                *)
(*   naming   the authors' names are being looked up                       *)
(*   asking   a thread waits for the AI service                            *)
(*   editing  the placeholder is being replaced by the answer              *)
(*   posting  the answer is being sent as a new message                    *)
(*   done, lost in a restart                                               *)
(***************************************************************************)
Stages == {"idle", "sending", "naming", "asking", "editing", "posting", "done", "lost"}

\* An answer of the service, or the text of an error, as Telegram takes it: one
\* message holds it, it is too long for one, or there is nothing in it.
AnswerKinds == {"fitting", "long", "empty"}
Postable == {"fitting", "clipped"}

\* truncateUtf8 to kMaxTelegramMessageBytes
Clipped(text) == IF text = "long" THEN "clipped" ELSE text

NothingShown == [placeholder |-> "none", edited |-> "nothing", posted |-> "nothing"]

Init ==
  /\ recent = <<>>
  /\ stage = [q \in Questions |-> "idle"]
  /\ lookups = [q \in Questions |-> {}]
  /\ pending = [q \in Questions |-> 0]
  /\ names = [q \in Questions |-> {}]
  /\ answer = [q \in Questions |-> "none"]
  /\ chat = [q \in Questions |-> NothingShown]
  /\ Placeholder!SInit

Goto(q, s) == stage' = [stage EXCEPT ![q] = s]

\* Mutant of Remember: one too many is kept.
RememberOneMore(u) ==
  /\ recent' = IF Len(recent) > MaxContext THEN Append(Tail(recent), u) ELSE Append(recent, u)
  /\ UNCHANGED <<stage, lookups, pending, names, answer, chat, asked, confirmed, told>>

\* A message that is no command: rememberChatMessage.
Remember(u) ==
  LET longer == Append(recent, u) IN
  /\ recent' = IF Len(longer) > MaxContext THEN Tail(longer) ELSE longer
  /\ UNCHANGED <<stage, lookups, pending, names, answer, chat, asked, confirmed, told>>

\* executeAi sends the placeholder.
Ask(q) ==
  /\ stage[q] = "idle"
  /\ Placeholder!Ask(q)
  /\ Goto(q, "sending")
  /\ UNCHANGED <<recent, lookups, pending, names, answer, chat>>

Confirm(q) ==
  /\ Placeholder!Confirm(q)
  /\ chat' = [chat EXCEPT ![q].placeholder = "shown"]
  /\ UNCHANGED <<recent, stage, lookups, pending, names, answer>>

\* Somebody deletes the placeholder, edited or not.
DeletePlaceholder(q) ==
  /\ chat[q].placeholder = "shown"
  /\ chat' = [chat EXCEPT ![q].placeholder = "deleted"]
  /\ UNCHANGED <<recent, stage, lookups, pending, names, answer, asked, confirmed, told>>

-----------------------------------------------------------------------------
Authors == {recent[n] : n \in 1..Len(recent)}

\* Mutant of LookUpNames: the messages are counted, not their authors.
LookUpNamesPerMessage(Q) ==
  /\ lookups' = [q \in Questions |->
       IF q \in Q THEN Authors \union {AskerOf[q]} ELSE lookups[q]]
  /\ pending' = [q \in Questions |-> IF q \in Q THEN Len(recent) + 1 ELSE pending[q]]

\* Mutant of LookUpNames: the asker is looked up and not counted.
LookUpNamesButAsker(Q) ==
  /\ lookups' = [q \in Questions |->
       IF q \in Q THEN Authors \union {AskerOf[q]} ELSE lookups[q]]
  /\ pending' = [q \in Questions |->
       IF q \in Q THEN Cardinality(Authors) ELSE pending[q]]

\* runAiWithHistory: the authors of the messages there are by now, and the asker.
LookUpNames(Q) ==
  LET userIds(q) == Authors \union {AskerOf[q]} IN
  /\ lookups' = [q \in Questions |-> IF q \in Q THEN userIds(q) ELSE lookups[q]]
  /\ pending' = [q \in Questions |-> IF q \in Q THEN Cardinality(userIds(q)) ELSE pending[q]]

StartNaming(Q) ==
  /\ stage' = [q \in Questions |-> IF q \in Q THEN "naming" ELSE stage[q]]
  /\ LookUpNames(Q)
  /\ UNCHANGED <<recent, names, answer, chat>>

\* Mutant of PlaceholderSent: the id of TDLib's first answer is taken.
PlaceholderAcked(q) ==
  /\ stage[q] = "sending"
  /\ told' = [told EXCEPT ![q] = "sent"]
  /\ UNCHANGED <<asked, confirmed>>
  /\ StartNaming({q})

\* onSent of the placeholder, with its id or with 0.
PlaceholderSent(q) ==
  /\ stage[q] = "sending"
  /\ Placeholder!TellSent(q)
  /\ StartNaming({q})

PlaceholderFailed(Q) ==
  /\ Q # {}
  /\ \A q \in Q : stage[q] = "sending"
  /\ Placeholder!TellFailed(Q)
  /\ StartNaming(Q)

\* onNameResolved: the last answer of the look-ups starts the thread.
NameAnswered(q, u, known) ==
  /\ stage[q] # "lost"
  /\ u \in lookups[q]
  /\ lookups' = [lookups EXCEPT ![q] = @ \ {u}]
  /\ names' = [names EXCEPT ![q] = IF known THEN @ \union {u} ELSE @]
  /\ pending' = [pending EXCEPT ![q] = @ - 1]
  /\ IF pending[q] = 1 THEN Goto(q, "asking") ELSE UNCHANGED stage
  /\ UNCHANGED <<recent, answer, chat, asked, confirmed, told>>

-----------------------------------------------------------------------------
(* The thread, and the replacement of the placeholder.                       *)

\* finishAiRequest and replaceAiPlaceholder: an edit if there is a placeholder.
AiAnswers(q, text) ==
  /\ stage[q] = "asking"
  /\ answer' = [answer EXCEPT ![q] = text]
  /\ Goto(q, IF told[q] = "sent" THEN "editing" ELSE "posting")
  /\ UNCHANGED <<recent, lookups, pending, names, chat, asked, confirmed, told>>

\* Mutant of EditSucceeds: the answer is sent afresh in any case.
EditSucceedsPosts(q) ==
  /\ stage[q] = "editing"
  /\ chat[q].placeholder = "shown"
  /\ Clipped(answer[q]) \in Postable
  /\ chat' = [chat EXCEPT ![q].edited = Clipped(answer[q])]
  /\ Goto(q, "posting")
  /\ UNCHANGED <<recent, lookups, pending, names, answer, asked, confirmed, told>>

\* Telegram edits a message that is there, unless the text is empty ...
EditSucceeds(q) ==
  /\ stage[q] = "editing"
  /\ chat[q].placeholder = "shown"
  /\ Clipped(answer[q]) \in Postable
  /\ chat' = [chat EXCEPT ![q].edited = Clipped(answer[q])]
  /\ Goto(q, "done")
  /\ UNCHANGED <<recent, lookups, pending, names, answer, asked, confirmed, told>>

\* Mutant of EditFails: the answer is not sent afresh.
EditFailsSilently(q) ==
  /\ stage[q] = "editing"
  /\ Goto(q, "done")
  /\ UNCHANGED <<recent, lookups, pending, names, answer, chat, asked, confirmed, told>>

\* ... or refuses it, and the answer is sent afresh.
EditFails(q) ==
  /\ stage[q] = "editing"
  /\ Goto(q, "posting")
  /\ UNCHANGED <<recent, lookups, pending, names, answer, chat, asked, confirmed, told>>

\* A new message: it is not clipped.
PostSucceeds(q) ==
  /\ stage[q] = "posting"
  /\ answer[q] \in Postable
  /\ chat' = [chat EXCEPT ![q].posted = answer[q]]
  /\ Goto(q, "done")
  /\ UNCHANGED <<recent, lookups, pending, names, answer, asked, confirmed, told>>

\* Telegram does not take the new message, and nobody waits for its outcome.
PostFails(q) ==
  /\ stage[q] = "posting"
  /\ chat' = [chat EXCEPT ![q].posted = "refused"]
  /\ Goto(q, "done")
  /\ UNCHANGED <<recent, lookups, pending, names, answer, asked, confirmed, told>>

\* The core restarts: questions and messages in memory are gone, the placeholders
\* stay as they are.
Restart ==
  /\ recent' = <<>>
  /\ stage' = [q \in Questions |-> IF stage[q] \in {"idle", "done"} THEN stage[q] ELSE "lost"]
  /\ UNCHANGED <<lookups, pending, names, answer, chat, asked, confirmed, told>>

Telegram(q) == EditSucceeds(q) \/ EditFails(q) \/ PostSucceeds(q) \/ PostFails(q)
SendEnds(q) == Confirm(q) \/ PlaceholderSent(q) \/ PlaceholderFailed({q})
Named(q) == \E u \in Users, known \in BOOLEAN : NameAnswered(q, u, known)

Next ==
  \/ \E u \in Users : Remember(u)
  \/ \E q \in Questions :
       \/ Ask(q) \/ DeletePlaceholder(q) \/ SendEnds(q) \/ Named(q)
       \/ \E text \in AnswerKinds : AiAnswers(q, text)
       \/ Telegram(q)
  \/ \E Q \in SUBSET Questions : PlaceholderFailed(Q)
  \/ Restart

Spec == Init /\ [][Next]_vars

\* Sends, look-ups and edits are answered, as TdlibClient's runs show of sends.  The
\* call of the AI service has no timeout: nothing says that it returns.
FairSpec ==
  /\ Spec
  /\ \A q \in Questions : WF_vars(SendEnds(q)) /\ WF_vars(Named(q)) /\ WF_vars(Telegram(q))

-----------------------------------------------------------------------------
(* Properties.                                                               *)

TypeOK ==
  /\ recent \in Seq(Users) /\ Len(recent) <= MaxContext
  /\ stage \in [Questions -> Stages]
  /\ lookups \in [Questions -> SUBSET Users]
  /\ pending \in [Questions -> Int]
  /\ names \in [Questions -> SUBSET Users]
  /\ answer \in [Questions -> AnswerKinds \union {"none"}]
  /\ chat \in [Questions -> [placeholder : {"none", "shown", "deleted"},
                             edited : Postable \union {"nothing"},
                             posted : Postable \union {"nothing", "refused"}]]
  /\ asked \subseteq Questions
  /\ confirmed \subseteq Questions
  /\ told \in [Questions -> {"nothing", "sent", "failed"}]

\* The AI service is asked when every look-up has been answered, and not before:
\* no answer comes for a prompt that is already being written.
PromptComplete ==
  \A q \in Questions :
    stage[q] \in {"asking", "editing", "posting", "done"} => lookups[q] = {}

\* A question is answered in one message: the placeholder is edited or the answer
\* is sent afresh, and not both.
AnsweredOnce ==
  \A q \in Questions : chat[q].edited = "nothing" \/ chat[q].posted = "nothing"

\* An edit is asked for under the final id only, of a message the chat has shown
\* (the code's comment on "Message can't be edited").
EditsShown ==
  \A q \in Questions : stage[q] = "editing" =>
    q \in confirmed /\ chat[q].placeholder # "none"

\* A finished question has left its answer in the chat, whole if it fits, or
\* Telegram was offered it as a message of its own and refused.
AnswerLeft ==
  \A q \in Questions : stage[q] = "done" =>
    \/ chat[q].edited = Clipped(answer[q])
    \/ chat[q].posted \in {answer[q], "refused"}

\* Nothing but the AI service keeps a question for ever: not a placeholder that
\* fails or is deleted, nor a name that is not found.
NotStuck ==
  \A q \in Questions : []<>(stage[q] \in {"idle", "asking", "done", "lost"})

\* moderation_commands.cpp 1111-1112: if the placeholder cannot be edited, the answer
\* must still reach the chat.  What is sent afresh is a text that Telegram takes, if
\* the service answered anything at all.
AnswerReachesChat ==
  \A q \in Questions :
    stage[q] = "posting" /\ told[q] = "sent" /\ answer[q] # "empty"
      => answer[q] \in Postable
=============================================================================

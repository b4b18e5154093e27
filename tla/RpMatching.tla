----------------------------- MODULE RpMatching -----------------------------
(***************************************************************************)
(* What becomes of a message that is no command (moderation_commands.cpp,  *)
(* matchRp to dispatchRpMatch): it is remembered for /ai, the user it      *)
(* points at and the names are looked up in Telegram, and the RP service   *)
(* is asked for a response.  RpClient blocks the one thread of the core    *)
(* until the service has answered, for a match and for /rpadd, /rpremove   *)
(* and /rpedit alike; look-ups leave it free for other messages.           *)
(***************************************************************************)
EXTENDS Texts

CONSTANTS
  Users,
  NoUser,        \* a message without a reply, a word that names nobody
  Name,          \* the name of each user, as pieces of text
  Messages,      \* the messages that are no commands
  Edits,         \* the /rpadd, /rpremove and /rpedit commands that get past requireRank
  Defaults,      \* the predefined commands: code points of the trigger, response
  Slots,         \* bound: the messages of one behaviour
  MaxEdits,      \* bound: the commands of one behaviour
  MaxTrigger,    \* kMaxTriggerLength
  MaxContext,    \* kAiContextMessages
  Unwanted,      \* the code points that the AI does not get to see
  Lower(_)       \* the lower case of each letter, for the users

\* The slots are numbered in the order of the messages, and something is remembered.
ASSUME SlotsAssumption == IsFiniteSet(Slots) /\ Slots = 1..Cardinality(Slots)
ASSUME ContextAssumption == MaxContext \in Nat \ {0}

\* Texts are code points of Unicode, and the tables of the code know those that the
\* AI does not get to see.
Unicode == {p \in Nat : p < 1114112}
ASSUME PointsAssumption ==
  \A m \in Messages :
    /\ m.points \in Seq(Unicode) /\ m.points # <<>>
    /\ \A i \in DOMAIN m.points : (m.points[i] \in Unwanted) = IsZalgoOrBreaking(m.points[i])

VARIABLES
  table,    \* Redis: the response by normalised trigger
  items,    \* the messages and how far they are
  call,     \* the call of the RP service that the loop is blocked in
  edits,    \* commands so far
  recent    \* recentMessages_ of the chat

vars == <<table, items, call, edits, recent>>

\* What a message's text is: its code points, but for its second word, which is
\* an @username (of a user or of nobody), a number (of a user, or one that is not
\* positive) or none of these.
WordKinds == {"none", "mention", "number"}
Bytes(points) == FlattenSeq([i \in DOMAIN points |-> EncodeUtf8Point(points[i])])

\* What the services make of each text and each trigger.
CleanOf == [m \in Messages |-> SanitizeForAi(Bytes(m.points))]
TriggerOf == [m \in Messages |-> NormalizeTrigger(FirstWord(Bytes(m.points)))]
StoredAs == [p \in {e.points : e \in Edits \union Defaults} |-> NormalizeTrigger(Bytes(p))]

ASSUME UsersAssumption ==
  /\ NoUser \notin Users
  /\ \A m \in Messages :
       /\ m.sender \in Users /\ m.word.kind \in WordKinds
       /\ {m.reply, m.word.user} \subseteq Users \union {NoUser}

\* A trigger is one word: splitCommand has taken it out of a command, or it is a key
\* of rp_phrases.json.  Responses and names are pieces of text.
IsText(t) == t \in Seq(Range(t))
ASSUME TextsAssumption ==
  /\ \A u \in Users : IsText(Name[u])
  /\ \A e \in Edits : e.action \in {"add", "remove", "edit"}
  /\ \A x \in Edits \union Defaults :
       /\ x.points \in Seq({p \in Unicode : ~IsSpace(p)})
       /\ IsText(x.response)

NoMessage == [points |-> <<>>]
NoEdit == [action |-> "none"]

Waiting == [is |-> "waiting", text |-> <<>>]
Silent == [is |-> "silent", text |-> <<>>]
Failed == [is |-> "failed", text |-> <<>>]

\* An item waits for resolveUsername ("mention"), getMessage ("reply"), the names
\* of the sender and of the target, or the RP service ("matching").
FreeItem == [stage |-> "free", msg |-> NoMessage, target |-> NoUser, reaction |-> Waiting]

NoCall == [of |-> "nothing", slot |-> 0, edit |-> NoEdit, served |-> FALSE, answer |-> Waiting]

LoopFree == call.of = "nothing"

Init ==
  /\ table = [t \in {StoredAs[d.points] : d \in Defaults} |->
                (CHOOSE d \in Defaults : StoredAs[d.points] = t).response]
  /\ items = [k \in Slots |-> FreeItem]
  /\ call = NoCall
  /\ edits = 0
  /\ recent = <<>>

-----------------------------------------------------------------------------
(* The core.                                                               *)

\* rememberChatMessage
Remember(entry) ==
  LET all == Append(recent, entry)
  IN  SubSeq(all, IF Len(all) > MaxContext THEN Len(all) - MaxContext + 1 ELSE 1, Len(all))

\* resolveRpReplyTarget
ReplyTarget(item) ==
  [item EXCEPT !.stage = IF item.msg.reply # NoUser THEN "reply" ELSE "sender"]

\* matchRp, which classifies the second word.
MatchRp(m) ==
  LET item == [FreeItem EXCEPT !.msg = m]
  IN  CASE m.word.kind = "mention" -> [item EXCEPT !.stage = "mention"]
        [] m.word.kind = "number"  -> [item EXCEPT !.stage = "sender", !.target = m.word.user]
        [] OTHER                   -> ReplyTarget(item)

\* handleMessage of a message that is no command.
Receive(k, m) ==
  /\ LoopFree
  /\ items[k].stage = "free"
  /\ \A j \in Slots : j < k => items[j].stage # "free"
  /\ recent' = Remember([sender |-> m.sender, text |-> CleanOf[m]])
  /\ items' = [items EXCEPT ![k] = MatchRp(m)]
  /\ UNCHANGED <<table, call, edits>>

\* resolveUsername finds a user ...
MentionFound(k) ==
  /\ LoopFree
  /\ items[k].stage = "mention"
  /\ items[k].msg.word.user # NoUser
  /\ items' = [items EXCEPT ![k].stage = "sender", ![k].target = items[k].msg.word.user]
  /\ UNCHANGED <<table, call, edits, recent>>

\* Mutant of MentionUnknown: an error of resolveUsername is dropped.
MentionDropped(k) ==
  /\ LoopFree
  /\ items[k].stage = "mention"
  /\ items[k].msg.word.user # NoUser
  /\ items' = [items EXCEPT ![k] = ReplyTarget(@)]
  /\ UNCHANGED <<table, call, edits, recent>>

\* ... or fails, or finds something else: the message replied to is tried.
MentionUnknown(k) ==
  /\ LoopFree
  /\ items[k].stage = "mention"
  /\ items' = [items EXCEPT ![k] = ReplyTarget(@)]
  /\ UNCHANGED <<table, call, edits, recent>>

\* getMessage names the author, or fails.
AuthorAnswered(k) ==
  /\ LoopFree
  /\ items[k].stage = "reply"
  /\ \E u \in {items[k].msg.reply, NoUser} :
       items' = [items EXCEPT ![k].stage = "sender", ![k].target = u]
  /\ UNCHANGED <<table, call, edits, recent>>

\* RpClient::match is called.
DispatchRpMatch(k) ==
  /\ items' = [items EXCEPT ![k].stage = "matching"]
  /\ call' = [NoCall EXCEPT !.of = "match", !.slot = k]
  /\ UNCHANGED <<table, edits, recent>>

\* getUserDisplayName of the sender: with an error the id stands for the name.
SenderNamed(k) ==
  /\ LoopFree
  /\ items[k].stage = "sender"
  /\ \/ /\ items[k].target = NoUser
        /\ DispatchRpMatch(k)
     \/ /\ items[k].target # NoUser
        /\ items' = [items EXCEPT ![k].stage = "target"]
        /\ UNCHANGED <<table, call, edits, recent>>

TargetNamed(k) ==
  /\ LoopFree
  /\ items[k].stage = "target"
  /\ DispatchRpMatch(k)

\* executeRpAdd, executeRpRemove and executeRpEdit: executeCommand is called.
ExecuteCommand(e) ==
  /\ LoopFree
  /\ edits < MaxEdits
  /\ edits' = edits + 1
  /\ call' = [NoCall EXCEPT !.of = "command", !.edit = e]
  /\ UNCHANGED <<table, items, recent>>

-----------------------------------------------------------------------------
(* The RP service, which has no other client.                              *)

\* The mention of a user, which is empty where there is none, and each response filled in.
MentionOf(u) == IF u = NoUser THEN <<>> ELSE Name[u]
ResponseTo ==
  [r \in {x.response : x \in Edits \union Defaults} |-> [from \in Users |->
     [to \in Users \union {NoUser} |-> SubstituteVariables(r, MentionOf(from), MentionOf(to))]]]

\* RpService::match
Match(m, target) ==
  LET t == TriggerOf[m]
  IN  IF t \in DOMAIN table
        THEN [is |-> "said", text |-> ResponseTo[table[t]][m.sender][target]]
        ELSE Silent

\* RpService::addCommand, removeCommand and editCommand.
Changed(e) ==
  LET t == StoredAs[e.points]
      put == [v \in DOMAIN table \union {t} |-> IF v = t THEN e.response ELSE table[v]]
  IN
  IF ~IsValidTrigger(t, MaxTrigger) THEN table
  ELSE CASE e.action = "add"  -> IF t \in DOMAIN table THEN table ELSE put
         [] e.action = "edit" -> IF t \in DOMAIN table THEN put ELSE table
         [] OTHER -> [v \in DOMAIN table \ {t} |-> table[v]]

ServeMatch ==
  /\ call.of = "match" /\ ~call.served
  /\ call' = [call EXCEPT !.served = TRUE,
                !.answer = Match(items[call.slot].msg, items[call.slot].target)]
  /\ UNCHANGED <<table, items, edits, recent>>

ServeCommand ==
  /\ call.of = "command" /\ ~call.served
  /\ table' = Changed(call.edit)
  /\ call' = [call EXCEPT !.served = TRUE, !.answer = Silent]
  /\ UNCHANGED <<items, edits, recent>>

\* No connection, no answer, another status than 200, no JSON or an error of Redis:
\* before or after the service has done its part.
CallFails ==
  /\ ~LoopFree
  /\ call.answer # Failed
  /\ call' = [call EXCEPT !.served = TRUE, !.answer = Failed]
  /\ UNCHANGED <<table, items, edits, recent>>

-----------------------------------------------------------------------------
\* dispatchRpMatch after the call: a match is sent to the chat, unless nothing is left
\* of its response.
Sent(answer) == IF answer = Failed \/ answer.text # <<>> THEN answer ELSE Silent
MatchReturns ==
  /\ call.of = "match" /\ call.served
  /\ items' = [items EXCEPT ![call.slot].stage = "done", ![call.slot].reaction = Sent(call.answer)]
  /\ call' = NoCall
  /\ UNCHANGED <<table, edits, recent>>

\* reportRpResult
CommandReturns ==
  /\ call.of = "command" /\ call.served
  /\ call' = NoCall
  /\ UNCHANGED <<table, items, edits, recent>>

Continue(k) ==
  \/ MentionFound(k)
  \/ MentionUnknown(k)
  \/ AuthorAnswered(k)
  \/ SenderNamed(k)
  \/ TargetNamed(k)

Serve == ServeMatch \/ ServeCommand \/ CallFails
Return == MatchReturns \/ CommandReturns

Next ==
  \/ \E k \in Slots, m \in Messages : Receive(k, m)
  \/ \E k \in Slots : Continue(k)
  \/ \E e \in Edits : ExecuteCommand(e)
  \/ Serve
  \/ Return

Spec == Init /\ [][Next]_vars

\* TDLib answers, the loop goes on taking answers, and the RP service answers or the
\* connection to it breaks: the code sets no limit to the time a call takes.
Fairness == WF_vars((\E k \in Slots : Continue(k)) \/ Serve \/ Return)
FairSpec == Spec /\ Fairness

-----------------------------------------------------------------------------
\* What the AI may see of each message: all but the unwanted code points.
Seen ==
  [m \in Messages |-> FlattenSeq([i \in DOMAIN m.points |->
     IF m.points[i] \in Unwanted THEN <<>> ELSE EncodeUtf8Point(m.points[i])])]

\* The latest messages are remembered for /ai with their senders, and each text is
\* well-formed and holds all that the AI may see of it and nothing else
\* (rememberChatMessage; sanitizeForAi at the boundaries of the encoding and ranges).
RememberedClean ==
  LET received == Cardinality({k \in Slots : items[k].stage # "free"})
      kept == IF received > MaxContext THEN MaxContext ELSE received
      entry(m) == [sender |-> m.sender, text |-> Seen[m]]
  IN  recent = [i \in 1..kept |-> entry(items[received - kept + i].msg)]

\* The triggers as users write them, with their bytes.
TriggerWords ==
  {[i \in DOMAIN w |-> Lower(w[i])] : w \in {e.points : e \in Edits \union Defaults}}
BytesOf == [w \in TriggerWords |-> Bytes(w)]

Promise ==
  INSTANCE Reactions WITH
    stored <- [w \in {w \in TriggerWords : BytesOf[w] \in DOMAIN table} |-> table[BytesOf[w]]],
    heard <- [k \in Slots |-> items[k].msg],
    reaction <- [k \in Slots |-> items[k].reaction]

\* A message is answered with the response stored at the moment of the answer, and
\* about a user it points at, whatever was looked up and edited meanwhile
\* (dispatchRpMatch blocks the loop).
ImplementsReactions == Promise!RSpec

\* Every message comes to something: the error branches of matchRp, of the look-ups
\* and of RpClient go on with it.
EveryMessageHeeded == Promise!Heeded

\* The texts for which the first of them holds.  toLower folds Latin letters and those of U+0400 to
\* U+042F, and misspells U+0080 to U+03FF.
SmallLetter(p) ==
  CASE p \in 65..90     -> p + 32
    [] p \in 1024..1039 -> p + 80
    [] p \in 1040..1071 -> p + 32
    [] OTHER            -> p
KnownLetter(p) == (p < 128 \/ p >= 1024) /\ Lower(p) = SmallLetter(p)
KnownLetters ==
  /\ \A x \in Edits \union Defaults : \A i \in DOMAIN x.points : KnownLetter(x.points[i])
  /\ \A m \in Messages : \A i \in DOMAIN m.points :
       (\A j \in 1..i : ~IsSpace(m.points[j])) => KnownLetter(m.points[i])

\* Telegram trims what users write.
Trimmed == \A m \in Messages : ~IsSpace(m.points[1])

\* replaceAll searches the names that earlier calls have put in.
PlainNames == \A u \in Users : {"{mention}", "{mention2}"} \intersect Range(Name[u]) = {}
=============================================================================

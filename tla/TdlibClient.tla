----------------------------- MODULE TdlibClient -----------------------------
(***************************************************************************)
(* TdlibClient of core/src/tdlib/tdlib_client.cpp over TDLib.              *)
(*                                                                         *)
(* Any thread may send a request: the id, the entry in callbacks_ and the  *)
(* hand-over to TDLib are one section under mutex_.  One thread, loop,     *)
(* takes the answers and updates in the order TDLib gave them, and runs    *)
(* the callbacks.  A message that is being sent is known by a temporary    *)
(* id, unique in its chat only, under which its outcome is awaited in      *)
(* pendingTextSends_ or pendingDocuments_.                                 *)
(***************************************************************************)
EXTENDS Integers, Sequences, FiniteSets

CONSTANTS
  Texts,        \* sendTextPlain with an onSent callback
  Documents,    \* /gclone: an archive is cloned and sent as a temporary file
  Replies,      \* sendText: parse the markdown, then send and forget
  NoJob,
  Chats,
  ChatOf,       \* the chat each of them is for
  MessageIds,   \* bound: the message ids TDLib uses within a chat
  MaxInbox      \* bound: answers and updates that wait for the loop

Jobs == Texts \union Documents \union Replies
Tracked == Texts \union Documents

\* Every job sends one request, a reply two.
RequestIds == 1..(Cardinality(Jobs) + Cardinality(Replies))

ASSUME TdlibClientAssumption ==
  /\ IsFiniteSet(Jobs)
  /\ NoJob \notin Jobs
  /\ Texts \intersect Documents = {}
  /\ Replies \intersect Tracked = {}
  /\ ChatOf \in [Tracked -> Chats]
  /\ 0 \notin MessageIds
  /\ MaxInbox \in Nat

VARIABLES
  asked,            \* the jobs begun
  nextRequestId,    \* nextRequestId_
  callbacks,        \* callbacks_: the job whose callback awaits each answer
  taken,            \* the requests TDLib has not answered
  inbox,            \* what TDLib has put out and receive has not taken
  message,          \* TDLib: the state and id of each tracked message
  pendingTexts,     \* pendingTextSends_: the job under each chat and id
  pendingDocs,      \* pendingDocuments_
  parsed,           \* the replies whose markdown was parsed
  told,             \* what onSent was called with
  file,             \* the temporary file of each document, and the thread that writes it
  running           \* running_

vars == <<asked, nextRequestId, callbacks, taken, inbox, message, pendingTexts,
          pendingDocs, parsed, told, file, running>>

-----------------------------------------------------------------------------
(***************************************************************************)
(* A message in TDLib:                                                     *)
(*   none      there is none yet                                           *)
(*   sending   it has a temporary id, and a document is being uploaded     *)
(*   sent      the server has confirmed it, with its final id              *)
(*   failed    it could not be sent, and has a new id                      *)
(*   dropped   it was deleted without having been sent                     *)
(*   gone      it was deleted after it was sent                            *)
(***************************************************************************)
NoId == 0
Unsent == [state |-> "none", id |-> NoId]
MessageStates == {"none", "sending", "sent", "failed", "dropped", "gone"}

Keys == Chats \X MessageIds

\* What TDLib puts out: the answer to a request (id is NoId for an error and for
\* an answer that is no message), or an update on messages of a chat.
Answer(request, ok, id) == [type |-> "answer", request |-> request, ok |-> ok, id |-> id]
Succeeded(chat, old, new) == [type |-> "succeeded", chat |-> chat, old |-> old, new |-> new]
Failed(chat, old, new) == [type |-> "failed", chat |-> chat, old |-> old, new |-> new]
Deleted(chat, ids) == [type |-> "deleted", chat |-> chat, ids |-> ids]

Init ==
  /\ asked = {}
  /\ nextRequestId = 1
  /\ callbacks = [r \in RequestIds |-> NoJob]
  /\ taken = {}
  /\ inbox = <<>>
  /\ message = [j \in Tracked |-> Unsent]
  /\ pendingTexts = [k \in Keys |-> NoJob]
  /\ pendingDocs = [k \in Keys |-> NoJob]
  /\ parsed = {}
  /\ told = [t \in Texts |-> "nothing"]
  /\ file = [d \in Documents |-> "none"]
  /\ running = TRUE

\* sendRequestImpl, under mutex_.
SendRequest(j) ==
  /\ callbacks' = [callbacks EXCEPT ![nextRequestId] = j]
  /\ nextRequestId' = nextRequestId + 1
  /\ taken' = taken \union {[request |-> nextRequestId, job |-> j]}

OnlyFile(d, state) ==
  /\ file' = [file EXCEPT ![d] = state]
  /\ UNCHANGED <<asked, nextRequestId, callbacks, taken, inbox, message, pendingTexts,
                 pendingDocs, parsed, told, running>>

\* executeGClone: the tools service is called in a thread of its own.
StartClone(d) == file[d] = "none" /\ OnlyFile(d, "cloning")

\* ToolsClient::clone returns an archive, and the thread writes it to a new directory;
SaveArchive(d) == file[d] = "cloning" /\ OnlyFile(d, "written")

\* or there is no archive, or the directory or the file cannot be written: the
\* directory is removed with all that is in it.
CloneFails(d) == file[d] = "cloning" /\ OnlyFile(d, "removed")

\* sendTextPlain, sendText or, by the thread of an archive, sendDocument.
Begin(j) ==
  /\ j \notin asked
  /\ j \in Documents => file[j] = "written"
  /\ asked' = asked \union {j}
  /\ SendRequest(j)
  /\ UNCHANGED <<inbox, message, pendingTexts, pendingDocs, parsed, told, file, running>>

-----------------------------------------------------------------------------
(* TDLib.                                                                  *)

\* The ids in use in a chat, the temporary ones among them.
IdsOf(chat) == {message[j].id : j \in {i \in Tracked : ChatOf[i] = chat}}
FreeIds(chat) == MessageIds \ IdsOf(chat)

Put(output) == Len(inbox) < MaxInbox /\ inbox' = Append(inbox, output)

\* The request of a send is answered by the message, with its temporary id ...
CreateMessage(q, id) ==
  /\ q.job \in Tracked
  /\ id \in FreeIds(ChatOf[q.job])
  /\ taken' = taken \ {q}
  /\ message' = [message EXCEPT ![q.job] = [state |-> "sending", id |-> id]]
  /\ Put(Answer(q.request, TRUE, id))
  /\ UNCHANGED <<asked, nextRequestId, callbacks, pendingTexts, pendingDocs, parsed, told,
                 file, running>>

\* ... those of a reply by a text to send and by a message nobody waits for ...
AcceptReply(q) ==
  /\ q.job \in Replies
  /\ taken' = taken \ {q}
  /\ Put(Answer(q.request, TRUE, NoId))
  /\ UNCHANGED <<asked, nextRequestId, callbacks, message, pendingTexts, pendingDocs, parsed,
                 told, file, running>>

\* ... and any of them by an error.
RefuseRequest(q) ==
  /\ taken' = taken \ {q}
  /\ Put(Answer(q.request, FALSE, NoId))
  /\ UNCHANGED <<asked, nextRequestId, callbacks, message, pendingTexts, pendingDocs, parsed,
                 told, file, running>>

\* The server confirms a message; its id may have been final from the start.
ConfirmMessage(j, id) ==
  /\ message[j].state = "sending"
  /\ id \in FreeIds(ChatOf[j]) \union {message[j].id}
  /\ message' = [message EXCEPT ![j] = [state |-> "sent", id |-> id]]
  /\ Put(Succeeded(ChatOf[j], message[j].id, id))
  /\ UNCHANGED <<asked, nextRequestId, callbacks, taken, pendingTexts, pendingDocs, parsed,
                 told, file, running>>

FailMessage(j, id) ==
  /\ message[j].state = "sending"
  /\ id \in FreeIds(ChatOf[j])
  /\ message' = [message EXCEPT ![j] = [state |-> "failed", id |-> id]]
  /\ Put(Failed(ChatOf[j], message[j].id, id))
  /\ UNCHANGED <<asked, nextRequestId, callbacks, taken, pendingTexts, pendingDocs, parsed,
                 told, file, running>>

\* Messages of a chat are deleted, one that is still being sent among them.
DeleteMessages(chat, D) ==
  /\ D # {}
  /\ \A j \in D : ChatOf[j] = chat /\ message[j].state \in {"sending", "sent", "failed"}
  /\ message' = [j \in Tracked |->
       IF j \notin D THEN message[j]
       ELSE [message[j] EXCEPT !.state = IF @ = "sent" THEN "gone" ELSE "dropped"]]
  /\ Put(Deleted(chat, {message[j].id : j \in D}))
  /\ UNCHANGED <<asked, nextRequestId, callbacks, taken, pendingTexts, pendingDocs, parsed,
                 told, file, running>>

-----------------------------------------------------------------------------
(* The loop: one answer or update of TDLib is taken and handled.           *)

\* Mutant of Settle: the table is searched by message id alone.
SettleAnyChat(chat, ids, outcome) ==
  LET heard == {pendingTexts[k] : k \in {l \in Keys : l[2] \in ids}} \ {NoJob} IN
  /\ told' = [t \in Texts |-> IF t \in heard THEN outcome ELSE told[t]]
  /\ pendingTexts' = [k \in Keys |-> IF k[2] \in ids THEN NoJob ELSE pendingTexts[k]]

\* settlePendingSend for each of a chat's ids: the waiting callbacks hear outcome.
Settle(chat, ids, outcome) ==
  LET heard == {pendingTexts[<<chat, id>>] : id \in ids} \ {NoJob} IN
  /\ told' = [t \in Texts |-> IF t \in heard THEN outcome ELSE told[t]]
  /\ pendingTexts' = [k \in Keys |->
       IF k[1] = chat /\ k[2] \in ids THEN NoJob ELSE pendingTexts[k]]

\* Mutant of RemoveDocuments: the table is searched by message id alone.
RemoveDocumentsAnyChat(chat, ids) ==
  LET ended == {pendingDocs[k] : k \in {l \in Keys : l[2] \in ids}} \ {NoJob} IN
  /\ file' = [d \in Documents |-> IF d \in ended THEN "removed" ELSE file[d]]
  /\ pendingDocs' = [k \in Keys |-> IF k[2] \in ids THEN NoJob ELSE pendingDocs[k]]

\* removePendingDocument for each of a chat's ids.
RemoveDocuments(chat, ids) ==
  LET ended == {pendingDocs[<<chat, id>>] : id \in ids} \ {NoJob} IN
  /\ file' = [d \in Documents |-> IF d \in ended THEN "removed" ELSE file[d]]
  /\ pendingDocs' = [k \in Keys |->
       IF k[1] = chat /\ k[2] \in ids THEN NoJob ELSE pendingDocs[k]]

\* The callback of a send: the message awaits its outcome under its temporary id.
SendAnswered(j, ok, id) ==
  \/ /\ ok /\ j \in Texts
     /\ pendingTexts' = [pendingTexts EXCEPT ![<<ChatOf[j], id>>] = j]
     /\ UNCHANGED <<pendingDocs, told, file>>
  \/ /\ ok /\ j \in Documents
     /\ pendingDocs' = [pendingDocs EXCEPT ![<<ChatOf[j], id>>] = j]
     /\ UNCHANGED <<pendingTexts, told, file>>
  \/ /\ ~ok /\ j \in Texts
     /\ told' = [told EXCEPT ![j] = "failed"]
     /\ UNCHANGED <<pendingTexts, pendingDocs, file>>
  \/ /\ ~ok /\ j \in Documents
     /\ file' = [file EXCEPT ![j] = "removed"]
     /\ UNCHANGED <<pendingTexts, pendingDocs, told>>
  \/ /\ j \in Replies \union {NoJob}
     /\ UNCHANGED <<pendingTexts, pendingDocs, told, file>>

\* Mutant of TakeAnswer: the callback stays in callbacks_.
TakeAnswerKeeps ==
  LET a == Head(inbox)
      j == callbacks[a.request] IN
  /\ a.type = "answer"
  /\ IF a.ok /\ j \in Replies \ parsed
       THEN parsed' = parsed \union {j} /\ SendRequest(j)
       ELSE UNCHANGED <<parsed, callbacks, nextRequestId, taken>>
  /\ SendAnswered(j, a.ok, a.id)

\* Mutant of TakeAnswer: every answer to a reply is taken for its parsed text.
TakeAnswerResends ==
  LET a == Head(inbox)
      j == callbacks[a.request]
      cleared == [callbacks EXCEPT ![a.request] = NoJob] IN
  /\ a.type = "answer"
  /\ IF a.ok /\ j \in Replies
       THEN /\ parsed' = parsed \union {j}
            /\ callbacks' = [cleared EXCEPT ![nextRequestId] = j]
            /\ nextRequestId' = nextRequestId + 1
            /\ taken' = taken \union {[request |-> nextRequestId, job |-> j]}
       ELSE callbacks' = cleared /\ UNCHANGED <<parsed, nextRequestId, taken>>
  /\ SendAnswered(j, a.ok, a.id)

\* An answer: its callback is taken out of callbacks_ and run.  A reply whose text
\* was parsed is sent; one whose text was not is dropped.
TakeAnswer ==
  LET a == Head(inbox)
      j == callbacks[a.request]
      cleared == [callbacks EXCEPT ![a.request] = NoJob] IN
  /\ a.type = "answer"
  /\ IF a.ok /\ j \in Replies \ parsed
       THEN /\ parsed' = parsed \union {j}
            /\ callbacks' = [cleared EXCEPT ![nextRequestId] = j]
            /\ nextRequestId' = nextRequestId + 1
            /\ taken' = taken \union {[request |-> nextRequestId, job |-> j]}
       ELSE /\ callbacks' = cleared
            /\ UNCHANGED <<parsed, nextRequestId, taken>>
  /\ SendAnswered(j, a.ok, a.id)

\* updateMessageSendSucceeded in processUpdate
TakeSucceeded ==
  LET u == Head(inbox) IN
  /\ u.type = "succeeded"
  /\ RemoveDocuments(u.chat, {u.old})
  /\ Settle(u.chat, {u.old}, "sent")
  /\ UNCHANGED <<callbacks, parsed, nextRequestId, taken>>

\* Mutant of TakeFailed: the handler sees to documents only.
TakeFailedDocuments ==
  LET u == Head(inbox) IN
  /\ u.type = "failed"
  /\ RemoveDocuments(u.chat, {u.old, u.new})
  /\ UNCHANGED <<pendingTexts, told, callbacks, parsed, nextRequestId, taken>>

\* handleDocumentSendFailure
TakeFailed ==
  LET u == Head(inbox) IN
  /\ u.type = "failed"
  /\ RemoveDocuments(u.chat, {u.old, u.new})
  /\ Settle(u.chat, {u.old}, "failed")
  /\ UNCHANGED <<callbacks, parsed, nextRequestId, taken>>

\* Mutant of TakeDeleted: only tracked text sends are settled.
TakeDeletedTexts ==
  LET u == Head(inbox) IN
  /\ u.type = "deleted"
  /\ Settle(u.chat, u.ids, "failed")
  /\ UNCHANGED <<pendingDocs, file, callbacks, parsed, nextRequestId, taken>>

\* handleDeletedMessages
TakeDeleted ==
  LET u == Head(inbox) IN
  /\ u.type = "deleted"
  /\ RemoveDocuments(u.chat, u.ids)
  /\ Settle(u.chat, u.ids, "failed")
  /\ UNCHANGED <<callbacks, parsed, nextRequestId, taken>>

Receive ==
  /\ inbox # <<>>
  /\ inbox' = Tail(inbox)
  /\ TakeAnswer \/ TakeSucceeded \/ TakeFailed \/ TakeDeleted
  /\ UNCHANGED <<asked, message, running>>

\* stop: the loop ends, TDLib is closed, and the process ends.
Stop ==
  /\ running' = FALSE
  /\ UNCHANGED <<asked, nextRequestId, callbacks, taken, inbox, message, pendingTexts,
                 pendingDocs, parsed, told, file>>

Requested(q) ==
  \/ \E id \in MessageIds : CreateMessage(q, id)
  \/ AcceptReply(q)
  \/ RefuseRequest(q)

Outcome(j) ==
  \/ \E id \in MessageIds : ConfirmMessage(j, id) \/ FailMessage(j, id)

Next ==
  /\ running
  /\ \/ \E j \in Jobs : Begin(j)
     \/ \E d \in Documents : StartClone(d) \/ SaveArchive(d) \/ CloneFails(d)
     \/ \E j \in Tracked : Outcome(j)
     \/ \E q \in taken : Requested(q)
     \/ \E chat \in Chats, D \in SUBSET Tracked : DeleteMessages(chat, D)
     \/ Receive
     \/ Stop

Spec == Init /\ [][Next]_vars

\* TDLib answers every request and settles every message it is sending; the loop
\* takes what there is, and the thread that wrote an archive sends it.  Nothing is
\* assumed of the tools service, whose call has no timeout.
Fairness ==
  /\ WF_vars(running /\ \E q \in taken : Requested(q))
  /\ \A j \in Tracked : WF_vars(running /\ Outcome(j))
  /\ \A d \in Documents : WF_vars(running /\ Begin(d))
  /\ WF_vars(running /\ Receive)
FairSpec == Spec /\ Fairness

-----------------------------------------------------------------------------
(* Properties.                                                             *)

Outputs ==
  [type : {"answer"}, request : RequestIds, ok : BOOLEAN, id : MessageIds \union {NoId}]
  \union [type : {"succeeded", "failed"}, chat : Chats, old : MessageIds, new : MessageIds]
  \union [type : {"deleted"}, chat : Chats, ids : SUBSET MessageIds]

\* Request ids do not run out, and message ids are never NoId under a key.
TypeOK ==
  /\ asked \subseteq Jobs
  /\ nextRequestId \in RequestIds \union {Cardinality(RequestIds) + 1}
  /\ callbacks \in [RequestIds -> Jobs \union {NoJob}]
  /\ taken \subseteq [request : RequestIds, job : Jobs]
  /\ inbox \in Seq(Outputs)
  /\ message \in [Tracked -> [state : MessageStates, id : MessageIds \union {NoId}]]
  /\ pendingTexts \in [Keys -> Texts \union {NoJob}]
  /\ pendingDocs \in [Keys -> Documents \union {NoJob}]
  /\ parsed \subseteq Replies
  /\ told \in [Texts -> {"nothing", "sent", "failed"}]
  /\ file \in [Documents -> {"none", "cloning", "written", "removed"}]
  /\ running \in BOOLEAN

\* The temporary file of a document is there for as long as TDLib may be reading
\* it, whatever happens to messages of the same id in other chats.
FileThereDuringUpload ==
  \A d \in Documents :
    \/ message[d].state = "sending"
    \/ \E q \in taken : q.job = d
    => file[d] = "written"

\* Every callback in the table awaits an answer that TDLib owes or has given: the
\* table does not grow, and no answer comes twice to one callback.
CallbacksAwaited ==
  \A r \in RequestIds : callbacks[r] # NoJob =>
    \/ \E q \in taken : q.request = r /\ q.job = callbacks[r]
    \/ \E n \in 1..Len(inbox) : inbox[n].type = "answer" /\ inbox[n].request = r

\* Every send with an onSent keeps the promise of Sends: told once, its own
\* outcome, and of success only once the server has confirmed that message.
Confirmed == {t \in Texts : message[t].state \in {"sent", "gone"}}
Promise == INSTANCE Sends WITH asked <- asked \intersect Texts, confirmed <- Confirmed
ImplementsSends == Promise!SSpec

\* Every onSent is called in the end, unless the client is stopped.
EverySendTold ==
  \A t \in Texts : t \in asked ~> told[t] # "nothing" \/ ~running

\* No temporary file stays, unless the client is stopped.
FilesRemoved ==
  \A d \in Documents : file[d] = "written" ~> file[d] = "removed" \/ ~running
=============================================================================

-------------------------- MODULE TdlibClientProofs --------------------------
(***************************************************************************)
(* Proofs about TdlibClient for any number of jobs, chats and ids.         *)
(*                                                                         *)
(* An answer and the updates after it reach the loop in the order TDLib    *)
(* gave them.  So a message that waits under its temporary id, from the    *)
(* place of its answer on, meets no update of that id before its own       *)
(* outcome, though the id may be in use in other chats, and may have been  *)
(* in use before and be in use again in its own.                           *)
(***************************************************************************)
EXTENDS TdlibClient, FiniteSetTheorems, SequenceTheorems, TLAPS

-----------------------------------------------------------------------------
(* The inductive invariant.                                                *)

Counted ==
  /\ nextRequestId = 1 + Cardinality(asked) + Cardinality(parsed)
  /\ IsFiniteSet(asked) /\ IsFiniteSet(parsed)

\* A callback is of a job that was begun; a tracked job has one request.
CallbacksKnown ==
  /\ \A r \in RequestIds : callbacks[r] # NoJob => callbacks[r] \in asked /\ r < nextRequestId
  /\ \A r, s \in RequestIds : callbacks[r] = callbacks[s] /\ callbacks[r] \in Tracked => r = s

TakenAwaited ==
  \A q \in taken : /\ callbacks[q.request] = q.job
                   /\ q.job \in Tracked => message[q.job].state = "none"

\* The job whose callback awaits the answer at place n.
AnswerFor(n, j) == inbox[n].type = "answer" /\ callbacks[inbox[n].request] = j

AnswersAwaited ==
  \A n \in 1..Len(inbox) : inbox[n].type = "answer" =>
    /\ callbacks[inbox[n].request] # NoJob
    /\ \A q \in taken : q.request # inbox[n].request
    /\ \A m \in 1..Len(inbox) :
         inbox[m].type = "answer" /\ inbox[m].request = inbox[n].request => m = n
    /\ ~inbox[n].ok => \A j \in Tracked : AnswerFor(n, j) => message[j].state = "none"

Requests == CallbacksKnown /\ TakenAwaited /\ AnswersAwaited /\ CallbacksAwaited

\* The messages of a chat have different ids.
Ids ==
  /\ \A j \in Tracked : message[j].state # "none" => j \in asked /\ message[j].id \in MessageIds
  /\ \A i, j \in Tracked : /\ i # j
                           /\ ChatOf[i] = ChatOf[j]
                           /\ message[i].state # "none"
                           /\ message[j].state # "none"
                           => message[i].id # message[j].id
  /\ \A j \in Tracked : message[j].state = "none" => message[j].id = NoId

\* What waits for its outcome has had its answer, and a text waits in one place.
Registered ==
  /\ \A k \in Keys : pendingTexts[k] # NoJob =>
       /\ k[1] = ChatOf[pendingTexts[k]] /\ pendingTexts[k] \in asked
       /\ \A r \in RequestIds : callbacks[r] # pendingTexts[k]
       /\ \A l \in Keys : pendingTexts[l] = pendingTexts[k] => l = k
  /\ \A k \in Keys : pendingDocs[k] # NoJob =>
       /\ k[1] = ChatOf[pendingDocs[k]] /\ pendingDocs[k] \in asked
       /\ \A r \in RequestIds : callbacks[r] # pendingDocs[k]

\* A send that is under way has not been told of its outcome.
NotYetTold ==
  \A t \in Texts :
    \/ t \notin asked
    \/ message[t].state = "sending"
    \/ \E r \in RequestIds : callbacks[r] = t
    \/ \E k \in Keys : pendingTexts[k] = t
    => told[t] = "nothing"

\* The update concerns the message id of the chat: for texts, and for documents.
Settles(u, chat, id) ==
  \/ u.type \in {"succeeded", "failed"} /\ u.chat = chat /\ u.old = id
  \/ u.type = "deleted" /\ u.chat = chat /\ id \in u.ids
Removes(u, chat, id) ==
  Settles(u, chat, id) \/ (u.type = "failed" /\ u.chat = chat /\ u.new = id)

\* The message of j is awaited under id: the loop knows it (place is 0), or will
\* from the answer at that place.
Waits(j, id, place) ==
  \/ /\ place = 0 /\ id \in MessageIds
     /\ \/ j \in Texts /\ pendingTexts[<<ChatOf[j], id>>] = j
        \/ j \in Documents /\ pendingDocs[<<ChatOf[j], id>>] = j
  \/ place # 0 /\ AnswerFor(place, j) /\ inbox[place].ok /\ inbox[place].id = id

SomeId == MessageIds \union {NoId}

\* While a message is being sent, no update concerns the id it waits under.
SendingOrder ==
  \A j \in Tracked, id \in SomeId, p \in 0..Len(inbox) : Waits(j, id, p) =>
    /\ id \in MessageIds
    /\ message[j].state # "none"
    /\ message[j].state = "sending" =>
         /\ message[j].id = id
         /\ \A n \in (p + 1)..Len(inbox) : ~Removes(inbox[n], ChatOf[j], id)

\* The first update on that id after place p is of these types.
FirstUpdate(chat, id, p, types) ==
  \E n \in (p + 1)..Len(inbox) :
    /\ inbox[n].type \in types
    /\ Settles(inbox[n], chat, id)
    /\ \A m \in (p + 1)..(n - 1) : ~Settles(inbox[m], chat, id)

\* Afterwards, the first one tells its own outcome.
SettledOrder ==
  \A t \in Texts, id \in SomeId, p \in 0..Len(inbox) : Waits(t, id, p) =>
    /\ message[t].state \in {"sent", "gone"} => FirstUpdate(ChatOf[t], id, p, {"succeeded"})
    /\ message[t].state \in {"failed", "dropped"} =>
         FirstUpdate(ChatOf[t], id, p, {"failed", "deleted"})

IInv ==
  /\ TypeOK /\ Counted /\ Requests /\ Ids /\ Registered
  /\ NotYetTold /\ FileThereDuringUpload /\ SendingOrder /\ SettledOrder

-----------------------------------------------------------------------------
(* Facts about the constants and about the queue of TDLib.                 *)

LEMMA Constants ==
  /\ Texts \subseteq Jobs /\ Documents \subseteq Jobs /\ Replies \subseteq Jobs
  /\ Tracked \subseteq Jobs /\ NoJob \notin Jobs
  /\ Tracked \intersect Replies = {} /\ Texts \intersect Documents = {}
  /\ IsFiniteSet(Replies)
  /\ Cardinality(Jobs) \in Nat /\ Cardinality(Replies) \in Nat
  /\ NoId \notin MessageIds
  /\ \A j \in Tracked : ChatOf[j] \in Chats
<1>1. Replies \subseteq Jobs /\ IsFiniteSet(Jobs)
  BY TdlibClientAssumption DEF Jobs
<1>2. IsFiniteSet(Replies)
  BY <1>1, FS_Subset
<1> QED
  BY <1>1, <1>2, FS_CardinalityType, TdlibClientAssumption DEF Jobs, Tracked, NoId

LEMMA OutputKinds ==
  ASSUME NEW u \in Outputs
  PROVE  /\ u.type \in {"answer", "succeeded", "failed", "deleted"}
         /\ u.type = "answer" => /\ u.request \in RequestIds /\ u.ok \in BOOLEAN
                                /\ u.id \in SomeId
         /\ u.type \in {"succeeded", "failed"} => /\ u.chat \in Chats /\ u.old \in MessageIds
                                                /\ u.new \in MessageIds
         /\ u.type = "deleted" => u.chat \in Chats /\ u.ids \subseteq MessageIds
BY DEF Outputs, SomeId

LEMMA PutFacts ==
  ASSUME NEW o \in Outputs, Put(o), inbox \in Seq(Outputs)
  PROVE  /\ inbox' \in Seq(Outputs)
         /\ Len(inbox') = Len(inbox) + 1
         /\ Len(inbox) \in Nat
         /\ \A n \in 1..Len(inbox) : inbox'[n] = inbox[n]
         /\ inbox'[Len(inbox) + 1] = o
BY DEF Put

LEMMA TailFacts ==
  ASSUME inbox \in Seq(Outputs), inbox # <<>>, inbox' = Tail(inbox)
  PROVE  /\ inbox' \in Seq(Outputs)
         /\ Len(inbox) \in Nat /\ Len(inbox) >= 1
         /\ Len(inbox') = Len(inbox) - 1
         /\ \A n \in 1..(Len(inbox) - 1) : inbox'[n] = inbox[n + 1]
         /\ Head(inbox) = inbox[1]
         /\ Head(inbox) \in Outputs
OBVIOUS

LEMMA OutputsPut ==
  /\ \A r \in RequestIds, ok \in BOOLEAN, id \in SomeId : Answer(r, ok, id) \in Outputs
  /\ \A chat \in Chats, old, new \in MessageIds :
       Succeeded(chat, old, new) \in Outputs /\ Failed(chat, old, new) \in Outputs
  /\ \A chat \in Chats, ids \in SUBSET MessageIds : Deleted(chat, ids) \in Outputs
BY DEF Outputs, SomeId, Answer, Succeeded, Failed, Deleted

-----------------------------------------------------------------------------
(* Types: the request ids suffice.                                         *)

TInv == TypeOK /\ Counted

\* An id is left for a job that has not begun, and for the second request of a reply.
LEMMA IdLeft ==
  ASSUME TInv, asked # Jobs \/ parsed # Replies
  PROVE  nextRequestId \in RequestIds
<1>1. /\ asked \subseteq Jobs /\ parsed \subseteq Replies /\ IsFiniteSet(Jobs) /\ IsFiniteSet(Replies)
  BY Constants, TdlibClientAssumption DEF TInv, TypeOK
<1>2. Cardinality(asked) <= Cardinality(Jobs) /\ (asked # Jobs => Cardinality(asked) < Cardinality(Jobs))
  BY <1>1, FS_Subset, FS_CardinalityType
<1>3. /\ Cardinality(parsed) <= Cardinality(Replies)
      /\ parsed # Replies => Cardinality(parsed) < Cardinality(Replies)
  BY <1>1, FS_Subset, FS_CardinalityType
<1>4. Cardinality(asked) \in Nat /\ Cardinality(parsed) \in Nat
  BY FS_CardinalityType DEF TInv, Counted
<1> QED
  BY <1>2, <1>3, <1>4, Constants DEF TInv, Counted, RequestIds

LEMMA CountedNext ==
  ASSUME TInv, nextRequestId \in RequestIds
  PROVE  nextRequestId + 1 \in RequestIds \union {Cardinality(RequestIds) + 1}
<1>1. Cardinality(RequestIds) = Cardinality(Jobs) + Cardinality(Replies)
  BY Constants, FS_Interval DEF RequestIds
<1> QED
  BY <1>1, Constants DEF RequestIds

LEMMA SendRequestTypes ==
  ASSUME TInv, NEW j \in Jobs, nextRequestId \in RequestIds,
         nextRequestId' = nextRequestId + 1,
         taken' = taken \union {[request |-> nextRequestId, job |-> j]}
  PROVE  /\ taken' \subseteq [request : RequestIds, job : Jobs]
         /\ nextRequestId' \in RequestIds \union {Cardinality(RequestIds) + 1}
BY CountedNext DEF TInv, TypeOK

LEMMA BeginTypes ==
  ASSUME TInv, NEW j \in Jobs, Begin(j)
  PROVE  TInv' /\ nextRequestId \in RequestIds
<1>1. nextRequestId \in RequestIds
  BY IdLeft DEF Begin
<1>2. callbacks' \in [RequestIds -> Jobs \union {NoJob}]
  BY <1>1 DEF Begin, SendRequest, TInv, TypeOK
<1>3. /\ taken' \subseteq [request : RequestIds, job : Jobs]
      /\ nextRequestId' \in RequestIds \union {Cardinality(RequestIds) + 1}
  BY <1>1, SendRequestTypes DEF Begin, SendRequest
<1>4. TypeOK'
  BY <1>2, <1>3 DEF Begin, TInv, TypeOK
<1>5. IsFiniteSet(asked') /\ Cardinality(asked') = Cardinality(asked) + 1
  BY FS_AddElement DEF Begin, TInv, Counted
<1>6. Counted'
  BY <1>5, FS_CardinalityType DEF Begin, SendRequest, TInv, Counted
<1> QED
  BY <1>1, <1>4, <1>6 DEF TInv

\* An update of TDLib changes its own state only.
TdlibVars == <<asked, nextRequestId, callbacks, pendingTexts, pendingDocs, parsed, told, file, running>>

LEMMA TdlibTypes ==
  ASSUME TInv, NEW o \in Outputs, Put(o), UNCHANGED TdlibVars, taken' \subseteq taken,
         message' \in [Tracked -> [state : MessageStates, id : SomeId]]
  PROVE  TInv'
<1>1. inbox' \in Seq(Outputs)
  BY PutFacts DEF TInv, TypeOK
<1> QED
  BY <1>1 DEF TInv, TypeOK, Counted, TdlibVars, SomeId

\* What TDLib puts out.
LEMMA TdlibSteps ==
  ASSUME TInv
  PROVE  /\ \A q \in taken, id \in MessageIds : CreateMessage(q, id) =>
              /\ Answer(q.request, TRUE, id) \in Outputs
              /\ message' \in [Tracked -> [state : MessageStates, id : SomeId]]
         /\ \A q \in taken : /\ Answer(q.request, TRUE, NoId) \in Outputs
                             /\ Answer(q.request, FALSE, NoId) \in Outputs
         /\ \A j \in Tracked, id \in MessageIds :
              /\ ConfirmMessage(j, id) \/ FailMessage(j, id) =>
                   message' \in [Tracked -> [state : MessageStates, id : SomeId]]
              /\ message[j].id \in MessageIds =>
                   /\ Succeeded(ChatOf[j], message[j].id, id) \in Outputs
                   /\ Failed(ChatOf[j], message[j].id, id) \in Outputs
         /\ \A chat \in Chats, D \in SUBSET Tracked : DeleteMessages(chat, D) =>
              message' \in [Tracked -> [state : MessageStates, id : SomeId]]
<1>1. message \in [Tracked -> [state : MessageStates, id : SomeId]]
  BY DEF TInv, TypeOK, SomeId
<1>2. \A q \in taken : q.request \in RequestIds
  BY DEF TInv, TypeOK
<1>3. /\ \A q \in taken : /\ Answer(q.request, TRUE, NoId) \in Outputs
                          /\ Answer(q.request, FALSE, NoId) \in Outputs
      /\ \A q \in taken, id \in MessageIds : Answer(q.request, TRUE, id) \in Outputs
  BY <1>2, OutputsPut DEF SomeId
<1>4. \A q \in taken, id \in MessageIds : CreateMessage(q, id) =>
         message' \in [Tracked -> [state : MessageStates, id : SomeId]]
  BY <1>1 DEF CreateMessage, MessageStates, SomeId
<1>5. \A j \in Tracked, id \in MessageIds :
        /\ ConfirmMessage(j, id) \/ FailMessage(j, id) =>
             message' \in [Tracked -> [state : MessageStates, id : SomeId]]
        /\ message[j].id \in MessageIds =>
             /\ Succeeded(ChatOf[j], message[j].id, id) \in Outputs
             /\ Failed(ChatOf[j], message[j].id, id) \in Outputs
  BY <1>1, OutputsPut, Constants DEF ConfirmMessage, FailMessage, MessageStates, SomeId
<1>6. \A chat \in Chats, D \in SUBSET Tracked : DeleteMessages(chat, D) =>
        message' \in [Tracked -> [state : MessageStates, id : SomeId]]
  BY <1>1 DEF DeleteMessages, MessageStates
<1> QED
  BY <1>3, <1>4, <1>5, <1>6

-----------------------------------------------------------------------------
(* The loop.                                                               *)

\* The head of the queue is in Outputs, and its fields are typed by its kind.
LEMMA HeadFacts ==
  ASSUME TInv, Receive
  PROVE  /\ inbox \in Seq(Outputs) /\ inbox # <<>> /\ inbox' = Tail(inbox)
         /\ Head(inbox) = inbox[1] /\ Head(inbox) \in Outputs
         /\ Len(inbox) \in Nat /\ Len(inbox) >= 1
         /\ inbox' \in Seq(Outputs)
         /\ Len(inbox') = Len(inbox) - 1
         /\ \A n \in 1..(Len(inbox) - 1) : inbox'[n] = inbox[n + 1]
<1>1. inbox \in Seq(Outputs) /\ inbox # <<>> /\ inbox' = Tail(inbox)
  BY DEF TInv, TypeOK, Receive
<1> QED
  BY <1>1, TailFacts

LEMMA SettleTypes ==
  ASSUME TInv, NEW chat, NEW ids \in SUBSET MessageIds, NEW outcome \in {"sent", "failed"}
  PROVE  /\ Settle(chat, ids, outcome) =>
              /\ told' \in [Texts -> {"nothing", "sent", "failed"}]
              /\ pendingTexts' \in [Keys -> Texts \union {NoJob}]
         /\ RemoveDocuments(chat, ids) =>
              /\ file' \in [Documents -> {"none", "cloning", "written", "removed"}]
              /\ pendingDocs' \in [Keys -> Documents \union {NoJob}]
BY DEF TInv, TypeOK, Settle, RemoveDocuments

LEMMA SendAnsweredTypes ==
  ASSUME TInv, NEW j \in Jobs \union {NoJob}, NEW ok \in BOOLEAN, NEW id, SendAnswered(j, ok, id)
  PROVE  /\ told' \in [Texts -> {"nothing", "sent", "failed"}]
         /\ file' \in [Documents -> {"none", "cloning", "written", "removed"}]
         /\ pendingTexts' \in [Keys -> Texts \union {NoJob}]
         /\ pendingDocs' \in [Keys -> Documents \union {NoJob}]
BY DEF TInv, TypeOK, SendAnswered

\* An answer is taken: the callback of its request is gone, and a reply may be sent.
LEMMA AnswerTaken ==
  ASSUME TInv, Receive, TakeAnswer
  PROVE  LET a == Head(inbox)
             j == callbacks[a.request]
         IN  /\ a.request \in RequestIds /\ a.ok \in BOOLEAN /\ a.id \in SomeId
             /\ j \in Jobs \union {NoJob}
             /\ SendAnswered(j, a.ok, a.id)
             /\ \/ /\ j \in Replies \ parsed /\ nextRequestId \in RequestIds
                   /\ callbacks' = [r \in RequestIds |->
                                      IF r = nextRequestId THEN j
                                      ELSE IF r = a.request THEN NoJob ELSE callbacks[r]]
                   /\ parsed' = parsed \union {j}
                   /\ nextRequestId' = nextRequestId + 1
                   /\ taken' = taken \union {[request |-> nextRequestId, job |-> j]}
                \/ /\ callbacks' = [r \in RequestIds |->
                                      IF r = a.request THEN NoJob ELSE callbacks[r]]
                   /\ UNCHANGED <<parsed, nextRequestId, taken>>
<1> DEFINE a == Head(inbox)
           j == callbacks[a.request]
<1>1. a \in Outputs /\ a.type = "answer"
  BY HeadFacts DEF TakeAnswer
<1>2. a.request \in RequestIds /\ a.ok \in BOOLEAN /\ a.id \in SomeId
  BY <1>1, OutputKinds
<1>3. j \in Jobs \union {NoJob} /\ SendAnswered(j, a.ok, a.id)
  BY <1>2 DEF TInv, TypeOK, TakeAnswer
<1>4. callbacks \in [RequestIds -> Jobs \union {NoJob}]
  BY DEF TInv, TypeOK
<1>5. CASE j \in Replies \ parsed
  <2>1. nextRequestId \in RequestIds
    BY <1>5, IdLeft
  <2> QED
    BY <1>2, <1>3, <1>4, <1>5, <2>1 DEF TakeAnswer
<1>6. CASE j \notin Replies \ parsed
  BY <1>2, <1>3, <1>4, <1>6 DEF TakeAnswer
<1> QED
  BY <1>5, <1>6

LEMMA ReceiveTypes ==
  ASSUME TInv, Receive
  PROVE  TInv'
<1>1. inbox' \in Seq(Outputs)
  BY HeadFacts
<1>2. CASE TakeAnswer
  <2> DEFINE a == Head(inbox)
             j == callbacks[a.request]
  <2>1. /\ told' \in [Texts -> {"nothing", "sent", "failed"}]
        /\ file' \in [Documents -> {"none", "cloning", "written", "removed"}]
        /\ pendingTexts' \in [Keys -> Texts \union {NoJob}]
        /\ pendingDocs' \in [Keys -> Documents \union {NoJob}]
    BY <1>2, AnswerTaken, SendAnsweredTypes
  <2>2. CASE /\ j \in Replies \ parsed /\ nextRequestId \in RequestIds
             /\ callbacks' = [r \in RequestIds |->
                                IF r = nextRequestId THEN j
                                ELSE IF r = a.request THEN NoJob ELSE callbacks[r]]
             /\ parsed' = parsed \union {j}
             /\ nextRequestId' = nextRequestId + 1
             /\ taken' = taken \union {[request |-> nextRequestId, job |-> j]}
    <3>1. j \in Jobs
      BY <2>2, Constants
    <3>2. callbacks' \in [RequestIds -> Jobs \union {NoJob}]
      BY <2>2, <3>1 DEF TInv, TypeOK
    <3>3. /\ taken' \subseteq [request : RequestIds, job : Jobs]
          /\ nextRequestId' \in RequestIds \union {Cardinality(RequestIds) + 1}
      BY <2>2, <3>1, SendRequestTypes
    <3>4. IsFiniteSet(parsed') /\ Cardinality(parsed') = Cardinality(parsed) + 1
      BY <2>2, FS_AddElement DEF TInv, Counted
    <3>5. UNCHANGED <<asked, message, running>> /\ parsed' \subseteq Replies
      BY <2>2 DEF Receive, TInv, TypeOK
    <3>6. TypeOK'
      BY <1>1, <2>1, <3>2, <3>3, <3>5 DEF TInv, TypeOK
    <3>7. Counted'
      BY <2>2, <3>4, <3>5, FS_CardinalityType DEF TInv, Counted
    <3> QED
      BY <3>6, <3>7 DEF TInv
  <2>3. CASE /\ callbacks' = [r \in RequestIds |->
                                IF r = a.request THEN NoJob ELSE callbacks[r]]
             /\ UNCHANGED <<parsed, nextRequestId, taken>>
    BY <1>1, <2>1, <2>3 DEF TInv, TypeOK, Counted, Receive
  <2> QED
    BY <1>2, <2>2, <2>3, AnswerTaken
<1>3. CASE ~TakeAnswer
  <2>1. /\ told' \in [Texts -> {"nothing", "sent", "failed"}]
        /\ pendingTexts' \in [Keys -> Texts \union {NoJob}]
        /\ file' \in [Documents -> {"none", "cloning", "written", "removed"}]
        /\ pendingDocs' \in [Keys -> Documents \union {NoJob}]
    BY <1>3, HeadFacts, OutputKinds, SettleTypes
       DEF Receive, TakeSucceeded, TakeFailed, TakeDeleted
  <2>2. UNCHANGED <<callbacks, parsed, nextRequestId, taken>>
    BY <1>3 DEF Receive, TakeSucceeded, TakeFailed, TakeDeleted
  <2> QED
    BY <1>1, <2>1, <2>2 DEF TInv, TypeOK, Counted, Receive
<1> QED
  BY <1>2, <1>3

-----------------------------------------------------------------------------
(* One callback for every answer that is owed.                             *)

\* A new request.
LEMMA BeginRequests ==
  ASSUME TInv, Requests, Ids, NEW j \in Jobs, Begin(j)
  PROVE  Requests'
<1> DEFINE new == [request |-> nextRequestId, job |-> j]
<1>1. /\ nextRequestId \in RequestIds /\ j # NoJob
      /\ callbacks \in [RequestIds -> Jobs \union {NoJob}]
      /\ taken \subseteq [request : RequestIds, job : Jobs]
      /\ nextRequestId \in Nat
  BY BeginTypes, Constants DEF TInv, TypeOK, RequestIds
<1>2. /\ callbacks' = [callbacks EXCEPT ![nextRequestId] = j]
      /\ nextRequestId' = nextRequestId + 1
      /\ taken' = taken \union {new}
      /\ asked' = asked \union {j} /\ j \notin asked
      /\ UNCHANGED <<inbox, message>>
  BY DEF Begin, SendRequest
<1>3. callbacks[nextRequestId] = NoJob
  BY <1>1 DEF Requests, CallbacksKnown
<1>4. \A r \in RequestIds : callbacks'[r] = IF r = nextRequestId THEN j ELSE callbacks[r]
  BY <1>1, <1>2
<1>5. CallbacksKnown'
  BY <1>1, <1>2, <1>4 DEF Requests, CallbacksKnown, RequestIds
<1>6. TakenAwaited'
  <2>1. \A q \in taken : q.request # nextRequestId
    BY <1>1, <1>3, Constants DEF Requests, TakenAwaited
  <2>2. j \in Tracked => message[j].state = "none"
    BY <1>2 DEF Ids
  <2> QED
    BY <1>1, <1>2, <1>4, <2>1, <2>2 DEF Requests, TakenAwaited
<1>7. AnswersAwaited'
  <2>1. \A n \in 1..Len(inbox) : inbox[n].type = "answer" =>
          inbox[n].request \in RequestIds \ {nextRequestId}
    <3> SUFFICES ASSUME NEW n \in 1..Len(inbox), inbox[n].type = "answer"
                 PROVE  inbox[n].request \in RequestIds \ {nextRequestId}
      OBVIOUS
    <3>1. inbox[n] \in Outputs
      BY DEF TInv, TypeOK
    <3> QED
      BY <1>3, <3>1, OutputKinds DEF Requests, AnswersAwaited
  <2> QED
    BY <1>1, <1>2, <1>4, <2>1 DEF Requests, AnswersAwaited, AnswerFor
<1>8. CallbacksAwaited'
  <2> SUFFICES ASSUME NEW r \in RequestIds, callbacks'[r] # NoJob
               PROVE  \/ \E q \in taken' : q.request = r /\ q.job = callbacks'[r]
                      \/ \E n \in 1..Len(inbox) : inbox[n].type = "answer" /\ inbox[n].request = r
    BY <1>2 DEF CallbacksAwaited
  <2>1. CASE r = nextRequestId
    <3>1. new \in taken' /\ new.request = r /\ new.job = callbacks'[r]
      BY <1>2, <1>4, <2>1
    <3> QED
      BY <3>1
  <2>2. CASE r # nextRequestId
    BY <1>2, <1>4, <2>2 DEF Requests, CallbacksAwaited
  <2> QED
    BY <2>1, <2>2
<1> QED
  BY <1>5, <1>6, <1>7, <1>8 DEF Requests

\* TDLib answers a request.
LEMMA AnsweredRequests ==
  ASSUME TInv, Requests, NEW q \in taken, NEW ok \in BOOLEAN, NEW id \in SomeId,
         Put(Answer(q.request, ok, id)), taken' = taken \ {q},
         UNCHANGED <<asked, nextRequestId, callbacks>>,
         \A j \in Tracked : j # q.job => message'[j] = message[j],
         ~ok => message' = message
  PROVE  Requests'
<1> DEFINE o == Answer(q.request, ok, id)
<1>1. /\ callbacks \in [RequestIds -> Jobs \union {NoJob}]
      /\ taken \subseteq [request : RequestIds, job : Jobs]
      /\ q.request \in RequestIds /\ q.job \in Jobs
  BY DEF TInv, TypeOK
<1>2. o \in Outputs /\ o.type = "answer" /\ o.request = q.request /\ o.ok = ok /\ o.id = id
  BY <1>1, OutputsPut DEF Answer
<1> HIDE DEF o
<1>3. /\ inbox' \in Seq(Outputs)
      /\ Len(inbox') = Len(inbox) + 1 /\ Len(inbox) \in Nat
      /\ \A n \in 1..Len(inbox) : inbox'[n] = inbox[n]
      /\ inbox'[Len(inbox) + 1] = o
  BY <1>2, PutFacts DEF o, TInv, TypeOK
<1>4. \A p \in taken : p.request = q.request => p = q
  <2> SUFFICES ASSUME NEW p \in taken, p.request = q.request PROVE p = q
    OBVIOUS
  <2>1. p.job = q.job
    BY DEF Requests, TakenAwaited
  <2> QED
    BY <1>1, <2>1
<1>5. CallbacksKnown'
  BY DEF Requests, CallbacksKnown
<1>6. TakenAwaited'
  <2> SUFFICES ASSUME NEW p \in taken \ {q}
               PROVE  /\ callbacks[p.request] = p.job
                      /\ p.job \in Tracked => message'[p.job].state = "none"
    BY DEF TakenAwaited
  <2>1. callbacks[p.request] = p.job /\ (p.job \in Tracked => message[p.job].state = "none")
    BY DEF Requests, TakenAwaited
  <2>2. p.job \in Tracked => p.job # q.job
    BY <1>1, <1>4, <2>1 DEF Requests, TakenAwaited, CallbacksKnown
  <2> QED
    BY <2>1, <2>2
<1>7. AnswersAwaited'
  <2>1. ASSUME NEW n \in 1..Len(inbox), inbox[n].type = "answer"
        PROVE  /\ callbacks[inbox[n].request] # NoJob
               /\ inbox[n].request # q.request
               /\ \A p \in taken \ {q} : p.request # inbox[n].request
               /\ \A m \in 1..Len(inbox) :
                    inbox[m].type = "answer" /\ inbox[m].request = inbox[n].request => m = n
               /\ ~inbox[n].ok => \A j \in Tracked :
                    callbacks[inbox[n].request] = j => message'[j].state = "none"
    <3>1. /\ callbacks[inbox[n].request] # NoJob
          /\ \A p \in taken : p.request # inbox[n].request
          /\ \A m \in 1..Len(inbox) :
               inbox[m].type = "answer" /\ inbox[m].request = inbox[n].request => m = n
          /\ ~inbox[n].ok => \A j \in Tracked :
               callbacks[inbox[n].request] = j => message[j].state = "none"
      BY <2>1 DEF Requests, AnswersAwaited, AnswerFor
    <3>2. inbox[n] \in Outputs /\ inbox[n].request \in RequestIds
      BY <2>1, OutputKinds DEF TInv, TypeOK
    <3>3. ~inbox[n].ok => \A j \in Tracked : callbacks[inbox[n].request] = j => j # q.job
      BY <1>1, <3>1, <3>2 DEF Requests, TakenAwaited, CallbacksKnown
    <3> QED
      BY <3>1, <3>3
  <2>2. /\ callbacks[o.request] # NoJob
        /\ \A p \in taken \ {q} : p.request # o.request
        /\ ~o.ok => \A j \in Tracked : callbacks[o.request] = j => message'[j].state = "none"
    BY <1>1, <1>2, <1>4, Constants DEF Requests, TakenAwaited
  <2> SUFFICES ASSUME NEW n \in 1..(Len(inbox) + 1), inbox'[n].type = "answer"
               PROVE  /\ callbacks[inbox'[n].request] # NoJob
                      /\ \A p \in taken \ {q} : p.request # inbox'[n].request
                      /\ \A m \in 1..(Len(inbox) + 1) :
                           inbox'[m].type = "answer" /\ inbox'[m].request = inbox'[n].request => m = n
                      /\ ~inbox'[n].ok => \A j \in Tracked :
                           callbacks[inbox'[n].request] = j => message'[j].state = "none"
    BY <1>3 DEF AnswersAwaited, AnswerFor
  <2>3. CASE n = Len(inbox) + 1
    BY <1>2, <1>3, <2>1, <2>2, <2>3
  <2>4. CASE n \in 1..Len(inbox)
    BY <1>2, <1>3, <2>1, <2>4
  <2> QED
    BY <1>3, <2>3, <2>4
<1>8. CallbacksAwaited'
  <2> SUFFICES ASSUME NEW r \in RequestIds, callbacks[r] # NoJob
               PROVE  \/ \E p \in taken' : p.request = r /\ p.job = callbacks[r]
                      \/ \E n \in 1..Len(inbox') : inbox'[n].type = "answer" /\ inbox'[n].request = r
    BY DEF CallbacksAwaited
  <2>1. CASE r = q.request
    BY <1>2, <1>3, <2>1
  <2>2. CASE r # q.request
    <3>1. CASE \E p \in taken : p.request = r /\ p.job = callbacks[r]
      BY <2>2, <3>1
    <3>2. CASE \E n \in 1..Len(inbox) : inbox[n].type = "answer" /\ inbox[n].request = r
      BY <1>3, <3>2
    <3> QED
      BY <3>1, <3>2 DEF Requests, CallbacksAwaited
  <2> QED
    BY <2>1, <2>2
<1> QED
  BY <1>5, <1>6, <1>7, <1>8 DEF Requests

\* TDLib reports on messages that have been created.
LEMMA UpdateRequests ==
  ASSUME TInv, Requests, NEW o \in Outputs, Put(o), o.type # "answer",
         UNCHANGED <<asked, nextRequestId, callbacks, taken>>,
         \A j \in Tracked : message[j].state = "none" => message'[j].state = "none"
  PROVE  Requests'
<1>1. /\ inbox' \in Seq(Outputs)
      /\ Len(inbox') = Len(inbox) + 1 /\ Len(inbox) \in Nat
      /\ \A n \in 1..Len(inbox) : inbox'[n] = inbox[n]
      /\ inbox'[Len(inbox) + 1] = o
  BY PutFacts DEF TInv, TypeOK
<1>2. CallbacksKnown'
  BY DEF Requests, CallbacksKnown
<1>3. TakenAwaited'
  BY DEF Requests, TakenAwaited
<1>4. \A n \in 1..Len(inbox') : inbox'[n].type = "answer" =>
        n \in 1..Len(inbox) /\ inbox'[n] = inbox[n]
  BY <1>1
<1>5. AnswersAwaited'
  <2> SUFFICES ASSUME NEW n \in 1..Len(inbox'), inbox'[n].type = "answer"
               PROVE  /\ callbacks[inbox'[n].request] # NoJob
                      /\ \A p \in taken : p.request # inbox'[n].request
                      /\ \A m \in 1..Len(inbox') :
                           inbox'[m].type = "answer" /\ inbox'[m].request = inbox'[n].request => m = n
                      /\ ~inbox'[n].ok => \A j \in Tracked :
                           callbacks[inbox'[n].request] = j => message'[j].state = "none"
    BY DEF AnswersAwaited, AnswerFor
  <2>1. n \in 1..Len(inbox) /\ inbox'[n] = inbox[n]
    BY <1>4
  <2> QED
    BY <1>4, <2>1 DEF Requests, AnswersAwaited, AnswerFor
<1>6. CallbacksAwaited'
  <2> SUFFICES ASSUME NEW r \in RequestIds, callbacks[r] # NoJob
               PROVE  \/ \E p \in taken : p.request = r /\ p.job = callbacks[r]
                      \/ \E n \in 1..Len(inbox') : inbox'[n].type = "answer" /\ inbox'[n].request = r
    BY DEF CallbacksAwaited
  <2> QED
    BY <1>1 DEF Requests, CallbacksAwaited
<1> QED
  BY <1>2, <1>3, <1>5, <1>6 DEF Requests

\* The answers that stay in the queue keep what was known of them.
LEMMA AnswersLeft ==
  ASSUME TInv, Requests, Receive, NEW n \in 1..Len(inbox'), inbox'[n].type = "answer"
  PROVE  /\ callbacks[inbox'[n].request] # NoJob
         /\ \A q \in taken : q.request # inbox'[n].request
         /\ \A m \in 1..Len(inbox') :
              inbox'[m].type = "answer" /\ inbox'[m].request = inbox'[n].request => m = n
         /\ ~inbox'[n].ok => \A i \in Tracked :
              callbacks[inbox'[n].request] = i => message[i].state = "none"
<1>1. \A m \in 1..Len(inbox') : m + 1 \in 1..Len(inbox) /\ inbox'[m] = inbox[m + 1]
  BY HeadFacts
<1>2. inbox'[n] = inbox[n + 1] /\ n + 1 \in 1..Len(inbox)
  BY <1>1
<1>3. /\ callbacks[inbox'[n].request] # NoJob
      /\ \A q \in taken : q.request # inbox'[n].request
      /\ \A m \in 1..Len(inbox) :
           inbox[m].type = "answer" /\ inbox[m].request = inbox'[n].request => m = n + 1
      /\ ~inbox'[n].ok => \A i \in Tracked :
           callbacks[inbox'[n].request] = i => message[i].state = "none"
  BY <1>2 DEF Requests, AnswersAwaited, AnswerFor
<1> QED
  BY <1>1, <1>3

\* The loop takes an answer or an update.
LEMMA ReceiveRequests ==
  ASSUME TInv, Requests, Receive
  PROVE  Requests'
<1>1. /\ inbox' \in Seq(Outputs) /\ inbox \in Seq(Outputs)
      /\ Len(inbox') = Len(inbox) - 1 /\ Len(inbox) \in Nat /\ Len(inbox) >= 1
      /\ \A n \in 1..(Len(inbox) - 1) : inbox'[n] = inbox[n + 1]
      /\ Head(inbox) = inbox[1]
      /\ UNCHANGED <<asked, message>>
  BY HeadFacts DEF Receive
<1>2. \A n \in 1..Len(inbox') : n + 1 \in 1..Len(inbox) /\ inbox'[n] = inbox[n + 1]
  BY <1>1
<1>3. \A n \in 1..Len(inbox) : inbox[n] \in Outputs
  BY <1>1
<1>4. CASE ~TakeAnswer
  <2>1. UNCHANGED <<callbacks, parsed, nextRequestId, taken>> /\ inbox[1].type # "answer"
    BY <1>1, <1>4 DEF Receive, TakeSucceeded, TakeFailed, TakeDeleted
  <2>2. CallbacksKnown' /\ TakenAwaited'
    BY <1>1, <2>1 DEF Requests, CallbacksKnown, TakenAwaited
  <2>3. AnswersAwaited'
    BY <1>1, <2>1, AnswersLeft DEF AnswersAwaited, AnswerFor
  <2>4. CallbacksAwaited'
    <3> SUFFICES ASSUME NEW r \in RequestIds, callbacks[r] # NoJob
                 PROVE  \/ \E p \in taken : p.request = r /\ p.job = callbacks[r]
                        \/ \E n \in 1..Len(inbox') : inbox'[n].type = "answer" /\ inbox'[n].request = r
      BY <2>1 DEF CallbacksAwaited
    <3>1. CASE \E n \in 1..Len(inbox) : inbox[n].type = "answer" /\ inbox[n].request = r
      <4>1. PICK n \in 1..Len(inbox) : inbox[n].type = "answer" /\ inbox[n].request = r
        BY <3>1
      <4>2. n - 1 \in 1..Len(inbox') /\ inbox'[n - 1] = inbox[n]
        BY <1>1, <1>2, <2>1, <4>1
      <4> QED
        BY <4>1, <4>2
    <3> QED
      BY <3>1 DEF Requests, CallbacksAwaited
  <2> QED
    BY <2>2, <2>3, <2>4 DEF Requests
<1>5. CASE TakeAnswer
  <2> DEFINE a == Head(inbox)
             j == callbacks[a.request]
  <2>1. a.type = "answer" /\ a.request \in RequestIds /\ 1 \in 1..Len(inbox)
    BY <1>1, <1>5, AnswerTaken DEF TakeAnswer
  <2>2. j # NoJob /\ (\A q \in taken : q.request # a.request)
    BY <1>1, <2>1 DEF Requests, AnswersAwaited
  <2>3. \A n \in 1..Len(inbox') : inbox'[n].type = "answer" =>
           inbox'[n].request \in RequestIds \ {a.request}
    <3> SUFFICES ASSUME NEW n \in 1..Len(inbox'), inbox'[n].type = "answer"
                 PROVE  inbox'[n].request \in RequestIds \ {a.request}
      OBVIOUS
    <3>1. inbox'[n] = inbox[n + 1] /\ n + 1 \in 1..Len(inbox) /\ n + 1 # 1
      BY <1>2
    <3>2. inbox[n + 1].request # a.request
      BY <1>1, <2>1, <3>1 DEF Requests, AnswersAwaited
    <3> QED
      BY <1>3, <3>1, <3>2, OutputKinds
  <2>4. \A n \in 1..Len(inbox) : inbox[n].type = "answer" /\ inbox[n].request # a.request =>
           n - 1 \in 1..Len(inbox') /\ inbox'[n - 1] = inbox[n]
    BY <1>1, <1>2
  <2>5. CASE /\ j \in Replies \ parsed /\ nextRequestId \in RequestIds
             /\ callbacks' = [r \in RequestIds |->
                                IF r = nextRequestId THEN j
                                ELSE IF r = a.request THEN NoJob ELSE callbacks[r]]
             /\ parsed' = parsed \union {j}
             /\ nextRequestId' = nextRequestId + 1
             /\ taken' = taken \union {[request |-> nextRequestId, job |-> j]}
    <3>1. callbacks[nextRequestId] = NoJob /\ j \in asked /\ j \notin Tracked
          /\ nextRequestId # a.request /\ nextRequestId \in Nat
      BY <2>1, <2>2, <2>5, Constants DEF Requests, CallbacksKnown, RequestIds
    <3>2. CallbacksKnown'
      BY <1>1, <2>5, <3>1 DEF Requests, CallbacksKnown, RequestIds
    <3>3. taken \subseteq [request : RequestIds, job : Jobs] /\ \A q \in taken : q.request # nextRequestId
      BY <2>5, <3>1, Constants DEF Requests, TakenAwaited, TInv, TypeOK
    <3>4. TakenAwaited'
      <4> SUFFICES ASSUME NEW q \in taken'
                   PROVE  /\ callbacks'[q.request] = q.job
                          /\ q.job \in Tracked => message[q.job].state = "none"
        BY <1>1 DEF TakenAwaited
      <4>1. CASE q \in taken
        BY <2>2, <2>5, <3>3, <4>1 DEF Requests, TakenAwaited
      <4>2. CASE q = [request |-> nextRequestId, job |-> j]
        BY <2>5, <3>1, <4>2
      <4> QED
        BY <2>5, <4>1, <4>2
    <3>5. AnswersAwaited'
      <4> SUFFICES ASSUME NEW n \in 1..Len(inbox'), inbox'[n].type = "answer"
                   PROVE  /\ callbacks'[inbox'[n].request] # NoJob
                          /\ \A q \in taken' : q.request # inbox'[n].request
                          /\ \A m \in 1..Len(inbox') :
                               inbox'[m].type = "answer" /\ inbox'[m].request = inbox'[n].request => m = n
                          /\ ~inbox'[n].ok => \A i \in Tracked :
                               callbacks'[inbox'[n].request] = i => message[i].state = "none"
        BY <1>1 DEF AnswersAwaited, AnswerFor
      <4>2. /\ callbacks[inbox'[n].request] # NoJob
            /\ \A q \in taken : q.request # inbox'[n].request
            /\ \A m \in 1..Len(inbox') :
                 inbox'[m].type = "answer" /\ inbox'[m].request = inbox'[n].request => m = n
            /\ ~inbox'[n].ok => \A i \in Tracked :
                 callbacks[inbox'[n].request] = i => message[i].state = "none"
        BY AnswersLeft
      <4>3. inbox'[n].request # nextRequestId /\ inbox'[n].request \in RequestIds \ {a.request}
        BY <2>3, <3>1, <4>2
      <4>4. callbacks'[inbox'[n].request] = callbacks[inbox'[n].request]
        BY <2>5, <4>3
      <4>5. \A q \in taken' : q.request # inbox'[n].request
        BY <2>5, <4>2, <4>3
      <4> QED
        BY <4>2, <4>4, <4>5
    <3>6. CallbacksAwaited'
      <4> SUFFICES ASSUME NEW r \in RequestIds, callbacks'[r] # NoJob
                   PROVE  \/ \E q \in taken' : q.request = r /\ q.job = callbacks'[r]
                          \/ \E n \in 1..Len(inbox') : inbox'[n].type = "answer" /\ inbox'[n].request = r
        BY DEF CallbacksAwaited
      <4>1. CASE r = nextRequestId
        <5> DEFINE new == [request |-> nextRequestId, job |-> j]
        <5>1. new \in taken' /\ new.request = r /\ new.job = callbacks'[r]
          BY <2>5, <4>1
        <5> QED
          BY <5>1
      <4>2. CASE r # nextRequestId
        <5>1. r # a.request /\ callbacks'[r] = callbacks[r] /\ callbacks[r] # NoJob
          BY <2>5, <4>2
        <5> QED
          BY <2>4, <2>5, <5>1 DEF Requests, CallbacksAwaited
      <4> QED
        BY <4>1, <4>2
    <3> QED
      BY <3>2, <3>4, <3>5, <3>6 DEF Requests
  <2>6. CASE /\ callbacks' = [r \in RequestIds |->
                                IF r = a.request THEN NoJob ELSE callbacks[r]]
             /\ UNCHANGED <<parsed, nextRequestId, taken>>
    <3>1. CallbacksKnown'
      BY <1>1, <2>6, Constants DEF Requests, CallbacksKnown
    <3>2. TakenAwaited'
      BY <1>1, <2>2, <2>6 DEF Requests, TakenAwaited, TInv, TypeOK
    <3>3. AnswersAwaited'
      <4> SUFFICES ASSUME NEW n \in 1..Len(inbox'), inbox'[n].type = "answer"
                   PROVE  /\ callbacks'[inbox'[n].request] # NoJob
                          /\ \A q \in taken : q.request # inbox'[n].request
                          /\ \A m \in 1..Len(inbox') :
                               inbox'[m].type = "answer" /\ inbox'[m].request = inbox'[n].request => m = n
                          /\ ~inbox'[n].ok => \A i \in Tracked :
                               callbacks'[inbox'[n].request] = i => message[i].state = "none"
        BY <1>1, <2>6 DEF AnswersAwaited, AnswerFor
      <4>1. callbacks'[inbox'[n].request] = callbacks[inbox'[n].request]
        BY <2>3, <2>6
      <4> QED
        BY <4>1, AnswersLeft
    <3>4. CallbacksAwaited'
      <4> SUFFICES ASSUME NEW r \in RequestIds, callbacks'[r] # NoJob
                   PROVE  \/ \E q \in taken : q.request = r /\ q.job = callbacks'[r]
                          \/ \E n \in 1..Len(inbox') : inbox'[n].type = "answer" /\ inbox'[n].request = r
        BY <2>6 DEF CallbacksAwaited
      <4>1. r # a.request /\ callbacks'[r] = callbacks[r] /\ callbacks[r] # NoJob
        BY <2>6
      <4> QED
        BY <2>4, <4>1 DEF Requests, CallbacksAwaited
    <3> QED
      BY <3>1, <3>2, <3>3, <3>4 DEF Requests
  <2> QED
    BY <1>5, <2>5, <2>6, AnswerTaken
<1> QED
  BY <1>4, <1>5

-----------------------------------------------------------------------------
(* Message ids.                                                            *)

\* A message takes a free id, or keeps its own.
LEMMA IdsMoved ==
  ASSUME TInv, Ids, UNCHANGED asked, NEW j \in asked \intersect Tracked, NEW id \in MessageIds,
         NEW state \in MessageStates \ {"none"},
         message' = [message EXCEPT ![j] = [state |-> state, id |-> id]],
         id \in FreeIds(ChatOf[j]) \/ (message[j].state # "none" /\ id = message[j].id)
  PROVE  Ids'
<1>1. message \in [Tracked -> [state : MessageStates, id : MessageIds \union {NoId}]]
  BY DEF TInv, TypeOK
<1>2. /\ message'[j].state = state /\ message'[j].id = id
      /\ \A i \in Tracked : i # j => message'[i] = message[i]
  BY <1>1
<1>3. \A i \in Tracked : i # j /\ ChatOf[i] = ChatOf[j] /\ message[i].state # "none" =>
        message[i].id # id
  BY DEF FreeIds, IdsOf, Ids
<1> QED
  BY <1>2, <1>3 DEF Ids

LEMMA IdsNext == TInv /\ Requests /\ Ids /\ [Next]_vars => Ids'
<1> SUFFICES ASSUME TInv, Requests, Ids, [Next]_vars PROVE Ids'
  OBVIOUS
<1>1. ASSUME NEW q \in taken, NEW id \in MessageIds, CreateMessage(q, id) PROVE Ids'
  <2>1. q.request \in RequestIds /\ callbacks[q.request] = q.job
    BY DEF TInv, TypeOK, Requests, TakenAwaited
  <2>2. q.job \in asked
    BY <1>1, <2>1, Constants DEF CreateMessage, Requests, CallbacksKnown
  <2> QED
    BY <1>1, <2>2, IdsMoved DEF CreateMessage, MessageStates
<1>2. ASSUME NEW j \in Tracked, NEW id \in MessageIds, ConfirmMessage(j, id) PROVE Ids'
  BY <1>2, IdsMoved DEF ConfirmMessage, MessageStates, Ids
<1>3. ASSUME NEW j \in Tracked, NEW id \in MessageIds, FailMessage(j, id) PROVE Ids'
  BY <1>3, IdsMoved DEF FailMessage, MessageStates, Ids
<1>4. ASSUME NEW chat \in Chats, NEW D \in SUBSET Tracked, DeleteMessages(chat, D) PROVE Ids'
  <2>1. \A j \in Tracked : /\ message'[j].id = message[j].id
                          /\ message'[j].state = "none" <=> message[j].state = "none"
    BY <1>4 DEF DeleteMessages, TInv, TypeOK
  <2> QED
    BY <1>4, <2>1 DEF DeleteMessages, Ids
<1>5. CASE /\ UNCHANGED message
           /\ asked \subseteq asked'
  BY <1>5 DEF Ids
<1>6. ASSUME NEW q \in taken, AcceptReply(q) \/ RefuseRequest(q) PROVE Ids'
  BY <1>5, <1>6 DEF AcceptReply, RefuseRequest
<1>7. ASSUME NEW j \in Jobs, Begin(j) PROVE Ids'
  BY <1>5, <1>7 DEF Begin
<1>8. ASSUME NEW d \in Documents, StartClone(d) \/ SaveArchive(d) \/ CloneFails(d) PROVE Ids'
  BY <1>5, <1>8 DEF StartClone, SaveArchive, CloneFails, OnlyFile
<1>9. CASE Receive \/ Stop \/ UNCHANGED vars
  BY <1>5, <1>9 DEF Receive, Stop, vars
<1> QED
  BY <1>1, <1>2, <1>3, <1>4, <1>6, <1>7, <1>8, <1>9 DEF Next, Outcome, Requested

-----------------------------------------------------------------------------
(* Every step keeps TInv and Requests.                                     *)

\* What TDLib puts out in a step of its own, and what the step leaves alone.
LEMMA TdlibPuts ==
  ASSUME TInv, Ids
  PROVE  /\ \A q \in taken, id \in MessageIds : CreateMessage(q, id) =>
              Put(Answer(q.request, TRUE, id)) /\ UNCHANGED TdlibVars /\ taken' = taken \ {q}
         /\ \A q \in taken : AcceptReply(q) =>
              /\ Put(Answer(q.request, TRUE, NoId)) /\ UNCHANGED <<TdlibVars, message>>
              /\ taken' = taken \ {q}
         /\ \A q \in taken : RefuseRequest(q) =>
              /\ Put(Answer(q.request, FALSE, NoId)) /\ UNCHANGED <<TdlibVars, message>>
              /\ taken' = taken \ {q}
         /\ \A j \in Tracked, id \in MessageIds : ConfirmMessage(j, id) =>
              LET o == Succeeded(ChatOf[j], message[j].id, id)
              IN  o \in Outputs /\ Put(o) /\ UNCHANGED <<TdlibVars, taken>>
         /\ \A j \in Tracked, id \in MessageIds : FailMessage(j, id) =>
              LET o == Failed(ChatOf[j], message[j].id, id)
              IN  o \in Outputs /\ Put(o) /\ UNCHANGED <<TdlibVars, taken>>
         /\ \A chat \in Chats, D \in SUBSET Tracked : DeleteMessages(chat, D) =>
              LET o == Deleted(chat, {message[j].id : j \in D})
              IN  o \in Outputs /\ Put(o) /\ UNCHANGED <<TdlibVars, taken>>
<1>1. \A j \in Tracked : message[j].state = "sending" => message[j].id \in MessageIds
  BY DEF Ids
<1>2. \A chat \in Chats, D \in SUBSET Tracked : DeleteMessages(chat, D) =>
        {message[j].id : j \in D} \in SUBSET MessageIds
  BY DEF DeleteMessages, Ids
<1>3. ASSUME NEW chat \in Chats, NEW D \in SUBSET Tracked, DeleteMessages(chat, D)
      PROVE  LET o == Deleted(chat, {message[j].id : j \in D})
             IN  o \in Outputs /\ Put(o) /\ UNCHANGED <<TdlibVars, taken>>
  BY <1>2, <1>3, OutputsPut DEF DeleteMessages, TdlibVars
<1>4. ASSUME NEW j \in Tracked, NEW id \in MessageIds, ConfirmMessage(j, id)
      PROVE  LET o == Succeeded(ChatOf[j], message[j].id, id)
             IN  o \in Outputs /\ Put(o) /\ UNCHANGED <<TdlibVars, taken>>
  BY <1>1, <1>4, TdlibSteps DEF ConfirmMessage, TdlibVars
<1>5. ASSUME NEW j \in Tracked, NEW id \in MessageIds, FailMessage(j, id)
      PROVE  LET o == Failed(ChatOf[j], message[j].id, id)
             IN  o \in Outputs /\ Put(o) /\ UNCHANGED <<TdlibVars, taken>>
  BY <1>1, <1>5, TdlibSteps DEF FailMessage, TdlibVars
<1> QED
  BY <1>3, <1>4, <1>5 DEF CreateMessage, AcceptReply, RefuseRequest, TdlibVars

LEMMA TypesNext == TInv /\ Requests /\ Ids /\ [Next]_vars => TInv' /\ Requests'
<1> SUFFICES ASSUME TInv, Requests, Ids, [Next]_vars PROVE TInv' /\ Requests'
  OBVIOUS
<1>1. message \in [Tracked -> [state : MessageStates, id : SomeId]]
  BY DEF TInv, TypeOK, SomeId
<1>2. \A q \in taken : q.request \in RequestIds
  BY DEF TInv, TypeOK
<1>3. ASSUME NEW q \in taken, NEW id \in MessageIds, CreateMessage(q, id) PROVE TInv' /\ Requests'
  <2>1. \A j \in Tracked : j # q.job => message'[j] = message[j]
    BY <1>1, <1>3 DEF CreateMessage
  <2>2. id \in SomeId /\ Answer(q.request, TRUE, id) \in Outputs
    BY <1>2, OutputsPut DEF SomeId
  <2>3. Put(Answer(q.request, TRUE, id)) /\ UNCHANGED TdlibVars /\ taken' = taken \ {q}
    BY <1>3, TdlibPuts
  <2>4. message' \in [Tracked -> [state : MessageStates, id : SomeId]]
    BY <1>3, TdlibSteps
  <2>5. TInv'
    BY <2>2, <2>3, <2>4, TdlibTypes
  <2>6. Requests'
    BY <2>1, <2>2, <2>3, AnsweredRequests DEF TdlibVars
  <2> QED
    BY <2>5, <2>6
<1>4. ASSUME NEW q \in taken, NEW ok \in BOOLEAN, Put(Answer(q.request, ok, NoId)),
             UNCHANGED <<TdlibVars, message>>, taken' = taken \ {q}
      PROVE  TInv' /\ Requests'
  <2>1. NoId \in SomeId /\ Answer(q.request, ok, NoId) \in Outputs
    BY <1>2, OutputsPut DEF SomeId
  <2>2. TInv'
    BY <1>1, <1>4, <2>1, TdlibTypes
  <2>3. Requests'
    BY <1>4, <2>1, AnsweredRequests DEF TdlibVars
  <2> QED
    BY <2>2, <2>3
<1>5. ASSUME NEW q \in taken, AcceptReply(q) \/ RefuseRequest(q) PROVE TInv' /\ Requests'
  BY <1>4, <1>5, TdlibPuts
<1>6. ASSUME NEW o \in Outputs, Put(o), o.type # "answer", UNCHANGED <<TdlibVars, taken>>,
             message' \in [Tracked -> [state : MessageStates, id : SomeId]],
             \A j \in Tracked : message[j].state = "none" => message'[j].state = "none"
      PROVE  TInv' /\ Requests'
  <2>1. TInv'
    BY <1>6, TdlibTypes
  <2>2. Requests'
    BY <1>6, UpdateRequests DEF TdlibVars
  <2> QED
    BY <2>1, <2>2
<1>7. ASSUME NEW j \in Tracked, NEW id \in MessageIds, ConfirmMessage(j, id) PROVE TInv' /\ Requests'
  <2>1. \A i \in Tracked : message[i].state = "none" => message'[i].state = "none"
    BY <1>1, <1>7 DEF ConfirmMessage
  <2> QED
    BY <1>6, <1>7, <2>1, TdlibPuts, TdlibSteps DEF Succeeded
<1>8. ASSUME NEW j \in Tracked, NEW id \in MessageIds, FailMessage(j, id) PROVE TInv' /\ Requests'
  <2>1. \A i \in Tracked : message[i].state = "none" => message'[i].state = "none"
    BY <1>1, <1>8 DEF FailMessage
  <2> QED
    BY <1>6, <1>8, <2>1, TdlibPuts, TdlibSteps DEF Failed
<1>9. ASSUME NEW chat \in Chats, NEW D \in SUBSET Tracked, DeleteMessages(chat, D)
      PROVE  TInv' /\ Requests'
  <2>1. \A i \in Tracked : message[i].state = "none" => message'[i].state = "none"
    BY <1>1, <1>9 DEF DeleteMessages
  <2> QED
    BY <1>6, <1>9, <2>1, TdlibPuts, TdlibSteps DEF Deleted
<1>10. ASSUME NEW d \in Documents, StartClone(d) \/ SaveArchive(d) \/ CloneFails(d)
       PROVE  TInv' /\ Requests'
  <2>1. /\ \E state \in {"cloning", "written", "removed"} : file' = [file EXCEPT ![d] = state]
        /\ UNCHANGED <<asked, nextRequestId, callbacks, taken, inbox, message, pendingTexts,
                       pendingDocs, parsed, told, running>>
    BY <1>10 DEF StartClone, SaveArchive, CloneFails, OnlyFile
  <2>2. TInv'
    BY <2>1 DEF TInv, TypeOK, Counted
  <2>3. Requests'
    BY <2>1 DEF Requests, CallbacksKnown, TakenAwaited, AnswersAwaited, AnswerFor, CallbacksAwaited
  <2> QED
    BY <2>2, <2>3
<1>11. CASE Stop \/ UNCHANGED vars
  <2>1. /\ running' \in BOOLEAN
        /\ UNCHANGED <<asked, nextRequestId, callbacks, taken, inbox, message, pendingTexts,
                       pendingDocs, parsed, told, file>>
    BY <1>11 DEF Stop, vars, TInv, TypeOK
  <2>2. TInv'
    BY <2>1 DEF TInv, TypeOK, Counted
  <2>3. Requests'
    BY <2>1 DEF Requests, CallbacksKnown, TakenAwaited, AnswersAwaited, AnswerFor, CallbacksAwaited
  <2> QED
    BY <2>2, <2>3
<1>12. ASSUME NEW j \in Jobs, Begin(j) PROVE TInv' /\ Requests'
  BY <1>12, BeginTypes, BeginRequests
<1>13. CASE Receive
  BY <1>13, ReceiveTypes, ReceiveRequests
<1> QED
  BY <1>3, <1>5, <1>7, <1>8, <1>9, <1>10, <1>11, <1>12, <1>13 DEF Next, Outcome, Requested

-----------------------------------------------------------------------------
(* What a turn of the loop does to the sends that wait.                    *)

\* An update settles the texts, and removes the documents, whose key it concerns.
LEMMA UpdateTaken ==
  ASSUME TInv, Receive, ~TakeAnswer
  PROVE  /\ inbox[1].type \in {"succeeded", "failed", "deleted"}
         /\ \A k \in Keys : pendingTexts'[k] =
              IF Settles(inbox[1], k[1], k[2]) THEN NoJob ELSE pendingTexts[k]
         /\ \A t \in Texts : told'[t] =
              IF \E k \in Keys : Settles(inbox[1], k[1], k[2]) /\ pendingTexts[k] = t
              THEN (IF inbox[1].type = "succeeded" THEN "sent" ELSE "failed")
              ELSE told[t]
         /\ \A k \in Keys : pendingDocs'[k] =
              IF Removes(inbox[1], k[1], k[2]) THEN NoJob ELSE pendingDocs[k]
         /\ \A d \in Documents : file'[d] =
              IF \E k \in Keys : Removes(inbox[1], k[1], k[2]) /\ pendingDocs[k] = d
              THEN "removed" ELSE file[d]
         /\ UNCHANGED <<callbacks, parsed, nextRequestId, taken, asked, message>>
<1> DEFINE u == inbox[1]
<1>1. u \in Outputs /\ Head(inbox) = u
  BY HeadFacts
<1> HIDE DEF u
<1>2. ASSUME NEW chat \in Chats, NEW ids \in SUBSET MessageIds, NEW outcome \in {"sent", "failed"},
             Settle(chat, ids, outcome),
             \A c \in Chats, id \in MessageIds : Settles(u, c, id) <=> c = chat /\ id \in ids
      PROVE  /\ \A k \in Keys : pendingTexts'[k] =
                  IF Settles(u, k[1], k[2]) THEN NoJob ELSE pendingTexts[k]
             /\ \A t \in Texts : told'[t] =
                  IF \E k \in Keys : Settles(u, k[1], k[2]) /\ pendingTexts[k] = t
                  THEN outcome ELSE told[t]
  <2>1. \A k \in Keys : k[1] \in Chats /\ k[2] \in MessageIds /\ k = <<k[1], k[2]>>
    BY DEF Keys
  <2>2. \A id \in ids : <<chat, id>> \in Keys
    BY DEF Keys
  <2>3. \A k \in Keys : Settles(u, k[1], k[2]) <=> k[1] = chat /\ k[2] \in ids
    BY <1>2, <2>1
  <2>4. \A t \in Texts : t \in {pendingTexts[<<chat, id>>] : id \in ids} \ {NoJob} <=>
          \E k \in Keys : Settles(u, k[1], k[2]) /\ pendingTexts[k] = t
    <3> SUFFICES ASSUME NEW t \in Texts
                 PROVE  t \in {pendingTexts[<<chat, id>>] : id \in ids} \ {NoJob} <=>
                        \E k \in Keys : Settles(u, k[1], k[2]) /\ pendingTexts[k] = t
      OBVIOUS
    <3>1. ASSUME NEW id \in ids, t = pendingTexts[<<chat, id>>]
          PROVE  \E k \in Keys : Settles(u, k[1], k[2]) /\ pendingTexts[k] = t
      <4>1. <<chat, id>> \in Keys /\ <<chat, id>>[1] = chat /\ <<chat, id>>[2] = id
        BY <2>2
      <4> QED
        BY <2>3, <3>1, <4>1
    <3>2. ASSUME NEW k \in Keys, Settles(u, k[1], k[2]), pendingTexts[k] = t
          PROVE  t \in {pendingTexts[<<chat, id>>] : id \in ids} \ {NoJob}
      BY <2>1, <2>3, <3>2, Constants
    <3> QED
      BY <3>1, <3>2
  <2> QED
    BY <1>2, <2>3, <2>4 DEF Settle
<1>3. ASSUME NEW chat \in Chats, NEW ids \in SUBSET MessageIds, RemoveDocuments(chat, ids),
             \A c \in Chats, id \in MessageIds : Removes(u, c, id) <=> c = chat /\ id \in ids
      PROVE  /\ \A k \in Keys : pendingDocs'[k] =
                  IF Removes(u, k[1], k[2]) THEN NoJob ELSE pendingDocs[k]
             /\ \A d \in Documents : file'[d] =
                  IF \E k \in Keys : Removes(u, k[1], k[2]) /\ pendingDocs[k] = d
                  THEN "removed" ELSE file[d]
  <2>1. \A k \in Keys : k[1] \in Chats /\ k[2] \in MessageIds /\ k = <<k[1], k[2]>>
    BY DEF Keys
  <2>2. \A id \in ids : <<chat, id>> \in Keys
    BY DEF Keys
  <2>3. \A k \in Keys : Removes(u, k[1], k[2]) <=> k[1] = chat /\ k[2] \in ids
    BY <1>3, <2>1
  <2>4. \A d \in Documents : d \in {pendingDocs[<<chat, id>>] : id \in ids} \ {NoJob} <=>
          \E k \in Keys : Removes(u, k[1], k[2]) /\ pendingDocs[k] = d
    <3> SUFFICES ASSUME NEW d \in Documents
                 PROVE  d \in {pendingDocs[<<chat, id>>] : id \in ids} \ {NoJob} <=>
                        \E k \in Keys : Removes(u, k[1], k[2]) /\ pendingDocs[k] = d
      OBVIOUS
    <3>1. ASSUME NEW id \in ids, d = pendingDocs[<<chat, id>>]
          PROVE  \E k \in Keys : Removes(u, k[1], k[2]) /\ pendingDocs[k] = d
      <4>1. <<chat, id>> \in Keys /\ <<chat, id>>[1] = chat /\ <<chat, id>>[2] = id
        BY <2>2
      <4> QED
        BY <2>3, <3>1, <4>1
    <3>2. ASSUME NEW k \in Keys, Removes(u, k[1], k[2]), pendingDocs[k] = d
          PROVE  d \in {pendingDocs[<<chat, id>>] : id \in ids} \ {NoJob}
      BY <2>1, <2>3, <3>2, Constants
    <3> QED
      BY <3>1, <3>2
  <2> QED
    BY <1>3, <2>3, <2>4 DEF RemoveDocuments
<1>4. UNCHANGED <<asked, message>>
  BY DEF Receive
<1>5. CASE TakeSucceeded
  <2>1. /\ u.type = "succeeded" /\ u.chat \in Chats /\ {u.old} \in SUBSET MessageIds
        /\ Settle(u.chat, {u.old}, "sent") /\ RemoveDocuments(u.chat, {u.old})
        /\ UNCHANGED <<callbacks, parsed, nextRequestId, taken>>
    BY <1>1, <1>5, OutputKinds DEF TakeSucceeded
  <2>2. \A c \in Chats, id \in MessageIds :
          /\ Settles(u, c, id) <=> c = u.chat /\ id \in {u.old}
          /\ Removes(u, c, id) <=> c = u.chat /\ id \in {u.old}
    BY <2>1 DEF Settles, Removes
  <2> QED
    BY <1>2, <1>3, <1>4, <2>1, <2>2 DEF u
<1>6. CASE TakeFailed
  <2>1. /\ u.type = "failed" /\ u.chat \in Chats
        /\ {u.old} \in SUBSET MessageIds /\ {u.old, u.new} \in SUBSET MessageIds
        /\ Settle(u.chat, {u.old}, "failed") /\ RemoveDocuments(u.chat, {u.old, u.new})
        /\ UNCHANGED <<callbacks, parsed, nextRequestId, taken>>
    BY <1>1, <1>6, OutputKinds DEF TakeFailed
  <2>2. \A c \in Chats, id \in MessageIds :
          /\ Settles(u, c, id) <=> c = u.chat /\ id \in {u.old}
          /\ Removes(u, c, id) <=> c = u.chat /\ id \in {u.old, u.new}
    BY <2>1 DEF Settles, Removes
  <2> QED
    BY <1>2, <1>3, <1>4, <2>1, <2>2 DEF u
<1>7. CASE TakeDeleted
  <2>1. /\ u.type = "deleted" /\ u.chat \in Chats /\ u.ids \in SUBSET MessageIds
        /\ Settle(u.chat, u.ids, "failed") /\ RemoveDocuments(u.chat, u.ids)
        /\ UNCHANGED <<callbacks, parsed, nextRequestId, taken>>
    BY <1>1, <1>7, OutputKinds DEF TakeDeleted
  <2>2. \A c \in Chats, id \in MessageIds :
          /\ Settles(u, c, id) <=> c = u.chat /\ id \in u.ids
          /\ Removes(u, c, id) <=> c = u.chat /\ id \in u.ids
    BY <2>1 DEF Settles, Removes
  <2> QED
    BY <1>2, <1>3, <1>4, <2>1, <2>2 DEF u
<1> QED
  BY <1>5, <1>6, <1>7 DEF Receive

\* An answer concerns the one job whose callback it clears.
LEMMA AnswerEffects ==
  ASSUME TInv, Requests, SendingOrder, Receive, TakeAnswer
  PROVE  LET a == inbox[1]
             j == callbacks[a.request]
         IN  /\ a.request \in RequestIds /\ a.ok \in BOOLEAN /\ a.id \in SomeId
             /\ j \in asked /\ j \in Jobs /\ SendAnswered(j, a.ok, a.id)
             /\ \A i \in Tracked, r \in RequestIds :
                  callbacks'[r] = i <=> callbacks[r] = i /\ i # j
             /\ \A q \in taken' : q.job \in Tracked => q \in taken /\ q.job # j
             /\ ~a.ok /\ j \in Tracked => message[j].state = "none"
             /\ a.ok /\ j \in Tracked => /\ a.id \in MessageIds /\ <<ChatOf[j], a.id>> \in Keys
                                         /\ Waits(j, a.id, 1)
             /\ UNCHANGED <<asked, message>>
<1> DEFINE a == inbox[1]
           j == callbacks[a.request]
<1>1. /\ Head(inbox) = a /\ 1 \in 1..Len(inbox) /\ 1 \in 0..Len(inbox) /\ a.type = "answer"
      /\ UNCHANGED <<asked, message>>
  BY HeadFacts DEF TakeAnswer, Receive
<1>2. /\ a.request \in RequestIds /\ a.ok \in BOOLEAN /\ a.id \in SomeId
      /\ SendAnswered(j, a.ok, a.id) /\ j \in Jobs \union {NoJob}
  BY <1>1, AnswerTaken
<1>3. /\ j # NoJob /\ (\A q \in taken : q.request # a.request)
      /\ ~a.ok /\ j \in Tracked => message[j].state = "none"
  BY <1>1 DEF Requests, AnswersAwaited, AnswerFor
<1>4. j \in asked
  BY <1>2, <1>3 DEF Requests, CallbacksKnown
<1>5. a.ok /\ j \in Tracked => /\ a.id \in MessageIds /\ <<ChatOf[j], a.id>> \in Keys
                              /\ Waits(j, a.id, 1)
  <2>1. a.ok /\ j \in Tracked => Waits(j, a.id, 1)
    BY <1>1 DEF Waits, AnswerFor
  <2> QED
    BY <1>1, <1>2, <2>1, Constants DEF SendingOrder, Keys
<1>6. \A q \in taken : q.job \in Tracked => q.job # j
  BY <1>2, <1>3 DEF Requests, TakenAwaited, CallbacksKnown, TInv, TypeOK
<1>7. \A r \in RequestIds : callbacks[r] = j /\ j \in Tracked => r = a.request
  BY <1>2 DEF Requests, CallbacksKnown
<1>8. CASE /\ j \in Replies \ parsed /\ nextRequestId \in RequestIds
           /\ callbacks' = [r \in RequestIds |->
                              IF r = nextRequestId THEN j
                              ELSE IF r = a.request THEN NoJob ELSE callbacks[r]]
           /\ taken' = taken \union {[request |-> nextRequestId, job |-> j]}
  <2>1. j \notin Tracked /\ callbacks[nextRequestId] = NoJob
    BY <1>8, Constants DEF Requests, CallbacksKnown, RequestIds
  <2>2. \A i \in Tracked, r \in RequestIds : callbacks'[r] = i <=> callbacks[r] = i /\ i # j
    BY <1>8, <2>1, Constants
  <2>3. \A q \in taken' : q.job \in Tracked => q \in taken /\ q.job # j
    BY <1>6, <1>8, <2>1
  <2> QED
    BY <1>1, <1>2, <1>3, <1>4, <1>5, <2>2, <2>3
<1>9. CASE /\ callbacks' = [r \in RequestIds |->
                              IF r = a.request THEN NoJob ELSE callbacks[r]]
           /\ UNCHANGED <<parsed, nextRequestId, taken>>
  <2>2. \A i \in Tracked, r \in RequestIds : callbacks'[r] = i <=> callbacks[r] = i /\ i # j
    BY <1>7, <1>9, Constants
  <2> QED
    BY <1>1, <1>2, <1>3, <1>4, <1>5, <1>6, <1>9, <2>2
<1> QED
  BY <1>1, <1>8, <1>9, AnswerTaken

\* Steps that begin a request, or only touch files and the end of the process.
LEMMA QuietSteps ==
  ASSUME TInv, [Next]_vars, ~Receive
  PROVE  /\ UNCHANGED <<pendingTexts, pendingDocs, told>>
         /\ \/ UNCHANGED <<asked, callbacks>>
            \/ \E j \in Jobs : Begin(j)
BY DEF Next, Outcome, Requested, CreateMessage, AcceptReply, RefuseRequest, ConfirmMessage,
       FailMessage, DeleteMessages, StartClone, SaveArchive, CloneFails, OnlyFile, Stop, vars, Begin

\* A job that begins has had no callback.
LEMMA BeginCallbacks ==
  ASSUME TInv, NEW j \in Jobs, Begin(j)
  PROVE  /\ \A r \in RequestIds : callbacks'[r] \in {callbacks[r], j}
         /\ j \notin asked /\ asked' = asked \union {j}
BY BeginTypes DEF Begin, SendRequest, TInv, TypeOK

LEMMA RegisteredNext ==
  TInv /\ Requests /\ Ids /\ Registered /\ SendingOrder /\ [Next]_vars => Registered'
<1> SUFFICES ASSUME TInv, Requests, Ids, Registered, SendingOrder, [Next]_vars PROVE Registered'
  OBVIOUS
<1>1. CASE Receive /\ ~TakeAnswer
  BY <1>1, UpdateTaken DEF Registered
<1>2. CASE Receive /\ TakeAnswer
  <2> DEFINE a == inbox[1]
             j == callbacks[a.request]
             key == <<ChatOf[j], a.id>>
  <2>1. /\ a.request \in RequestIds
        /\ j \in asked /\ j \in Jobs /\ SendAnswered(j, a.ok, a.id)
        /\ \A i \in Tracked, r \in RequestIds : callbacks'[r] = i <=> callbacks[r] = i /\ i # j
        /\ a.ok /\ j \in Tracked => key \in Keys
        /\ asked' = asked
    BY <1>2, AnswerEffects
  <2>2. /\ \A k \in Keys : pendingTexts[k] # j /\ pendingDocs[k] # j
        /\ pendingTexts \in [Keys -> Texts \union {NoJob}]
        /\ pendingDocs \in [Keys -> Documents \union {NoJob}]
    BY <2>1, Constants DEF Registered, TInv, TypeOK
  <2>3. CASE UNCHANGED <<pendingTexts, pendingDocs>>
    BY <2>1, <2>2, <2>3 DEF Registered, Tracked
  <2>4. CASE a.ok /\ j \in Texts /\ pendingTexts' = [pendingTexts EXCEPT ![key] = j] /\ pendingDocs' = pendingDocs
    <3>1. key \in Keys /\ key[1] = ChatOf[j]
      BY <2>1, <2>4 DEF Tracked
    <3>2. \A k \in Keys : pendingTexts'[k] = IF k = key THEN j ELSE pendingTexts[k]
      BY <2>2, <2>4
    <3>3. \A k \in Keys : pendingTexts'[k] # NoJob =>
            /\ k[1] = ChatOf[pendingTexts'[k]] /\ pendingTexts'[k] \in asked'
            /\ \A r \in RequestIds : callbacks'[r] # pendingTexts'[k]
            /\ \A l \in Keys : pendingTexts'[l] = pendingTexts'[k] => l = k
      <4> SUFFICES ASSUME NEW k \in Keys, pendingTexts'[k] # NoJob
                   PROVE  /\ k[1] = ChatOf[pendingTexts'[k]] /\ pendingTexts'[k] \in asked'
                          /\ \A r \in RequestIds : callbacks'[r] # pendingTexts'[k]
                          /\ \A l \in Keys : pendingTexts'[l] = pendingTexts'[k] => l = k
        OBVIOUS
      <4>1. CASE k = key
        BY <2>1, <2>2, <2>4, <3>1, <3>2, <4>1 DEF Tracked
      <4>2. CASE k # key
        <5>1. pendingTexts'[k] = pendingTexts[k] /\ pendingTexts[k] \in Texts /\ pendingTexts[k] # j
          BY <2>2, <3>2, <4>2
        <5> QED
          BY <2>1, <2>2, <3>2, <5>1 DEF Registered, Tracked
      <4> QED
        BY <4>1, <4>2
    <3>4. \A k \in Keys : pendingDocs'[k] # NoJob =>
            /\ k[1] = ChatOf[pendingDocs'[k]] /\ pendingDocs'[k] \in asked'
            /\ \A r \in RequestIds : callbacks'[r] # pendingDocs'[k]
      BY <2>1, <2>2, <2>4 DEF Registered, Tracked
    <3> QED
      BY <3>3, <3>4 DEF Registered
  <2>5. CASE a.ok /\ j \in Documents /\ pendingDocs' = [pendingDocs EXCEPT ![key] = j] /\ pendingTexts' = pendingTexts
    <3>1. key \in Keys /\ key[1] = ChatOf[j]
      BY <2>1, <2>5 DEF Tracked
    <3>2. \A k \in Keys : pendingDocs'[k] = IF k = key THEN j ELSE pendingDocs[k]
      BY <2>2, <2>5
    <3>3. \A k \in Keys : pendingDocs'[k] # NoJob =>
            /\ k[1] = ChatOf[pendingDocs'[k]] /\ pendingDocs'[k] \in asked'
            /\ \A r \in RequestIds : callbacks'[r] # pendingDocs'[k]
      BY <2>1, <2>2, <2>5, <3>1, <3>2 DEF Registered, Tracked
    <3>4. \A k \in Keys : pendingTexts'[k] # NoJob =>
            /\ k[1] = ChatOf[pendingTexts'[k]] /\ pendingTexts'[k] \in asked'
            /\ \A r \in RequestIds : callbacks'[r] # pendingTexts'[k]
            /\ \A l \in Keys : pendingTexts'[l] = pendingTexts'[k] => l = k
      BY <2>1, <2>2, <2>5 DEF Registered, Tracked
    <3> QED
      BY <3>3, <3>4 DEF Registered
  <2> QED
    BY <2>1, <2>3, <2>4, <2>5 DEF SendAnswered
<1>3. CASE ~Receive
  <2>1. CASE UNCHANGED <<asked, callbacks>>
    BY <1>3, <2>1, QuietSteps DEF Registered
  <2>2. ASSUME NEW j \in Jobs, Begin(j) PROVE Registered'
    BY <1>3, <2>2, QuietSteps, BeginCallbacks DEF Registered
  <2> QED
    BY <1>3, <2>1, <2>2, QuietSteps
<1> QED
  BY <1>1, <1>2, <1>3

\* A text that is settled, or whose request is refused, is not being sent, and waits
\* nowhere else.
LEMMA NotYetToldNext ==
  TInv /\ Requests /\ Ids /\ Registered /\ SendingOrder /\ NotYetTold /\ [Next]_vars => NotYetTold'
<1> SUFFICES ASSUME TInv, Requests, Ids, Registered, SendingOrder, NotYetTold, [Next]_vars,
                    NEW t \in Texts,
                    \/ t \notin asked'
                    \/ message'[t].state = "sending"
                    \/ \E r \in RequestIds : callbacks'[r] = t
                    \/ \E k \in Keys : pendingTexts'[k] = t
             PROVE  told'[t] = "nothing"
  BY DEF NotYetTold
<1>1. t \in Tracked /\ t \in Jobs /\ t # NoJob /\ t \notin Documents
  BY Constants DEF Tracked
<1>2. CASE Receive /\ ~TakeAnswer
  <2>1. told[t] = "nothing"
    BY <1>1, <1>2, UpdateTaken DEF NotYetTold
  <2>2. ASSUME NEW k \in Keys, Settles(inbox[1], k[1], k[2]), pendingTexts[k] = t
        PROVE  FALSE
    <3>1. k[1] = ChatOf[t] /\ t \in asked /\ \A r \in RequestIds : callbacks[r] # t
      BY <1>1, <2>2 DEF Registered
    <3>2. \A l \in Keys : pendingTexts'[l] # t
      BY <1>1, <1>2, <2>2, UpdateTaken DEF Registered
    <3>3. k = <<ChatOf[t], k[2]>> /\ k[2] \in MessageIds
      BY <3>1 DEF Keys
    <3>4. Waits(t, k[2], 0) /\ k[2] \in SomeId
      BY <2>2, <3>3 DEF Waits, SomeId
    <3>5. 1 \in (0 + 1)..Len(inbox) /\ 0 \in 0..Len(inbox)
      BY <1>2, HeadFacts
    <3>6. message[t].state # "sending"
      BY <1>1, <2>2, <3>1, <3>4, <3>5 DEF SendingOrder, Removes
    <3> QED
      BY <1>2, <3>1, <3>2, <3>6, UpdateTaken
  <2> QED
    BY <1>2, <2>1, <2>2, UpdateTaken
<1>3. CASE Receive /\ TakeAnswer
  <2> DEFINE a == inbox[1]
             j == callbacks[a.request]
  <2>1. /\ a.request \in RequestIds
        /\ j \in asked /\ SendAnswered(j, a.ok, a.id)
        /\ \A i \in Tracked, r \in RequestIds : callbacks'[r] = i <=> callbacks[r] = i /\ i # j
        /\ ~a.ok /\ j \in Tracked => message[j].state = "none"
        /\ UNCHANGED <<asked, message>>
    BY <1>3, AnswerEffects
  <2>2. pendingTexts \in [Keys -> Texts \union {NoJob}] /\ told \in [Texts -> {"nothing", "sent", "failed"}]
    BY DEF TInv, TypeOK
  <2>3. CASE t = j
    <3>1. told[t] = "nothing" /\ \A k \in Keys : pendingTexts[k] # t
      BY <1>1, <2>1, <2>3 DEF NotYetTold, Registered
    <3>2. CASE a.ok
      BY <1>1, <2>1, <2>3, <3>1, <3>2 DEF SendAnswered
    <3>3. CASE ~a.ok
      <4>1. pendingTexts' = pendingTexts
        BY <1>1, <2>1, <2>3, <3>3 DEF SendAnswered
      <4>2. message'[t].state = "none" /\ t \in asked'
        BY <1>1, <2>1, <2>3, <3>3
      <4> QED
        BY <1>1, <2>1, <2>3, <3>1, <4>1, <4>2
    <3> QED
      BY <3>2, <3>3
  <2>4. CASE t # j
    <3>1. told'[t] = told[t]
      BY <2>1, <2>2, <2>4 DEF SendAnswered
    <3>2. \A k \in Keys : pendingTexts'[k] = t => pendingTexts[k] = t
      BY <2>1, <2>2, <2>4 DEF SendAnswered
    <3> QED
      BY <1>1, <2>1, <3>1, <3>2 DEF NotYetTold
  <2> QED
    BY <2>3, <2>4
<1>4. ASSUME NEW q \in taken, NEW id \in MessageIds, CreateMessage(q, id) PROVE told'[t] = "nothing"
  <2>1. q.request \in RequestIds /\ callbacks[q.request] = q.job
    BY DEF Requests, TakenAwaited, TInv, TypeOK
  <2>2. t # q.job => message'[t] = message[t]
    BY <1>1, <1>4 DEF CreateMessage, TInv, TypeOK
  <2> QED
    BY <1>1, <1>4, <2>1, <2>2 DEF CreateMessage, NotYetTold
<1>5. CASE /\ UNCHANGED <<asked, callbacks, pendingTexts, told>>
           /\ message'[t].state = "sending" => message[t].state = "sending"
  BY <1>5 DEF NotYetTold
<1>6. ASSUME NEW j \in Tracked, NEW id \in MessageIds, ConfirmMessage(j, id) \/ FailMessage(j, id)
      PROVE  told'[t] = "nothing"
  <2>1. message'[t].state = "sending" => message[t].state = "sending"
    BY <1>1, <1>6 DEF ConfirmMessage, FailMessage, TInv, TypeOK
  <2> QED
    BY <1>5, <1>6, <2>1 DEF ConfirmMessage, FailMessage
<1>7. ASSUME NEW chat \in Chats, NEW D \in SUBSET Tracked, DeleteMessages(chat, D)
      PROVE  told'[t] = "nothing"
  <2>1. message'[t].state = "sending" => message[t].state = "sending"
    BY <1>1, <1>7 DEF DeleteMessages, TInv, TypeOK
  <2> QED
    BY <1>5, <1>7, <2>1 DEF DeleteMessages
<1>8. ASSUME NEW j \in Jobs, Begin(j) PROVE told'[t] = "nothing"
  <2>1. /\ UNCHANGED <<pendingTexts, told, message>> /\ j \notin asked /\ asked' = asked \union {j}
        /\ \A r \in RequestIds : callbacks'[r] \in {callbacks[r], j}
    BY <1>8, BeginCallbacks DEF Begin
  <2> QED
    BY <2>1 DEF NotYetTold
<1>9. ASSUME NEW q \in taken, AcceptReply(q) \/ RefuseRequest(q) PROVE told'[t] = "nothing"
  BY <1>5, <1>9 DEF AcceptReply, RefuseRequest
<1>10. ASSUME NEW d \in Documents, StartClone(d) \/ SaveArchive(d) \/ CloneFails(d)
       PROVE  told'[t] = "nothing"
  BY <1>5, <1>10 DEF StartClone, SaveArchive, CloneFails, OnlyFile
<1>11. CASE Stop \/ UNCHANGED vars
  BY <1>5, <1>11 DEF Stop, vars
<1> QED
  BY <1>2, <1>3, <1>4, <1>6, <1>7, <1>8, <1>9, <1>10, <1>11 DEF Next, Outcome, Requested

-----------------------------------------------------------------------------
(* The temporary file of a document.                                       *)

LEMMA FileNext ==
  /\ TInv /\ Requests /\ Ids /\ Registered /\ SendingOrder /\ FileThereDuringUpload /\ [Next]_vars
  => FileThereDuringUpload'
<1> SUFFICES ASSUME TInv, Requests, Ids, Registered, SendingOrder, FileThereDuringUpload,
                    [Next]_vars, NEW d \in Documents,
                    message'[d].state = "sending" \/ \E q \in taken' : q.job = d
             PROVE  file'[d] = "written"
  BY DEF FileThereDuringUpload
<1>1. d \in Tracked /\ d \in Jobs /\ d # NoJob /\ d \notin Texts /\ d \notin Replies
  BY Constants DEF Tracked
<1>2. file \in [Documents -> {"none", "cloning", "written", "removed"}]
  BY DEF TInv, TypeOK
<1>3. CASE Receive /\ ~TakeAnswer
  <2>1. file[d] = "written"
    BY <1>3, UpdateTaken DEF FileThereDuringUpload
  <2>2. ASSUME NEW k \in Keys, Removes(inbox[1], k[1], k[2]), pendingDocs[k] = d
        PROVE  FALSE
    <3>1. k[1] = ChatOf[d] /\ \A r \in RequestIds : callbacks[r] # d
      BY <1>1, <2>2 DEF Registered
    <3>2. \A q \in taken : q.job # d
      BY <3>1 DEF Requests, TakenAwaited, TInv, TypeOK
    <3>3. k = <<ChatOf[d], k[2]>> /\ k[2] \in MessageIds
      BY <3>1 DEF Keys
    <3>4. Waits(d, k[2], 0) /\ k[2] \in SomeId
      BY <2>2, <3>3 DEF Waits, SomeId
    <3>5. 1 \in (0 + 1)..Len(inbox) /\ 0 \in 0..Len(inbox)
      BY <1>3, HeadFacts
    <3>6. message[d].state # "sending"
      BY <1>1, <2>2, <3>1, <3>4, <3>5 DEF SendingOrder
    <3> QED
      BY <1>3, <3>2, <3>6, UpdateTaken
  <2> QED
    BY <1>3, <2>1, <2>2, UpdateTaken
<1>4. CASE Receive /\ TakeAnswer
  <2> DEFINE a == inbox[1]
             j == callbacks[a.request]
  <2>1. /\ SendAnswered(j, a.ok, a.id)
        /\ \A q \in taken' : q.job \in Tracked => q \in taken /\ q.job # j
        /\ ~a.ok /\ j \in Tracked => message[j].state = "none"
        /\ UNCHANGED <<asked, message>>
    BY <1>4, AnswerEffects
  <2>2. file[d] = "written"
    BY <1>1, <2>1 DEF FileThereDuringUpload
  <2>3. d = j => a.ok
    BY <1>1, <2>1
  <2> QED
    BY <1>1, <1>2, <2>1, <2>2, <2>3 DEF SendAnswered
<1>5. CASE /\ UNCHANGED file
           /\ message'[d].state = "sending" => message[d].state = "sending" \/ \E q \in taken : q.job = d
           /\ \A q \in taken' : q.job = d => q \in taken
  BY <1>5 DEF FileThereDuringUpload
<1>6. ASSUME NEW q \in taken, NEW id \in MessageIds, CreateMessage(q, id) PROVE file'[d] = "written"
  <2>1. d # q.job => message'[d] = message[d]
    BY <1>1, <1>6 DEF CreateMessage, TInv, TypeOK
  <2> QED
    BY <1>5, <1>6, <2>1 DEF CreateMessage
<1>7. ASSUME NEW j \in Tracked, NEW id \in MessageIds, ConfirmMessage(j, id) \/ FailMessage(j, id)
      PROVE  file'[d] = "written"
  <2>1. message'[d].state = "sending" => message[d].state = "sending"
    BY <1>1, <1>7 DEF ConfirmMessage, FailMessage, TInv, TypeOK
  <2> QED
    BY <1>5, <1>7, <2>1 DEF ConfirmMessage, FailMessage
<1>8. ASSUME NEW chat \in Chats, NEW D \in SUBSET Tracked, DeleteMessages(chat, D)
      PROVE  file'[d] = "written"
  <2>1. message'[d].state = "sending" => message[d].state = "sending"
    BY <1>1, <1>8 DEF DeleteMessages, TInv, TypeOK
  <2> QED
    BY <1>5, <1>8, <2>1 DEF DeleteMessages
<1>9. ASSUME NEW j \in Jobs, Begin(j) PROVE file'[d] = "written"
  <2>1. /\ UNCHANGED <<file, message>> /\ (j = d => file[d] = "written")
        /\ \A q \in taken' : q.job = d => q \in taken \/ j = d
    BY <1>9 DEF Begin, SendRequest
  <2> QED
    BY <2>1 DEF FileThereDuringUpload
<1>10. ASSUME NEW e \in Documents, StartClone(e) \/ SaveArchive(e) \/ CloneFails(e)
       PROVE  file'[d] = "written"
  <2>1. file[d] = "written" /\ UNCHANGED <<message, taken>>
    BY <1>10 DEF StartClone, SaveArchive, CloneFails, OnlyFile, FileThereDuringUpload
  <2> QED
    BY <1>2, <1>10, <2>1 DEF StartClone, SaveArchive, CloneFails, OnlyFile
<1>11. ASSUME NEW q \in taken, AcceptReply(q) \/ RefuseRequest(q) PROVE file'[d] = "written"
  BY <1>5, <1>11 DEF AcceptReply, RefuseRequest
<1>12. CASE Stop \/ UNCHANGED vars
  BY <1>5, <1>12 DEF Stop, vars
<1> QED
  BY <1>3, <1>4, <1>6, <1>7, <1>8, <1>9, <1>10, <1>11, <1>12 DEF Next, Outcome, Requested

-----------------------------------------------------------------------------
(* The order of an answer and the updates after it.                        *)

Order == SendingOrder /\ SettledOrder

\* The same places, and the same queue.
LEMMA SameWaits ==
  ASSUME TInv, Requests, UNCHANGED <<inbox, pendingTexts, pendingDocs, message>>,
         \A r \in RequestIds : callbacks[r] # NoJob => callbacks'[r] = callbacks[r], Order
  PROVE  Order'
<1>1. \A j \in Tracked, id \in SomeId, p \in 0..Len(inbox) : Waits(j, id, p)' => Waits(j, id, p)
  <2> SUFFICES ASSUME NEW j \in Tracked, NEW id \in SomeId, NEW p \in 0..Len(inbox), Waits(j, id, p)'
               PROVE  Waits(j, id, p)
    OBVIOUS
  <2>1. CASE p = 0
    BY <2>1 DEF Waits
  <2>2. CASE p # 0
    <3>1. p \in 1..Len(inbox) /\ inbox[p] \in Outputs /\ inbox[p].type = "answer"
      BY <2>2 DEF Waits, AnswerFor, TInv, TypeOK
    <3>2. inbox[p].request \in RequestIds /\ callbacks[inbox[p].request] # NoJob
      BY <3>1, OutputKinds DEF Requests, AnswersAwaited
    <3> QED
      BY <2>2, <3>2 DEF Waits, AnswerFor
  <2> QED
    BY <2>1, <2>2
<1>2. SendingOrder'
  BY <1>1 DEF Order, SendingOrder
<1>3. Texts \subseteq Tracked
  BY DEF Tracked
<1>4. SettledOrder'
  BY <1>1, <1>3 DEF Order, SettledOrder, FirstUpdate
<1> QED
  BY <1>2, <1>4 DEF Order

UpdateTypes == {"succeeded", "failed", "deleted"}

\* An output at the end of the queue: what waited before, and the first updates.
LEMMA WaitsPut ==
  ASSUME TInv, NEW o \in Outputs, Put(o), UNCHANGED <<callbacks, pendingTexts, pendingDocs>>
  PROVE  /\ \A j \in Tracked, id \in SomeId, p \in 0..Len(inbox) : Waits(j, id, p)' => Waits(j, id, p)
         /\ \A j \in Tracked, id \in SomeId, p \in 0..Len(inbox') \ 0..Len(inbox) : Waits(j, id, p)' =>
              o.type = "answer" /\ o.ok /\ o.id = id /\ callbacks[o.request] = j
         /\ \A chat \in Chats, id \in SomeId, p \in 0..Len(inbox), types \in SUBSET UpdateTypes :
              FirstUpdate(chat, id, p, types) => FirstUpdate(chat, id, p, types)'
         /\ \A chat \in Chats, id \in SomeId, p \in 0..Len(inbox), types \in SUBSET UpdateTypes :
              /\ o.type \in types
              /\ Settles(o, chat, id)
              /\ \A n \in (p + 1)..Len(inbox) : ~Settles(inbox[n], chat, id)
              => FirstUpdate(chat, id, p, types)'
<1>1. /\ inbox' \in Seq(Outputs)
      /\ Len(inbox') = Len(inbox) + 1 /\ Len(inbox) \in Nat
      /\ \A n \in 1..Len(inbox) : inbox'[n] = inbox[n]
      /\ inbox'[Len(inbox) + 1] = o
  BY PutFacts DEF TInv, TypeOK
<1>2. \A j \in Tracked, id \in SomeId, p \in 0..Len(inbox) : Waits(j, id, p)' => Waits(j, id, p)
  BY <1>1 DEF Waits, AnswerFor
<1>3. \A j \in Tracked, id \in SomeId, p \in 0..Len(inbox') \ 0..Len(inbox) : Waits(j, id, p)' =>
              o.type = "answer" /\ o.ok /\ o.id = id /\ callbacks[o.request] = j
  BY <1>1 DEF Waits, AnswerFor
<1>4. ASSUME NEW chat \in Chats, NEW id \in SomeId, NEW p \in 0..Len(inbox), NEW types \in SUBSET UpdateTypes,
             FirstUpdate(chat, id, p, types)
      PROVE  FirstUpdate(chat, id, p, types)'
  <2>1. PICK n \in (p + 1)..Len(inbox) : /\ inbox[n].type \in types
                                        /\ Settles(inbox[n], chat, id)
                                        /\ \A m \in (p + 1)..(n - 1) : ~Settles(inbox[m], chat, id)
    BY <1>4 DEF FirstUpdate
  <2>2. n \in (p + 1)..Len(inbox') /\ \A m \in (p + 1)..n : inbox'[m] = inbox[m]
    BY <1>1
  <2>3. \A m \in (p + 1)..(n - 1) : inbox'[m] = inbox[m]
    BY <2>2
  <2>4. inbox'[n] = inbox[n]
    BY <2>2
  <2> QED
    BY <2>1, <2>2, <2>3, <2>4 DEF FirstUpdate
<1>5. ASSUME NEW chat \in Chats, NEW id \in SomeId, NEW p \in 0..Len(inbox), NEW types \in SUBSET UpdateTypes,
             o.type \in types, Settles(o, chat, id),
             \A n \in (p + 1)..Len(inbox) : ~Settles(inbox[n], chat, id)
      PROVE  FirstUpdate(chat, id, p, types)'
  <2>1. /\ Len(inbox) + 1 \in (p + 1)..Len(inbox')
        /\ \A m \in (p + 1)..(Len(inbox) + 1 - 1) : inbox'[m] = inbox[m] /\ m \in (p + 1)..Len(inbox)
    BY <1>1
  <2>2. \A m \in (p + 1)..(Len(inbox) + 1 - 1) : ~Settles(inbox'[m], chat, id)
    BY <1>5, <2>1
  <2> QED
    BY <1>1, <1>5, <2>1, <2>2 DEF FirstUpdate
<1> QED
  BY <1>2, <1>3, <1>4, <1>5

\* TDLib answers a request.
LEMMA AnswerOrder ==
  ASSUME TInv, Requests, Order, NEW q \in taken, NEW ok \in BOOLEAN, NEW id \in SomeId,
         Put(Answer(q.request, ok, id)), UNCHANGED <<callbacks, pendingTexts, pendingDocs>>,
         \A j \in Tracked : j # q.job => message'[j] = message[j],
         ok /\ q.job \in Tracked => /\ id \in MessageIds
                                  /\ message'[q.job].state = "sending" /\ message'[q.job].id = id
  PROVE  Order'
<1> DEFINE o == Answer(q.request, ok, id)
<1>1. q.request \in RequestIds /\ q.job \in Jobs /\ callbacks[q.request] = q.job
  BY DEF TInv, TypeOK, Requests, TakenAwaited
<1>2. o \in Outputs /\ o.type = "answer" /\ o.request = q.request /\ o.ok = ok /\ o.id = id
  BY <1>1, OutputsPut DEF Answer
<1> HIDE DEF o
<1>3. /\ inbox' \in Seq(Outputs)
      /\ Len(inbox') = Len(inbox) + 1 /\ Len(inbox) \in Nat
      /\ \A n \in 1..Len(inbox) : inbox'[n] = inbox[n]
      /\ inbox'[Len(inbox) + 1] = o
  BY <1>2, PutFacts DEF o, TInv, TypeOK
<1>4. /\ \A j \in Tracked, i \in SomeId, p \in 0..Len(inbox) : Waits(j, i, p)' => Waits(j, i, p)
      /\ \A j \in Tracked, i \in SomeId, p \in 0..Len(inbox') \ 0..Len(inbox) : Waits(j, i, p)' =>
           o.type = "answer" /\ o.ok /\ o.id = i /\ callbacks[o.request] = j
      /\ \A chat \in Chats, i \in SomeId, p \in 0..Len(inbox), types \in SUBSET UpdateTypes :
           FirstUpdate(chat, i, p, types) => FirstUpdate(chat, i, p, types)'
  BY <1>2, WaitsPut DEF o
<1>5. \A j \in Tracked, i \in SomeId, p \in 0..Len(inbox) : Waits(j, i, p)' =>
        Waits(j, i, p) /\ message'[j] = message[j]
  BY <1>1, <1>4 DEF Order, SendingOrder, Requests, TakenAwaited
<1>6. \A chat, i : ~Removes(o, chat, i)
  BY <1>2 DEF Removes, Settles
<1>7. \A j \in Tracked, i \in SomeId, p \in 0..Len(inbox') \ 0..Len(inbox) : Waits(j, i, p)' =>
        j = q.job /\ ok /\ i = id
  BY <1>1, <1>2, <1>4
<1>8. SendingOrder'
  <2> SUFFICES ASSUME NEW j \in Tracked, NEW i \in SomeId, NEW p \in 0..Len(inbox'), Waits(j, i, p)'
               PROVE  /\ i \in MessageIds
                      /\ message'[j].state # "none"
                      /\ message'[j].state = "sending" =>
                           /\ message'[j].id = i
                           /\ \A n \in (p + 1)..Len(inbox') : ~Removes(inbox'[n], ChatOf[j], i)
    BY DEF SendingOrder
  <2>1. CASE p \in 0..Len(inbox)
    <3>1. \A n \in (p + 1)..Len(inbox') : n = Len(inbox) + 1 \/ (n \in (p + 1)..Len(inbox) /\ n \in 1..Len(inbox))
      BY <1>3, <2>1
    <3> QED
      BY <1>3, <1>5, <1>6, <2>1, <3>1 DEF Order, SendingOrder
  <2>2. CASE p \notin 0..Len(inbox)
    <3>1. (p + 1)..Len(inbox') = {}
      BY <1>3, <2>2
    <3> QED
      BY <1>7, <2>2, <3>1
  <2> QED
    BY <2>1, <2>2
<1>9. SettledOrder'
  <2> SUFFICES ASSUME NEW t \in Texts, NEW i \in SomeId, NEW p \in 0..Len(inbox'), Waits(t, i, p)'
               PROVE  /\ message'[t].state \in {"sent", "gone"} => FirstUpdate(ChatOf[t], i, p, {"succeeded"})'
                      /\ message'[t].state \in {"failed", "dropped"} =>
                           FirstUpdate(ChatOf[t], i, p, {"failed", "deleted"})'
    BY DEF SettledOrder
  <2>1. t \in Tracked /\ ChatOf[t] \in Chats
    BY Constants DEF Tracked
  <2>2. CASE p \in 0..Len(inbox)
    BY <1>4, <1>5, <2>1, <2>2 DEF Order, SettledOrder, UpdateTypes
  <2>3. CASE p \notin 0..Len(inbox)
    BY <1>7, <2>1, <2>3
  <2> QED
    BY <2>2, <2>3
<1> QED
  BY <1>8, <1>9 DEF Order

\* TDLib reports on messages that were created: the report concerns every message
\* whose sending it ends, and none that is still being sent.
LEMMA UpdateOrder ==
  ASSUME TInv, Order, NEW o \in Outputs, Put(o), o.type \in UpdateTypes,
         UNCHANGED <<callbacks, pendingTexts, pendingDocs>>,
         \A j \in Tracked : message'[j].state = "none" => message[j].state = "none",
         \A j \in Tracked : message'[j].state = "sending" => message'[j] = message[j],
         \A j \in Tracked : message'[j].state = "sending" => ~Removes(o, ChatOf[j], message[j].id),
         \A j \in Tracked : message[j].state = "sending" /\ message'[j].state # "sending" =>
           Settles(o, ChatOf[j], message[j].id),
         \A j \in Tracked : message'[j].state \in {"sent", "gone"} =>
           \/ message[j].state \in {"sent", "gone"}
           \/ message[j].state = "sending" /\ o.type = "succeeded",
         \A j \in Tracked : message'[j].state \in {"failed", "dropped"} =>
           \/ message[j].state \in {"failed", "dropped"}
           \/ message[j].state = "sending" /\ o.type \in {"failed", "deleted"}
  PROVE  Order'
<1>1. /\ inbox' \in Seq(Outputs)
      /\ Len(inbox') = Len(inbox) + 1 /\ Len(inbox) \in Nat
      /\ \A n \in 1..Len(inbox) : inbox'[n] = inbox[n]
      /\ inbox'[Len(inbox) + 1] = o
  BY PutFacts DEF TInv, TypeOK
<1>2. /\ \A j \in Tracked, i \in SomeId, p \in 0..Len(inbox) : Waits(j, i, p)' => Waits(j, i, p)
      /\ \A j \in Tracked, i \in SomeId, p \in 0..Len(inbox') \ 0..Len(inbox) : ~Waits(j, i, p)'
      /\ \A chat \in Chats, i \in SomeId, p \in 0..Len(inbox), types \in SUBSET UpdateTypes :
           FirstUpdate(chat, i, p, types) => FirstUpdate(chat, i, p, types)'
      /\ \A chat \in Chats, i \in SomeId, p \in 0..Len(inbox), types \in SUBSET UpdateTypes :
           /\ o.type \in types
           /\ Settles(o, chat, i)
           /\ \A n \in (p + 1)..Len(inbox) : ~Settles(inbox[n], chat, i)
           => FirstUpdate(chat, i, p, types)'
  BY WaitsPut DEF UpdateTypes
<1>3. SendingOrder'
  <2> SUFFICES ASSUME NEW j \in Tracked, NEW i \in SomeId, NEW p \in 0..Len(inbox'), Waits(j, i, p)'
               PROVE  /\ i \in MessageIds
                      /\ message'[j].state # "none"
                      /\ message'[j].state = "sending" =>
                           /\ message'[j].id = i
                           /\ \A n \in (p + 1)..Len(inbox') : ~Removes(inbox'[n], ChatOf[j], i)
    BY DEF SendingOrder
  <2>1. p \in 0..Len(inbox) /\ Waits(j, i, p)
    BY <1>2
  <2>2. \A n \in (p + 1)..Len(inbox') : n = Len(inbox) + 1 \/ (n \in (p + 1)..Len(inbox) /\ n \in 1..Len(inbox))
    BY <1>1, <2>1
  <2> QED
    BY <1>1, <2>1, <2>2 DEF Order, SendingOrder
<1>4. SettledOrder'
  <2> SUFFICES ASSUME NEW t \in Texts, NEW i \in SomeId, NEW p \in 0..Len(inbox'), Waits(t, i, p)'
               PROVE  /\ message'[t].state \in {"sent", "gone"} => FirstUpdate(ChatOf[t], i, p, {"succeeded"})'
                      /\ message'[t].state \in {"failed", "dropped"} =>
                           FirstUpdate(ChatOf[t], i, p, {"failed", "deleted"})'
    BY DEF SettledOrder
  <2>1. t \in Tracked /\ ChatOf[t] \in Chats
    BY Constants DEF Tracked
  <2>2. p \in 0..Len(inbox) /\ Waits(t, i, p)
    BY <1>2, <2>1
  <2>3. ASSUME message[t].state = "sending", message'[t].state # "sending",
               NEW types \in SUBSET UpdateTypes, o.type \in types
        PROVE  FirstUpdate(ChatOf[t], i, p, types)'
    <3>1. message[t].id = i /\ \A n \in (p + 1)..Len(inbox) : ~Settles(inbox[n], ChatOf[t], i)
      BY <2>1, <2>2, <2>3 DEF Order, SendingOrder, Removes
    <3>2. Settles(o, ChatOf[t], i)
      BY <2>1, <2>3, <3>1
    <3> QED
      BY <1>2, <2>1, <2>2, <2>3, <3>1, <3>2
  <2>4. ASSUME NEW types \in SUBSET UpdateTypes, FirstUpdate(ChatOf[t], i, p, types)
        PROVE  FirstUpdate(ChatOf[t], i, p, types)'
    BY <1>2, <2>1, <2>2, <2>4
  <2>5. CASE message'[t].state \in {"sent", "gone"}
    <3>1. CASE message[t].state \in {"sent", "gone"}
      BY <2>2, <2>4, <2>5, <3>1 DEF Order, SettledOrder, UpdateTypes
    <3>2. CASE message[t].state = "sending" /\ o.type = "succeeded"
      BY <2>3, <2>5, <3>2 DEF UpdateTypes
    <3> QED
      BY <2>1, <2>5, <3>1, <3>2
  <2>6. CASE message'[t].state \in {"failed", "dropped"}
    <3>1. CASE message[t].state \in {"failed", "dropped"}
      BY <2>2, <2>4, <2>6, <3>1 DEF Order, SettledOrder, UpdateTypes
    <3>2. CASE message[t].state = "sending" /\ o.type \in {"failed", "deleted"}
      BY <2>3, <2>6, <3>2 DEF UpdateTypes
    <3> QED
      BY <2>1, <2>6, <3>1, <3>2
  <2> QED
    BY <2>5, <2>6
<1> QED
  BY <1>3, <1>4 DEF Order

\* After a turn of the loop, what waits has waited before, one place further on; or
\* it is known to the loop already, and the turn did not concern it.
LEMMA WaitsReceive ==
  ASSUME TInv, Requests, SendingOrder, Receive,
         NEW j \in Tracked, NEW id \in SomeId, NEW p \in 0..Len(inbox'), Waits(j, id, p)'
  PROVE  \/ p + 1 \in 0..Len(inbox) /\ Waits(j, id, p + 1)
         \/ p = 0 /\ Waits(j, id, 0) /\ (j \in Texts => ~Settles(inbox[1], ChatOf[j], id))
<1>1. /\ Len(inbox') = Len(inbox) - 1 /\ Len(inbox) \in Nat /\ Len(inbox) >= 1
      /\ \A n \in 1..(Len(inbox) - 1) : inbox'[n] = inbox[n + 1]
      /\ \A n \in 1..Len(inbox) : inbox[n] \in Outputs
  BY HeadFacts
<1>2. j # NoJob /\ ChatOf[j] \in Chats /\ ~(j \in Texts /\ j \in Documents) /\ j \notin Replies
  BY Constants
<1>3. CASE p # 0
  <2>1. p \in 1..(Len(inbox) - 1) /\ p + 1 \in 0..Len(inbox) /\ p + 1 # 0
    BY <1>1, <1>3
  <2>2. inbox'[p] = inbox[p + 1] /\ inbox[p + 1] \in Outputs
    BY <1>1, <2>1
  <2>3. /\ inbox[p + 1].type = "answer" /\ callbacks'[inbox[p + 1].request] = j
        /\ inbox[p + 1].ok /\ inbox[p + 1].id = id
    BY <1>3, <2>2 DEF Waits, AnswerFor
  <2>4. inbox[p + 1].request \in RequestIds
    BY <2>2, <2>3, OutputKinds
  <2>5. callbacks[inbox[p + 1].request] = j
    <3>1. CASE TakeAnswer
      BY <2>3, <2>4, <3>1, AnswerEffects
    <3>2. CASE ~TakeAnswer
      BY <2>3, <3>2, UpdateTaken
    <3> QED
      BY <3>1, <3>2
  <2> QED
    BY <2>1, <2>3, <2>5 DEF Waits, AnswerFor
<1>4. CASE p = 0 /\ ~TakeAnswer
  <2> DEFINE k == <<ChatOf[j], id>>
  <2>1. id \in MessageIds /\ k \in Keys /\ k[1] = ChatOf[j] /\ k[2] = id
    BY <1>2, <1>4 DEF Waits, Keys
  <2>2. CASE j \in Texts /\ pendingTexts'[k] = j
    BY <1>2, <1>4, <2>1, <2>2, UpdateTaken DEF Waits
  <2>3. CASE j \in Documents /\ pendingDocs'[k] = j
    BY <1>2, <1>4, <2>1, <2>3, UpdateTaken DEF Waits
  <2> QED
    BY <1>4, <2>2, <2>3 DEF Waits
<1>5. CASE p = 0 /\ TakeAnswer
  <2> DEFINE k == <<ChatOf[j], id>>
             a == inbox[1]
             i == callbacks[a.request]
  <2>1. id \in MessageIds /\ k \in Keys
    BY <1>2, <1>5 DEF Waits, Keys
  <2>2. /\ SendAnswered(i, a.ok, a.id) /\ i \in Jobs
        /\ a.ok /\ i \in Tracked => Waits(i, a.id, 1)
        /\ a.type = "answer"
    BY <1>5, AnswerEffects, HeadFacts DEF TakeAnswer
  <2>3. /\ pendingTexts \in [Keys -> Texts \union {NoJob}]
        /\ pendingDocs \in [Keys -> Documents \union {NoJob}]
    BY DEF TInv, TypeOK
  <2>4. ~Settles(a, ChatOf[j], id)
    BY <2>2 DEF Settles
  <2>5. 1 \in 0..Len(inbox)
    BY <1>1
  <2>6. CASE pendingTexts'[k] = pendingTexts[k] /\ pendingDocs'[k] = pendingDocs[k]
    BY <1>5, <2>1, <2>4, <2>6 DEF Waits
  <2>7. CASE /\ a.ok /\ i \in Texts /\ pendingTexts' = [pendingTexts EXCEPT ![<<ChatOf[i], a.id>>] = i]
             /\ pendingDocs' = pendingDocs /\ pendingTexts'[k] # pendingTexts[k]
    <3>1. k = <<ChatOf[i], a.id>> /\ pendingTexts'[k] = i
      BY <2>1, <2>3, <2>7
    <3>2. CASE j \in Texts
      <4>1. j = i /\ id = a.id
        BY <1>2, <1>5, <3>1, <3>2 DEF Waits
      <4> QED
        BY <1>5, <2>2, <2>5, <2>7, <4>1 DEF Tracked
    <3>3. CASE j \in Documents
      BY <1>2, <1>5, <2>1, <2>7, <3>3 DEF Waits
    <3> QED
      BY <3>2, <3>3 DEF Tracked
  <2>8. CASE /\ a.ok /\ i \in Documents /\ pendingDocs' = [pendingDocs EXCEPT ![<<ChatOf[i], a.id>>] = i]
             /\ pendingTexts' = pendingTexts /\ pendingDocs'[k] # pendingDocs[k]
    <3>1. k = <<ChatOf[i], a.id>> /\ pendingDocs'[k] = i
      BY <2>1, <2>3, <2>8
    <3>2. CASE j \in Documents
      <4>1. j = i /\ id = a.id
        BY <1>2, <1>5, <3>1, <3>2 DEF Waits
      <4> QED
        BY <1>5, <2>2, <2>5, <2>8, <4>1 DEF Tracked
    <3>3. CASE j \in Texts
      BY <1>2, <1>5, <2>1, <2>4, <2>8, <3>3 DEF Waits
    <3> QED
      BY <3>2, <3>3 DEF Tracked
  <2> QED
    BY <2>2, <2>6, <2>7, <2>8 DEF SendAnswered
<1> QED
  BY <1>3, <1>4, <1>5

LEMMA ReceiveOrder ==
  ASSUME TInv, Requests, Order, Receive
  PROVE  Order'
<1>1. /\ Len(inbox') = Len(inbox) - 1 /\ Len(inbox) \in Nat /\ Len(inbox) >= 1
      /\ \A n \in 1..(Len(inbox) - 1) : inbox'[n] = inbox[n + 1]
      /\ message' = message
  BY HeadFacts DEF Receive
<1>2. SendingOrder'
  <2> SUFFICES ASSUME NEW j \in Tracked, NEW i \in SomeId, NEW p \in 0..Len(inbox'), Waits(j, i, p)'
               PROVE  /\ i \in MessageIds
                      /\ message[j].state # "none"
                      /\ message[j].state = "sending" =>
                           /\ message[j].id = i
                           /\ \A n \in (p + 1)..Len(inbox') : ~Removes(inbox'[n], ChatOf[j], i)
    BY <1>1 DEF SendingOrder
  <2>1. PICK old \in 0..Len(inbox) : Waits(j, i, old) /\ old <= p + 1
    BY <1>1, WaitsReceive DEF Order
  <2>2. \A n \in (p + 1)..Len(inbox') : inbox'[n] = inbox[n + 1] /\ n + 1 \in (old + 1)..Len(inbox)
    BY <1>1, <2>1
  <2> QED
    BY <2>1, <2>2 DEF Order, SendingOrder
<1>3. ASSUME NEW chat, NEW i, NEW p \in 0..Len(inbox'), NEW types, p + 1 \in 0..Len(inbox),
             FirstUpdate(chat, i, p + 1, types)
      PROVE  FirstUpdate(chat, i, p, types)'
  <2>1. PICK n \in (p + 1 + 1)..Len(inbox) : /\ inbox[n].type \in types
                                            /\ Settles(inbox[n], chat, i)
                                            /\ \A m \in (p + 1 + 1)..(n - 1) : ~Settles(inbox[m], chat, i)
    BY <1>3 DEF FirstUpdate
  <2>2. /\ n - 1 \in (p + 1)..Len(inbox') /\ inbox'[n - 1] = inbox[n]
        /\ \A m \in (p + 1)..(n - 1 - 1) : inbox'[m] = inbox[m + 1] /\ m + 1 \in (p + 1 + 1)..(n - 1)
    BY <1>1
  <2>3. \A m \in (p + 1)..(n - 1 - 1) : ~Settles(inbox'[m], chat, i)
    BY <2>1, <2>2
  <2> QED
    BY <2>1, <2>2, <2>3 DEF FirstUpdate
<1>4. ASSUME NEW chat, NEW i, NEW types, FirstUpdate(chat, i, 0, types), ~Settles(inbox[1], chat, i)
      PROVE  FirstUpdate(chat, i, 0, types)'
  <2>1. PICK n \in (0 + 1)..Len(inbox) : /\ inbox[n].type \in types
                                        /\ Settles(inbox[n], chat, i)
                                        /\ \A m \in (0 + 1)..(n - 1) : ~Settles(inbox[m], chat, i)
    BY <1>4 DEF FirstUpdate
  <2>2. n # 1
    BY <1>4, <2>1
  <2>3. /\ n - 1 \in (0 + 1)..Len(inbox') /\ inbox'[n - 1] = inbox[n]
        /\ \A m \in (0 + 1)..(n - 1 - 1) : inbox'[m] = inbox[m + 1] /\ m + 1 \in (0 + 1)..(n - 1)
    BY SMTT(40), <1>1, <2>2
  <2>4. \A m \in (0 + 1)..(n - 1 - 1) : ~Settles(inbox'[m], chat, i)
    BY <2>1, <2>3
  <2> QED
    BY <2>1, <2>3, <2>4 DEF FirstUpdate
<1>5. SettledOrder'
  <2> SUFFICES ASSUME NEW t \in Texts, NEW i \in SomeId, NEW p \in 0..Len(inbox'), Waits(t, i, p)'
               PROVE  /\ message[t].state \in {"sent", "gone"} => FirstUpdate(ChatOf[t], i, p, {"succeeded"})'
                      /\ message[t].state \in {"failed", "dropped"} =>
                           FirstUpdate(ChatOf[t], i, p, {"failed", "deleted"})'
    BY <1>1 DEF SettledOrder
  <2>1. t \in Tracked
    BY DEF Tracked
  <2>2. CASE p + 1 \in 0..Len(inbox) /\ Waits(t, i, p + 1)
    BY <1>3, <2>2 DEF Order, SettledOrder
  <2>3. CASE p = 0 /\ Waits(t, i, 0) /\ ~Settles(inbox[1], ChatOf[t], i)
    <3>1. 0 \in 0..Len(inbox)
      BY <1>1
    <3> QED
      BY <1>4, <2>3, <3>1 DEF Order, SettledOrder
  <2> QED
    BY <2>1, <2>2, <2>3, WaitsReceive DEF Order
<1> QED
  BY <1>2, <1>5 DEF Order

LEMMA OrderNext == TInv /\ Requests /\ Ids /\ Order /\ [Next]_vars => Order'
<1> SUFFICES ASSUME TInv, Requests, Ids, Order, [Next]_vars PROVE Order'
  OBVIOUS
<1>1. message \in [Tracked -> [state : MessageStates, id : SomeId]]
  BY DEF TInv, TypeOK, SomeId
<1>2. ASSUME NEW j \in Jobs, Begin(j) PROVE Order'
  <2>1. UNCHANGED <<inbox, pendingTexts, pendingDocs, message>>
    BY <1>2 DEF Begin
  <2>2. \A r \in RequestIds : callbacks[r] # NoJob => callbacks'[r] = callbacks[r]
    BY <1>2, BeginTypes DEF Begin, SendRequest, Requests, CallbacksKnown, TInv, TypeOK, RequestIds
  <2> QED
    BY <2>1, <2>2, SameWaits
<1>3. CASE UNCHANGED <<inbox, pendingTexts, pendingDocs, message, callbacks>>
  BY <1>3, SameWaits
<1>4. ASSUME NEW q \in taken, NEW id \in MessageIds, CreateMessage(q, id) PROVE Order'
  <2>1. id \in SomeId /\ UNCHANGED TdlibVars /\ Put(Answer(q.request, TRUE, id))
    BY <1>4, TdlibPuts DEF SomeId
  <2>2. /\ \A j \in Tracked : j # q.job => message'[j] = message[j]
        /\ message'[q.job].state = "sending" /\ message'[q.job].id = id
    BY <1>1, <1>4 DEF CreateMessage
  <2> QED
    BY <2>1, <2>2, AnswerOrder DEF TdlibVars
<1>5. ASSUME NEW q \in taken, AcceptReply(q) PROVE Order'
  <2>1. NoId \in SomeId /\ UNCHANGED <<TdlibVars, message>> /\ Put(Answer(q.request, TRUE, NoId))
        /\ q.job \notin Tracked
    BY <1>5, TdlibPuts, Constants DEF SomeId, AcceptReply
  <2> QED
    BY <2>1, AnswerOrder DEF TdlibVars
<1>6. ASSUME NEW q \in taken, RefuseRequest(q) PROVE Order'
  <2>1. NoId \in SomeId /\ UNCHANGED <<TdlibVars, message>> /\ Put(Answer(q.request, FALSE, NoId))
    BY <1>6, TdlibPuts DEF SomeId
  <2> QED
    BY <2>1, AnswerOrder DEF TdlibVars
<1>7. ASSUME NEW j \in Tracked, NEW id \in MessageIds, ConfirmMessage(j, id) PROVE Order'
  <2> DEFINE o == Succeeded(ChatOf[j], message[j].id, id)
  <2>1. o \in Outputs /\ Put(o) /\ UNCHANGED TdlibVars
    BY <1>7, TdlibPuts
  <2>2. o.type = "succeeded" /\ o.chat = ChatOf[j] /\ o.old = message[j].id
    BY DEF Succeeded
  <2> HIDE DEF o
  <2>3. /\ message[j].state = "sending" /\ message'[j].state = "sent"
        /\ \A i \in Tracked : i # j => message'[i] = message[i]
    BY <1>1, <1>7 DEF ConfirmMessage
  <2>4. \A i \in Tracked : message'[i].state = "sending" => ~Removes(o, ChatOf[i], message[i].id)
    BY <2>2, <2>3 DEF Ids, Removes, Settles
  <2>5. Settles(o, ChatOf[j], message[j].id)
    BY <2>2 DEF Settles
  <2> QED
    BY <2>1, <2>2, <2>3, <2>4, <2>5, UpdateOrder DEF TdlibVars, UpdateTypes
<1>8. ASSUME NEW j \in Tracked, NEW id \in MessageIds, FailMessage(j, id) PROVE Order'
  <2> DEFINE o == Failed(ChatOf[j], message[j].id, id)
  <2>1. o \in Outputs /\ Put(o) /\ UNCHANGED TdlibVars
    BY <1>8, TdlibPuts
  <2>2. o.type = "failed" /\ o.chat = ChatOf[j] /\ o.old = message[j].id /\ o.new = id
    BY DEF Failed
  <2> HIDE DEF o
  <2>3. /\ message[j].state = "sending" /\ message'[j].state = "failed"
        /\ \A i \in Tracked : i # j => message'[i] = message[i]
    BY <1>1, <1>8 DEF FailMessage
  <2>4. \A i \in Tracked : ChatOf[i] = ChatOf[j] => message[i].id # id
    BY <1>8 DEF FailMessage, FreeIds, IdsOf
  <2>5. \A i \in Tracked : message'[i].state = "sending" => ~Removes(o, ChatOf[i], message[i].id)
    BY <2>2, <2>3, <2>4 DEF Ids, Removes, Settles
  <2>6. Settles(o, ChatOf[j], message[j].id)
    BY <2>2 DEF Settles
  <2> QED
    BY <2>1, <2>2, <2>3, <2>5, <2>6, UpdateOrder DEF TdlibVars, UpdateTypes
<1>9. ASSUME NEW chat \in Chats, NEW D \in SUBSET Tracked, DeleteMessages(chat, D) PROVE Order'
  <2> DEFINE o == Deleted(chat, {message[j].id : j \in D})
  <2>1. o \in Outputs /\ Put(o) /\ UNCHANGED TdlibVars
    BY <1>9, TdlibPuts
  <2>2. o.type = "deleted" /\ o.chat = chat /\ o.ids = {message[j].id : j \in D}
    BY DEF Deleted
  <2> HIDE DEF o
  <2>3. \A j \in D : ChatOf[j] = chat /\ message[j].state \in {"sending", "sent", "failed"}
    BY <1>9 DEF DeleteMessages
  <2>4. \A j \in Tracked :
          /\ j \notin D => message'[j] = message[j]
          /\ j \in D => message'[j].state = IF message[j].state = "sent" THEN "gone" ELSE "dropped"
    BY <1>1, <1>9 DEF DeleteMessages
  <2>5. \A i \in Tracked : message'[i].state = "sending" => i \notin D /\ message[i].state = "sending"
    BY <2>4
  <2>6. \A i \in Tracked : message'[i].state = "sending" => ~Removes(o, ChatOf[i], message[i].id)
    BY <2>2, <2>3, <2>5 DEF Ids, Removes, Settles
  <2>7. \A i \in Tracked : message[i].state = "sending" /\ message'[i].state # "sending" =>
          Settles(o, ChatOf[i], message[i].id)
    BY <2>2, <2>3, <2>4 DEF Settles
  <2> QED
    BY <2>1, <2>2, <2>3, <2>4, <2>6, <2>7, UpdateOrder DEF TdlibVars, UpdateTypes
<1>10. ASSUME NEW d \in Documents, StartClone(d) \/ SaveArchive(d) \/ CloneFails(d) PROVE Order'
  BY <1>3, <1>10 DEF StartClone, SaveArchive, CloneFails, OnlyFile
<1>11. CASE Stop \/ UNCHANGED vars
  BY <1>3, <1>11 DEF Stop, vars
<1>12. CASE Receive
  BY <1>12, ReceiveOrder
<1> QED
  BY <1>2, <1>4, <1>5, <1>6, <1>7, <1>8, <1>9, <1>10, <1>11, <1>12 DEF Next, Outcome, Requested

-----------------------------------------------------------------------------
(* Theorems.                                                               *)

LEMMA InitInvariant == Init => IInv
<1> SUFFICES ASSUME Init PROVE IInv
  OBVIOUS
<1>1. 1 \in RequestIds \union {Cardinality(RequestIds) + 1}
  <2>1. Cardinality(RequestIds) = Cardinality(Jobs) + Cardinality(Replies)
    BY Constants, FS_Interval DEF RequestIds
  <2> QED
    BY <2>1, Constants DEF RequestIds
<1>2. TypeOK
  BY <1>1, Constants DEF Init, TypeOK, Unsent, MessageStates
<1>3. Counted
  BY FS_EmptySet DEF Init, Counted
<1>4. Requests
  <2>1. /\ \A r \in RequestIds : callbacks[r] = NoJob
        /\ taken = {} /\ Len(inbox) = 0 /\ NoJob \notin Tracked
    BY Constants DEF Init
  <2>2. CallbacksKnown /\ CallbacksAwaited
    BY <2>1 DEF CallbacksKnown, CallbacksAwaited
  <2>3. TakenAwaited
    BY <2>1 DEF TakenAwaited
  <2>4. AnswersAwaited
    BY <2>1 DEF AnswersAwaited
  <2> QED
    BY <2>2, <2>3, <2>4 DEF Requests
<1>5. Ids
  BY DEF Init, Ids, Unsent
<1>6. Registered /\ NotYetTold /\ FileThereDuringUpload
  <2>1. /\ \A k \in Keys : pendingTexts[k] = NoJob /\ pendingDocs[k] = NoJob
        /\ \A j \in Tracked : message[j].state = "none"
        /\ \A t \in Texts : told[t] = "nothing"
        /\ taken = {} /\ Documents \subseteq Tracked
    BY DEF Init, Unsent, Tracked
  <2>2. Registered
    BY <2>1 DEF Registered
  <2>3. NotYetTold
    BY <2>1 DEF NotYetTold
  <2>4. FileThereDuringUpload
    BY <2>1 DEF FileThereDuringUpload
  <2> QED
    BY <2>2, <2>3, <2>4
<1>7. Len(inbox) = 0
  BY DEF Init
<1>8. \A j \in Tracked, id \in SomeId, p \in 0..Len(inbox) : ~Waits(j, id, p)
  BY <1>7, Constants DEF Init, Waits, Keys, Tracked
<1>9. SendingOrder /\ SettledOrder
  BY <1>8 DEF SendingOrder, SettledOrder, Tracked
<1> QED
  BY <1>2, <1>3, <1>4, <1>5, <1>6, <1>9 DEF IInv

LEMMA NextInvariant == IInv /\ [Next]_vars => IInv'
BY TypesNext, IdsNext, RegisteredNext, NotYetToldNext, FileNext, OrderNext DEF IInv, TInv, Order

\* The inductive invariant holds in every behaviour.
THEOREM ClientInvariant == Spec => []IInv
BY InitInvariant, NextInvariant, PTL DEF Spec

\* Every variable keeps its type, and request ids never run out: a job has one
\* request, and a reply a second one (sendRequestImpl, sendText).
THEOREM TypeCorrect == Spec => []TypeOK
<1>1. IInv => TypeOK
  BY DEF IInv
<1> QED
  BY <1>1, ClientInvariant, PTL

\* A callback in callbacks_ awaits an answer that TDLib owes or has given (loop).
THEOREM CallbacksAwaitedHolds == Spec => []CallbacksAwaited
<1>1. IInv => CallbacksAwaited
  BY DEF IInv, Requests
<1> QED
  BY <1>1, ClientInvariant, PTL

\* The temporary file of a document is never removed before its upload has ended
\* (removePendingDocument).
THEOREM FileThereDuringUploadHolds == Spec => []FileThereDuringUpload
<1>1. IInv => FileThereDuringUpload
  BY DEF IInv
<1> QED
  BY <1>1, ClientInvariant, PTL

\* A step of the client is a step of Sends, or changes nothing of it.
LEMMA SendsStep == IInv /\ IInv' /\ [Next]_vars => [Promise!SNext]_(Promise!svars)
<1> SUFFICES ASSUME IInv, IInv', [Next]_vars
             PROVE  \/ \E t \in Texts : Promise!Ask(t) \/ Promise!Confirm(t) \/ Promise!TellSent(t)
                    \/ \E T \in SUBSET Texts : Promise!TellFailed(T)
                    \/ UNCHANGED <<asked \intersect Texts, Confirmed, told>>
  BY DEF Promise!SNext, Promise!svars
<1>1. /\ TInv /\ Requests /\ Ids /\ Registered /\ NotYetTold /\ SendingOrder /\ SettledOrder
      /\ message \in [Tracked -> [state : MessageStates, id : SomeId]]
      /\ told \in [Texts -> {"nothing", "sent", "failed"}]
      /\ told' \in [Texts -> {"nothing", "sent", "failed"}]
      /\ Texts \subseteq Tracked /\ Texts \subseteq Jobs
  BY Constants DEF IInv, TInv, TypeOK, SomeId, Tracked
<1>2. CASE /\ UNCHANGED <<asked, told>>
           /\ \A t \in Texts : message'[t].state \in {"sent", "gone"} <=> message[t].state \in {"sent", "gone"}
  <2>1. Confirmed' = Confirmed
    BY <1>2 DEF Confirmed
  <2> QED
    BY <1>2, <2>1
<1>3. ASSUME NEW j \in Jobs, Begin(j)
      PROVE  \/ \E t \in Texts : Promise!Ask(t)
             \/ UNCHANGED <<asked \intersect Texts, Confirmed, told>>
  <2>1. asked' = asked \union {j} /\ j \notin asked /\ UNCHANGED <<told, message>>
    BY <1>3 DEF Begin
  <2>2. Confirmed' = Confirmed
    BY <2>1 DEF Confirmed
  <2>3. CASE j \in Texts
    <3>1. asked' \intersect Texts = (asked \intersect Texts) \union {j} /\ j \notin asked \intersect Texts
      BY <2>1, <2>3
    <3> QED
      BY <2>1, <2>2, <2>3, <3>1 DEF Promise!Ask
  <2>4. CASE j \notin Texts
    <3>1. asked' \intersect Texts = asked \intersect Texts
      BY <2>1, <2>4
    <3> QED
      BY <2>1, <2>2, <3>1
  <2> QED
    BY <2>3, <2>4
<1>4. ASSUME NEW j \in Tracked, NEW id \in MessageIds, ConfirmMessage(j, id)
      PROVE  \/ \E t \in Texts : Promise!Confirm(t)
             \/ UNCHANGED <<asked \intersect Texts, Confirmed, told>>
  <2>1. /\ UNCHANGED <<asked, told>> /\ message[j].state = "sending" /\ message'[j].state = "sent"
        /\ \A i \in Tracked : i # j => message'[i] = message[i]
    BY <1>1, <1>4 DEF ConfirmMessage
  <2>2. CASE j \in Texts
    <3>1. j \in asked /\ told[j] = "nothing"
      BY <1>1, <2>1, <2>2 DEF Ids, NotYetTold
    <3>2. Confirmed' = Confirmed \union {j} /\ j \notin Confirmed
      BY <1>1, <2>1, <2>2 DEF Confirmed
    <3> QED
      BY <2>1, <2>2, <3>1, <3>2 DEF Promise!Confirm
  <2>3. CASE j \notin Texts
    <3>1. Confirmed' = Confirmed
      BY <1>1, <2>1, <2>3 DEF Confirmed
    <3> QED
      BY <2>1, <3>1
  <2> QED
    BY <2>2, <2>3
<1>5. CASE Receive /\ ~TakeAnswer
  <2> DEFINE Heard == {t \in Texts : \E k \in Keys : Settles(inbox[1], k[1], k[2]) /\ pendingTexts[k] = t}
  <2>1. /\ \A t \in Texts : told'[t] =
             IF t \in Heard THEN (IF inbox[1].type = "succeeded" THEN "sent" ELSE "failed") ELSE told[t]
        /\ inbox[1].type \in {"succeeded", "failed", "deleted"}
        /\ UNCHANGED <<asked, message>>
    BY <1>1, <1>5, UpdateTaken
  <2>2. Confirmed' = Confirmed
    BY <2>1 DEF Confirmed
  <2>3. ASSUME NEW t \in Heard
        PROVE  /\ t \in asked /\ told[t] = "nothing"
               /\ t \in Confirmed <=> inbox[1].type = "succeeded"
    <3>1. PICK k \in Keys : Settles(inbox[1], k[1], k[2]) /\ pendingTexts[k] = t
      OBVIOUS
    <3>2. t \in asked /\ k[1] = ChatOf[t] /\ told[t] = "nothing"
      BY <1>1, <3>1, Constants DEF Registered, NotYetTold
    <3>3. k = <<ChatOf[t], k[2]>> /\ k[2] \in MessageIds /\ k[2] \in SomeId
      BY <3>2 DEF Keys, SomeId
    <3>4. Waits(t, k[2], 0)
      BY <3>1, <3>3 DEF Waits
    <3>5. 1 \in (0 + 1)..Len(inbox) /\ 0 \in 0..Len(inbox) /\ Len(inbox) \in Nat
      BY <1>1, <1>5, HeadFacts
    <3>6. message[t].state \notin {"none", "sending"}
      BY <1>1, <3>1, <3>2, <3>4, <3>3, <3>5 DEF SendingOrder, Removes
    <3>7. \A types : FirstUpdate(ChatOf[t], k[2], 0, types) => inbox[1].type \in types
      BY <3>1, <3>2, <3>5 DEF FirstUpdate
    <3>8. message[t].state \in {"sent", "gone"} => inbox[1].type = "succeeded"
      BY <1>1, <3>3, <3>4, <3>5, <3>7 DEF SettledOrder
    <3>9. message[t].state \in {"failed", "dropped"} => inbox[1].type \in {"failed", "deleted"}
      BY <1>1, <3>3, <3>4, <3>5, <3>7 DEF SettledOrder
    <3>10. message[t].state \in MessageStates
      BY <1>1
    <3> QED
      BY <3>2, <3>6, <3>8, <3>9, <3>10 DEF Confirmed, MessageStates
  <2>4. CASE inbox[1].type = "succeeded" /\ Heard # {}
    <3>1. PICK t \in Heard : TRUE
      BY <2>4
    <3>2. Heard = {t}
      <4>1. ASSUME NEW s \in Heard PROVE s = t
        <5>1. inbox[1] \in Outputs
          BY <1>1, <1>5, HeadFacts
        <5>2. \A k \in Keys : Settles(inbox[1], k[1], k[2]) => k = <<inbox[1].chat, inbox[1].old>>
          BY <2>4 DEF Settles, Keys
        <5> QED
          BY <3>1, <5>2
      <4> QED
        BY <3>1, <4>1
    <3>3. told' = [told EXCEPT ![t] = "sent"]
      BY <1>1, <2>1, <2>4, <3>2
    <3> QED
      BY <2>1, <2>2, <2>3, <2>4, <3>1, <3>3 DEF Promise!TellSent
  <2>5. CASE inbox[1].type # "succeeded"
    <3>1. told' = [t \in Texts |-> IF t \in Heard THEN "failed" ELSE told[t]]
      BY <1>1, <2>1, <2>5
    <3>2. Heard \in SUBSET Texts /\ Heard \subseteq (asked \intersect Texts) \ Confirmed
      BY <2>3, <2>5
    <3>3. \A t \in Heard : told[t] = "nothing"
      BY <2>3
    <3> HIDE DEF Heard
    <3>4. Promise!TellFailed(Heard)
      BY <2>1, <2>2, <3>1, <3>2, <3>3 DEF Promise!TellFailed
    <3> QED
      BY <3>2, <3>4
  <2>6. CASE Heard = {}
    <3>1. told' = told
      BY <1>1, <2>1, <2>6
    <3> QED
      BY <2>1, <2>2, <3>1
  <2> QED
    BY <2>4, <2>5, <2>6
<1>6. CASE Receive /\ TakeAnswer
  <2> DEFINE a == inbox[1]
             j == callbacks[a.request]
  <2>1. /\ a.request \in RequestIds /\ j \in asked /\ SendAnswered(j, a.ok, a.id)
        /\ ~a.ok /\ j \in Tracked => message[j].state = "none"
        /\ UNCHANGED <<asked, message>>
    BY <1>1, <1>6, AnswerEffects
  <2>2. Confirmed' = Confirmed
    BY <2>1 DEF Confirmed
  <2>3. CASE told' = told
    BY <2>1, <2>2, <2>3
  <2>4. CASE ~a.ok /\ j \in Texts /\ told' = [told EXCEPT ![j] = "failed"]
    <3>1. told[j] = "nothing" /\ j \notin Confirmed
      BY <1>1, <2>1, <2>4 DEF NotYetTold, Confirmed
    <3>2. told' = [t \in Texts |-> IF t \in {j} THEN "failed" ELSE told[t]]
      BY <1>1, <2>4
    <3>3. Promise!TellFailed({j})
      BY <2>1, <2>2, <2>4, <3>1, <3>2 DEF Promise!TellFailed
    <3> QED
      BY <2>4, <3>3
  <2> QED
    BY <2>1, <2>3, <2>4 DEF SendAnswered
<1>7. ASSUME NEW q \in taken, NEW id \in MessageIds, CreateMessage(q, id)
      PROVE  UNCHANGED <<asked \intersect Texts, Confirmed, told>>
  <2>1. \A t \in Texts : message'[t].state \in {"sent", "gone"} <=> message[t].state \in {"sent", "gone"}
    <3>1. q.job \in Tracked => message[q.job].state = "none"
      BY <1>1 DEF Requests, TakenAwaited
    <3> QED
      BY <1>1, <1>7, <3>1 DEF CreateMessage
  <2>2. Confirmed' = Confirmed
    BY <2>1 DEF Confirmed
  <2> QED
    BY <1>7, <2>2 DEF CreateMessage
<1>8. ASSUME NEW j \in Tracked, NEW id \in MessageIds, FailMessage(j, id)
      PROVE  UNCHANGED <<asked \intersect Texts, Confirmed, told>>
  <2>1. \A t \in Texts : message'[t].state \in {"sent", "gone"} <=> message[t].state \in {"sent", "gone"}
    BY <1>1, <1>8 DEF FailMessage
  <2>2. Confirmed' = Confirmed
    BY <2>1 DEF Confirmed
  <2> QED
    BY <1>8, <2>2 DEF FailMessage
<1>9. ASSUME NEW chat \in Chats, NEW D \in SUBSET Tracked, DeleteMessages(chat, D)
      PROVE  UNCHANGED <<asked \intersect Texts, Confirmed, told>>
  <2>1. \A t \in Texts : message'[t].state \in {"sent", "gone"} <=> message[t].state \in {"sent", "gone"}
    BY <1>1, <1>9 DEF DeleteMessages
  <2>2. Confirmed' = Confirmed
    BY <2>1 DEF Confirmed
  <2> QED
    BY <1>9, <2>2 DEF DeleteMessages
<1>10. ASSUME NEW q \in taken, AcceptReply(q) \/ RefuseRequest(q)
       PROVE  UNCHANGED <<asked \intersect Texts, Confirmed, told>>
  BY <1>2, <1>10 DEF AcceptReply, RefuseRequest, Confirmed
<1>11. ASSUME NEW d \in Documents, StartClone(d) \/ SaveArchive(d) \/ CloneFails(d)
       PROVE  UNCHANGED <<asked \intersect Texts, Confirmed, told>>
  BY <1>11 DEF StartClone, SaveArchive, CloneFails, OnlyFile, Confirmed
<1>12. CASE Stop \/ UNCHANGED vars
  BY <1>12 DEF Stop, vars, Confirmed
<1> QED
  BY <1>3, <1>4, <1>5, <1>6, <1>7, <1>8, <1>9, <1>10, <1>11, <1>12 DEF Next, Outcome, Requested

\* Every send with an onSent keeps the promise of Sends: told once, and its own
\* outcome (sendTextPlain, settlePendingSend).
THEOREM ImplementsSendsHolds == Spec => ImplementsSends
<1>1. Init => Promise!SInit
  BY DEF Init, Promise!SInit, Confirmed, Unsent, Tracked
<1>2. IInv /\ IInv' /\ [Next]_vars => [Promise!SNext]_(Promise!svars)
  BY SendsStep
<1> QED
  BY <1>1, <1>2, ClientInvariant, PTL DEF Spec, ImplementsSends, Promise!SSpec
=============================================================================

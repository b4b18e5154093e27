------------------------------ MODULE RpService ------------------------------
(***************************************************************************)
(* The RP service: rp-service/src/service/rp_service.cpp over              *)
(* storage/redis_storage.cpp, for one chat.                                *)
(*                                                                         *)
(* Requests of /rp/match and /rp/command run in threads of their own and   *)
(* share nothing but Redis, where the chat has a hash of commands and a    *)
(* mark that it was seeded with the predefined ones.  A step is one Redis  *)
(* command.  A Redis error is swallowed by the storage and looks like      *)
(* "no"; the command may have been carried out all the same.               *)
(***************************************************************************)
EXTENDS Integers, FiniteSets

CONSTANTS
  Requests,     \* each stands for its own response, too
  Triggers,     \* normalised, valid triggers
  Defaults,     \* the predefined commands' triggers, defaults_
  DefaultText,  \* their response
  Absent,
  RedisFails    \* whether Redis commands may fail

ASSUME RpServiceAssumption ==
  /\ Defaults \subseteq Triggers
  /\ DefaultText \notin Requests
  /\ Absent \notin Requests \union {DefaultText}
  /\ RedisFails \in BOOLEAN

VARIABLES
  commands,  \* the hash: the response under each trigger
  seeded,    \* the mark
  request,   \* the threads
  failed     \* whether a Redis command has failed

vars == <<commands, seeded, request, failed>>

-----------------------------------------------------------------------------
\* Match and listCommands read; both read the hash after seeding it.
Operations == {"read", "add", "edit", "remove"}
Stages == {"idle", "isSeeded", "seed", "mark", "act", "store", "done", "lost"}
Answers == {"none", "refused", "found", "absent", "ok", "exists", "missing", "unsaved"}

Idle == [op |-> "none", trigger |-> Absent, stage |-> "idle", left |-> {}, answer |-> "none"]

Init ==
  /\ commands = [t \in Triggers |-> Absent]
  /\ seeded = FALSE
  /\ request = [r \in Requests |-> Idle]
  /\ failed = FALSE

Exists(t) == commands[t] # Absent

At(r, stage) == request[r].stage = stage
Go(r, stage) == request' = [request EXCEPT ![r].stage = stage]
Answer(r, answer) ==
  request' = [request EXCEPT ![r].stage = "done", ![r].answer = answer]

Reply == UNCHANGED failed
Error == RedisFails /\ failed' = TRUE

\* Editing and removing do not seed the chat.
FirstStage(op) == IF op \in {"read", "add"} THEN "isSeeded" ELSE "act"

Begin(r, op, t) ==
  /\ At(r, "idle")
  /\ request' = [request EXCEPT ![r] =
       [op |-> op, trigger |-> t, stage |-> FirstStage(op), left |-> {}, answer |-> "none"]]
  /\ UNCHANGED <<commands, seeded, failed>>

\* A trigger or response that is not valid is refused before anything is read.
Refuse(r) ==
  /\ At(r, "idle")
  /\ Answer(r, "refused")
  /\ UNCHANGED <<commands, seeded, failed>>

-----------------------------------------------------------------------------
(* seedDefaults                                                            *)

\* Mutant of StartSeeding: every trigger is seeded.
StartSeedingAll(r) ==
  request' = [request EXCEPT ![r].stage = "seed", ![r].left = Triggers]

StartSeeding(r) ==
  request' = [request EXCEPT ![r].stage = IF Defaults = {} THEN "act" ELSE "seed",
                             ![r].left = Defaults]

\* Mutant of IsSeeded: the chat is marked before the commands are added.
IsSeededMarks(r) ==
  /\ At(r, "isSeeded")
  /\ \/ Reply /\ seeded /\ Go(r, "act")
     \/ Reply /\ ~seeded /\ StartSeeding(r)
     \/ Error /\ StartSeeding(r)
  /\ seeded' = TRUE
  /\ UNCHANGED commands

\* isSeeded takes an error for "no".
IsSeeded(r) ==
  /\ At(r, "isSeeded")
  /\ \/ Reply /\ seeded /\ Go(r, "act")
     \/ Reply /\ ~seeded /\ StartSeeding(r)
     \/ Error /\ StartSeeding(r)
  /\ UNCHANGED <<commands, seeded>>

\* Mutant of AddIfAbsent: HSET.
AddIfAbsentSets(t) == commands' = [commands EXCEPT ![t] = DefaultText]

\* HSETNX
AddIfAbsent(t) ==
  commands' = IF Exists(t) THEN commands ELSE [commands EXCEPT ![t] = DefaultText]

NextLeft(r, t) ==
  LET left == request[r].left \ {t} IN
  request' = [request EXCEPT ![r].stage = IF left = {} THEN "mark" ELSE "seed",
                             ![r].left = left]

\* The commands are added one by one, and nobody looks whether they were.
Seed(r) ==
  /\ At(r, "seed")
  /\ \E t \in request[r].left :
       /\ \/ Reply /\ AddIfAbsent(t)
          \/ Error /\ (AddIfAbsent(t) \/ UNCHANGED commands)
       /\ NextLeft(r, t)
  /\ UNCHANGED seeded

\* markSeeded
Mark(r) ==
  /\ At(r, "mark")
  /\ \/ Reply /\ seeded' = TRUE
     \/ Error /\ seeded' \in {seeded, TRUE}
  /\ Go(r, "act")
  /\ UNCHANGED commands

-----------------------------------------------------------------------------
(* The operations, after the seeding of those that seed.                   *)

Read(r) ==
  /\ At(r, "act")
  /\ request[r].op = "read"
  /\ \/ Reply /\ Answer(r, IF Exists(request[r].trigger) THEN "found" ELSE "absent")
     \/ Error /\ Answer(r, "absent")
  /\ UNCHANGED <<commands, seeded>>

\* hasCommand takes an error for "no": an add goes on ...
AddChecks(r) ==
  /\ At(r, "act")
  /\ request[r].op = "add"
  /\ \/ Reply /\ Exists(request[r].trigger) /\ Answer(r, "exists")
     \/ Reply /\ ~Exists(request[r].trigger) /\ Go(r, "store")
     \/ Error /\ Go(r, "store")
  /\ UNCHANGED <<commands, seeded>>

\* ... and an edit does not.
EditChecks(r) ==
  /\ At(r, "act")
  /\ request[r].op = "edit"
  /\ \/ Reply /\ Exists(request[r].trigger) /\ Go(r, "store")
     \/ Reply /\ ~Exists(request[r].trigger) /\ Answer(r, "missing")
     \/ Error /\ Answer(r, "missing")
  /\ UNCHANGED <<commands, seeded>>

SetCommand(r) == commands' = [commands EXCEPT ![request[r].trigger] = r]

\* Mutant of SetAnswer: an add, too, succeeds whatever HSET returned.
SetAnswerAlways(r) == "ok"

\* HSET returns 1 for a new field: an add looks at it, an edit does not.
SetAnswer(r) ==
  IF request[r].op = "add" /\ Exists(request[r].trigger) THEN "unsaved" ELSE "ok"

\* addCommand and updateCommand of the storage
Store(r) ==
  /\ At(r, "store")
  /\ \/ Reply /\ SetCommand(r) /\ Answer(r, SetAnswer(r))
     \/ Error /\ (SetCommand(r) \/ UNCHANGED commands) /\ Answer(r, "unsaved")
  /\ UNCHANGED seeded

\* HDEL
Remove(r) ==
  LET t == request[r].trigger
      Delete == commands' = [commands EXCEPT ![t] = Absent] IN
  /\ At(r, "act")
  /\ request[r].op = "remove"
  /\ \/ Reply /\ Delete /\ Answer(r, IF Exists(t) THEN "ok" ELSE "missing")
     \/ Error /\ (Delete \/ UNCHANGED commands) /\ Answer(r, "missing")
  /\ UNCHANGED seeded

Step(r) ==
  \/ IsSeeded(r) \/ Seed(r) \/ Mark(r)
  \/ Read(r) \/ AddChecks(r) \/ EditChecks(r) \/ Store(r) \/ Remove(r)

Active(r) == request[r].stage \notin {"idle", "done", "lost"}

\* The service restarts: the threads are gone, Redis is not.
Restart ==
  /\ request' = [r \in Requests |->
       IF Active(r) THEN [request[r] EXCEPT !.stage = "lost"] ELSE request[r]]
  /\ UNCHANGED <<commands, seeded, failed>>

Next ==
  \/ \E r \in Requests :
       \/ \E op \in Operations, t \in Triggers : Begin(r, op, t)
       \/ Refuse(r)
       \/ Step(r)
  \/ Restart

Spec == Init /\ [][Next]_vars

-----------------------------------------------------------------------------
(* Properties.                                                             *)

RequestType ==
  [op : Operations \union {"none"}, trigger : Triggers \union {Absent}, stage : Stages,
   left : SUBSET Defaults, answer : Answers]

TypeOK ==
  /\ commands \in [Triggers -> Requests \union {DefaultText, Absent}]
  /\ seeded \in BOOLEAN
  /\ request \in [Requests -> RequestType]
  /\ failed \in BOOLEAN

Of(op, t) == {r \in Requests : request[r].op = op /\ request[r].trigger = t}

\* Whoever reads a predefined command finds it, from the first request on and
\* while others are still seeding the chat or the service restarts in the middle
\* of it, unless somebody has removed the command or Redis has failed.
DefaultsFound ==
  \A t \in Defaults : \A r \in Of("read", t) :
    request[r].answer = "absent" => Of("remove", t) # {} \/ failed

\* However adds of one trigger race between their check and their HSET, one of them
\* is told it has succeeded, and another one only if there was a removal.
AddedByOne ==
  \A t \in Triggers :
    Cardinality({r \in Of("add", t) : request[r].answer = "ok"})
      <= 1 + Cardinality(Of("remove", t))

\* Seeding, late or repeated, never puts a default over a response that is there
\* (redis_storage.h 32-33).
SeedKeepsResponses ==
  [][\A t \in Triggers : commands[t] \in Requests => commands'[t] # DefaultText]_vars

\* rp_service.h 25-27: a chat is seeded exactly once, so that later edits and
\* removals of a default command are never overwritten on a restart or a later
\* call.  A command that was removed from a seeded chat does not come back as a
\* default.
Removed(t) == ~Exists(t) /\ \E r \in Of("remove", t) : request[r].answer = "ok"
RemovalsKept ==
  [][\A t \in Triggers : seeded /\ Removed(t) => commands'[t] # DefaultText]_vars
=============================================================================

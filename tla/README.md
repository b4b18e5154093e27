# TLA+ model of PiBot++

This directory holds TLA+ specifications of the services in this repository, the
TLC configurations that check them on small instances, and TLAPS proofs for
every instance. `PROJECT.json` lists the runs, the source lines behind each
definition, the mutants (a plausible bug for each property, which TLC must
find), the hazards and the theorems.

    tlc -workers 2 -config TdlibClientSends.cfg MCTdlibClient
    tlapm ModerationProofs.tla

## The system

| Component | State | Operations | Interacts with |
|---|---|---|---|
| Command dispatch and moderation (`core/src/commands`) | rate-limit table, recent messages | `handleMessage`, `/mute` ... `/gnotify`, `/rank`, `/ai`, `/gclone`, RP commands | TDLib through callbacks, PostgreSQL, RP, AI and tools services over HTTP |
| TDLib client (`core/src/tdlib`) | callbacks by request id, pending texts and documents | sends, look-ups, the receive loop, stop | TDLib; every handler of the core runs on its loop |
| Database manager (`core/src/database`) | one connection, one mutex, the cached ban list | ranks, bans, mutes, devs, chats; retry on a lost connection | PostgreSQL; called by the loop and by the threads of the API |
| Core REST API (`core/src/api`) | none | health, bans, rank, mute | database manager, auto-mod |
| RP service (`rp-service`) | a hash and a mark per chat in Redis | match, list, add, remove, edit, seeding | Redis |
| Auto-mod (`auto-mod`) | spam trackers, counter, rank cache | `/moderate`, garbage collection | core REST API |
| Tools service (`tools-service`) | archive cache, mutex per URL, files on a volume | clone, sweep | git, zip |
| AI service (`ai-service`) | none | `/ai/ask` | an AI provider |

What is hard in it:

- *Callbacks.* A moderation command passes up to three look-ups between its
  checks and its effect; other commands, people and restarts come in between.
- *Outcomes under temporary ids.* A sent message is known by a temporary id that
  is unique within its chat only, until one of three updates settles it.
- *Files and caches without a common lock.* Cloning threads, a sweeper and a
  reader share archives, and the cache forgets what the disk keeps.
- *Retries.* A transaction whose connection is lost is run again, and may have been
  carried out before; a cached list has to follow the table all the same.
- *Answers out of order.* Threads of auto-mod fetch one rank at a time, and the
  answer that was read first may be stored last.
- *Errors that look like answers.* The RP service's storage turns every Redis
  error into "no", in the middle of check-then-act.
- *Blocking calls on the one loop* of the core, without a timeout.
- *Clocks.* The spam window is cut at stamps that are not taken under the lock.
- *Texts as bytes.* Triggers are folded and texts filtered by shifts and masks.

The sources share no code but `common/`, and every service is a process of its
own (`docker-compose.yml`); `docker` starts one again that dies.

## Modules

| Module | Models | State and actions |
|---|---|---|
| `Moderation` | `moderation_commands.cpp`, the tables of `db_manager.cpp`, the look-ups and outcomes of TDLib | `rank`, `banned`, `mutes`, `known` are the tables, `member` Telegram's member status, `lastCommandAt` the rate limiter, `cmds` the commands under way and their continuations. `Receive` is `handleMessage` and all that runs synchronously; one action per callback, the counted ones of `/ranks` and `/gnotify` among them |
| `Sends` | the promise of `sendTextPlain` with `onSent` (`tdlib_client.h` 30-34) | abstract: ask, confirm, tell sent, tell failed |
| `TdlibClient` | `tdlib_client.cpp` over TDLib, and the thread of each `/gclone` | `callbacks`, `pendingTexts`, `pendingDocs` as in the class; TDLib's answers and updates are a queue, `Receive` is one turn of `loop`; `file` is the temporary file of a clone and the thread that writes it |
| `AiRequests` | `/ai`, from the placeholder to the answer | one stage per question; composed of `Sends` for the placeholder, so that it relies on what `TdlibClient` is shown to implement |
| `Reactions` | what RP commands promise a chat (PROJECT.md 140-149) | abstract: a message is answered, at one moment, with the response stored then, about a user it points at |
| `Texts` | the UTF-8 codec and the filter of `helpers.cpp`; trigger extraction, folding and substitution of the RP service | functions on sequences of bytes |
| `RpMatching` | every message that is no command: remembering, look-ups, `RpClient`, and `/rpadd`, `/rpremove`, `/rpedit` | `items` are the messages and how far they are, `call` is the call the loop is blocked in, `table` the stored responses |
| `RpService` | `rp_service.cpp` over `redis_storage.cpp` | the hash and mark of one chat, a program counter per request; one action per Redis command |
| `Database` | what the database promises its callers | abstract: a call takes effect once, at one moment, or fails |
| `DbManager` | `db_manager.h`, `db_manager.cpp` over PostgreSQL | `conn`, `holder` of the mutex, `attempt` of `withRetry`, the cached ban list; a step per statement, commit, reconnection and retry, with crashes |
| `RankCache` | `core_client.cpp` of auto-mod over the core's REST API | EXTENDS `DbManager`; `cache` with ages, a fetch per thread, and the history variable `unseen`: how long ago each user last had each rank |
| `SlidingWindow` | what the spam check does with messages in order, and what it may do with late ones | abstract: a message is counted against the sender's messages in the window that ends with it; one that comes after a newer message may be let off, and one that comes after a newer message of its own sender is counted together with that as well |
| `AutoModerator` | `automoderator.cpp`, `/moderate` | `spam_trackers`, `tracked_count_`; a thread stamps its message first and tracks it later |
| `GitCloner` | `git_cloner.cpp`, the `/clone` handler | cache, archives and clone directories on the volume, the mutexes, a program counter per request, the sweeper |

`MC*` modules give the constants that a cfg cannot write down; `*Proofs` modules
hold the theorems.

## Runs

None takes more than two minutes on two cores.

| Run | Shows |
|---|---|
| `ModerationCommands` | the rank hierarchy holds across callbacks (`RankHierarchy`), rank 1 is taken by developers only (`OwnersFixed`), every command gets one answer (`OneReply`), and gets it unless a restart loses it (`EveryCommandAnswered`); one accepted command per user and clock second between restarts (`CommandCooldown`); global bans are changed by developers (`BansByDevs`) |
| `TdlibClientSends` | `onSent` keeps the promise of `Sends` (`ImplementsSends`) and is called in the end (`EverySendTold`); a temporary file outlives its upload and no longer (`FileThereDuringUpload`, `FilesRemoved`); `callbacks_` does not grow (`CallbacksAwaited`) |
| `AiRequestsChat` | the AI is asked when all names are in (`PromptComplete`), the answer is in the chat once (`AnsweredOnce`, `AnswerLeft`), edits follow the confirmation (`EditsShown`), only the AI service can keep a question for ever (`NotStuck`) |
| `CoreRanks` | the three layers below auto-mod's rank check: every call of the database is carried out once or fails (`ImplementsDatabase`), the cached ban list is the table (`BanCacheMatches`), a rank in use is not older than the time to live and one fetch (`RankFresh`), the mutex is given back (`MutexReleased`) |
| `RpMatchingChat` | a message is answered as `Reactions` says, with a response stored when it was matched (`ImplementsReactions`), and what a message asks for comes to an answer or an end (`EveryMessageHeeded`); what is remembered for the AI is well-formed and clean (`RememberedClean`) |
| `RpServiceRequests` | nobody misses a default while a chat is being seeded (`DefaultsFound`), racing adds have one winner (`AddedByOne`), seeding overwrites nothing (`SeedKeepsResponses`) |
| `AutoModeratorWindow` | the tracker implements `SlidingWindow`: messages that come in the order of their stamps are judged by the window that ends with each, late ones as described there (`ImplementsWindow`); a mute is backed by that window unless a newer message of the sender was counted (`MutedInOrder`); the counter never falls short (`CountCoversHeld`) |
| `GitClonerRequests` | one clone of a URL at a time, an archive behind every cache entry and behind every archive handed out within the TTL, nothing left behind by failures until a restart, every request answered, expired entries swept |

Four runs end in a counterexample: what a comment or document says and the code
does not do.

| Run | Divergence |
|---|---|
| `NoFalseMute` | a message that is tracked after a newer one of its sender is counted with messages after its window, and its sender is muted although no window of `spam_window_seconds` holds more than `spam_limit` of them (`automoderator.hpp`:34-36); timestamps that callers supply are not needed for it |
| `ArchivesSwept` | archives from before a restart are never removed (PROJECT.md:253-254) |
| `RemovalsKept` | a removed default RP command comes back after a failing `EXISTS`, or when another request was still seeding (`rp_service.h`:25-27) |
| `AnswerReachesChat` | after a failed edit a long AI answer is sent uncut, and refused (`moderation_commands.cpp`:1111-1112) |

Other divergences met on the way, without a run:

- A message that is tracked after a newer one of any sender may be allowed although
  its window holds more than the limit, since the collector cuts every sender's
  timestamps at the newer one (`automoderator.hpp`:75-76 has the vectors hold what is
  in the window). `SlidingWindow` admits it.
- `/mute 12345` as a reply takes the user id for a duration and mutes the author of
  the message: a bare number is read as minutes before it is tried as an id
  (`helpers.cpp`, `parseDuration`; PROJECT.md:137).
- `/mute` writes no row of `chat_mutes`, although PROJECT.md:39-40 says that the core
  stores mutes: nothing calls `addMute`.
- PROJECT.md's table of commands has ranks 3, 1 and owner/admin+ for `/ranks`,
  `/ai` and `/rank`, the defaults in the code are 4, 4 and 1.
- `/mute` casts the end of the mute to a 32-bit number.
- An `/rpadd` that loses a race, or whose check fails, answers that the command
  could not be saved although its HSET has replaced the response
  (`rp_service.cpp`:201).
- `toLower` of the RP service folds two-byte letters as if they were Cyrillic:
  U+00E9 becomes U+04E9, while the comment (`rp_service.cpp`:23-25) has other code
  points pass through. `kMaxTriggerLength` counts bytes, and `/rplist` cuts a
  response at 50 bytes, which may be within a character.
- `substituteVariables` fills placeholders one after the other, and so also those
  that are in a display name (`variable_substitutor.h`:22).
- A trigger that starts with "/" is accepted and can never match.
- `/health` stays 200 after TDLib has closed: `authorized_` is never reset
  (PROJECT.md:95-96).
- `TdlibClient::run` sets `running_`, so that a `stop` before the loop's thread has
  started is undone, and `main` waits for a loop that does not end (`main.cpp`:115).
- The comment on `tracked_cap` calls it a memory cap, but the collector runs only
  when somebody is muted.
- An archive being served is swept once its entry is past the TTL
  (`git_cloner.cpp`:158-160).

### Bounds

- `Moderation`: a developer, two owners or an owner and an admin, and a member, in
  one of three instances: the commands on members, three commands about the global
  lists with a restart, and two commands that report while ranks change. A race
  needs a command between the check and the effect of another one, which two give.
  Two ticks of the clock make a second, so that commands come within one and
  across two.
- `TdlibClient`: a text and a cloned archive in two chats, ids 1 and 2 in each, so
  that the same id is pending in both and is used again, and a reply with its two
  requests. Three outputs may wait for the loop; TDLib waits when there are more.
- `AiRequests`: two questions, two people, two messages of context instead of
  ten: two messages of one author are what the counter of names can get wrong.
- `CoreRanks`: the loop and two threads of the API, a user and a developer; two
  attempts of `withRetry` instead of five, which makes a first one, a last one and
  one after a reconnection; a time to live of two and a fetch of one, so that an
  entry is fresh at two ages and stored late at both; the calls about bans or those
  about ranks.
- `RpMatching`: two messages out of six, two commands out of three, a context of one
  message, so that the oldest is dropped. The messages hold code points on both
  sides of every boundary: of the four forms of UTF-8, of the folded letters and of
  the ranges that are filtered.
- `RpService`: three requests (two that seed and one that removes is the smallest
  interesting race), two defaults and another trigger; Redis may fail at any
  command, with or without having carried it out.
- `AutoModerator`: four messages of two senders, a limit of one, a window of two
  ticks and a cap of one, so that the collector runs and a stamp falls on, inside
  and outside the edge of the window; every order of stamping and tracking. The window is closed at both ends in
  the properties: `NoFalseMute` fails with the clock's stamps alone.
- `GitCloner`: two requests on two URLs with the sweeper, a TTL of two in a clock
  up to three, one restart.

### Fairness

- The loop of `TdlibClient` keeps receiving while it runs (it is a `while` around
  `receive(1.0)`), and TDLib answers every request and settles every message it
  is sending. The thread that has written an archive sends it. Nothing is assumed
  of users, deletions, `stop` or the tools service.
- Callbacks of TDLib's look-ups come, which is the same assumption seen from
  `Moderation`, `AiRequests` and `RpMatching`. No fairness is assumed of the AI
  service: its call has no timeout, and `NotStuck` excepts it.
- The RP service answers, or the connection to it breaks. The code has no timeout:
  with a service that does neither, the loop stays blocked, and no property of the
  bot could hold.
- The thread that holds the mutex of `DbManager` goes on: connecting ends after
  `connect_timeout=5` seconds and the number of attempts is bounded. A statement on
  a connection that was lost fails in the end. Nothing is assumed of the server.
- Threads of the tools service run, git and zip end, and the sweeper's timer
  fires. git has no time limit in the code; that it ends is an assumption.

## Proofs

| Module | Theorems | Argument |
|---|---|---|
| `ModerationProofs` | `TypeCorrect`, `RankHierarchyHolds`, `OneReplyHolds`, `OwnersFixedHolds`, `CommandCooldownHolds`, `BansByDevsHolds` | the type invariant, plus: a command past its check carries a target that the check allowed; a command that is done has its reply; an accepted command's second is in the limiter's table. `BansByDevs` is proved where rank 0 is required for both commands (`ForDevs`), as `config.toml` has it; with another configuration it does not hold |
| `TdlibClientProofs` | `TypeCorrect`, `CallbacksAwaitedHolds`, `FileThereDuringUploadHolds`, `ImplementsSendsHolds` | request ids are as many as jobs begun and replies parsed; each callback has one owed or waiting answer; a chat's messages have different ids. The heart is the order of the queue: from the place of its answer on, a message that is being sent meets no update under its id (`SendingOrder`), and one that is settled meets its own outcome first (`SettledOrder`), though ids are used again and by other chats. So an update finds the send it belongs to, which gives the file and the refinement of `Sends` |
| `AiRequestsProofs` | `TypeCorrect`, `PromptCompleteHolds`, `AnsweredOnceHolds`, `AnswerLeftHolds`, `EditsShownHolds` | the counter of pending names is the number of look-ups that are out; nothing of the answer is in the chat before the AI has given it; a placeholder under way to an edit is one that was told as sent, hence confirmed |
| `RankCacheProofs` | `TypeCorrect`, `BanCacheMatchesHolds`, `RankFreshHolds`, `ImplementsDatabaseHolds` | only the holder of the mutex is between a statement and its return, and an answer is its own; the cached list differs from the table only when the holder has committed and not yet cached, or by a failure that ends the core. A fetched rank was in the table when it was read, so that `unseen` of a cached rank is at most its age and the time of one fetch. That time (`FetchTime`) is an assumption: the code sets no limit |
| `RpServiceProofs` | `TypeCorrect`, `DefaultsFoundHolds`, `SeedKeepsResponsesHolds`, `AddedByOneHolds` | a default is *settled* when it is there or excused by a removal or an error, which no step undoes; a seeding request has settled all but what is left to it, and the mark is set only when all are. `DefaultsFound` alone is not inductive: it says nothing of a request in the middle of seeding. For `AddedByOne`, the adds that were told "ok" and the command, if it is there now, are balanced by the removals; HSET says "ok" only when the field was absent |
| `AutoModeratorProofs` | `TypeCorrect`, `MutedInOrderHolds`, `CountCoversHeldHolds`, `ImplementsWindowHolds` | a timestamp that is held is of a counted message, and one that is counted but not held is before the window of some message counted already. So what a tracker holds when it judges a message lies after the start of the window, and is the window if nothing newer was counted first; with it every step of the tracker is a step of `SlidingWindow`. That nobody is muted without cause is not proved, being false (`NoFalseMute`) |
| `RpMatchingProofs` | `CodecRoundTrip`, `BytesInjective`, `SanitizeKeeps`, `SanitizeCleans`, `SanitizeIsIdempotent`, `ToLowerFolds`, `SubstituteFills`, `TypeOKHolds`, `RememberedCleanHolds`, `ImplementsReactionsHolds` | what a loop over bytes computes is proved by hand: `Scan` obeys the equations of the loop (`ScanFunction`), `decodeUtf8Point` undoes `encodeUtf8Point` wherever the bytes lie (`DecodeEncoded`), so on an encoded text the loop stops at the start of every character and nowhere else (`DecodeAtCharacter`) and puts out one sequence for each (`ScanOfPieces`). Induction over data is by a least counterexample in a set of natural numbers (`UpTo`, `DownTo`), as no rule that takes a predicate can be used. The inductive invariant of `RememberedClean` says in which slots the messages received lie and that `recent` holds the last entries of them. The refinement of `Reactions` is described below |
| `GitClonerProofs` | `TypeCorrect`, `OneCloneAtATimeHolds`, `CachedOnDiskHolds`, `ReturnedOnDiskHolds`, `NothingLeftBehindHolds` | whoever is between taking and releasing the URL's mutex is its holder, and files of a URL are touched by its holder and the sweeper only; before a restart, each file belongs to a cache entry or to the request at work; an archive handed out keeps its entry for the TTL |

They hold for every value of the constants under the `ASSUME`s of the modules,
which TLC evaluates on each run. Every invariant and refinement of the runs is
proved. `RpMatchingChat` evaluates in this way that the
code points of its messages are of Unicode and that the users' idea of what the AI may
see (`Unwanted`) agrees with the tables of `helpers.cpp`.

### From bytes to words

`Reactions` speaks of words, letters and users, `RpMatching` of bytes. That the one
implements the other (`ImplementsReactionsHolds`) rests on three theorems about texts:

- `ToLowerFolds`: the loop of `toLower`, which walks over bytes and tests and shifts
  pairs of them, folds every letter and leaves the rest alone.
- `BytesInjective`: different texts have different bytes, so that a field of the
  Redis hash stands for one word.
- `SubstituteFills`: `replaceAll`, once per placeholder, fills in the placeholders of
  the response that was stored and nothing else.

The invariant under the step proof (`RIInv`) says that a message on its way to an
answer is about a user it points at, and that the answer of the RP service a message
is about to use is what the table still holds: the loop is blocked in the call, so no
other message of the chat is between the two. Each action is then a step of `Reactions` or a stutter.

The theorem has three hypotheses about the texts. The run's instance satisfies them
(`KnownTexts`, which TLC evaluates).

- `KnownLetters`: the letters of triggers are ASCII or from U+0400 on, and the users
  mean by lower case what `toLower` does. The code misspells letters from U+0080 to
  U+03FF (see the divergences above).
- `Trimmed`: no message begins with white space; Telegram trims what is sent.
- `PlainNames`: no display name holds a placeholder. `mentionUser` does not
  escape braces, and such a name would be filled in again.

Only checked by TLC:

- liveness, which the prover does not reach: `EveryCommandAnswered`,
  `EveryRequestAnswered`, `ExpiredSwept`, `EverySendTold`, `FilesRemoved`,
  `NotStuck`, `MutexReleased`, `EveryMessageHeeded`.

## Not modelled

- The authorization handshake of TDLib (`processAuthorizationState`): it sends one
  request per state TDLib announces, and nothing in the core waits for it.
- Start-up and signal handling (`main.cpp`), but for what a restart loses. A handler
  that interrupts the thread holding `mutex_` is outside models of threads.
- The texts of messages, prompts, answers and logs, markdown escapes and the
  reading of configuration files; the bytes of the auto-mod's filter patterns.
- The width of the product in `parseDuration`. Enough digits overflow a signed
  64-bit number (`helpers.cpp`:27), which no property states.
- HTTP between the services, but for its failing; a request with a wrong API key,
  which reads and changes nothing.
- The AI service, a stateless proxy: an answer of any kind at any time.

## Plan

Done in this order, the most important behaviour first: `Moderation`, `GitCloner`,
`AutoModerator`, `TdlibClient`, `RpService`, `AiRequests`, then `DbManager` with
`RankCache`, `RpMatching` with `Texts`, and the proofs about `TdlibClient`,
`AiRequests`, `RankCache`, `AddedByOne` and `BansByDevs`, then those about `Texts` and
`RpMatching` down to the refinement of `Reactions`. Worth doing next:

1. `parseDuration` as a function with 64-bit wrap-around, against the product.
2. Start-up and stop: the loop's thread, `stop` from the signal handler and from
   `main`, and the hang described above.
3. The two answers of a losing `/rpadd`.
4. `RpMatching` over `RpService` instead of a table that changes in one step.

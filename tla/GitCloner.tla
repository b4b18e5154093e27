------------------------------ MODULE GitCloner ------------------------------
(***************************************************************************)
(* The git cloner of tools-service: service/git_cloner.cpp, the /gclone    *)
(* endpoint that reads the archive it returns (api/api_controller.h) and   *)
(* the sweeper thread of main.cpp.                                         *)
(*                                                                         *)
(* A request holds the mutex of its URL from the cache look-up until clone *)
(* returns; the cache is read and written under cache_mutex_, so each such *)
(* section is one action, the sweeper's pass among them.  The archive is   *)
(* read after every lock is released.                                      *)
(***************************************************************************)
EXTENDS Integers

CONSTANTS
  Requests,     \* handler threads of the HTTP server
  Urls,         \* repository URLs (the cache key and the file names)
  NoRequest,    \* nobody holds a mutex
  Ttl,          \* GCLONE_TTL_SECONDS
  ReadDelay,    \* the most whole seconds between clone's return and readFile
  MaxClock,     \* bound: seconds
  MaxRestarts   \* bound: restarts of the process

NoEntry == -1

ASSUME GitClonerAssumption ==
  /\ NoRequest \notin Requests
  /\ Ttl \in Nat
  /\ ReadDelay \in Nat
  /\ MaxClock \in Nat
  /\ MaxRestarts \in Nat

VARIABLES
  pc,           \* where each request is
  url,          \* the URL it asks for
  holder,       \* url_mutexes_: the request that holds the mutex of each URL
  cache,        \* cache_: last_used_at of each URL's entry, or NoEntry
  archive,      \* the .zip of the URL is on the volume
  sources,      \* the clone directory of the URL is on the volume
  returned,     \* when clone returned to the request
  clock,        \* unixNow()
  restarts      \* restarts so far

vars == <<pc, url, holder, cache, archive, sources, returned, clock, restarts>>

-----------------------------------------------------------------------------
\* The places of a request; in those of Inside it holds the mutex of its URL.
Inside == {"lookup", "cleaning", "cloning", "packing", "sizing", "caching"}
Finished == {"served", "failed", "unreadable"}
Places == Inside \union Finished \union {"idle", "waiting", "reading"}

\* Fresh entries are served, the others are swept: the boundary is exclusive.
Fresh(u) == clock - cache[u] < Ttl

Init ==
  /\ pc = [r \in Requests |-> "idle"]
  /\ url \in [Requests -> Urls]
  /\ holder = [u \in Urls |-> NoRequest]
  /\ cache = [u \in Urls |-> NoEntry]
  /\ archive = [u \in Urls |-> FALSE]
  /\ sources = [u \in Urls |-> FALSE]
  /\ returned = [r \in Requests |-> 0]
  /\ clock = 0
  /\ restarts = 0

GoTo(r, place) == pc' = [pc EXCEPT ![r] = place]
Release(r) == holder' = [holder EXCEPT ![url[r]] = NoRequest]

-----------------------------------------------------------------------------
(* GitCloner::clone.                                                       *)

Arrive(r, u) ==
  /\ pc[r] = "idle"
  /\ url' = [url EXCEPT ![r] = u]
  /\ GoTo(r, "waiting")
  /\ UNCHANGED <<holder, cache, archive, sources, returned, clock, restarts>>

\* An empty URL, or one of an unknown scheme.
Reject(r) ==
  /\ pc[r] = "idle"
  /\ GoTo(r, "failed")
  /\ UNCHANGED <<url, holder, cache, archive, sources, returned, clock, restarts>>

\* Mutant of LockUrl: a mutex per request instead of one per URL.
LockUrlAlone(r) ==
  /\ pc[r] = "waiting"
  /\ holder' = [holder EXCEPT ![url[r]] = r]
  /\ GoTo(r, "lookup")
  /\ UNCHANGED <<url, cache, archive, sources, returned, clock, restarts>>

LockUrl(r) ==
  /\ pc[r] = "waiting"
  /\ holder[url[r]] = NoRequest
  /\ holder' = [holder EXCEPT ![url[r]] = r]
  /\ GoTo(r, "lookup")
  /\ UNCHANGED <<url, cache, archive, sources, returned, clock, restarts>>

\* Mutant of CacheHit: serving an entry does not renew its time.
CacheHitNoRenewal(r) ==
  /\ pc[r] = "lookup"
  /\ cache[url[r]] # NoEntry
  /\ Fresh(url[r])
  /\ returned' = [returned EXCEPT ![r] = clock]
  /\ Release(r)
  /\ GoTo(r, "reading")
  /\ UNCHANGED <<url, cache, archive, sources, clock, restarts>>

\* A fresh entry is served and its time renewed.
CacheHit(r) ==
  /\ pc[r] = "lookup"
  /\ cache[url[r]] # NoEntry
  /\ Fresh(url[r])
  /\ cache' = [cache EXCEPT ![url[r]] = clock]
  /\ returned' = [returned EXCEPT ![r] = clock]
  /\ Release(r)
  /\ GoTo(r, "reading")
  /\ UNCHANGED <<url, archive, sources, clock, restarts>>

\* Mutant of CacheExpired: the archive goes, the entry stays until it is overwritten.
CacheExpiredKeepsEntry(r) ==
  /\ pc[r] = "lookup"
  /\ cache[url[r]] # NoEntry
  /\ ~Fresh(url[r])
  /\ archive' = [archive EXCEPT ![url[r]] = FALSE]
  /\ GoTo(r, "cleaning")
  /\ UNCHANGED <<url, holder, cache, sources, returned, clock, restarts>>

\* An expired entry is erased with its archive.
CacheExpired(r) ==
  /\ pc[r] = "lookup"
  /\ cache[url[r]] # NoEntry
  /\ ~Fresh(url[r])
  /\ cache' = [cache EXCEPT ![url[r]] = NoEntry]
  /\ archive' = [archive EXCEPT ![url[r]] = FALSE]
  /\ GoTo(r, "cleaning")
  /\ UNCHANGED <<url, holder, sources, returned, clock, restarts>>

CacheMiss(r) ==
  /\ pc[r] = "lookup"
  /\ cache[url[r]] = NoEntry
  /\ GoTo(r, "cleaning")
  /\ UNCHANGED <<url, holder, cache, archive, sources, returned, clock, restarts>>

\* Leftovers of an earlier attempt, before a restart for instance.
RemoveLeftovers(r) ==
  /\ pc[r] = "cleaning"
  /\ archive' = [archive EXCEPT ![url[r]] = FALSE]
  /\ sources' = [sources EXCEPT ![url[r]] = FALSE]
  /\ GoTo(r, "cloning")
  /\ UNCHANGED <<url, holder, cache, returned, clock, restarts>>

\* git clone leaves a clone directory behind ...
CloneSucceeds(r) ==
  /\ pc[r] = "cloning"
  /\ sources' = [sources EXCEPT ![url[r]] = TRUE]
  /\ GoTo(r, "packing")
  /\ UNCHANGED <<url, holder, cache, archive, returned, clock, restarts>>

\* Mutant of CloneFails: the early return leaves the mutex locked.
CloneFailsLocked(r) ==
  /\ pc[r] = "cloning"
  /\ sources' = [sources EXCEPT ![url[r]] = FALSE]
  /\ GoTo(r, "failed")
  /\ UNCHANGED <<url, holder, cache, archive, returned, clock, restarts>>

\* ... or fails, and what it left is removed.
CloneFails(r) ==
  /\ pc[r] = "cloning"
  /\ sources' = [sources EXCEPT ![url[r]] = FALSE]
  /\ Release(r)
  /\ GoTo(r, "failed")
  /\ UNCHANGED <<url, cache, archive, returned, clock, restarts>>

\* zip writes the archive and the clone directory goes.
ZipSucceeds(r) ==
  /\ pc[r] = "packing"
  /\ archive' = [archive EXCEPT ![url[r]] = TRUE]
  /\ sources' = [sources EXCEPT ![url[r]] = FALSE]
  /\ GoTo(r, "sizing")
  /\ UNCHANGED <<url, holder, cache, returned, clock, restarts>>

ZipFails(r) ==
  /\ pc[r] = "packing"
  /\ archive' = [archive EXCEPT ![url[r]] = FALSE]
  /\ sources' = [sources EXCEPT ![url[r]] = FALSE]
  /\ Release(r)
  /\ GoTo(r, "failed")
  /\ UNCHANGED <<url, cache, returned, clock, restarts>>

SizeFits(r) ==
  /\ pc[r] = "sizing"
  /\ GoTo(r, "caching")
  /\ UNCHANGED <<url, holder, cache, archive, sources, returned, clock, restarts>>

\* Mutant of TooBig: the oversized archive stays on the volume.
TooBigKept(r) ==
  /\ pc[r] = "sizing"
  /\ Release(r)
  /\ GoTo(r, "failed")
  /\ UNCHANGED <<url, cache, archive, sources, returned, clock, restarts>>

\* An archive over max_bytes_, or an empty one, is deleted.
TooBig(r) ==
  /\ pc[r] = "sizing"
  /\ archive' = [archive EXCEPT ![url[r]] = FALSE]
  /\ Release(r)
  /\ GoTo(r, "failed")
  /\ UNCHANGED <<url, cache, sources, returned, clock, restarts>>

StoreEntry(r) ==
  /\ pc[r] = "caching"
  /\ cache' = [cache EXCEPT ![url[r]] = clock]
  /\ returned' = [returned EXCEPT ![r] = clock]
  /\ Release(r)
  /\ GoTo(r, "reading")
  /\ UNCHANGED <<url, archive, sources, clock, restarts>>

-----------------------------------------------------------------------------
(* The endpoint and the sweeper.                                           *)

\* readFile: an archive that is gone is an error response.
ReadArchive(r) ==
  /\ pc[r] = "reading"
  /\ GoTo(r, IF archive[url[r]] THEN "served" ELSE "unreadable")
  /\ UNCHANGED <<url, holder, cache, archive, sources, returned, clock, restarts>>

\* The response is sent and the thread takes another request.
Respond(r) ==
  /\ pc[r] \in Finished
  /\ GoTo(r, "idle")
  /\ UNCHANGED <<url, holder, cache, archive, sources, returned, clock, restarts>>

Expired(u) == cache[u] # NoEntry /\ ~Fresh(u)

\* Mutant of SweepExpired: waits for a moment at which nobody clones.
SweepExpiredWhenIdle ==
  /\ \A u \in Urls : holder[u] = NoRequest
  /\ \E u \in Urls : Expired(u)
  /\ archive' = [u \in Urls |-> archive[u] /\ ~Expired(u)]
  /\ cache' = [u \in Urls |-> IF Expired(u) THEN NoEntry ELSE cache[u]]
  /\ UNCHANGED <<pc, url, holder, sources, returned, clock, restarts>>

\* GitCloner::sweepExpired, one pass under cache_mutex_.
SweepExpired ==
  /\ \E u \in Urls : Expired(u)
  /\ archive' = [u \in Urls |-> archive[u] /\ ~Expired(u)]
  /\ cache' = [u \in Urls |-> IF Expired(u) THEN NoEntry ELSE cache[u]]
  /\ UNCHANGED <<pc, url, holder, sources, returned, clock, restarts>>

-----------------------------------------------------------------------------
(* Time and restarts.                                                      *)

\* A second passes; a thread between clone and readFile is not held up longer
\* than ReadDelay.
Tick ==
  /\ clock < MaxClock
  /\ \A r \in Requests : pc[r] = "reading" => clock - returned[r] < ReadDelay
  /\ clock' = clock + 1
  /\ UNCHANGED <<pc, url, holder, cache, archive, sources, returned, restarts>>

\* cache_ lives in memory, the files on the volume gclone-data.
Restart ==
  /\ restarts < MaxRestarts
  /\ restarts' = restarts + 1
  /\ pc' = [r \in Requests |-> "idle"]
  /\ holder' = [u \in Urls |-> NoRequest]
  /\ cache' = [u \in Urls |-> NoEntry]
  /\ UNCHANGED <<url, archive, sources, returned, clock>>

\* What a request does once it holds the mutex of its URL.
Proceed(r) ==
  \/ CacheHit(r)
  \/ CacheExpired(r)
  \/ CacheMiss(r)
  \/ RemoveLeftovers(r)
  \/ CloneSucceeds(r)
  \/ CloneFails(r)
  \/ ZipSucceeds(r)
  \/ ZipFails(r)
  \/ SizeFits(r)
  \/ TooBig(r)
  \/ StoreEntry(r)
  \/ ReadArchive(r)

Next ==
  \/ \E r \in Requests, u \in Urls : Arrive(r, u)
  \/ \E r \in Requests : Reject(r) \/ LockUrl(r) \/ Proceed(r) \/ Respond(r)
  \/ SweepExpired
  \/ Tick
  \/ Restart

Spec == Init /\ [][Next]_vars

\* Threads run, git and zip exit and the sweeper passes every 30 seconds.  A
\* mutex that keeps becoming free is had in the end.
Fairness ==
  /\ \A r \in Requests : WF_vars(Proceed(r)) /\ SF_vars(LockUrl(r))
  /\ WF_vars(SweepExpired)
FairSpec == Spec /\ Fairness

-----------------------------------------------------------------------------
(* Properties.                                                             *)

TypeOK ==
  /\ pc \in [Requests -> Places]
  /\ url \in [Requests -> Urls]
  /\ holder \in [Urls -> Requests \union {NoRequest}]
  /\ cache \in [Urls -> Nat \union {NoEntry}]
  /\ archive \in [Urls -> BOOLEAN]
  /\ sources \in [Urls -> BOOLEAN]
  /\ returned \in [Requests -> Nat]
  /\ clock \in Nat
  /\ restarts \in Nat

\* git_cloner.h 25-26: the same repository is never cloned twice at once.
OneCloneAtATime ==
  \A r, s \in Requests :
    pc[r] \in Inside /\ pc[s] \in Inside /\ url[r] = url[s] => r = s

\* A cache entry always stands for an archive on disk, though clone removes and
\* rewrites archives outside cache_mutex_ and the sweeper without the URL's mutex.
CachedOnDisk == \A u \in Urls : cache[u] # NoEntry => archive[u]

\* The archive that clone returned is there when the endpoint reads it, although
\* no lock is held by then, if the read comes within the TTL.
ReturnedOnDisk ==
  ReadDelay < Ttl => \A r \in Requests : pc[r] = "reading" => archive[url[r]]

\* Until a restart, nothing is left on the volume that neither the cache nor a
\* running request knows of, whichever step of clone fails.
NothingLeftBehind ==
  restarts = 0 =>
    \A u \in Urls :
      LET at(places) == \E r \in Requests : url[r] = u /\ pc[r] \in places IN
      /\ archive[u] => cache[u] # NoEntry \/ at({"sizing", "caching"})
      /\ sources[u] => at({"packing"})

\* Every request is answered in the end.
EveryRequestAnswered ==
  \A r \in Requests : pc[r] = "waiting" ~> pc[r] \in Finished \union {"idle"}

\* An entry past its TTL does not stay.
ExpiredSwept == \A u \in Urls : Expired(u) ~> ~Expired(u)

-----------------------------------------------------------------------------
(* What the repository's documents say and the code does not do.           *)

\* PROJECT.md 253-254: the sweeper removes expired archives to free disk space.
ArchivesSwept ==
  \A u \in Urls : archive[u] ~> ~archive[u] \/ cache[u] # NoEntry
=============================================================================

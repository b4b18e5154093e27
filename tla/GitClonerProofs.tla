--------------------------- MODULE GitClonerProofs ---------------------------
(***************************************************************************)
(* Proofs about GitCloner, for any number of requests and URLs and every   *)
(* bound: mutual exclusion per URL, an archive behind every cache entry,   *)
(* and the archive still there when it is read within the TTL.             *)
(***************************************************************************)
EXTENDS GitCloner, TLAPS

\* A request inside clone holds the mutex of its URL, and nobody else does.
LockInv ==
  \A r \in Requests : pc[r] \in Inside => holder[url[r]] = r

\* While a URL is cloned it has no cache entry; an archive to be cached is there.
CloneInv ==
  \A r \in Requests :
    /\ pc[r] \in Inside \ {"lookup"} => cache[url[r]] = NoEntry
    /\ pc[r] \in {"sizing", "caching"} => archive[url[r]]

\* Whoever was handed an archive has an entry at least as young as that moment,
\* and is not late.
ReadInv ==
  ReadDelay < Ttl => \A r \in Requests : pc[r] = "reading" =>
    /\ cache[url[r]] # NoEntry
    /\ returned[r] <= cache[url[r]]
    /\ clock - returned[r] <= ReadDelay

\* Entries are never from the future.
TimeInv == \A u \in Urls : cache[u] <= clock

IInv == TypeOK /\ LockInv /\ CloneInv /\ CachedOnDisk /\ ReadInv /\ TimeInv

LEMMA InitInv == Init => IInv
BY GitClonerAssumption
   DEF Init, IInv, TypeOK, LockInv, CloneInv, CachedOnDisk, ReadInv, TimeInv,
       Places, Inside, Finished, NoEntry

LEMMA NextInv == IInv /\ [Next]_vars => IInv'
<1> SUFFICES ASSUME IInv, [Next]_vars PROVE IInv'
  OBVIOUS
<1> USE GitClonerAssumption
    DEF IInv, TypeOK, LockInv, CloneInv, CachedOnDisk, ReadInv, TimeInv,
        Places, Inside, Finished, NoEntry, GoTo, Release, Fresh
<1>1. ASSUME NEW r \in Requests, NEW u \in Urls, Arrive(r, u) PROVE IInv'
  BY <1>1 DEF Arrive
<1>2. ASSUME NEW r \in Requests, Reject(r) PROVE IInv'
  BY <1>2 DEF Reject
<1>3. ASSUME NEW r \in Requests, LockUrl(r) PROVE IInv'
  BY <1>3 DEF LockUrl
<1>4. ASSUME NEW r \in Requests, CacheHit(r) PROVE IInv'
  BY <1>4 DEF CacheHit
<1>5. ASSUME NEW r \in Requests, CacheExpired(r) PROVE IInv'
  BY <1>5 DEF CacheExpired
<1>6. ASSUME NEW r \in Requests, CacheMiss(r) PROVE IInv'
  BY <1>6 DEF CacheMiss
<1>7. ASSUME NEW r \in Requests, RemoveLeftovers(r) PROVE IInv'
  BY <1>7 DEF RemoveLeftovers
<1>8. ASSUME NEW r \in Requests, CloneSucceeds(r) PROVE IInv'
  BY <1>8 DEF CloneSucceeds
<1>9. ASSUME NEW r \in Requests, CloneFails(r) PROVE IInv'
  BY <1>9 DEF CloneFails
<1>10. ASSUME NEW r \in Requests, ZipSucceeds(r) PROVE IInv'
  BY <1>10 DEF ZipSucceeds
<1>11. ASSUME NEW r \in Requests, ZipFails(r) PROVE IInv'
  BY <1>11 DEF ZipFails
<1>12. ASSUME NEW r \in Requests, SizeFits(r) PROVE IInv'
  BY <1>12 DEF SizeFits
<1>13. ASSUME NEW r \in Requests, TooBig(r) PROVE IInv'
  BY <1>13 DEF TooBig
<1>14. ASSUME NEW r \in Requests, StoreEntry(r) PROVE IInv'
  BY <1>14 DEF StoreEntry
<1>15. ASSUME NEW r \in Requests, ReadArchive(r) PROVE IInv'
  BY <1>15 DEF ReadArchive
<1>16. ASSUME NEW r \in Requests, Respond(r) PROVE IInv'
  BY <1>16 DEF Respond
<1>17. CASE SweepExpired
  BY <1>17 DEF SweepExpired, Expired
<1>18. CASE Tick
  BY <1>18 DEF Tick
<1>19. CASE Restart
  BY <1>19 DEF Restart
<1>20. CASE UNCHANGED vars
  BY <1>20 DEF vars
<1> QED
  BY <1>1, <1>2, <1>3, <1>4, <1>5, <1>6, <1>7, <1>8, <1>9, <1>10, <1>11, <1>12,
     <1>13, <1>14, <1>15, <1>16, <1>17, <1>18, <1>19, <1>20 DEF Next, Proceed

THEOREM Invariant == Spec => []IInv
BY InitInv, NextInv, PTL DEF Spec

-----------------------------------------------------------------------------
\* Every variable keeps its type.
THEOREM TypeCorrect == Spec => []TypeOK
<1>1. IInv => TypeOK
  BY DEF IInv
<1> QED
  BY <1>1, Invariant, PTL

\* The same repository is never cloned twice at once.
THEOREM OneCloneAtATimeHolds == Spec => []OneCloneAtATime
<1>1. IInv => OneCloneAtATime
  BY DEF IInv, LockInv, OneCloneAtATime
<1> QED
  BY <1>1, Invariant, PTL

\* Whatever the sweeper and the requests of other URLs do, a cache entry has its
\* archive on disk.
THEOREM CachedOnDiskHolds == Spec => []CachedOnDisk
<1>1. IInv => CachedOnDisk
  BY DEF IInv
<1> QED
  BY <1>1, Invariant, PTL

\* An archive read within the TTL of clone's return is there, though neither the
\* sweeper nor the other requests know of the reader.
THEOREM ReturnedOnDiskHolds == Spec => []ReturnedOnDisk
<1>1. IInv => ReturnedOnDisk
  BY DEF IInv, TypeOK, ReadInv, CachedOnDisk, ReturnedOnDisk
<1> QED
  BY <1>1, Invariant, PTL

-----------------------------------------------------------------------------
\* The request that accounts for a file of URL u.
Worker(u, places) == \E r \in Requests : url[r] = u /\ pc[r] \in places

\* NothingLeftBehind, file by file.
Accounted ==
  restarts = 0 => \A u \in Urls :
    /\ archive[u] => cache[u] # NoEntry \/ Worker(u, {"sizing", "caching"})
    /\ sources[u] => Worker(u, {"packing"})

\* A step of the request r disturbs only the files of its own URL, of which it is
\* the one worker.
LEMMA NextAccounted == IInv /\ Accounted /\ [Next]_vars => Accounted'
<1> SUFFICES ASSUME IInv, Accounted, [Next]_vars PROVE Accounted'
  OBVIOUS
<1> USE DEF IInv, TypeOK, LockInv, Accounted, Worker, Inside, NoEntry, GoTo, Release, Fresh
<1>1. ASSUME NEW r \in Requests, NEW u \in Urls, Arrive(r, u) PROVE Accounted'
  BY <1>1 DEF Arrive
<1>2. ASSUME NEW r \in Requests, Reject(r) PROVE Accounted'
  BY <1>2 DEF Reject
<1>3. ASSUME NEW r \in Requests, LockUrl(r) PROVE Accounted'
  BY <1>3 DEF LockUrl
<1>4. ASSUME NEW r \in Requests, CacheHit(r) PROVE Accounted'
  BY <1>4 DEF CacheHit
<1>5. ASSUME NEW r \in Requests, CacheExpired(r) PROVE Accounted'
  BY <1>5 DEF CacheExpired
<1>6. ASSUME NEW r \in Requests, CacheMiss(r) PROVE Accounted'
  BY <1>6 DEF CacheMiss
<1>7. ASSUME NEW r \in Requests, RemoveLeftovers(r) PROVE Accounted'
  BY <1>7 DEF RemoveLeftovers
<1>8. ASSUME NEW r \in Requests, CloneSucceeds(r) PROVE Accounted'
  BY <1>8 DEF CloneSucceeds
<1>9. ASSUME NEW r \in Requests, CloneFails(r) PROVE Accounted'
  BY <1>9 DEF CloneFails
<1>10. ASSUME NEW r \in Requests, ZipSucceeds(r) PROVE Accounted'
  BY <1>10 DEF ZipSucceeds
<1>11. ASSUME NEW r \in Requests, ZipFails(r) PROVE Accounted'
  BY <1>11 DEF ZipFails
<1>12. ASSUME NEW r \in Requests, SizeFits(r) PROVE Accounted'
  BY <1>12 DEF SizeFits
<1>13. ASSUME NEW r \in Requests, TooBig(r) PROVE Accounted'
  BY <1>13 DEF TooBig
<1>14. ASSUME NEW r \in Requests, StoreEntry(r) PROVE Accounted'
  BY <1>14 DEF StoreEntry
<1>15. ASSUME NEW r \in Requests, ReadArchive(r) PROVE Accounted'
  BY <1>15 DEF ReadArchive
<1>16. ASSUME NEW r \in Requests, Respond(r) PROVE Accounted'
  BY <1>16 DEF Respond, Finished
<1>17. CASE SweepExpired
  BY <1>17 DEF SweepExpired, Expired
<1>18. CASE Tick
  BY <1>18 DEF Tick
<1>19. CASE Restart
  BY <1>19 DEF Restart
<1>20. CASE UNCHANGED vars
  BY <1>20 DEF vars
<1> QED
  BY <1>1, <1>2, <1>3, <1>4, <1>5, <1>6, <1>7, <1>8, <1>9, <1>10, <1>11, <1>12,
     <1>13, <1>14, <1>15, <1>16, <1>17, <1>18, <1>19, <1>20 DEF Next, Proceed

\* Before a restart every file on the volume belongs to a cache entry or to a
\* request at work, whichever step of clone fails.
THEOREM NothingLeftBehindHolds == Spec => []NothingLeftBehind
<1>1. Init => Accounted
  BY DEF Init, Accounted
<1>2. Accounted => NothingLeftBehind
  BY DEF Accounted, NothingLeftBehind, Worker
<1> QED
  BY <1>1, <1>2, NextAccounted, Invariant, PTL DEF Spec
=============================================================================

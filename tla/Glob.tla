-------------------------------- MODULE Glob ---------------------------------
(***************************************************************************)
(* The lives of allocators and of the caches threads keep for them         *)
(* (glob.c, internal/tcache.h, ledger.c).  An allocator has a uid, which   *)
(* indexes what every thread keeps for it, and a ledger of its caches,     *)
(* through which glob_destroy reaches the caches of all threads.           *)
(*   Creates run a step at a time.  All else is one action per call: a     *)
(* thread touches its own entries only, and the ledger under its lock.     *)
(* What the caches hold is in TCache.                                      *)
(***************************************************************************)
EXTENDS DoublyLinked, Integers, FiniteSetsExt, SequencesExt

CONSTANTS Threads,
          Globs,       \* bound: addresses of allocators
          Caches,      \* bound: addresses of caches
          MaxnGlobs,   \* TSALLOC_MAXN_GLOBS
          MaxFailures  \* bound: calls of the OS or of madvise that fail

ASSUME GlobAssumption == /\ MaxnGlobs \in Nat \ {0} /\ MaxFailures \in Nat
                         /\ Null \notin Threads \cup Globs \cup Caches \cup Nat

Uids == 0 .. MaxnGlobs - 1

VARIABLES glob_epoch,    \* the next uid
          creating,      \* the uid each glob_create in progress has read
          glob,          \* the allocators
          always_off,    \* always_tcache_off
          owner,         \* the allocator of each mapped cache: cache->macro
          coord,         \* cache->coord
          tlocal_bcache, \* of each thread
          isoff,         \* tlocal_bcache_isoff
          failures,      \* failed calls so far
          raced,         \* two creates overlapped
          crashed        \* unmapped memory was touched

vars == <<glob_epoch, creating, glob, always_off, owner, coord, tlocal_bcache,
          isoff, failures, raced, crashed>>

uidVars == <<glob_epoch, creating, always_off, raced>>
cacheVars == <<glob, owner, coord>>

NoGlob == [at |-> "unmapped", uid |-> Null, head |-> Null, tail |-> Null, failed |-> FALSE]

NoLinks == [next |-> Null, prev |-> Null]

Init == /\ glob_epoch = 0
        /\ creating = [t \in Threads |-> Null]
        /\ glob = [g \in Globs |-> NoGlob]
        /\ always_off = [u \in Uids |-> FALSE]
        /\ owner = [c \in Caches |-> Null]
        /\ coord = [c \in Caches |-> NoLinks]
        /\ tlocal_bcache = [t \in Threads |-> [u \in Uids |-> Null]]
        /\ isoff = [t \in Threads |-> [u \in Uids |-> FALSE]]
        /\ failures = 0
        /\ raced = FALSE /\ crashed = FALSE

Live == {g \in Globs : glob[g].at = "live"}

Dying == {g \in Globs : glob[g].at = "dying"}

Mapped == {c \in Caches : owner[c] # Null}

Fail == failures < MaxFailures /\ failures' = failures + 1

Idle(t) == ~crashed /\ creating[t] = Null

SetLedger(g, l, failed) ==
    /\ glob' = [glob EXCEPT ![g] = [@ EXCEPT !.head = l.head, !.tail = l.tail,
                                            !.failed = failed]]
    /\ coord' = l.coord

-----------------------------------------------------------------------------
(* glob_create: the uid is read first and stored back last. *)

CreateBegin(t) ==
    /\ Idle(t)
    /\ glob_epoch < MaxnGlobs - 1
    /\ creating' = [creating EXCEPT ![t] = glob_epoch]
    /\ UNCHANGED <<glob_epoch, always_off, raced, cacheVars, tlocal_bcache, isoff,
                   failures, crashed>>

CreateFails(t) ==
    /\ ~crashed /\ creating[t] # Null /\ Fail
    /\ creating' = [creating EXCEPT ![t] = Null]
    /\ UNCHANGED <<glob_epoch, always_off, raced, cacheVars, tlocal_bcache, isoff, crashed>>

(* a mutant: the uid is given again *)
NextUidStays(uid) == uid

NextUid(uid) == uid + 1

CreateEnd(t, g, off) ==
    /\ ~crashed /\ creating[t] # Null /\ glob[g].at = "unmapped"
    /\ glob' = [glob EXCEPT ![g] = [NoGlob EXCEPT !.at = "live", !.uid = creating[t]]]
    /\ always_off' = [always_off EXCEPT ![creating[t]] = off]
    /\ glob_epoch' = NextUid(creating[t])
    /\ raced' = (raced \/ glob_epoch # creating[t])
    /\ creating' = [creating EXCEPT ![t] = Null]
    /\ UNCHANGED <<owner, coord, tlocal_bcache, isoff, failures, crashed>>

-----------------------------------------------------------------------------
(* The cache of a thread *)

UsesCache(t, g) == ~always_off[glob[g].uid] /\ ~isoff[t][glob[g].uid]

Usable(c) == c \in Mapped /\ glob[owner[c]].at # "unmapped"

(* The first block allocated or freed: tcache_create maps and registers.   *)
CreateCache(t, g) ==
    /\ Idle(t) /\ g \in Live /\ UsesCache(t, g)
    /\ tlocal_bcache[t][glob[g].uid] = Null
    /\ \E c \in Caches \ Mapped :
          /\ owner' = [owner EXCEPT ![c] = g]
          /\ SetLedger(g, ListPush(glob[g], [coord EXCEPT ![c] = NoLinks], c), FALSE)
          /\ tlocal_bcache' = [tlocal_bcache EXCEPT ![t][glob[g].uid] = c]
    /\ UNCHANGED <<uidVars, isoff, failures, crashed>>

(* Any later one.  What it does is in TCache; here it may hit a cache that *)
(* is not mapped any more.                                                 *)
UseCache(t, g) ==
    LET c == tlocal_bcache[t][glob[g].uid]
    IN  /\ Idle(t) /\ g \in Live /\ UsesCache(t, g)
        /\ c # Null /\ ~Usable(c)
        /\ crashed' = TRUE
        /\ UNCHANGED <<uidVars, cacheVars, tlocal_bcache, isoff, failures>>

TurnOn(t, g) ==
    /\ Idle(t) /\ g \in Live /\ ~always_off[glob[g].uid]
    /\ isoff' = [isoff EXCEPT ![t][glob[g].uid] = FALSE]
    /\ UNCHANGED <<uidVars, cacheVars, tlocal_bcache, failures, crashed>>

TurnOffBare(t, g) ==
    /\ Idle(t) /\ g \in Live /\ ~always_off[glob[g].uid]
    /\ tlocal_bcache[t][glob[g].uid] = Null
    /\ isoff' = [isoff EXCEPT ![t][glob[g].uid] = TRUE]
    /\ UNCHANGED <<uidVars, cacheVars, tlocal_bcache, failures, crashed>>

(* a mutant: the ledger keeps it *)
StaysRegistered(g, c) == [head |-> glob[g].head, tail |-> glob[g].tail, coord |-> coord]

Deregistered(g, c) == ListRemove(glob[g], coord, c)

(* With a cache: tcache_destroy deregisters, flushes and unmaps.  After a  *)
(* failure of the last two the thread still has the cache, and its tcache  *)
(* is not off: the next call deregisters it once more.                     *)
TurnOff(t, g) ==
    LET u == glob[g].uid
        c == tlocal_bcache[t][u]
    IN  /\ Idle(t) /\ g \in Live /\ ~always_off[u]
        /\ c # Null
        /\ IF ~Usable(c)
           THEN crashed' = TRUE /\ UNCHANGED <<cacheVars, tlocal_bcache, isoff, failures>>
           ELSE /\ SetLedger(owner[c], Deregistered(owner[c], c), FALSE)
                /\ \/ /\ owner' = [owner EXCEPT ![c] = Null]
                      /\ tlocal_bcache' = [tlocal_bcache EXCEPT ![t][u] = Null]
                      /\ isoff' = [isoff EXCEPT ![t][u] = TRUE]
                      /\ UNCHANGED failures
                   \/ Fail /\ UNCHANGED <<owner, tlocal_bcache, isoff>>
                /\ UNCHANGED crashed
        /\ UNCHANGED uidVars

(* A thread ends, another begins in its place.  The value of the cleanup   *)
(* key is null, so tsalloc_tcleanup is not called: the caches stay.        *)
Exit(t) ==
    /\ Idle(t)
    /\ tlocal_bcache' = [tlocal_bcache EXCEPT ![t] = [u \in Uids |-> Null]]
    /\ isoff' = [isoff EXCEPT ![t] = [u \in Uids |-> FALSE]]
    /\ UNCHANGED <<uidVars, cacheVars, failures, crashed>>

-----------------------------------------------------------------------------
(* glob_destroy, which nothing else may use the allocator during           *)

DestroyBegin(g) ==
    /\ ~crashed /\ g \in Live
    /\ glob' = [glob EXCEPT ![g].at = "dying"]
    /\ UNCHANGED <<uidVars, owner, coord, tlocal_bcache, isoff, failures, crashed>>

(* One cache leaves the ledger and is flushed and unmapped, or fails to be *)
DestroyCache(g) ==
    LET c == glob[g].head
        l == ListRemove(glob[g], coord, c)
    IN  /\ ~crashed /\ g \in Dying /\ c # Null
        /\ \/ /\ SetLedger(g, l, glob[g].failed)
              /\ owner' = [owner EXCEPT ![c] = Null]
              /\ UNCHANGED failures
           \/ SetLedger(g, l, TRUE) /\ Fail /\ UNCHANGED owner
        /\ UNCHANGED <<uidVars, tlocal_bcache, isoff, crashed>>

(* The arenas go, then the memory of the allocator.  When anything failed  *)
(* and this did not, tsalloc_destroy reads the uid from it.                *)
DestroyEnd(g) ==
    /\ ~crashed /\ g \in Dying /\ glob[g].head = Null
    /\ \/ /\ glob' = [glob EXCEPT ![g] = NoGlob]
          /\ crashed' = glob[g].failed
          /\ UNCHANGED failures
       \/ /\ glob' = [glob EXCEPT ![g] = NoGlob]
          /\ Fail /\ crashed' = TRUE
       \/ /\ glob' = [glob EXCEPT ![g].at = "leaked"]
          /\ Fail /\ UNCHANGED crashed
    /\ UNCHANGED <<uidVars, owner, coord, tlocal_bcache, isoff>>

-----------------------------------------------------------------------------
(* The run ends with the crash; threads that come and go never stop.       *)
Crashed == crashed /\ UNCHANGED vars

Next == \/ \E t \in Threads :
              \/ CreateBegin(t) \/ CreateFails(t) \/ Exit(t)
              \/ \E g \in Globs :
                    \/ CreateEnd(t, g, TRUE) \/ CreateEnd(t, g, FALSE)
                    \/ CreateCache(t, g) \/ UseCache(t, g)
                    \/ TurnOn(t, g) \/ TurnOffBare(t, g) \/ TurnOff(t, g)
        \/ \E g \in Globs : DestroyBegin(g) \/ DestroyCache(g) \/ DestroyEnd(g)
        \/ Crashed

Spec == Init /\ [][Next]_vars

-----------------------------------------------------------------------------
Installed(c) == {t \in Threads : c \in {tlocal_bcache[t][glob[g].uid] : g \in Live}}

(* Unless creates raced: what a thread finds under the uid of a live        *)
(* allocator is a mapped cache of that allocator which no other thread has; *)
(* pointers to caches that were destroyed meanwhile lie under uids that     *)
(* are never used again (glob.c:229, glob.c:355).                           *)
CacheServesOwner ==
    ~raced =>
        /\ \A t \in Threads, g \in Live :
              LET c == tlocal_bcache[t][glob[g].uid]
              IN  c # Null => owner[c] = g /\ Installed(c) = {t}
        /\ crashed => failures > 0

(* Whoever made or left them, glob_destroy finds only mapped caches of its  *)
(* allocator in the ledger, each once; and all of them if no call failed,   *)
(* so that no cache outlives its allocator (glob.c:372).                    *)
LedgerReachesAll ==
    \A g \in Globs :
        LET mine == {c \in Caches : owner[c] = g}
        IN  \E q \in SetToAllKPermutations(mine) :
                /\ Spells(glob[g].head, coord, q)
                /\ failures = 0 => ToSet(q) = mine
=============================================================================

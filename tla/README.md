# ts-alloc in TLA+

TLA+ models of the ts-alloc memory allocator, their TLC configurations, and
proofs checked by TLAPS. Definitions are translated from the C sources and keep
their names where TLA+ allows; `PROJECT.json` maps each definition to the lines
it stands for, and lists components, runs, mutants, findings and hazards.

## The system

An allocator (`glob_t`) has arenas, one pagetrie and one cache per thread.

    tsalloc / tsfree          any thread
      |
    glob ---- small ----> tcache, columns      thread local, no lock
      |                     | refill, overflow, decay, flush
      |                   arena: bcache -> pail (lock) -> slab bitmap
      |                                      | mint, flush
      +---- large ------> arena: scache (lock) -> bins of spans -> auxil_map
                                             |
                                          pagetrie (lock for inserts, none for lookups)

Locks nest `pail.lock` -> `scache.lock` -> `pagetrie.lock`; `ledger_lock` stands
alone. Every lock is the mutex of `internal/mutex.h`.

| component | state | operations | what makes it correct |
|---|---|---|---|
| mutex (`internal/mutex.h`) | state word, `locker_tid`, semaphore | lock, unlock | exclusion; the owner check is exact; no waiter sleeps for ever |
| scache, bin, bucket (`scache.c`, `internal/bin.h`, `bucket.c`) | bins of free spans by class and state, counts, bitmap, epoch | get_span, get_span_aligned, put_span, decay, destroy | spans tile the mapped memory; every span is held or in its bin; summaries agree with the heaps; ranges handed out are disjoint and large enough |
| span (`span.c`) | descriptor: flags, address, size, record | create, split, split_aligned, coalesce | no page lost or doubled; class fits size |
| records (`records.c`, `internal/genlist.h`) | list of mappings to unmap | push, remove | one record per mapping |
| bucket, genheap, genlist (`bucket.c`, `internal/genheap.h`, `internal/genlist.h`) | links inside the descriptors | insert, pop, remove | a heap is one tree of its spans, a list is the same from both ends; what has left a container has no links |
| pagetrie (`pagetrie.c`) | three levels, page -> span | insert, rollback, lookup | each page leads to the live span around it; the holder of a span finds it without a lock |
| slab, registry, pail, bcache (`slab.c`, `internal/pail.h`) | free bitmaps, list of slabs with a free block, count | get_batch, put_block | registry, count and bitmaps agree; a block has one owner |
| arena (`internal/arena.h`) | block cache, span cache, epoch byte counter | get/put of batches and spans | epochs end; no page is lost or given twice |
| column, tcache (`internal/column.h`, `internal/tcache.h`) | stack of blocks, low-water mark, byte counters | get, put, decay, flush | a block is in one place; batches lie inside the column |
| glob, ledger (`glob.c`, `internal/glob.h`) | arenas, uid, list of thread caches, thread-local tables | create, destroy, alloc, free, claim an arena, turn a cache on and off, thread exit | uids are unique; a thread finds its own cache of the right allocator; the ledger reaches every cache |
| objpool (`objpool.c`) | free stack, chunks | alloc, free | an object has one user |
| size classes (`config/`) | generated tables | class of a size, size of a class | the class of a size is the least that holds it |

What is hard here: the mutex is hand written; a span's life runs through splits
and merges whose bookkeeping (bitmaps, counts, pagetrie, records) is kept by hand
at many places; blocks cross threads, and their slab is looked up before any lock
is taken; nearly every operation has an error path that undoes half of its work,
or does not; counters are unsigned and some are shared without a lock. Nothing is
persisted, and there are no messages and no timeouts.

## Modules

| module | models | state and actions |
|---|---|---|
| `Mutex` | `mutex_lock`, `mutex_unlock` | One action per atomic access: load, weak compare-and-swap with spurious failure, exchange, `sem_wait` with EINTR, owner id store and erase, release, `sem_post` with saturation. `Unlock` may be called by a thread that does not hold the lock. |
| `AbstractLock` | what callers of the mutex rely on | `Request`, `Acquire`, `Release`; a free lock that is wanted is taken. |
| `SpanCache` | `scache.c`, `span.c`, `internal/bin.h`, the records, inserts into and lookups of the pagetrie | A call under `cache->lock` is one action. The functions of the code are operators from a world (the record `Now` of the state) to a world: `BinPut`, `CutoutSpan`, `MergeAdj`, and so on. A descriptor is named by the address of its span. Failing calls are actions of their own (`GetSpanNoDescriptor`, `GetSpanAlignedFails`, `PutSpanFails`, ...), enabled by `Faults`. `stranded` has the mappings that could be neither entered nor unmapped. `crashed` records the use of a null or freed pointer. |
| `AbstractHeap` | what users of a span cache rely on | `Allocate` of a range disjoint from all held ones, `Release`. |
| `TCache` | `internal/column.h`, `internal/tcache.h`, and the block paths of `glob.c` | A call of a thread is one action: its cache is its own, and arenas take their locks. Arenas are a pool of free blocks. `Store` ends a call, with the decay of all columns when an epoch ends. `stray` records a column read below its start. |
| `SpanLinks` | `internal/genheap.h`, `internal/genlist.h`, as `bucket.c` and `registry.c` generate them | The union `coord` of every span, the roots of the heaps, head and tail of the registry. One action per call; `where` is the container the callers put a span in. `DoublyLinked` has the list operators. |
| `AbstractLinks` | what `scache` and `pail` rely on in them: the set and the sequence `SpanCache` and `Pail` use | `Insert`, `PopOldest`, `TakeOut`, `Register`, ... |
| `PageTrie` | `pagetrie.c` | One action per atomic access: the lock, the three loads of a lookup, the two levels made and each page stored by an insert, the rollback. `op` is the operation each thread is in; callers start one and take its result. |
| `GlobSpans` | span allocation and free through `glob.c`, `internal/arena.h`, `scache.c`, over `PageTrie` | Threads claim an arena by compare-and-swap, get or mint a span under the arena's lock, cut and insert it, keep the arena's epoch without a lock; or look a span up, merge it with its neighbours and put it back. Descriptors are reused by each arena's pool, last freed first. `mapped` has the pages of spans, `stranded` the mappings a rollback could not undo. |
| `SizeClasses` | the tables `config/config.py` generates, the lookups of `config/tsalloc_config.h`, the block addresses of `slab.c` | Operators over a set of configurations. |
| `Glob` | the lives of allocators and of thread caches: `glob_create`, `glob_destroy`, turnon, turnoff, first use, thread exit; `ledger.c`; `tsalloc_destroy` | A create is two steps, between which others run; `raced` records an overlap. Destruction takes one cache at a time. `crashed` records the use of memory that is not mapped and ends the behaviour. |
| `Pail` | `internal/pail.h`, `slab.c`, the registry | A call under `pail->lock` that takes or puts one block is one action, a batch takes its blocks in a step each while nobody else has the lock; the lookup of a slab before a put (`LookUpSlab`) is an action of its own. `freed` records the use of slab metadata after `slab_deinit`. |
| `MutexProofs`, `SpanCacheProofs`, `TCacheProofs`, `PailProofs`, `GlobProofs`, `PageTrieProofs`, `GlobSpansProofs` | proofs about the module of that name; `GlobProofs` also about `DoublyLinked` | |
| `DistinctSeqs` | lemmas: sequences of distinct elements | |
| `MCMutex`, `MCSpanCache`, `MCTCache`, `MCPail`, `MCSpanLinks`, `MCGlobSpans`, `MCGlob` | constants of the runs | |

The operators marked as mutants are altered forms of the definition that follows
them; `PROJECT.json` says which property each of them breaks.

Abstractions. A lock is taken as one step in `SpanCache` and `Pail`, which
`Mutex` justifies. Memory orders are sequentially consistent in `Mutex`: the
writes to `locker_tid` are ordered by the acquire and release of the state word.
Pages are the unit of memory in `SpanCache`. A bin's pairing heap is a set from
which the oldest, then lowest, span is taken. `Pail` draws slabs from a set of
span names instead of a span cache. `GlobSpans` reduces the bins to the smallest
span that fits, so that all interleavings of a get and a put can be explored;
what a failed decay does to the bins is in `SpanCache`, and aligned gets are there
too. A lookup reads the flags and the address of a descriptor in one step. In
`Glob` what the caches hold is left to `TCache`, calls other than `glob_create`
are one step each, and nothing uses an allocator that is being destroyed, which
`internal/glob.h:158` asks of the caller.

## Runs

| run | what it asks | bounds |
|---|---|---|
| `mutex` | All interleavings of the mutex: exclusion, recorded owner, exact owner check, no lost wakeup, refinement of `AbstractLock` with its liveness | Three threads: one holds, one sleeps, one races. One turn of the spin loop, since a turn leaves nothing behind. Two tokens, so that posts saturate. |
| `span_cache` | One arena, no failures: tiling, pagetrie, bins, bitmap, counts, coalescing, sizes and alignment, refinement of `AbstractHeap` | Six pages, mappings of three pages at 0, 1 or 3: two mappings may be adjacent. Requests for one page, for a slab of two, and for one page at a multiple of two: there are overfit and exact pops and aligned splits with and without a left piece. |
| `span_origins` | Two arenas, no merge across mappings, explicit unmapping, failing descriptor and slab pools: records, lost spans, summaries | Two mappings of three pages, side by side, by either arena. |
| `span_failures` | Advice, the descriptor pool, the growth of the pagetrie and the unmap that follows it fail, ages and counts wrap: what survives is that held ranges are disjoint, the spans tile what is not stranded, and the pagetrie is exact | Four pages, age modulo 2, counts modulo 6. Slab metadata fails in `span_origins` instead. Deadlock is allowed: after a crash, or when lost or stranded memory has exhausted the pages, nothing more happens. |
| `span_undersized` | *violated*: a span is at least as large as its class | One mapping of ten pages, classes of 1 to 8 and 10 pages. |
| `span_aligned_origins` | *violated*: one record per mapping | Four pages, aligned requests only. |
| `tcache` | Two threads free each other's blocks, turn caches off and on, and decay: one place per block, marks inside columns | Capacities 4 and 2, five blocks and one block: a column overflows while blocks are with the program and in the other thread. An epoch ends every few calls. |
| `tcache_stray` | *violated*: a decay batch consists of blocks | One thread, capacity 3 of the 10 KiB class and 2 of the 16 KiB class in the 64 KiB profile, sizes in units of 2 KiB and an epoch of 32 KiB as in the code. |
| `pail` | Batches, puts by two threads, mints and flushes that fail: registry, count and bitmaps agree, a looked-up slab stays a slab, idle slabs are flushed | Three slabs of four blocks (the code's least), batches of one block and of more than a slab. Deadlock is allowed: the use of a freed slab ends a behaviour. |
| `span_links` | Heaps and list by their links: exact trees, exact list, refinement of `AbstractLinks` | Six spans of three ages in two heaps and a registry: a pop pairs five children and gathers three, and inner nodes with children and siblings on both sides are removed. |
| `spans` | Two threads allocate and free through two arenas: a lookup finds the span of its holder, every mapped page is in one place, the epoch passes its maximum only by the race, claims go round; and the size classes of the five default profiles | Eight pages in a trie of fan 2, of which four can be mapped, two at a time: spans of two arenas may be neighbours, and an insert crosses nodes. Three descriptors per arena, which can run out. Six calls, one failure of the node pool or of a decay, and the unmap after the former may fail too. An epoch of three pages, a counter of width 6: it can pass the maximum, wrap, and come back. Size classes up to 10^9 bytes, requests at, below and above each class. |
| `glob` | Two threads create, use, turn off, leave and destroy allocators: a live uid leads a thread to its own mapped cache of that allocator, and the ledger has every cache | Two allocators, three caches, and uids 0 and 1, which are never reused; so an allocator can take the memory, not the uid, of a destroyed one. One failing call. |

Symmetry is used in `tcache`, `pail`, `spans` and `glob`, over blocks, spans,
threads, allocators and caches, which no definition tells apart; they have no
liveness property (`ClassesAgree` is about constants). `SpanCache` and
`SpanLinks` order addresses and have none.

Fairness is assumed in `mutex` only, weak fairness of the steps of each thread
inside a call or a critical section: threads are scheduled, critical sections are
finite, calling `mutex_lock` is not forced. With it, a wanted free lock is taken
by some thread; nothing promises any given thread the lock, since there is no
queue.

## What the runs found

* **A span smaller than its class** (`span_undersized`). The rest of a split is
  binned under its size rounded up (`span.c:192`), and an exact request takes it
  uncut (`scache.c:70`). The 9 pages left of a 10-page mapping answer a request
  for 10.
* **A mapping without a record** (`span_aligned_origins`). `span_split_aligned`
  rewrites the descriptor without its record (`span.c:312`, `span.c:325`): the
  mapping is never unmapped, and the list of origins keeps a stale node.
* **A decay that reads before its column** (`tcache_stray`). Giving back the
  upper part of a full column does not lower the low-water mark
  (`column.h:217-228`), and the decay subtracts it (`column.h:248`). An
  overflow that also returns the freed block leaves `max(1, 3 * (capacity >> 2)) + 1`
  blocks, while the mark may be as high as the capacity: apart from
  capacities 2 and 4, that is always fewer than a mark at the capacity.

Other states the models reach and mark, or leave out and say so:

* After a failed advice an empty bin is popped (`crashed` in `span_failures`),
  and after a failed flush a pail takes a block from a slab it has freed (`freed`
  in `pail`). `SpanCache` loses spans on the error paths of `get_span_aligned`,
  `merge_adj` and `bin_decay`; `NothingLost` is therefore checked without those
  failures. A decay that fails in `arena_get_span` leaks the span that was
  allocated (`leaked` in `GlobSpans`).
* When a new span cannot be entered in the pagetrie it is destroyed, and the
  result of that is dropped (`scache.c:241`). If `auxil_unmap` fails, the mapping
  and its descriptor stay for good (`stranded` in `SpanCache` and `GlobSpans`):
  mapped, but in no span, no pagetrie entry, no record. `SpansTile`,
  `PagetrieExact` and `PagesAccounted` say that it is out of reach for ever, not
  that it does not happen.
* Where mappings may merge and the left span is not the first of its own, it
  gets a record of the right one's size (`span.c:356-362`), which `scache_destroy`
  unmaps from the address of the left span. With pages 0-2 and 3-5 mapped and 0, 1
  and 5 held, putting 2 back leaves the records 0-2 and 2-4, and page 5 in none. Once
  every span is back, all is one span and the records are right again. The
  model has this (`CoalesceRecords`), but no run claims anything of it: `OriginsExact` is
  checked where mappings do not merge.
* Two additions to an arena's epoch counter can carry it past the maximum. The
  difference is unsigned (`arena.h:217`): the arena then decays no more until the
  counter has wrapped. Without that race it stays below (`EpochPassedOnlyByRace`).
* A `tcache_destroy` that fails leaves the cache installed but off the ledger.
  The next turnoff removes it once more, and a list takes a node without links
  for its only one (`genlist.h:193`): the ledger is empty, and the caches of other
  threads outlive the allocator. `LedgerReachesAll` demands completeness only
  while no call has failed.
* When `glob_destroy` unmaps the allocator and returns an error, `tsalloc_destroy`
  reads the uid from it (`tsalloc.c:28`): `crashed` in `Glob`, after a failure
  only.
* `tsalloc_tcleanup` never runs, because the value of its key is null
  (`glob.c:218`): the cache of a thread that exits stays in the ledger until the
  allocator is destroyed. `Exit` does nothing else.
* Creates that overlap may read one uid (`glob.c:229`); then the two allocators
  share the entries of `tlocal_bcache`. The properties of `Glob` claim nothing
  once creates raced.
* The size of a block is kept in 16 bits (`internal/slab.h:32`, `slab.c:55`).
  `BlocksApart`, a part of `ClassesAgree`, holds of the default profiles with pages
  up to 64 KiB, whose slab classes end at 16 KiB. With 2 MiB pages they go to
  512 KiB: the class of 64 KiB has width 0, one of 80 KiB has width 16 KiB.

## What is proved

`MutexProofs` proves for any set of threads, spin bound and semaphore limit, from
`MutexAssumption` (no thread has the null id, the spin count is a natural number,
the semaphore has room for one token):

* `TypeCorrect`, `MutexExcludes`, `OwnerIsRecorded`, `WakeupNotLost`: each
  invariant of the run;
* `OwnerCheckIsExact`: the action property of the unlock's owner check;
* `RefinesLock`: every step is a step of `AbstractLock` or a stutter, under
  `holder <- Holder`, `waiting <- Trying`.

The inductive invariant `IInv` joins them with `SpinsLeft`. Mutual exclusion is
not inductive alone: `mutex_unlock` trusts `locker_tid`, so a state in which the
id of a thread outside the lock is stored would let that thread free the word.
`OwnerRecorded` excludes it. One lemma per conjunct shows that each atomic access
keeps it.

`GlobSpansProofs` proves for any sets of threads, arenas and descriptors, any
span of mapped pages and any epoch below the width of its counter, from
`GlobSpansAssumption` (there is an arena, an epoch is not empty, requests are
positive, page 0 and the last page of the tree are never mapped, as `NULL` and the
end of the address space are not):

* `ClaimsRound`: the claims go round. The inductive invariant says more than the
  property: exactly the arenas below `arena_idx` are one claim ahead. Counting a
  claim at the index then gives what is ahead at the next one, or, at the last
  arena, nothing; every other step leaves both alone.
* `EpochKept`: an epoch counter reaches its maximum only by the race. The
  property is not inductive, since an addition comes steps after its comparison;
  `RoomSeen` carries the room a thread saw to its store, for as long as the arena
  is not raced. The unsigned difference and sum are remainders modulo `Word`,
  which below the maximum are the numbers themselves (`SmallMod`).
* `HoldersFindSpans`, `PagesAreAccounted`: a free finds the span it frees, and
  every mapped page is in one place. Both follow from `SpansInv`:
  * descriptors in use tile the mapped pages (`Tiles`), those that are stranded
    are in no pool, and their pages never mapped again (`StraysApart`), each is allocated, or
    binned, or in the hands of the one thread that has its arena's lock
    (`FlagsOK`, `WorkOK`), and each allocated one has one owner (`Tokens`);
  * an entry of the pagetrie leads to the span around its page, but for the pages
    an insert on its way has still to store (`SettledLead`, `Pending`). Those
    belong to the span its thread works on; until they are stored they lead
    nowhere if the span is fresh, and to some descriptor of the same arena if not
    (`PendingOK`), so that only a fresh insert can fail;
  * what a thread found by a lookup and has yet to use is a descriptor in use, or
    one of another arena, which `span_can_merge` rejects (`LookOK`). That is why
    it may read a neighbour whose lock it does not hold.

  `FrameKeeps` says what is left to show of a step that touches the descriptors
  `D` of one arena under its lock; `TreeKeeps` is the same for a step of the tree.
* `ReinsertsSucceed`: the inserts of cut and merged spans never fail, as the
  comments at `scache.c:339` and `scache.c:387` say, which is why their results may
  be thrown away.
* `TrieStaysTree`, `TrieImplementsMap`: the nodes of the pagetrie are a tree, and
  each access is a step of a map from pages to descriptors.

`PageTrieProofs` has what the last of these rest on, about `PageTrie` alone: for
any fan the three indices of a page determine it (`PageIsIdx`), a store in a leaf
changes one page, a new node none, and an operation on its way is at the node of
its page (`TrieInv`, `TrieDoes`).

`PailProofs` proves every property of the run `pail` for any finite set of slabs,
any number of blocks above one and batches of any size: `TypeCorrect`,
`RegistryIsExact`, `CountIsExact`, `BlocksAreOnce`, `SlabsStay`, `IdleByRollback`.
The inductive invariant (`Consistent` and `Apart`) states registry, count and
bitmaps by the blocks that are away from their slab, so that one lemma per
function of `pail.h` serves all callers. It holds through every failure except the
use of freed metadata, after which the properties claim nothing.

`TCacheProofs` proves for any threads, blocks, columns and capacities above one,
from `TCacheAssumption` (the bytes of a class fit in half an epoch):

* `CachesTyped`, `OnePlaceUntilStray`: types and bounds always, and a block in one
  place until a decay reads below its column. After that nothing can be said: the
  batch holds what lay in memory.
* `MarksStay`, `DecaysStay`: with `MarkFits`, marks stay inside their columns and
  no decay strays. `MarkFits` is a hypothesis of the theorems and not an
  assumption of the module, because the code violates it for capacity 3
  (`tcache_stray`): a put into a full column must leave all but one of its
  blocks. It is true of capacities 2 and 4 only, those of the run `tcache`.

`GlobProofs` proves for any threads, allocators and caches:

* `LedgersReachCaches`: the ledger lists mapped caches of its allocator, each
  once, and all of them while no call has failed, also when creates raced. The
  invariant is about chains, sequences of nodes whose links lead through them
  both ways: the caches of an allocator lie on disjoint chains and the head leads
  to one. While no call failed there is one chain; removing a cache a second time
  cuts the head off and leaves chains that are still removed from correctly.
* `CachesServe`: unless creates raced, a live allocator has a uid of its own below
  `glob_epoch`, and no thread has an entry from `glob_epoch` on; so no old entry
  is found under a new uid.

`SpanCacheProofs` proves every property of the runs about `SpanCache`, for any
arenas, pages, classes, requests and failures. `SpanCacheAssumption` says of the
classes that they grow, begin with one page and hold the modelled memory, which
the tables of `config.py` do up to `TSALLOC_ALLOC_MAX` (`tsalloc_config.h:15`);
`AlignedGetsAssumption`, that an aligned request fits in a class with its padding,
without which it is refused before anything is done.

The inductive invariant is `SpanInv`. The world is `Sound`: typed, tiled by its
spans, each span in the class of its size (`Classed`), the pagetrie exact
(`Indexed`), and only free spans in the heaps, under their own keys (`Binned`).
Each record is in its list (`Listed`). The allocated spans are those the callers
hold, each by one (`Owned`). What is stranded lies in no mapping (`Strayed`):
new mappings are placed clear of it, and no other step maps anything
(`Clearing`). Tiling alone is not inductive: a merge removes a neighbour found
in the pagetrie from the heap its own flags name, and only the exactness of both
keeps the span it takes in from being held by someone. In the middle of a merge
the pagetrie is wrong about the pages of the span at hand; `Merging` says that
and no more. One lemma per function of `scache.c` and `span.c` leads from world
to world, `NextSteps` sorts the actions into those that keep, give or take a
span. From `SpanInv` alone, so whichever of the modelled calls fail
(descriptors, slab metadata, pagetrie nodes, advice, the unmap of a rollback):

* `SpanCacheTypeCorrect`, `SpansAlwaysTile`, `PagetrieAlwaysExact`;
* `SpanCacheImplementsHeap`: every step is a step of `AbstractHeap` or a stutter;
* `SpansNearlyFit`: what is handed out is aligned and larger than the class below;
* `SpansAlwaysFit`: it has the size of its class, if the class below each class
  asked for is one page shorter (`SnugGets`). The tables are like that up to 8
  pages and never above; `span_undersized` shows what comes of it at 10.

The others strengthen `SpanInv` by what they are about, each under a hypothesis
that names the ways in which the code does break the property:

* `NothingEverLost`, `SummariesAlwaysExact`, by `Whole`: no span is loose, and
  counts and bitmap are those of the heaps. Hypothesis `NeverLost`: no advice
  fails, and a span found for an aligned request can be split, which takes a
  descriptor, a padded size above the slab classes, and a class that is snug. The
  count must also be wider than the address space is long.
* `NoPointerEverWild`, by `Tame`: bitmaps name the bins with spans, lists the spans
  with records. No advice fails, and arenas that keep records get no aligned
  requests (`RecordsStay`); `span_aligned_origins` shows why.
* `OriginsAlwaysExact`, by `Filed`: the pages of one age lie together and ages to
  come are new (`Aged`), and each mapping begins with a span that has its record
  (`Rooted`). Hypothesis `OriginsKept`, for arenas that unmap at their end:
  mappings are not merged, no aligned requests, and ages do not run out
  (`AgesHold`). The 28-bit age tells mappings apart, so the memory is shorter than
  the age is wide, and no mapping fails after it has used up an age.
* `FreeAlwaysCoalesced`, by `Apart`: no two free spans of one age touch. Within a
  call the span in its hands may (`Parted` leaves it out), and a put merges it
  with both neighbours. Hypothesis `PartHolds`: `AgesHold`, as a mapping of an age
  that is in use would be split beside free memory of that age; all the modelled
  memory may be one span (`TSALLOC_ALLOC_MAX`); and no slab descriptor or advice
  fails, since the cut that is then binned, or the span whose neighbour could not
  be merged, stays apart from the memory beside it.

These hypotheses hold in the runs that check the properties.

Only model-checked: the liveness of the mutex and of `AbstractLock`, which is out
of the prover's reach; `SpanLinks` with `AbstractLinks`, whose heaps are walked by
RECURSIVE operators, so that what is a tree only TLC can say; and `SizeClasses`,
which says of tables what a recursive definition computes.

## Plan

Done, in the order of what the rest relies on: `Mutex`, `SpanCache`, `TCache`,
`Pail`, `SpanLinks`, `PageTrie` with `GlobSpans`, `SizeClasses`, `Glob`.

Left:

1. `TCache`: a put that fails, and the flush of `tcache_destroy` that fails
   halfway.

## Not modelled

Error texts (`error.c`), argument checks of `tsalloc.c`, the formatting and the
command line of `config.py`, wrappers of system calls, the layout of chunks in
`objpool.c`, and the examples. `pagetrie_remove` and `bucket_isempty` have no
caller. A null `auxil_madvise` is not modelled: advice is always given, as with
the default configuration. What a failed `glob_create` leaves mapped is not either
(`glob.c:342` forgets the arenas it had made), nor that `scache_destroy` forgets an
unmap that failed: the result of `mutex_deinit` overwrites it (`scache.c:556`).
Requests beyond the largest class,
and a number of steps per power of two that is no power of two, are outside
`SizeClasses`.

# A verification project for the hash_kvftl key-value FTL

`hash_kvftl` is a user-space emulation of a key-value SSD. Its flash translation
layer maps a key to flash by hashing it to an entry of a demand-paged mapping
table, probing quadratically on a collision. This directory holds TLA+ models of
its core, the TLC runs that check them on small instances, and proofs that TLAPS
checks for every size. Paths below are relative to `src/hash_hot_cmt/` unless
they start with `src/`.

The reference is the default build (`.vscode/tasks.json`, `dftl_settings.h`):
`STORE_KEY_FP` on; `HOT_CMT`, `PREFILL_CACHE`, `DATA_SEGREGATION`,
`VERIFY_CACHE`, `UPDATE_DATA_CHECK` and `DEBUG_FTL` off.

## 1. Inventory

| component | source | state | operations |
|---|---|---|---|
| block manager | `dftl_bm.c` | per superblock `wp_offt`, `valid_cnt`; `valid_bitmap`; OOBs; per partition `sblk_rsv`, `active_sblk`, `free_sblk_cnt` | check_full, get_page_num, get_active_superblock, isgc_needed, get_gc_target, (in)validate page / grain, get/set_oob, trim_segment, change_reserve |
| page allocation and GC | `dftl_pg.c` | `t_active`, `d_active`, the reserves, `gc_bucket` | tp_alloc / tpage_gc, dp_alloc / dpage_gc_dvalue, read_actual_dpage |
| write buffer | `dftl_wb.c`, `src/tools/d_htable.c` | skiplist of entries, flush list, per-flush hash table, two queues | insert, do_check, assign_ppa, mapping_update, flush |
| demand algorithm | `demand.c`, `request.c` | `real_keys`, `max_try`, `finish_q`, `retry_q`, inflight parameters | demand_set, demand_get (a jump machine resumed from `retry_q`) |
| mapping cache | `dftl_cache.c`, `src/tools/lru_list.c` | per translation page `pt`, `t_ppa`, `state`, `lru_ptr`; the LRU | is_hit, load, list_up, touch, update, get_pte |
| hot mapping cache | `dftl_cache.c` under `HOT_CMT` | `hot_mem_table`, hit counters | promote_hot, hot_is_hit, hot_reset (off in the default build) |
| timed request queue | `algo_queue.c` | doubly linked list, `head`, `last`, `size` | insert_sorted, dequeue |
| NAND emulator | `src/lower/ssd.c` | `ppa_state`, `line_wp`, `next_lun_avail_time` | write, read, trim, advance_status |
| request path | `test_ext_mem_lat.c` | request ring, completion ring, queue depth counters, a timed queue per completion thread | submit_req (workers), algo_thread, process_cq_cpl (two threads), end_request |
| multi-producer ring | `src/tools/rte_ring/` | head and tail of producers and consumers, entries | create, enqueue, dequeue, count |
| skiplist | `src/tools/skiplist.c` | levels of forward links, `level`, `size` | insert, find, find_lowerbound, delete, clear, iterator |
| the rest | hashing, value buffers, random generators, workload drivers, statistics, unused libraries | | |

**How they interact.** Worker threads put requests in the request ring, up to a
queue depth kept in a counter on the worker's stack. One *algorithm thread* takes
them and calls the FTL; every piece of FTL state is touched by this thread alone.
A set goes into the write buffer; the set that finds the buffer full first
flushes it: `assign_ppa` packs the values into pages from `dp_alloc`, which may
garbage collect; `mapping_update` takes each entry to the mapping, perhaps
waiting for a translation page, and invalidates what it overwrites; `flush`
programs the pages. The whole flush is one call of the algorithm thread. A get
looks in the buffer, then probes the mapping; when a translation page must be
loaded or a value read it goes to the retry queue until the emulated latency is
over. Finished requests go through the completion ring to one of two completion
threads, each with a timed queue, which end them when they are due, lower the
worker's counter and free the request. The mapping partition and the data
partition of the flash have an allocator and a collector each, over the same
block manager; they meet in two places: an eviction or an update of the mapping
cache writes or drops translation pages, and data GC rewrites those it changes.

**What is hard.** Garbage collection in the middle of a flush, when pages are
assigned but neither mapped nor programmed. Roles of superblocks that rotate at
each GC. Counters that are only ever changed by differences. Probing with
entries that are never removed. Page numbers reached by way of OOBs. Timed queues
that are not quite sorted. Reads that are suspended with what they have looked up
while flushes, evictions and GC change it. Two users of one translation page that
both load it. A lock-free ring with indices that wrap around. Threads that wait
for each other through bounded rings and queue depth counters.

**What makes each component correct.**

* block manager, allocation, GC: no value or translation page is lost, revived
  or shared; counters agree with the bitmap; the NAND never refuses a command;
  space is given up on only when there is none.
* write path: a read returns what was last set; a key has one entry; the OOB GC
  trusts names the entry that points to the value.
* mapping cache and reads: an update is on flash or in the cache, whatever is
  evicted; a read returns a version its key had while it was under way, finds a
  key that was set, and ends once.
* timed queue: nothing lost, nothing before its time, order kept up to a stated
  slack, everything served.
* ring: a bounded queue; what a count promises is there; nobody waits for ever.
* request path: a request is in one place until it is freed, the counter is the
  number in flight, no request ends before its time, all end; reads of translation
  pages never written break all of this but the third (finding 5).
* lists: links agree both ways, and the list is the abstract order or map.
* NAND emulator: page states agree with the write pointers, and no two pages share
  an address; a LUN does one thing at a time; nothing is due before it is done.

## 2. Modules

| module | models | role |
|---|---|---|
| `Superblock` | one partition of `dftl_bm.c` and the line discipline of `src/lower/ssd.c` | operators, extended by `TransArea` and `FlushPath` |
| `TransArea` | `tp_alloc`, `tpage_gc`, drops by `dftl_cache_update` | state machine of the mapping partition |
| `TpageStore` | what the mapping partition promises its cache | abstract specification of `TransArea` |
| `NumberFacts` | | minima, induction and division, for the proofs |
| `SuperblockProofs`, `TransAreaProofs` | | lemmas and theorems |
| `FlushPath` | `__demand_set` with the whole flush, `dp_alloc`, `dpage_gc_dvalue` | state machine of the data partition and the mapping |
| `KVStore` | what the FTL promises its user | abstract specification of `FlushPath` |
| `MCFlushPath` | | values, hashes and fingerprints for TLC |
| `FlushProofs` | | lemmas on packing a page, GC's layout and its scan, grains and spans; lemmas and theorems |
| `DemandCache` | `dftl_cache.c`, `__demand_get`, the cache side of `_do_wb_mapping_update` | state machine of cache, suspended reads and flushes |
| `MCDemandCache` | | hashes and fingerprints for TLC |
| `DemandCacheProofs` | | lemmas and theorems |
| `RequestPath` | workers, algorithm thread, completion threads, rings, depth counters | state machine of the threads |
| `RequestPathProofs` | | lemmas and theorems |
| `RteRing` | `src/tools/rte_ring/`, one shared access a step | state machine of a ring |
| `RteRingProofs` | | lemmas and theorems |
| `BoundedFifo` | what a ring promises | abstract specification of `RteRing`; the rings of `RequestPath` |
| `AlgoQueue`, `DuePool` | `algo_queue.c` at the level of its links; what it promises | detailed and abstract |
| `LruList`, `Recency` | `src/tools/lru_list.c`; a recency order | detailed and abstract |
| `SkipList`, `SortedMap` | `src/tools/skiplist.c`; a map with its keys in order | detailed and abstract |
| `NandTiming`, `LunQueues` | `src/lower/ssd.c`; each LUN a queue of work | detailed and abstract |
| `HotCmt` | the hot mapping cache of the `HOT_CMT` build | state machine |
| `MCStructures` | | the last six state machines' instances, one to a behaviour |
| `StructureProofs` | | lemmas and theorems |

`DemandCache` and `FlushPath` are two views of one flush: `FlushPath` has the
flash and takes the entries in any order, `DemandCache` has the cache that makes
this order and takes the flash as a set of translation pages. `TransArea` is what
`DemandCache`'s `onFlash` stands for: `ListUp` of a dirty victim is its write, the
first update of a clean page its drop. `RequestPath` has what `DemandCache` does
with a request as a choice between `Suspend`, `LoadNothing` and `Complete`.

### Superblock

A partition is `s_sblk .. e_sblk`; a page is a pair of superblock and offset.
`Full`, `NextActive`, `GcNeeded`, `GcTarget` and `Reclaimable` are the decisions
of `dftl_bm.c`, with the cursor that starts behind the last superblock found and
wraps around, and the first of the least valid superblocks as victim. Of the NAND
`line_wp` alone is kept: `ssd_write_ppa` programs only at the write pointer and
`ssd_trim_block` clears a whole line, so `ppa_state` is set exactly below it.

### TransArea

The algorithm thread runs `tp_alloc` and what its caller does with the page
without interruption, so a write of a translation page is one step:
`WriteInActive`, `WriteInNext` (a new superblock is opened), `WriteAfterGc`
(`tpage_gc` first) or `WriteAborts` (`get_gc_target` finds nothing). `DropTpage`
is the invalidation by `dftl_cache_update` and by the data GC's rewrite. Which
page is written or dropped when is the cache's choice; here any order is
possible. A translation page fills a page, so `valid` and `valid_cnt` count
pages. `OobZeroed` is how far the `memset` of `dftl_trim_segment` reaches: it
clears `_PPS` *bytes* of OOBs, a fraction of the superblock's, so stale
OOBs remain, and the model lets the reach be anything.

### FlushPath

The steps are those of the loops in the flush, one per page of `assign_ppa`
(`AssignInActive`, `AssignInNext`, `AssignAfterGc`, `GcFails`), one per entry of
`mapping_update` (`MapEntry`), and `Flush`. `Insert` and `BeginFlush` are the
two ends of `__demand_set`. Where the source loops within a step (packing,
probing, scanning a page by the lengths in its OOBs) the model has an operator
for the result: `FillPage` is the greedy packing that both the flush and GC use,
`FirstGrains` the scan, `Layout` the pages that GC fills. `GcThenPlace` is all of
`dpage_gc_dvalue` with the page `dp_alloc` then hands out, for the values found
and the places they are given.

* A grain is a superblock and an offset; a mapping entry is `pte_ppa`, `pte_fp`
  and `real_keys` at an lpa. The mapping is flat: `mem_table` keeps every entry
  whether its translation page is cached or not. What the cache contributes to a
  flush is that entries waiting for a load are overtaken: `MapEntry` takes *any*
  entry not treated yet.
* Assertions and aborts end a behaviour and set `failed`. In the default build
  `ftl_assert` is compiled out, so the program goes on with a wrong counter or a
  page number outside its superblock; the model says nothing about what follows.
  A command the NAND refuses does not stop the code, so it does not stop the
  model: `nand_err` remembers it.
* `cell`, the content of the flash, is not in the code (the emulator stores no
  data); it is what a page would hold, and properties use it to say what a read
  returns. `Lookup` is what `__demand_get` does with the mapping when nothing
  makes it wait.
* `Settled` says that GC within a flush does not choose a superblock to which that
  flush has written. It is part of `NoFailure`, which the run `flush_pages` checks;
  where it fails, finding 1 begins.
* An OOB is kept while something can still read it. This merges states that
  differ in OOBs nothing leads to.

### DemandCache

The users of the cache are reads and entries of the write buffer; both go
through `Hit`, `Load`, `List` / `ListAndWait` (the jumps `GOTO_LOAD`, `GOTO_LIST`,
`GOTO_COMPLETE`) and look at their entry in `Probe`, `Found`, `OtherKey`,
`SameFlush` or `Update`. Where the code returns to the loop of the algorithm
thread, the user is suspended (`Suspend`); where it goes on in the same call, the
thread stays with it (`busy`). So the interleavings are those of the code: reads
are served between flushes, entries within one, and every load, eviction or data
read is a point at which others come in between.

* `lru` is the sequence of `LruList`'s nodes. A node is a page and whether the
  page's `lru_ptr` points to it: two users that load one page push it twice, and
  the first node stays in the list without an owner. `Pop` of such a node unlists
  its page although the second node is there.
* The model has no `is_flying`: `wait_if_flying` is commented out at both calls.
* Mapping entries are in `mem_table`, cached or not, and `Update` of a page that
  is not cached changes it in memory only, as the code does. That makes the page's
  state *lost*: not listed, not on flash. `AtLost` names it; the run `cache_lost`
  shows what it costs. The properties of the passing run make an exception for it,
  for a page that was never written (`AtNoPage`), which a read of an unset key is
  completed for twice (`cache_unset`), and for a key with a `Twin`.
* `GcRemap` is `_do_bulk_mapping_update` for the entries data GC has moved; GC
  happens while pages are assigned, before any entry is mapped.

### RequestPath

One action per stretch of code between two accesses to what threads share. The
queue depth counter is looked at and added to in two steps (`LookAtDepth`,
`AddToDepth`); the completion thread reads the clock before it takes a request,
so `TakeLate` may put a request that has come due in its queue. Time is not a
number: a request is in `late` until its `etime` has passed, and `Pass` lets it.
Rings are bounded sequences, which is what `RteRing` implements; both have one
entry in the run, so that every thread meets a full one. `Return` assumes that the
two seconds a worker sleeps before its stack frame goes are longer than what is
in flight takes: nothing in the code waits for it.

The algorithm thread serves a request in one of three ways. `Suspend` puts a read that
waits for the flash in `retry_q`. `Complete` sends it to `finish_q`, due now or late: a
read is late until the value has been read, a write that waited for a flush until the
flush is done (`dftl_wb.c:627` gives it `now + maxlat` before `demand.c:198` enqueues it).
`LoadNothing` is the branch in which `load` returns 0: `PutNothing` enqueues the read in
`finish_q` and inserts it in `retry_q` with the `etime` it has (`demand.c:326`, `:329`),
and `Put` enqueues it once more (`:409`). `unwritten` remembers such reads, and the
properties make an exception for them, as narrow as the code allows:

* `OnePlace` excepts these reads; every other request is in one place whatever they do.
* `CountsInFlight` and `nr_ios >= 0` except the counter of their worker, which each
  further end lowers (`test_ext_mem_lat.c:277`); that it never exceeds the depth holds
  without exception.
* `EndsWhenDue` excepts nothing.
* `AllEnd` promises nothing once there is such a read.

After its first end the read is freed memory that is still used. The model has two outcomes
of that: the memory keeps its contents, so that the read is served and ended again, or its
type no longer names a request and the `switch` of the algorithm thread passes over it
(`Forgotten`). It has not what may follow besides: the abort of the C library on the second
free, or the memory handed to another request. `complete_q` is a bag, since one request
may be in it more than once.

### RteRing

One action per access to an index or an entry that threads share, in the order
of the code: read head and tail, compare room, move the head, copy each entry,
wait for the earlier tail, move the tail. The order is that of the x86 build,
where a store is not seen before an earlier one of the same thread; the barriers
of the source are compiler barriers there. `Start` and `Width` put the indices
just before their wrap-around. The program creates rings of three kinds: the
request ring has several producers and one consumer, the completion ring several
of both, the write buffer's ring is used by one thread.

### The structures

`AlgoQueue` has the three ways to insert and the one to remove, with `head`,
`last`, `prev`, `next` and `size` as in the code, and the comparison with its
microsecond of slack; `Dequeue` has the guard of all callers, that the head is
due. A target time may lie before or after the clock: it is read before the insert, and a
read of a never-written translation page comes back with an old one (`demand.c:329`). `LruList` and `SkipList` are the lists node by node; `malloc` may return any
node that is free, and what a freed one holds is `Junk`, so that a walk that
meets one shows. `NandTiming` has the whole address of a page, striped over channels, LUNs, planes and
blocks (`pgidx2ppa`), the time at which each LUN is free, and the due time of a request
that makes one or several calls. The code keeps page states and write pointers by page
index and uses of an address only the LUN; so does the model, and what an erase would
reach on the chips is in neither (see section 4).
`HotCmt` has the table with its quadratic probing over rows, which takes the slot
behind a row for one of it (`dftl_cache.c:276`), and the 8-bit hit counters.

These have no state in common, so `MCStructures` checks them in one run: the
initial state chooses one by `part`, the others stay as they are, and each
property speaks of its own part. Nothing is composed there that the code
composes: a behaviour is one of a single part. The sizes are constants, which
`Structures.cfg` gives their values, so that what holds for every size can be proved.

## 3. Runs

Seven passing runs; deadlock is checked unless the row says otherwise.

| run | question | instance | properties |
|---|---|---|---|
| `trans_area` | does the mapping partition stay sound through every order of writes, drops and GCs, and when does it give up? | 3 superblocks of 2 pages, 5 translation pages: one more than usable pages, so GC works at its limit and past it; the abort stops the system, no deadlock check | `TypeOK`, `MappingConsistent`, `NandInStep`, `CountsExact`, `RolesSound`, `AbortsOnlyWhenFull`, `ImplementsStore` |
| `flush_pages` | do flushes of several pages, with GCs before and between them, keep counters, NAND and mapping in step? | 4 superblocks of 2 pages of 2 grains, buffer of 3 values of a grain each, 5 keys of which 2 share a path | `TypeOK`, `NoFailure`, `NandInStep`, `CountsExact`, `OneEntryPerKey` |
| `flush_packed` | do packing and repacking keep each grain with its owner, and does a read return what was last set? | 3 superblocks of 2 pages of 3 grains, buffer of 1, 4 keys of which 2 share a path, values of 1 and 2 grains; when the four live values have 2 grains each GC stops the system, so no deadlock check | `GrainsOwned`, `OobNamesEntry`, `RealKeysTrue`, `ImplementsKVStore` |
| `cache` | do suspended reads and flushes that wait for translation pages get the right answers from a cache that evicts? | a cache of 2 of 5 translation pages, a buffer of 2, 3 keys on one path, 2 of them with the same fingerprint, one read at a time besides the flush's entries, of keys never set too; 2 sets of a key; no deadlock check, as sets end | `TypeOK`, `DirtyIsListed`, `ReadsCurrent`, `FoundOnceUnlessLost`, `EachEnds` |
| `path` | do the threads hand every request on, once, in time and within the depth? | a reader of 2 requests and a read-modify-write worker at depth 1, 2 completion threads, rings of 1; once a read goes to `retry_q`, suspended or never written | `TypeOK`, `OnePlace`, `CountsInFlight`, `EndsWhenDue`, `AllEnd` |
| `ring` | is the ring a bounded queue for every kind of ring? | 4 entries, indices modulo 8 that start at 6, 2 producers and 2 consumers, batches of 1 and 2, 2 items of each producer | `TypeOK`, `CountedIsThere`, `CallsEnd`, `ImplementsFifo` |
| `structures` | are the lists, the hot table and the NAND what their users take them for? | 4 queue nodes; 3 list nodes, 2 data; 3 skiplist nodes, 3 keys, 3 levels; 2 rows of 2 hot slots; 4 LUNs of 2 blocks of 2 pages, so 2 lines, for the addresses; 2 LUNs with latencies | `LinksSound`, `SortedWithinSlack`, `ImplementsPool`, `Served`, `ImplementsRecency`, `ImplementsMap`, `PathKept`, `LinesAgree`, `DueAfterNand`, `InTurn` |

**Why the bounds suffice.** Three superblocks (reserve, victim, active) is the
smallest partition that works, and with it every GC changes all the roles; four
lets the cursor skip and wrap. Two pages are the least with a first and a last
one, and make partly valid victims possible. Two keys with the same first entry
give probes of several steps, and takes in either order. In `flush_pages` a flush
packs three values into two pages, with five keys GC finds up to two values of
a victim still live, and each GC packs these and leaves one page of its
superblock, so that the second page of the flush calls GC again while the first
is assigned and neither mapped nor programmed. `flush_packed` leaves the packing
of one or two values of different lengths, three grains to a page, to GC alone: the
choice of the longest that fits, the step over a value's grains, a page with a
hole, and no room at last. The flush and GC pack by one operator: the code has the same
greedy loop twice. `NrLpas` leaves every path an entry: the code has no answer to a path
that is full (its probing would not end, and quadratic probing need not reach
every entry of the table). That a GC between the pages of a flush does no harm in
`flush_pages` is because a superblock as full of
live values as the one just filled is never the victim; with superblocks of three pages it
can be, which is finding 1. Flushes of `flush_packed` take one page. In `cache`
the path of the three keys crosses three translation pages and the
cache holds two, so that a load evicts what another user is on its way to, and
the entries of a flush may load one page and list it twice; the twins make the
updates of one flush tell each other's entries by the flush alone, and the reads
go on over entries of other keys. In `path` each ring
is full with one request, and the reader, the other worker, the algorithm thread
and both completion threads can each be the one the others wait for. In `ring`
the second item wraps the indices around and the fourth the entries. Four queue
nodes make every place of an insert possible with a neighbour on each side, and
chains of slack three long.

**What cuts behaviour off.** `MaxVer` (sets of a key) and `MaxEnds` (a request
that is completed again and again is left alone) in `DemandCache`; `MaxSuspends`,
`NrReqs` and `Rounds` in `RequestPath`; `Quota` in `RteRing`; the clocks
(`MaxTime`, `MaxNow`), `MaxWork` and `MaxRun` in the structures; `MaxVer` of
`SkipList`, `MaxHits` and `MaxPlace` of `HotCmt`. All the rest is finite by itself.
Two of these hide something the code does: `MaxEnds` and `MaxSuspends` end the loop in
which a read of a never-written translation page is served again and again. In the code that loop
does not end unless the freed memory changes, so `EachEnds` of `DemandCache`, which has one read at a
time, says that such a read ends and not that others get their turn after it; `AllEnd`
and `Served` state the exception.

**Fairness.** It is assumed of threads and of time, never of a choice.
`AlgoQueue`: `WF_vars(Tick)`, and `WF_vars(Dequeue)` since the thread that owns a
queue is a loop without exit that looks at the head on each turn
(`test_ext_mem_lat.c:289-309`, `355-397`, `dftl_wb.c:364-371`). `RteRing`: a call
that has begun is carried on, and consumers poll without end; a producer that
stands still between its two moves does hold up the others, which is why
`CallsEnd` needs it. `RequestPath`: weak fairness of each thread's loop and of
the passing of each request's time. `DemandCache`: weak fairness of the entries of
a flush, which the loop of `dftl_wb.c:362-371` takes in turn; strong fairness of
reads, because flushes interrupt them again and again, but the thread
returns to the retry queue after each and takes from it what is due first.
No fairness is assumed of sets, of submissions, of the choice between a
suspension and a completion. With this fairness `Served` holds unless inserts keep coming
whose target time is past and more than a slack before that of a request that waits and is
due (`PutBefore`); as the thread serves the head until it is not due, only the
reinsertion of `demand.c:329` makes such inserts without end.

## 4. Findings and observations

Five further runs each check one statement that the source makes and the code
does not keep.

1. `flush_straddle`, `InvalidateIsValid` (`dftl_bm.c:154`). A flush whose pages
   run over the end of a superblock calls `dp_alloc` with pages of its own
   already assigned, and GC may choose exactly their superblock. Their OOBs still
   hold lpa 0 and their entries' `ppa` is out of GC's sight: the values
   are lost, the entry of lpa 0 is redirected, and an overwrite later invalidates
   grains that are not valid.
2. `flush_no_room`, `PageLeft` (`dftl_bm.c:179`). GC makes sure that there is an
   invalid *grain*; but values do not straddle pages, and repacking may need all
   the pages again. `dp_alloc` then takes a page from a full superblock.
3. `flush_double_free`, `BucketFreedOnce` (`dftl_pg.c:528`). GC of a superblock
   with no valid grain frees the bucket of the GC before it again.
4. `cache_lost`, `FoundWhenSet` (`dftl_cache.c:551`, the FIXME on updates after an
   eviction). A flush lists a page that was never written and waits for the
   eviction of another; before it goes on, its own page is evicted, clean, with
   `t_ppa` still initial. The update then goes to memory alone; the next read
   misses, finds nothing to load and answers that the key is not there.
5. `cache_unset`, `EndedOnce` (`demand.c:318-330`, `406-411`). A read that meets
   a translation page that was never written is put into the completion ring
   twice and into the retry queue. It is due again at once, so the inner loop of the
   algorithm thread (`test_ext_mem_lat.c:293-309`) serves it again, with the same outcome,
   for as long as its freed memory looks like a read: the request ring is not looked at,
   requests due later wait behind it, each of its ends lowers the depth counter of its
   worker, which may fall below 0 and let more requests in than the depth, and a worker that
   waits for its counter need not come back. These are the exceptions of `OnePlace`,
   `CountsInFlight`, `AllEnd`, `Served` and of the theorems about them.

Seen while modelling, without a run of their own:

* `algo_queue.c:26` calls the insert sorted by target time; it is so up to a
  microsecond per request ahead, which is what `SortedWithinSlack` states.
* Of two keys with one fingerprint the second takes the entry of the first where
  their probes meet (`dftl_wb.c:493-509`): the data check the comments call for is
  compiled out. Hash and fingerprint come from different seeds (`request.c:14-19`), so
  keys of different hashes can do so too. `ReadsCurrent` and `FoundOnceUnlessLost`
  make an exception for such a `Twin`; in the runs of `FlushPath` each key has its
  own fingerprint.
* `rte_ring.h:411-414` says that the free count is within the capacity. A
  producer that was held up between its two reads computes a number outside it,
  and then fails its compare and set; `ImplementsFifo` shows that no harm is done.
* The samples of the latency statistics are counted without an atomic operation by
  two threads (`test_ext_mem_lat.c:191`).
* The pages of a line are consecutive page indices, and by `pgidx2ppa` (`ssd.c:36-41`) the block
  changes with every stripe: a line's pages on a LUN lie in as many blocks as there are,
  while `ssd_trim_block` (`:328-336`) charges each LUN with the erase of one block and
  clears the states of the whole line (`:338`). For the emulator, which stores nothing by address, only the
  latencies count; on chips laid out so, an erase would not reach the line and would reach
  pages of others.
* `HOT_CMT`: an update does not reach the table, which keeps the old place
  (`dftl_cache.c:533-555`); the probing uses a slot behind its row (`:276`); a read
  looks at one slot less than a promotion tries (`:260`, `:317`), so an entry may
  be promoted to where it is not found; the hit counters are 8 bits wide.

## 5. Proofs

`TransAreaProofs` proves for every partition with at least three superblocks,
every number of pages and translation pages and every reach of the OOB clearing
(`PartitionAssumption`, `TransAssumption`) that the mapping partition is correct:
`TypeCorrect`, `MappingCorrect`, `NandCorrect`, `CountsCorrect`, `RolesCorrect`,
`AbortIsLastResort`, `NoAbort` (with as many translation pages as usable ones GC
never gives up; the run has one more and checks `AbortsOnlyWhenFull`), and
`Refinement`, that `TransArea` implements `TpageStore`. `ReserveCorrect` and
`SearchCorrect` are the parts of `RolesCorrect` that the code asserts.

**The inductive invariant** `IInv` is the conjunction of `TypeOK`,
`MappingConsistent`, `NandInStep`, `CountsExact`, `ReserveReady`, `FreeExact` and
`CursorSound`; the run `trans_area` checks every conjunct, the last three as `RolesSound`. None is inductive alone. GC
finds the owner of a page by its OOB, so that no other translation page is
redirected needs `MappingConsistent` in both directions. That the reserve has
room for the victim's pages needs `ReserveReady` and exact counts. That the
reserve is empty needs, when a new superblock is opened, that the search does
not return it, and that the superblock found is *empty* needs `FreeExact` and
`CursorSound`: the counter is never incremented, and only because every
superblock but the active one is either empty or full does it mean anything.

**The argument.** `SuperblockProofs` has the facts about cardinalities that the
choices rest on, `NumberFacts` those about minima. In `TransAreaProofs`,
`RankFacts` shows that GC's destinations are distinct and within the reserve,
`PlaceKeeps` that placing a page keeps what ties pages, OOBs and counts together
(stated of arbitrary values, since a write after GC places into the state *after*
GC, which no variable holds), and `GcKeeps` the same of moving the victim's pages.
`VictimFacts` and `NextFacts` are about the two searches. One lemma per action
combines them, `StepKeeps` all actions. `NoAbort` counts: when GC would abort,
every page outside the reserve is valid and has a translation page of its own, so with
a further one to be written there are more of them than usable pages. `Refinement`
maps a write to `Store`, a drop to `Drop`, and the abort to a stutter.

`RequestPathProofs` proves for any workers, any number of completion threads, any
queue depth and any sizes of the two rings (`PathAssumption`) that a request in
flight is in one place (`PlaceCorrect`), that the depth counters count what is in
flight (`DepthCorrect`), that rings and counters keep their bounds
(`TypeCorrect`), and that nothing is ended before it is due (`DueCorrect`). The first
excepts the reads that met a never-written translation page, the second and third the
counters of their workers, of which they keep the upper bound; `DueCorrect` has no exception. So
the theorems show that such a read, wherever its copies are and however often it is ended,
disturbs no other request and no other worker's counter.

**Its inductive invariant** `IInv` has five parts. `Shape` has the types and what
a program counter says of the rest: that a thread about to hand a request over
has one (`apc`, `cpc`), and that a worker about to submit has requests left.
`OneSpot` says where the requests in flight are, one place each, `Injected` that
a ring has each once, and `EndedWasSent` that none is ended before it was
submitted. `Counted` adds to `CountsInFlight` what lets a worker raise its
counter: between its look at the counter and its addition the counter can only
fall, since no other worker adds to it, and a read-modify-write worker has
nothing in flight before it submits.

**The argument.** Most steps move one request from one place to another; `Moved`
says so once, `Rehoused` shows that such a step keeps `OneSpot`, and in
`SpotsKept` each action has only to show that it is one (`AppendFacts` and
`TailFacts` for the rings). A submission comes from nowhere and `end_request`
leads there. A step on a read in `unwritten` needs no place for it, only that no other
request moves. `CountedKept` needs of the places only that a request is ended while
it is in flight, so that the set of requests in flight loses one member. `OnePlace`
counts entries of the rings, `OneSpot` rings; `Injected` links the two.

`DemandCacheProofs` proves for any keys, hashes and fingerprints, any number of
mapping entries and translation pages, and any sizes of the cache and the write
buffer (`CacheAssumption`) that no eviction loses the updates of a listed page
(`DirtyCorrect`), that what a read returns was current while it was under way
(`ReadsCorrect`), that a read finds a key that was set, and ends once
(`FoundCorrect`, an action property), and the types with the bound of the list
(`TypeCorrect`). The exceptions, lost pages, pages never written and twins, are those
of the properties.

**Its inductive invariant** `IInv`. `CacheOK` has the cache: what is dirty is
listed and not on flash, and the list keeps its size. `BufferOK` says that the write buffer holds the latest
version of its keys and that the table has nothing newer. `TableOK` is what makes
probing right: an entry of a key without twin is on the key's path, *before* it no
place of the path is empty or has the fingerprint (`Placed`), and no other place
of the path holds the key. `FlushOK` says how far the entries of a flush have got:
each has passed only entries of other fingerprints. `Reached` and `Sought` say the same of
suspended reads and link their probe counter to `max_try`, which bounds the search only if it is at least the
place of each key that was mapped. `ReadsOK` and `ReadsCurrent` bound the versions a
read may still return.

**The argument.** `Probe` depends on the counter modulo the number of entries
alone (`ModShift`), so a path is finite and the first place on it that satisfies a
condition exists (`LeastNatural`). Steps are grouped by what they may disturb:
`OnTheWay` for loads, listings and evictions, which leave the table alone;
`NextProbe` for a user that passes an entry; `Ends`. `EntryGiven` and `EntryStays`
are the two cases of an update, an empty place taken and an entry overwritten, and
`NotBehind` shows that a read cannot have passed the place its key is then given:
what it has passed had another fingerprint, and entries are never removed.

`RteRingProofs` proves for any threads on either side, any ring size, any width of
the indices that the size divides, any start and any batch sizes
(`RingAssumption`) that a ring is a bounded queue: `Refinement`, that `RteRing`
implements `BoundedFifo` (no item is lost, doubled, reordered or handed out before
it is filled, and the room reported is the room there is), `CountedCorrect`, that
the single consumer finds what it has counted, and `TypeCorrect`. The one bound in
`RingAssumption` is that fewer items are enqueued in all than the indices have
values: with more, a thread that sleeps through a full circle between its look at
the head and its compare-and-swap takes a moved head for an unmoved one. The
code has this hazard too, at 2^32 operations.

**Its inductive invariant** `IInv` speaks of offsets from the start, which below
that bound do not wrap (`HeadCounts`: the producers' head is as far from the start as there are
reserved items). `Ordered` has the four indices in order and the two heads within
the capacity. `Producing` says of a producer about to move the head that it has
room *if the head is where it read it*. That is enough: the swap fails otherwise,
and a consumer tail read too early only makes the room look smaller. `ProdApart` and
`ConsApart` keep the reserved batches disjoint, `Filled` has what is copied so
far, and `AloneProd`, `AloneCons` replace the swap for the sides that use none:
a thread alone on its side finds the head unmoved. `Counted` says that nobody
else takes what a single consumer has counted.

**The argument.** The lemmas up to `SlotsDiffer` turn modular differences into
differences of offsets, and different offsets within the capacity into different
entries. The steps that only look (`ProdLooks`, `ConsLooks`) are grouped by what they
may change; one lemma for each of the others. For `Refinement` the queue is `Content`, the
entries between the consumers' head and the producers' tail: an enqueue takes effect when
the tail moves, a dequeue when the head moves, and for every other step it is
shown that no entry of that range is written.

`FlushProofs` proves for every geometry, any keys, lengths of values, hashes, size
of the write buffer and of the mapping, and every reach of the OOB clearing
(`PartitionAssumption`, `FlushAssumption`) that the write path is correct: the
counters GC chooses by are exact (`CountsCorrect`), every valid grain has one owner
(`GrainsSound`), OOBs and remembered keys are those of the entries (`OobsSound`,
`RealKeysSound`), allocator and NAND agree (`NandSound`), types and bounds hold
(`TypeCorrect`), and a write can stop for want of room alone (`NoAssertionFails`: of
the assertions in the code only that of `get_page_num` can fail, and GC may find no
victim). For keys with distinct fingerprints (`FpsDiffer`) also that probing finds
each key where it was put (`ProbesSound`), that a key has one entry
(`EntriesSound`), and `Refinement`, that `FlushPath` implements `KVStore`: a read
returns the value last set.

**Two hypotheses.** All theorems of `FlushProofs` are of the form
`Spec /\ []Settled => ...`: GC within a flush leaves alone the superblocks to which
that flush has written. It excludes finding 1,
a behaviour in which GC takes one, values are lost and an assertion fails, and no
more than that. It allows GC within a flush and flushes over several superblocks, and
TLC finds it true in every state of `flush_pages`, where the second page of a flush
calls GC while the first awaits its mapping, and of `flush_packed`, whose flushes
have one page. `FpsDiffer` is needed because a set without `UPDATE_DATA_CHECK` does
not compare keys: the second of two keys of one fingerprint takes over the entry of
the first where their probes meet.

**Its inductive invariant** `IInv` has four parts, and `ProbeOK` is a fifth for the
last three theorems. TLC checks both, too, on the instances of `flush_pages` and
`flush_packed`. `Phases` has what the program counter says: which entries of the buffer
have a place, which are to be done. `Roles` is the rotation of the superblocks as
in `TransArea`. `ListOK` ties the flush list to the pages between the NAND's write
pointer and the allocator's, in order, and gives each entry placed its page on the
list. `Flash` has the grains: the valid ones are tiled exactly by the values (`Tiled`), a value
has one owner, a mapping entry or an entry of the flush under way (`HeldOnce`), and
OOBs, contents and counters agree with that. It takes the state it speaks of as
arguments, since a page after GC is filled in a state that no variable ever
holds. `ProbeOK` says that each entry in use is on its key's path, with nothing before it that
would stop a probe, and within `max_try`.

**The argument.** The lemmas on packing come first. `FillPage`, `Layout` and `FirstGrains`
are recursive functions; `NumberFacts!Iteration` shows that such a function exists,
and `Induction` carries an invariant along it. `FillPageFacts` then says that greedy
packing puts values on grains of their own within a page, `LayoutFacts` that GC's pages
take every value when they fit in the superblock, and the facts about the scan that GC finds exactly the first
grains when values tile the page. Then there is one lemma per change of the flash:
a page is filled, values are moved by GC, an entry is mapped and its old value
invalidated. GC needs `Settled` at one point, and there for everything: the victim holds no value that is still
without entry, so the OOB of each value found leads to its owner. `MapEntry`
exchanges the owner of a value and gives up the one overwritten, so the tiles
that are left remain disjoint. For `Refinement` the abstract store is `Read` of each
key, from the buffer or by `Lookup`; `LookupHolds` shows that the probing loop returns
what the one entry of the key has, and `Stays` that flushing and GC change no
entry's value.

`StructureProofs` proves of the structures, for any number of nodes, requests, data,
pages, LUNs and rows and any latencies and slack (`PartsAssumption`), that the LRU list
implements a recency order (`LruIsRecency`), the linked queue a pool of requests that
gives each back once and not before it is due (`QueueIsPool`), the skiplist a sorted map
(`SkipListIsMap`) and the emulator a queue of work for each LUN, without a gap and with
callers told when the last of their LUNs ends (`LunsInTurn`), that the links of all three
lists agree with what is in them and a search finds what is there (`LinksTrue`), that the queue is
sorted up to a slack for each place (`QueueSorted`), that a read of the hot table
meets its entry before a free slot (`PathSound`), that page states agree with the write
pointers, no two pages share an address and lines are spread evenly over the LUNs
(`LinesHold`), and that no request is due before the NAND is done (`DueSound`). The bounds
of the models' clocks and versions are constants too, so they limit nothing there.

**Its inductive invariants**, one per part. `QueueOK` and `LruOK` say that *some sequence of
nodes describes the links*: its neighbours are each other's `next` and `prev`, its
ends are where `head` and `last` point, its length is `size`, and the nodes on it
are just those in use. Reachability is never mentioned, and the walks of the model
(`Chain`, `Walk`), which are recursive functions, are shown to return that
sequence (`ChainIs`, `WalkIs`), because the function that gives its suffixes satisfies their
equation and no other function does. For the queue the sequence is also sorted up to
the slack. `HotOK` says of each entry of the hot table that the slots before it on its
path are taken by other entries, `ClockOK` that a request's due time is no earlier than
what its LUNs were given, and `LinesOK` is `LinesAgree` with types.
`SkipOK` says that each level of the skiplist holds those nodes in use that reach it, each
linked to the one with the next greater key (`LevelOK`), and that `level` is the highest level
in use (or lower, when none above the first is).

**The argument.** What an operation does to the links is what it does to the sequence:
one lemma for a node taken out of its middle or its ends (`TakenOut`, `Bridged`), one for a node
put in (`InFront` and its like), and one for each operation of the code that says which
of these it is. For the skiplist these are `LevelTakes` and `LevelLoses`, one level at a time;
`PathIs` shows that a search, which starts on each level where it left the one above, passes on
*every* level the last node before the key, so that insert and delete change just the links
that have to; `LevelsOff` that the levels which come off after a deletion are the empty
ones, and `IteratedIs` that the iterator meets all nodes in the order of their keys. That no
two pages share an address is `AddressesApart`: the five divisions of `pgidx2ppa` can be
undone one after the other; that a line is spread evenly needs the first two of them,
which number the LUNs (`Rank`). For the LUNs `WorkNow` is what each still has to do; that
one call gives a LUN no more than `MaxRun` operations (`FewOnEach`) needs, for an erase,
that pages on one LUN are as many apart as there are LUNs (`ApartOnLun`). A node from
`malloc` is not on the sequence, so that the writes through its own pointers disturb
nothing. The refinements follow since the abstract state, the
order of the data or the set of requests, is a function of that sequence (`SequenceForms`).

**Model-checked only.** The theorems cover all the invariants and action
properties of the runs `trans_area`, `ring`, `cache`, `path` and `flush_packed`, of
`flush_pages` all but `NoFailure`: that GC always finds room is a fact of that instance
(finding 2 is one in which it does not), and `Settled` is a hypothesis; and all those of the
run `structures`. What is left to TLC is liveness (`CallsEnd`, `AllEnd`, `EachEnds`,
`Served`), which is out of TLAPS's reach as used here: it proves nothing under fairness.

## 6. Not modelled

* *`DATA_SEGREGATION`*: streams of superblocks with partly written pages across
  flushes. Off in the default build. Its GC of a victim without valid pages finds
  no superblock that is not a reserve and dereferences NULL (`dftl_bm.c:317-318`).
* *`PREFILL_CACHE`, `VERIFY_CACHE`, `UPDATE_DATA_CHECK`*: off in the default
  build; `fifo_queue.c` is used by the first alone.
* *Pure functions and plumbing*: hashing (`sha256.c`, `murmurhash.c`), random and
  YCSB generators, value buffers, latency statistics and result files.
* *Unused libraries*: `pqueue.c` and `bloomfilter.c`; the resize, dump and lookup
  functions of the ring, range queries of the skiplist.
* *Crash recovery*: nothing is persisted and nothing recovered in this code.
* *Numeric width*: `valid_cnt` is a `uint32_t`; the runs show that it never leaves
  its range as long as no assertion fails, so the width has no effect. The ring's
  indices, which do wrap around, have their width.
* *What a build without assertions does after one would have failed*: `FlushPath`
  stops there.

## 7. Plan

1. A condition on the sizes of buffer, values and superblock under which `Settled`
   always holds, so that the theorems of `FlushProofs` lose that hypothesis there.
2. `StreamBM`: the streams of `DATA_SEGREGATION`.
